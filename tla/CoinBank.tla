------------------------------ MODULE CoinBank ------------------------------
(***************************************************************************)
(* What coin_service.py promises its callers: every exported operation is  *)
(* one indivisible move of coins between user balances, resident purses    *)
(* (resident_treasuries rows) and escrow holds, and no move overdraws an   *)
(* account.  CoinService shows that the statement-by-statement             *)
(* transactions implement this specification.                              *)
(***************************************************************************)
EXTENDS CoinSplits

CONSTANTS Users,     \* users.id
          Slugs,     \* resident_treasuries.resident_slug
          Holds,     \* coin_holds.id
          Amounts,       \* amounts callers pass, invalid ones included
          Distributions, \* split lists callers pass, invalid ones included
          Grant          \* soul_coin_balance of a fresh account

VARIABLES bal, purse, hold

bankVars == <<bal, purse, hold>>

EmptyHold == [st |-> "none", amt |-> 0]

Init == /\ bal = [u \in Users |-> Grant]
        /\ purse = [t \in Slugs |-> 0]
        /\ hold = [h \in Holds |-> EmptyHold]

\* A credit of one user: reward() and everything that pays through it.
Mint(u, a) == /\ bal' = [bal EXCEPT ![u] = @ + a]
              /\ UNCHANGED <<purse, hold>>

\* A debit of one user, never below zero.
Spend(u, a) == /\ bal[u] >= a
               /\ bal' = [bal EXCEPT ![u] = @ - a]
               /\ UNCHANGED <<purse, hold>>

\* A peer-to-peer payment.
Pay(u, v, a) == /\ bal[u] >= a
                /\ bal' = [bal EXCEPT ![u] = @ - a, ![v] = @ + a]
                /\ UNCHANGED <<purse, hold>>

\* Coins leave a balance for an escrow hold that did not exist before.
Freeze(u, h, a) == /\ bal[u] >= a
                   /\ hold[h].st = "none"
                   /\ bal' = [bal EXCEPT ![u] = @ - a]
                   /\ hold' = [hold EXCEPT ![h] = [st |-> "held", amt |-> a]]
                   /\ UNCHANGED purse

\* An escrow hold is given out, once and whole: what is not credited to a user
\* or a purse went to the sink.
Release(h, st, splits) ==
    /\ hold[h].st = "held"
    /\ ValidDistribution(splits, hold[h].amt)
    /\ hold' = [hold EXCEPT ![h].st = st]
    /\ bal' = [u \in Users |-> bal[u] + Share(splits, u)]
    /\ purse' = [t \in Slugs |-> purse[t] + Share(splits, t)]

PurseMint(t, a) == /\ purse' = [purse EXCEPT ![t] = @ + a]
                   /\ UNCHANGED <<bal, hold>>

PurseSpend(t, a) == /\ purse[t] >= a
                    /\ purse' = [purse EXCEPT ![t] = @ - a]
                    /\ UNCHANGED <<bal, hold>>

PursePay(t, v, a) == /\ purse[t] >= a
                     /\ purse' = [purse EXCEPT ![t] = @ - a, ![v] = @ + a]
                     /\ UNCHANGED <<bal, hold>>

Next ==
    \/ \E a \in Amounts \cap (Nat \ {0}) :
        \/ \E u \in Users : Mint(u, a) \/ Spend(u, a)
        \/ \E u, v \in Users : u # v /\ Pay(u, v, a)
        \/ \E u \in Users, h \in Holds : Freeze(u, h, a)
        \/ \E t \in Slugs : PurseMint(t, a) \/ PurseSpend(t, a)
        \/ \E t, v \in Slugs : t # v /\ PursePay(t, v, a)
    \/ \E h \in Holds, st \in {"settled", "refunded"} :
        \E splits \in Distributions \cup {<<[to |-> u, amt |-> hold[h].amt]>> : u \in Users} :
            Release(h, st, splits)

Spec == Init /\ [][Next]_bankVars
=============================================================================
