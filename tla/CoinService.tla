---------------------------- MODULE CoinService ----------------------------
(***************************************************************************)
(* services/coin_service.py over PostgreSQL at READ COMMITTED.  A session  *)
(* runs one exported operation at a time, one SQL statement per action:    *)
(* an UPDATE or SELECT FOR UPDATE takes its row lock and keeps it to the   *)
(* end of the transaction, what a session has written is pending until it  *)
(* commits, and other sessions read the committed tables.  Any statement   *)
(* may fail; the row locks of a cycle of waiting sessions are broken by    *)
(* the database, which aborts one of them.                                 *)
(***************************************************************************)
EXTENDS CoinSplits, FiniteSets

CONSTANTS Users,         \* users.id, as naturals in the order of the ids
          Slugs,         \* resident_treasuries.resident_slug, likewise
          Holds,         \* coin_holds.id
          Sessions,      \* database sessions of requests and workers
          NoSession,
          Amounts,       \* amounts callers pass, invalid ones included
          Distributions, \* split lists callers pass, invalid ones included
          Ghost,         \* the id of an account that has no row
          Grant,         \* soul_coin_balance of a fresh account
          MaxSupply      \* bound on the coins in the world, for TLC

Sink == 0
MaxTransferAttempts == 3

Rows == Users \cup Slugs \cup Holds
SplitList == Seq([to : Nat, amt : Int])

ASSUME RowAssumption ==
    /\ Users \subseteq Nat \ {Sink, Ghost}
    /\ Slugs \subseteq Nat \ {Sink, Ghost}
    /\ Holds \subseteq Nat
    /\ Users \cap Slugs = {} /\ Users \cap Holds = {} /\ Slugs \cap Holds = {}
    /\ Ghost \in Nat \ {Sink}
    /\ NoSession \notin Sessions
ASSUME SizeAssumption == \A S \in {Users, Slugs, Holds, Sessions} : IsFiniteSet(S)
ASSUME InputAssumption ==
    /\ Amounts \subseteq Int
    /\ Distributions \subseteq SplitList
    /\ \A splits \in Distributions : Recipients(splits) \subseteq Users \cup Slugs \cup {Sink, Ghost}
    /\ Grant \in Nat
    /\ MaxSupply \in Nat

VARIABLES
    bal,      \* users.soul_coin_balance, committed
    ledger,   \* per user, the sum of the transactions rows, committed
    purse,    \* resident_treasuries.balance_sc, committed; a missing row is 0
    hold,     \* coin_holds, committed
    journal,  \* coin_hold_entries, per hold: one element per terminal action
    lock,     \* the session that holds the lock of a row
    call,     \* the operation each session is executing
    pc,       \* its next statement
    need,     \* account rows it still has to lock, in order
    pend      \* its writes since BEGIN

tables == <<bal, ledger, purse, hold, journal>>
vars == <<bal, ledger, purse, hold, journal, lock, call, pc, need, pend>>

EmptyHold == [st |-> "none", user |-> Ghost, amt |-> 0]
Call(op, src, dst, amt, h, splits) ==
    [op |-> op, src |-> src, dst |-> dst, amt |-> amt, hold |-> h, splits |-> splits,
     attempt |-> 1]
NoCall == Call("none", Sink, Sink, 0, Sink, <<>>)
NoWrites == [bal |-> [u \in Users |-> 0], ledger |-> [u \in Users |-> 0],
             purse |-> [t \in Slugs |-> 0], st |-> "none"]

Init == /\ bal = [u \in Users |-> Grant]
        /\ ledger = [u \in Users |-> 0]
        /\ purse = [t \in Slugs |-> 0]
        /\ hold = [h \in Holds |-> EmptyHold]
        /\ journal = [h \in Holds |-> <<>>]
        /\ lock = [r \in Rows |-> NoSession]
        /\ call = [s \in Sessions |-> NoCall]
        /\ pc = [s \in Sessions |-> "idle"]
        /\ need = [s \in Sessions |-> {}]
        /\ pend = [s \in Sessions |-> NoWrites]
-----------------------------------------------------------------------------
Free(s, r) == lock[r] \in {NoSession, s}

\* Mutant: a write that does not wait for the row lock.
MutTake(s, r) == lock' = [lock EXCEPT ![r] = s]

\* The row lock of a statement that is not blocked.
Take(s, r) == /\ Free(s, r)
              /\ lock' = [lock EXCEPT ![r] = s]

\* Mutant: the connection goes back to the pool with its transaction open.
MutReleaseAll(s) == UNCHANGED lock

ReleaseAll(s) == lock' = [r \in Rows |-> IF lock[r] = s THEN NoSession ELSE lock[r]]

Goto(s, label) == pc' = [pc EXCEPT ![s] = label]

\* The session's transaction is over: nothing pending, no lock.
EndOfCall(s) == /\ ReleaseAll(s)
                /\ Goto(s, "idle")
                /\ call' = [call EXCEPT ![s] = NoCall]
                /\ need' = [need EXCEPT ![s] = {}]
                /\ pend' = [pend EXCEPT ![s] = NoWrites]

Abort(s) == EndOfCall(s) /\ UNCHANGED tables

\* One more pending balance write of a user, and the transactions row for it.
Credited(w, u, a) == [bal |-> [w.bal EXCEPT ![u] = @ + a],
                      ledger |-> w.ledger, purse |-> w.purse, st |-> w.st]
Recorded(w, u, a) == [ledger |-> [w.ledger EXCEPT ![u] = @ + a],
                      bal |-> w.bal, purse |-> w.purse, st |-> w.st]
PurseCredited(w, t, a) == [purse |-> [w.purse EXCEPT ![t] = @ + a],
                           bal |-> w.bal, ledger |-> w.ledger, st |-> w.st]
Stamped(w, st) == [st |-> st, bal |-> w.bal, ledger |-> w.ledger, purse |-> w.purse]

Begin(s, c, label) == /\ pc[s] = "idle"
                      /\ call' = [call EXCEPT ![s] = c]
                      /\ Goto(s, label)

\* The balance the session itself sees.
Seen(s, u) == bal[u] + pend[s].bal[u]

\* All coins: balances, purses and what is held in escrow.
Supply == SumFunction(bal) + SumFunction(purse)
          + SumFunction([h \in Holds |-> IF hold[h].st = "held" THEN hold[h].amt ELSE 0])
-----------------------------------------------------------------------------
(* Single-account operations: the guarded UPDATE, then COMMIT.  When the   *)
(* guard matches no row nothing is written and the operation returns.      *)

Charge(s, u, a) ==
    /\ a > 0 /\ bal[u] >= a
    /\ Begin(s, Call("charge", u, Sink, a, Sink, <<>>), "commit")
    /\ Take(s, u)
    /\ pend' = [pend EXCEPT ![s] = Recorded(Credited(@, u, -a), u, -a)]
    /\ UNCHANGED <<tables, need>>

\* Mutant: the balance is credited and the transactions row forgotten.
MutReward(s, u, a) ==
    /\ a > 0 /\ Supply + a <= MaxSupply
    /\ Begin(s, Call("reward", Sink, u, a, Sink, <<>>), "commit")
    /\ Take(s, u)
    /\ pend' = [pend EXCEPT ![s] = Credited(@, u, a)]
    /\ UNCHANGED <<tables, need>>

Reward(s, u, a) ==
    /\ a > 0 /\ Supply + a <= MaxSupply
    /\ Begin(s, Call("reward", Sink, u, a, Sink, <<>>), "commit")
    /\ Take(s, u)
    /\ pend' = [pend EXCEPT ![s] = Recorded(Credited(@, u, a), u, a)]
    /\ UNCHANGED <<tables, need>>

\* hold(): debit, coin_holds row, transactions row, one commit.
Hold(s, u, a, h) ==
    /\ a > 0 /\ bal[u] >= a
    /\ hold[h].st = "none" /\ lock[h] = NoSession
    /\ Free(s, u)
    /\ Begin(s, Call("hold", u, Sink, a, h, <<>>), "commit")
    /\ lock' = [lock EXCEPT ![u] = s, ![h] = s]
    /\ pend' = [pend EXCEPT ![s] =
                  Stamped(Recorded(Credited(@, u, -a), u, -a), "held")]
    /\ UNCHANGED <<tables, need>>

TreasuryCredit(s, t, a) ==
    /\ a > 0 /\ Supply + a <= MaxSupply
    /\ Begin(s, Call("treasury_credit", Sink, t, a, Sink, <<>>), "commit")
    /\ Take(s, t)
    /\ pend' = [pend EXCEPT ![s] = PurseCredited(@, t, a)]
    /\ UNCHANGED <<tables, need>>

\* Mutant: affordability is checked on a cached balance, the UPDATE has no guard.
MutTreasuryDebit(s, t, a, reserve) ==
    /\ a > 0
    /\ Begin(s, Call("treasury_debit", t, Sink, a, Sink, <<>>), "commit")
    /\ Take(s, t)
    /\ pend' = [pend EXCEPT ![s] = PurseCredited(@, t, -a)]
    /\ UNCHANGED <<tables, need>>

\* treasury_debit, and with a reserve treasury_debit_with_reserve_pending.
TreasuryDebit(s, t, a, reserve) ==
    /\ a > 0 /\ purse[t] >= a + reserve
    /\ Begin(s, Call("treasury_debit", t, Sink, a, Sink, <<>>), "commit")
    /\ Take(s, t)
    /\ pend' = [pend EXCEPT ![s] = PurseCredited(@, t, -a)]
    /\ UNCHANGED <<tables, need>>
-----------------------------------------------------------------------------
(* treasury_transfer: the payer's row is locked first whatever its slug.   *)

TreasuryTransfer(s, t, v, a) ==
    /\ t # v /\ a > 0 /\ purse[t] >= a
    /\ Begin(s, Call("treasury_transfer", t, v, a, Sink, <<>>), "purseCredit")
    /\ Take(s, t)
    /\ pend' = [pend EXCEPT ![s] = PurseCredited(@, t, -a)]
    /\ UNCHANGED <<tables, need>>

TreasuryTransferCredit(s) ==
    /\ pc[s] = "purseCredit"
    /\ Take(s, call[s].dst)
    /\ pend' = [pend EXCEPT ![s] = PurseCredited(@, call[s].dst, call[s].amt)]
    /\ Goto(s, "commit")
    /\ UNCHANGED <<tables, call, need>>
-----------------------------------------------------------------------------
(* Locking several accounts: users before treasuries, each in id order.    *)

Before(r, q) == \/ r \in Users /\ q \in Slugs
                \/ r \in Users /\ q \in Users /\ r < q
                \/ r \in Slugs /\ q \in Slugs /\ r < q

\* Mutant: rows are locked in the order the caller names them.
MutIsNextRow(s, r) == r \in need[s]

IsNextRow(s, r) == /\ r \in need[s]
                   /\ \A q \in need[s] \ {r} : Before(r, q)

LockAccount(s, r) ==
    /\ pc[s] = "lock"
    /\ IsNextRow(s, r)
    /\ Take(s, r)
    /\ need' = [need EXCEPT ![s] = @ \ {r}]
    /\ UNCHANGED <<tables, call, pc, pend>>

\* Every existing row of the call is locked.
LocksHeld(s) == pc[s] = "lock" /\ need[s] = {}

\* Every account of the call has a row.
AllExist(s) == Ghost \notin {call[s].src, call[s].dst} \cup Recipients(call[s].splits)

Transfer(s, u, v, a) ==
    /\ a > 0 /\ u # v
    /\ Begin(s, Call("transfer", u, v, a, Sink, <<>>), "lock")
    /\ need' = [need EXCEPT ![s] = {u, v} \ {Ghost}]
    /\ UNCHANGED <<tables, lock, pend>>

\* Mutant: the debit has lost its balance guard.
MutTransferDebit(s) ==
    /\ LocksHeld(s) /\ call[s].op = "transfer"
    /\ IF AllExist(s)
       THEN /\ pend' = [pend EXCEPT ![s] = Credited(@, call[s].src, -call[s].amt)]
            /\ Goto(s, "credit")
            /\ UNCHANGED <<tables, lock, call, need>>
       ELSE Abort(s)

TransferDebit(s) ==
    /\ LocksHeld(s) /\ call[s].op = "transfer"
    /\ IF AllExist(s) /\ Seen(s, call[s].src) >= call[s].amt
       THEN /\ pend' = [pend EXCEPT ![s] = Credited(@, call[s].src, -call[s].amt)]
            /\ Goto(s, "credit")
            /\ UNCHANGED <<tables, lock, call, need>>
       ELSE Abort(s)

\* Mutant: the payee's ledger row is written, the credit is not.
MutTransferCredit(s) ==
    /\ pc[s] = "credit"
    /\ pend' = [pend EXCEPT ![s] =
                  Recorded(Recorded(@, call[s].src, -call[s].amt),
                           call[s].dst, call[s].amt)]
    /\ Goto(s, "commit")
    /\ UNCHANGED <<tables, lock, call, need>>

TransferCredit(s) ==
    /\ pc[s] = "credit"
    /\ pend' = [pend EXCEPT ![s] =
                  Recorded(Recorded(Credited(@, call[s].dst, call[s].amt),
                                    call[s].src, -call[s].amt),
                           call[s].dst, call[s].amt)]
    /\ Goto(s, "commit")
    /\ UNCHANGED <<tables, lock, call, need>>
-----------------------------------------------------------------------------
(* settle and refund: lock the hold, check it is held and the distribution *)
(* is exact, lock the accounts, claim the hold, pay and journal.           *)

Terminal == [settle |-> "settled", refund |-> "refunded"]

Terminalize(s, op, h, splits) ==
    /\ hold[h].st = "held"
    /\ ValidDistribution(splits, hold[h].amt)
    /\ Begin(s, Call(op, Sink, Sink, hold[h].amt, h, splits), "lock")
    /\ Take(s, h)
    /\ need' = [need EXCEPT ![s] = Recipients(splits) \cap (Users \cup Slugs)]
    /\ UNCHANGED <<tables, pend>>

\* A refund that names no split gives the whole hold back to its owner.
WholeTo(h) == <<[to |-> hold[h].user, amt |-> hold[h].amt]>>

\* Mutant: purse recipients are journaled but not paid.
MutClaim(s) ==
    LET c == call[s] IN
    /\ LocksHeld(s) /\ c.op \in {"settle", "refund"}
    /\ AllExist(s) /\ hold[c.hold].st = "held"
    /\ pend' = [pend EXCEPT ![s] =
                  [bal |-> [u \in Users |-> Share(c.splits, u)],
                   ledger |-> [u \in Users |-> Share(c.splits, u)],
                   purse |-> [t \in Slugs |-> 0],
                   st |-> Terminal[c.op]]]
    /\ Goto(s, "commit")
    /\ UNCHANGED <<tables, lock, call, need>>

Claim(s) ==
    LET c == call[s] IN
    /\ LocksHeld(s) /\ c.op \in {"settle", "refund"}
    /\ AllExist(s) /\ hold[c.hold].st = "held"
    /\ pend' = [pend EXCEPT ![s] =
                  [bal |-> [u \in Users |-> Share(c.splits, u)],
                   ledger |-> [u \in Users |-> Share(c.splits, u)],
                   purse |-> [t \in Slugs |-> Share(c.splits, t)],
                   st |-> Terminal[c.op]]]
    /\ Goto(s, "commit")
    /\ UNCHANGED <<tables, lock, call, need>>

\* CoinError: a recipient has no row, or the hold is no longer held.
ClaimError(s) ==
    /\ LocksHeld(s) /\ call[s].op \in {"settle", "refund"}
    /\ ~AllExist(s) \/ hold[call[s].hold].st # "held"
    /\ Abort(s)
-----------------------------------------------------------------------------
\* Mutant: the claim of the hold writes no status.
MutEnded(row, st) == row

\* A coin_holds row after its terminal status is written.
Ended(row, st) == [st |-> st, user |-> row.user, amt |-> row.amt]

Commit(s) ==
    LET w == pend[s]  c == call[s] IN
    /\ pc[s] = "commit"
    /\ bal' = [u \in Users |-> bal[u] + w.bal[u]]
    /\ ledger' = [u \in Users |-> ledger[u] + w.ledger[u]]
    /\ purse' = [t \in Slugs |-> purse[t] + w.purse[t]]
    /\ hold' = CASE w.st = "none" -> hold
                 [] w.st = "held" -> [hold EXCEPT ![c.hold] = [st |-> "held", user |-> c.src, amt |-> c.amt]]
                 [] OTHER -> [hold EXCEPT ![c.hold] = Ended(@, w.st)]
    /\ journal' = IF w.st \in {"settled", "refunded"}
                  THEN [journal EXCEPT ![c.hold] = Append(@, [action |-> w.st, splits |-> c.splits])]
                  ELSE journal
    /\ EndOfCall(s)

\* A statement fails, the process dies, the connection is lost.
Fail(s) == pc[s] # "idle" /\ Abort(s)

\* A retryable error (40001, 40P01) inside transfer(): roll back, try again.
Retry(s) ==
    /\ pc[s] \in {"lock", "credit"}
    /\ call[s].op = "transfer" /\ call[s].attempt < MaxTransferAttempts
    /\ ReleaseAll(s)
    /\ Goto(s, "lock")
    /\ call' = [call EXCEPT ![s].attempt = @ + 1]
    /\ need' = [need EXCEPT ![s] = {call[s].src, call[s].dst} \ {Ghost}]
    /\ pend' = [pend EXCEPT ![s] = NoWrites]
    /\ UNCHANGED tables
-----------------------------------------------------------------------------
\* The row a session's next statement needs while another session holds it.
Waits(s, r) == /\ \/ pc[s] = "purseCredit" /\ r = call[s].dst
                  \/ pc[s] = "lock" /\ IsNextRow(s, r)
               /\ ~Free(s, r)

WaitsFor(s, q) == \E r \in Users \cup Slugs : Waits(s, r) /\ lock[r] = q

\* Sessions that wait in a circle.
Cycle(C) == /\ C # {}
            /\ \A s \in C : (\E q \in C : WaitsFor(s, q)) /\ (\E q \in C : WaitsFor(q, s))

\* PostgreSQL's deadlock detector aborts one session of a cycle.
DeadlockVictim(s) == /\ \E C \in SUBSET Sessions : s \in C /\ Cycle(C)
                     /\ Retry(s) \/ Abort(s)

Step(s) == \/ \E r \in Users \cup Slugs : LockAccount(s, r)
           \/ TransferDebit(s) \/ TransferCredit(s)
           \/ TreasuryTransferCredit(s) \/ Claim(s) \/ ClaimError(s) \/ Commit(s)

Next == \E s \in Sessions :
    \/ \E a \in Amounts :
        \/ \E u \in Users : Charge(s, u, a) \/ Reward(s, u, a)
        \/ \E u \in Users, v \in Users \cup {Ghost} : Transfer(s, u, v, a)
        \/ \E u \in Users, h \in Holds : Hold(s, u, a, h)
        \/ \E t \in Slugs : TreasuryCredit(s, t, a)
        \/ \E t \in Slugs, reserve \in {0, 1} : TreasuryDebit(s, t, a, reserve)
        \/ \E t, v \in Slugs : TreasuryTransfer(s, t, v, a)
    \/ \E h \in Holds, splits \in Distributions, op \in {"settle", "refund"} :
        Terminalize(s, op, h, splits)
    \/ \E h \in Holds : Terminalize(s, "refund", h, WholeTo(h))
    \/ Step(s)
    \/ Fail(s)
    \/ Retry(s)
    \/ DeadlockVictim(s)

Spec == Init /\ [][Next]_vars

\* A request or worker runs on: its statements are executed, lock waits are
\* granted in the order they queued, and a cycle is broken.
Fairness == \A s \in Sessions : SF_vars(Step(s)) /\ WF_vars(DeadlockVictim(s))
LiveSpec == Spec /\ Fairness
-----------------------------------------------------------------------------
Labels == {"idle", "lock", "credit", "purseCredit", "commit"}
Ops == {"none", "charge", "reward", "transfer", "hold", "settle", "refund",
        "treasury_credit", "treasury_debit", "treasury_transfer"}
States == {"none", "held", "settled", "refunded"}
Calls == [op : Ops, src : Nat, dst : Nat, amt : Int, hold : Nat, splits : SplitList,
          attempt : 1 .. MaxTransferAttempts]
WriteSets == [bal : [Users -> Int], ledger : [Users -> Int], purse : [Slugs -> Int],
              st : States]
HoldRows == [st : States, user : Nat, amt : Int]
Entries == [action : States, splits : SplitList]

TypeOK ==
    /\ bal \in [Users -> Int] /\ ledger \in [Users -> Int] /\ purse \in [Slugs -> Int]
    /\ hold \in [Holds -> HoldRows]
    /\ journal \in [Holds -> Seq(Entries)]
    /\ lock \in [Rows -> Sessions \cup {NoSession}]
    /\ call \in [Sessions -> Calls]
    /\ pc \in [Sessions -> Labels]
    /\ need \in [Sessions -> SUBSET (Users \cup Slugs)]
    /\ pend \in [Sessions -> WriteSets]

\* No account is ever overdrawn, whatever operations run at once: the guarded
\* UPDATEs and the ordered locks of transfer() leave no window to oversell.
NoOverdraft == /\ \A u \in Users : bal[u] >= 0
               /\ \A t \in Slugs : purse[t] >= 0

\* A balance is what its transactions rows say, after any sequence of commits,
\* aborts and retries.
LedgerReconciles == \A u \in Users : bal[u] = Grant + ledger[u]

\* A hold is terminal exactly when its distribution was journaled, once, by the
\* same action, and the distribution gives out the whole amount
\* (the models' "sum(splits) == amount", one terminal action per hold).
HoldPaidOnce == \A h \in Holds :
    IF hold[h].st \in {"settled", "refunded"}
    THEN /\ Len(journal[h]) = 1
         /\ journal[h][1].action = hold[h].st
         /\ Total(journal[h][1].splits) = hold[h].amt
    ELSE journal[h] = <<>>

\* A circle of waiting sessions always contains a treasury_transfer, the one
\* operation that locks two rows in an order of its caller's choosing: transfer,
\* settle and refund cannot deadlock each other.
OnlyTreasuryTransferDeadlocks == \A C \in SUBSET Sessions :
    Cycle(C) => \E s \in C : call[s].op = "treasury_transfer"

-----------------------------------------------------------------------------
(* What every session may rely on between its statements; with the         *)
(* invariants above it is inductive.                                       *)

\* A pending balance write is made under the row lock, and leaves the account
\* solvent.
WritesUnderLock(s) ==
    /\ \A u \in Users : /\ pend[s].bal[u] # 0 => lock[u] = s
                        /\ Seen(s, u) >= 0
    /\ \A t \in Slugs : /\ pend[s].purse[t] # 0 => lock[t] = s
                        /\ purse[t] + pend[s].purse[t] >= 0

\* The accounts of a call are locked or still to be locked.
Covered(s, accounts) == \A r \in accounts \cap (Users \cup Slugs) : r \in need[s] \/ lock[r] = s

InTransfer(s) ==
    /\ call[s].op = "transfer" /\ call[s].amt > 0
    /\ call[s].src \in Users /\ call[s].dst \in Users \cup {Ghost}
    /\ call[s].src # call[s].dst
    /\ Covered(s, {call[s].src, call[s].dst})

\* The session owns the hold it is about to terminate.
InTerminal(s) ==
    /\ call[s].op \in {"settle", "refund"}
    /\ call[s].hold \in Holds /\ lock[call[s].hold] = s
    /\ hold[call[s].hold].st = "held"
    /\ ValidDistribution(call[s].splits, hold[call[s].hold].amt)
    /\ Covered(s, Recipients(call[s].splits))

InCommit(s) ==
    /\ pend[s].bal = pend[s].ledger
    /\ pend[s].st = "held" =>
          call[s].hold \in Holds /\ lock[call[s].hold] = s /\ hold[call[s].hold].st = "none"
    /\ pend[s].st \in {"settled", "refunded"} =>
          InTerminal(s) /\ pend[s].st = Terminal[call[s].op]

SessionOK(s) ==
    /\ WritesUnderLock(s)
    /\ pc[s] \in {"idle", "lock"} => pend[s] = NoWrites
    /\ pc[s] = "lock" => InTransfer(s) \/ InTerminal(s)
    /\ pc[s] = "credit" =>
          /\ InTransfer(s) /\ need[s] = {} /\ call[s].dst \in Users
          /\ pend[s] = Credited(NoWrites, call[s].src, -call[s].amt)
    /\ pc[s] = "purseCredit" =>
          /\ call[s].dst \in Slugs /\ call[s].amt > 0
          /\ pend[s].bal = NoWrites.bal /\ pend[s].ledger = NoWrites.ledger
          /\ pend[s].st = "none"
    /\ pc[s] = "commit" => InCommit(s)

\* The inductive invariant: every session's writes are guarded, so no commit
\* can overdraw an account, break the ledger or pay a hold twice.
Inductive == /\ TypeOK /\ NoOverdraft /\ LedgerReconciles /\ HoldPaidOnce
             /\ \A s \in Sessions : SessionOK(s)
-----------------------------------------------------------------------------
\* Coins are made and destroyed only by the commit of an operation meant to:
\* a reward or treasury credit, a charge or treasury debit, or the sink share of
\* a settlement.  Transfers, treasury transfers and holds conserve them, and no
\* failure in the middle of one loses any.
SupplyMovesOnlyAsIntended ==
    [][Supply' # Supply => \E s \in Sessions :
         LET c == call[s] IN
         /\ pc[s] = "commit" /\ pc'[s] = "idle"
         /\ \/ c.op \in {"reward", "treasury_credit"} /\ Supply' = Supply + c.amt
            \/ c.op \in {"charge", "treasury_debit"} /\ Supply' = Supply - c.amt
            \/ /\ c.op \in {"settle", "refund"}
               /\ Supply' = Supply - Share(c.splits, Sink)]_vars

\* The statement-by-statement transactions are indivisible coin moves.
Bank == INSTANCE CoinBank WITH
            hold <- [h \in Holds |-> [st |-> hold[h].st, amt |-> hold[h].amt]]
RefinesBank == Bank!Spec

\* Every operation that began ends: no lock wait lasts for ever, and retries
\* are bounded.
CallsEnd == \A s \in Sessions : pc[s] # "idle" ~> pc[s] = "idle"
=============================================================================
