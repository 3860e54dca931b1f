----------------------------- MODULE Commission -----------------------------
(* Errands on the commission board.  A resident posts one; a player or, in the
   nightly passes, another resident takes it; it is completed and paid, given
   back, or expires.  Player requests (commission_service.py) are read-then-write
   transactions that interleave with one another and with the nightly passes
   (npc_trade_service.py, in the order nightly_cron.py runs them).  A statement
   guarded by a WHERE clause, or a transaction that holds the row from its first
   statement, is one step; what was read earlier and is used later is kept in
   the request ("seen") or in the nightly pass ("todo").

   Narration, notifications, wallet caches and feeds are left out: they follow
   the commit, fail open, and nothing reads them back here. *)
EXTENDS Naturals, FiniteSets

CONSTANTS Commissions, Players, Residents, Requests,
          Issuer,      \* [Commissions -> Residents]: who posts which errand
          Environments,   \* whose requests, which errands and which purges a behaviour has
          Reward, Wealth,   \* the reward of an errand, a resident's starting coins
          MaxPayouts,  \* bound: rewards paid to players for one errand
          Cap,         \* commission_global_cap
          Dedup,       \* commission_lifecycle_v2_enabled
          NoOne        \* an empty acceptor column

ASSUME ShapeAssumption == /\ Issuer \in [Commissions -> Residents]
                          /\ Environments \subseteq [of : [Requests -> Players], errands : SUBSET Commissions,
                                                   mortal : SUBSET Residents]
                          /\ NoOne \notin Players \cup Residents \cup Commissions
ASSUME NumberAssumption == {Reward, Wealth, MaxPayouts} \subseteq Nat /\ Cap \in Nat /\ Dedup \in BOOLEAN

VARIABLES status,      \* commissions.status, "none" before the row exists
          user, npc,   \* acceptor_user_id, acceptor_resident_id
          late,        \* the errands whose expires_at is past
          env,         \* chosen once: whose request each is, which errands are posted
          wallet,      \* resident treasuries
          alive,       \* residents not purged
          post,        \* post[r]: the errand r's duty is posting, its checks passed
          req,         \* player requests: what each does, on which rows it read
          night,       \* the nightly job: pass, rows left, who has taken one tonight
          paid,        \* history: rewards paid for each errand
          missed       \* history: errands whose settlement failed tonight or before

board == <<status, user, npc>>
vars == <<env, board, late, wallet, alive, post, req, night, paid, missed>>

Statuses == {"none", "open", "accepted", "completed", "expired"}
ReqType == [op : {"idle", "abandon", "complete"}, seen : SUBSET Commissions,
            paying : Commissions \cup {NoOne}]
NightType == [pass : {"day", "settle", "expired", "accept"}, todo : SUBSET Commissions,
              takers : SUBSET Residents, broke : Commissions \cup {NoOne}]
Idle == [op |-> "idle", seen |-> {}, paying |-> NoOne]
Day == [pass |-> "day", todo |-> {}, takers |-> {}, broke |-> NoOne]
Pass(name, rows) == [pass |-> name, todo |-> rows, takers |-> {}, broke |-> NoOne]

Init == /\ env \in Environments
        /\ status = [c \in Commissions |-> "none"]
        /\ user = [c \in Commissions |-> NoOne]
        /\ npc = [c \in Commissions |-> NoOne]
        /\ late = {}
        /\ wallet = [r \in Residents |-> Wealth]
        /\ alive = Residents
        /\ post = [r \in Residents |-> NoOne]
        /\ req = [q \in Requests |-> Idle]
        /\ night = Day
        /\ paid = [c \in Commissions |-> 0]
        /\ missed = {}

Open == {c \in Commissions : status[c] = "open"}
Active(r) == {c \in Commissions : Issuer[c] = r /\ status[c] \in {"open", "accepted"} /\ c \notin late}

-----------------------------------------------------------------------------
(* Posting: a duty of a resident's tick. *)

\* create_commission, up to the count: two SELECTs, no lock
CheckBoard(r, c) ==
    /\ post[r] = NoOne /\ r \in alive
    /\ Issuer[c] = r /\ c \in env.errands /\ status[c] = "none"
    /\ Dedup => Active(r) = {}
    /\ Cardinality(Open) < Cap
    /\ post' = [post EXCEPT ![r] = c]
    /\ UNCHANGED <<env, board, late, wallet, alive, req, night, paid, missed>>

\* create_commission, the insert
Insert(r) ==
    /\ post[r] # NoOne
    /\ status' = [status EXCEPT ![post[r]] = "open"]
    /\ post' = [post EXCEPT ![r] = NoOne]
    /\ UNCHANGED <<env, user, npc, late, wallet, alive, req, night, paid, missed>>

Expires(c) == /\ status[c] # "none" /\ c \notin late
              /\ late' = late \cup {c}
              /\ UNCHANGED <<env, board, wallet, alive, post, req, night, paid, missed>>

Purge(r) == /\ r \in alive \cap env.mortal
            /\ alive' = alive \ {r}
            /\ UNCHANGED <<env, board, late, wallet, post, req, night, paid, missed>>

-----------------------------------------------------------------------------
(* Player requests. *)

Does(q, op, rows, c) == req' = [req EXCEPT ![q] = [op |-> op, seen |-> rows, paying |-> c]]

\* Mutant: accept updates the row whatever its status
MutAccept(q, c) ==
    /\ req[q] = Idle
    /\ status[c] # "none" /\ c \notin late
    /\ status' = [status EXCEPT ![c] = "accepted"]
    /\ user' = [user EXCEPT ![c] = env.of[q]]
    /\ UNCHANGED <<env, npc, late, wallet, alive, post, req, night, paid, missed>>

\* accept: one guarded UPDATE and its commit; the losers change nothing
Accept(q, c) ==
    /\ req[q] = Idle
    /\ status[c] = "open" /\ c \notin late
    /\ status' = [status EXCEPT ![c] = "accepted"]
    /\ user' = [user EXCEPT ![c] = env.of[q]]
    /\ UNCHANGED <<env, npc, late, wallet, alive, post, req, night, paid, missed>>

HeldBy(p) == {c \in Commissions : status[c] = "accepted" /\ user[c] = p}

\* abandon: the SELECT and its checks ...
AbandonRead(q, c) ==
    /\ req[q] = Idle /\ c \in HeldBy(env.of[q])
    /\ Does(q, "abandon", {c}, NoOne)
    /\ UNCHANGED <<env, board, late, wallet, alive, post, night, paid, missed>>

\* ... then an UPDATE by primary key, whatever the row has become
AbandonWrite(q) ==
    /\ req[q].op = "abandon"
    /\ \E c \in req[q].seen : /\ status' = [status EXCEPT ![c] = "open"]
                              /\ user' = [user EXCEPT ![c] = NoOne]
    /\ Does(q, "idle", {}, NoOne)
    /\ UNCHANGED <<env, npc, late, wallet, alive, post, night, paid, missed>>

\* _commission_on_chat, check_visit_commissions: the errands this chat or visit fulfils
Fulfil(q) ==
    /\ req[q] = Idle
    /\ \E rows \in SUBSET HeldBy(env.of[q]) :
          rows # {} /\ Does(q, "complete", rows, NoOne)
    /\ UNCHANGED <<env, board, late, wallet, alive, post, night, paid, missed>>

\* complete: the status is written by primary key and committed ...
Complete(q, c) ==
    /\ req[q].op = "complete" /\ req[q].paying = NoOne /\ c \in req[q].seen
    /\ status' = [status EXCEPT ![c] = "completed"]
    /\ Does(q, "complete", req[q].seen \ {c}, c)
    /\ UNCHANGED <<env, user, npc, late, wallet, alive, post, night, paid, missed>>

\* ... then the acceptor it read is rewarded, in a transaction of its own
PayPlayer(q) ==
    /\ req[q].paying # NoOne /\ paid[req[q].paying] < MaxPayouts
    /\ paid' = [paid EXCEPT ![req[q].paying] = @ + 1]
    /\ IF req[q].seen = {} THEN Does(q, "idle", {}, NoOne)
                           ELSE Does(q, "complete", req[q].seen, NoOne)
    /\ UNCHANGED <<env, board, late, wallet, alive, post, night, missed>>

\* The process dies, or a statement raises: what was committed stays, the rest is not done
RequestFails(q) ==
    /\ req[q] # Idle
    /\ Does(q, "idle", {}, NoOne)
    /\ UNCHANGED <<env, board, late, wallet, alive, post, night, paid, missed>>

-----------------------------------------------------------------------------
(* The nightly passes: settle, expire, accept. *)

Nightly == UNCHANGED <<env, late, alive, post, req>>
Skip(rows) == night' = [night EXCEPT !.todo = @ \ rows, !.broke = NoOne]

\* run_commission_settle_pass: the scan.  Only these passes write npc, and there is one
\* nightly job (it claims the day in Redis), so npc[c] stays the taker the scan read.
StartSettle ==
    /\ night.pass = "day"
    /\ night' = Pass("settle", {c \in Commissions : /\ status[c] = "accepted"
                                                    /\ npc[c] # NoOne /\ user[c] = NoOne})
    /\ Nightly /\ UNCHANGED <<board, wallet, paid, missed>>

\* _reopen: guarded, in a transaction of its own
Reopen(c) ==
    IF status[c] = "accepted" /\ user[c] = NoOne
    THEN /\ status' = [status EXCEPT ![c] = "open"]
         /\ npc' = [npc EXCEPT ![c] = NoOne]
         /\ UNCHANGED user
    ELSE UNCHANGED board

Settling(c) == night.pass = "settle" /\ night.broke = NoOne /\ c \in night.todo

\* The issuer or the taker was purged
SettleGone(c) ==
    /\ Settling(c) /\ ~({Issuer[c], npc[c]} \subseteq alive)
    /\ Reopen(c) /\ Skip({c})
    /\ Nightly /\ UNCHANGED <<wallet, paid, missed>>

Claimable(c) == status[c] = "accepted" /\ user[c] = NoOne

\* Claimed and paid by the issuer in one transaction
Settle(c) ==
    /\ Settling(c) /\ {Issuer[c], npc[c]} \subseteq alive
    /\ Claimable(c) /\ wallet[Issuer[c]] >= Reward
    /\ status' = [status EXCEPT ![c] = "completed"]
    /\ wallet' = [wallet EXCEPT ![Issuer[c]] = @ - Reward, ![npc[c]] = @ + Reward]
    /\ paid' = [paid EXCEPT ![c] = @ + 1]
    /\ Skip({c}) /\ Nightly /\ UNCHANGED <<user, npc, missed>>

\* Someone else changed the row: rolled back, not ours
SettleLost(c) ==
    /\ Settling(c) /\ {Issuer[c], npc[c]} \subseteq alive /\ ~Claimable(c)
    /\ Skip({c}) /\ Nightly /\ UNCHANGED <<board, wallet, paid, missed>>

\* The issuer cannot pay: rolled back, and the row is unlocked before _reopen
SettleBroke(c) ==
    /\ Settling(c) /\ {Issuer[c], npc[c]} \subseteq alive
    /\ Claimable(c) /\ wallet[Issuer[c]] < Reward
    /\ night' = [night EXCEPT !.broke = c]
    /\ Nightly /\ UNCHANGED <<board, wallet, paid, missed>>

ReopenBroke ==
    /\ night.broke # NoOne
    /\ Reopen(night.broke) /\ Skip({night.broke})
    /\ Nightly /\ UNCHANGED <<wallet, paid, missed>>

\* Anything raised in the settlement of one errand rolls it back; the next goes on
SettleFails(c) ==
    /\ night.pass = "settle" /\ c \in night.todo
    /\ missed' = missed \cup {c}
    /\ Skip({c}) /\ Nightly /\ UNCHANGED <<board, wallet, paid>>

\* Mutant: the nightly job expires errands before it settles them
MutSettleDone == night.pass = "settle"

SettleDone == night.pass = "settle" /\ night.todo = {}

\* Mutant: only open errands expire
MutExpirePass ==
    /\ SettleDone
    /\ status' = [c \in Commissions |-> IF status[c] = "open" /\ c \in late
                                        THEN "expired" ELSE status[c]]
    /\ night' = Pass("expired", {})
    /\ Nightly /\ UNCHANGED <<user, npc, wallet, paid, missed>>

\* expire_commissions: one guarded UPDATE
ExpirePass ==
    /\ SettleDone
    /\ status' = [c \in Commissions |-> IF status[c] \in {"open", "accepted"} /\ c \in late
                                        THEN "expired" ELSE status[c]]
    /\ night' = Pass("expired", {})
    /\ Nightly /\ UNCHANGED <<user, npc, wallet, paid, missed>>

\* The expiry job fails: logged, and the next pass runs all the same
ExpireFails ==
    /\ SettleDone
    /\ night' = Pass("expired", {})
    /\ Nightly /\ UNCHANGED <<board, wallet, paid, missed>>

\* run_commission_accept_pass: the scan
StartAccept ==
    /\ night.pass = "expired"
    /\ night' = Pass("accept", {c \in Open : user[c] = NoOne /\ c \notin late})
    /\ Nightly /\ UNCHANGED <<board, wallet, paid, missed>>

\* Whom the pass may give c to: an autonomous resident, not the issuer, none twice a night
Candidates(c) == alive \ ({Issuer[c]} \cup night.takers)

\* Mutant: the accept pass trusts its scan
MutTakeable(c) == TRUE

Takeable(c) == status[c] = "open" /\ user[c] = NoOne /\ c \notin late

\* One of them takes it, if the issuer could pay now and the guarded UPDATE finds it free
Take(c, r) ==
    /\ night.pass = "accept" /\ c \in night.todo
    /\ Issuer[c] \in alive /\ wallet[Issuer[c]] >= Reward /\ r \in Candidates(c)
    /\ Takeable(c)
    /\ status' = [status EXCEPT ![c] = "accepted"]
    /\ npc' = [npc EXCEPT ![c] = r]
    /\ night' = [night EXCEPT !.todo = @ \ {c}, !.takers = @ \cup {r}]
    /\ Nightly /\ UNCHANGED <<user, wallet, paid, missed>>

\* Not rolled, nobody to ask, the issuer cannot pay, lost the row to a player, or an error
TakeNot(c) ==
    /\ night.pass = "accept" /\ c \in night.todo
    /\ Skip({c}) /\ Nightly /\ UNCHANGED <<board, wallet, paid, missed>>

NightEnds ==
    /\ night.pass = "accept" /\ night.todo = {}
    /\ night' = Day
    /\ Nightly /\ UNCHANGED <<board, wallet, paid, missed>>

\* The process dies between two transactions of the nightly job, before its last
NightCrashes ==
    /\ night.pass # "day" /\ ~(night.pass = "accept" /\ night.todo = {})
    /\ night' = Day
    /\ Nightly /\ UNCHANGED <<board, wallet, paid, missed>>

Request(q) == \/ \E c \in Commissions : Accept(q, c) \/ AbandonRead(q, c) \/ Complete(q, c)
              \/ AbandonWrite(q) \/ Fulfil(q) \/ PayPlayer(q) \/ RequestFails(q)

NightStep == \/ StartSettle \/ ReopenBroke \/ ExpirePass \/ StartAccept \/ NightEnds
             \/ \E c \in Commissions : \/ SettleGone(c) \/ Settle(c) \/ SettleLost(c)
                                       \/ SettleBroke(c) \/ TakeNot(c)
                                       \/ \E r \in Residents : Take(c, r)

NightTrouble == ExpireFails \/ NightCrashes \/ \E c \in Commissions : SettleFails(c)

Next == \/ \E r \in Residents : Purge(r) \/ Insert(r) \/ \E c \in Commissions : CheckBoard(r, c)
        \/ \E c \in Commissions : Expires(c)
        \/ \E q \in Requests : Request(q)
        \/ NightStep \/ NightTrouble

Spec == Init /\ [][Next]_vars

\* Time passes, the nightly job runs every day, its expiry statement does not fail
\* every night, and from some day on it is not killed half way.  Nothing is promised
\* about players.
Fairness == /\ \A c \in Commissions : WF_vars(Expires(c))
            /\ WF_vars(NightStep) /\ SF_vars(ExpirePass)
            /\ <>[][~NightCrashes]_vars

FairSpec == Spec /\ Fairness

-----------------------------------------------------------------------------
\* The shapes of the rows, the requests and the nightly job.
TypeOK ==
    /\ env \in Environments
    /\ status \in [Commissions -> Statuses]
    /\ user \in [Commissions -> Players \cup {NoOne}]
    /\ npc \in [Commissions -> Residents \cup {NoOne}]
    /\ late \subseteq Commissions /\ missed \subseteq Commissions /\ alive \subseteq Residents
    /\ wallet \in [Residents -> Nat] /\ paid \in [Commissions -> Nat]
    /\ post \in [Residents -> Commissions \cup {NoOne}]
    /\ req \in [Requests -> ReqType] /\ night \in NightType

\* The environments in which a player's requests come one after the other
OneAtATime == \A q, r \in Requests : q # r => env.of[q] # env.of[r]

\* A player who does one thing at a time is paid at most once for an errand, whatever
\* the others and the nightly passes do meanwhile (complete,
\* run_commission_settle_pass).
PaidOnce == OneAtATime => \A c \in Commissions : paid[c] <= 1

\* The two acceptor columns are mutually exclusive (models/commission.py:30).
AcceptorsExclusive == \A c \in Commissions : user[c] = NoOne \/ npc[c] = NoOne

\* They are as long as no player has two requests under way: accept, abandon and the
\* nightly passes of different actors never give one errand to two.
OneAcceptor == OneAtATime => AcceptorsExclusive

\* An errand a resident took does not expire under it unless its settlement was
\* tried and failed: the nightly job settles before it expires (nightly_cron.py:433).
NpcWorkSettledBeforeExpiry ==
    OneAtATime => \A c \in Commissions :
        status[c] = "expired" /\ npc[c] # NoOne => c \in missed

\* Nobody sits on an errand for ever: it is completed, given back or expires.
NobodyKeepsIt == \A c \in Commissions : status[c] = "accepted" ~> status[c] # "accepted"
=============================================================================
