------------------------------ MODULE Caravan ------------------------------
(* The caravan's visits to market days and the drivers that move them
   (services/caravan_lifecycle_service.py, the durable settlement of
   services/caravan_service.py, tasks/caravan_lifecycle.py).

   A step is one committed transaction.  Claiming and deciding are one step: nothing
   is written in between, and what a driver reads then it may act on much later.  A
   round's one reading of the clock is read at the claim: whatever a fresher driver has
   written is due, or lapses, after it.  The version bumped by every claim and transition
   adds nothing to lease_owner here, for a driver has one visit at a time. *)
EXTENDS Integers

CONSTANTS Visits,    \* market events that have a visit
          Drivers,
          NoOne,
          Casts      \* bounds: the visits there are and what can still go wrong, one is chosen
ASSUME CaravanAssumption ==
    /\ NoOne \notin Visits \cup Drivers
    /\ Casts \subseteq [visits : SUBSET Visits, lapses : Nat, failures : Nat, amendments : Nat, wakes : Nat]

VARIABLES visit,     \* the rows of caravan_visits
          clock,     \* where now is in each visit's market window
          admitted,  \* the policy (and npc_economy_enabled) lets caravans in
          shelf,     \* the import goods: whose visit stocked them, and whether they are on sale
          at,        \* per driver: what it is doing, for which visit, and what it read
          resumed,   \* history: visits that went on after their imports were withdrawn
          left       \* bounds not yet used up

vars == <<visit, clock, admitted, shelf, at, resumed, left>>

Visible == {"waiting", "inbound", "trading", "outbound"}
Ended == {"departed", "cancelled"}
Active == Visible \cup {"scheduled"}

\* "wake" is next_action_at, "pending" the admission_pending mark, "live" that the lease has
\* not expired, "arrived" that motion_ends_at has passed; "fees" and "buys" count what was paid
NewVisit == [phase |-> "scheduled", wake |-> "lead", pending |-> FALSE, owner |-> NoOne, live |-> FALSE,
             arrived |-> FALSE, fees |-> 0, buys |-> 0, stocked |-> FALSE, settled |-> FALSE,
             withdrawn |-> FALSE]
Stay == [phase |-> "scheduled", wake |-> "now", pending |-> FALSE]
Idle == [pc |-> "idle", visit |-> NoOne, to |-> Stay]

\* ensure_visit_for_event: a market the legacy caravan has been to gets a tombstone
Init == /\ left \in Casts
        /\ visit = [v \in Visits |-> IF v \in left.visits THEN NewVisit
                                     ELSE [NewVisit EXCEPT !.phase = "cancelled", !.wake = "now"]]
        /\ clock = [v \in Visits |-> IF v \in left.visits THEN "before" ELSE "closed"]
        /\ admitted \in BOOLEAN
        /\ shelf = [of |-> NoOne, active |-> FALSE]
        /\ at = [d \in Drivers |-> Idle]
        /\ resumed = {}

Costs(trouble) == left[trouble] > 0 /\ left' = [left EXCEPT ![trouble] = @ - 1]
At(d, pc) == at[d].pc = pc
Mine(d) == at[d].visit
Goes(d, pc) == at' = [at EXCEPT ![d].pc = pc]
Quits(d) == at' = [at EXCEPT ![d] = Idle]

\* next_action_at <= now, whatever it was set to
Due(v) == \/ visit[v].wake = "now"
          \/ visit[v].wake \in {"lead", "opens"} /\ clock[v] # "before"
          \/ visit[v].wake \in {"closes", "arrival"} /\ clock[v] = "closed"
          \/ visit[v].wake \in {"arrival", "motion"} /\ visit[v].arrived
\* _claimable
Claimable(v) == /\ visit[v].phase \in Active /\ Due(v)
                /\ visit[v].owner = NoOne \/ ~visit[v].live
OtherVisible(v) == \E w \in Visits \ {v} : visit[w].phase \in Visible
----------------------------------------------------------------------------
(* process_claimed_visit: where a claimed visit goes, by what is read at that moment. *)

To(phase, wake, pending) == [phase |-> phase, wake |-> wake, pending |-> pending]
Same(v, phase, wake) == To(phase, wake, visit[v].pending)

\* _begin_inbound, which may find no route
Inbound(v) == IF OtherVisible(v) THEN {Same(v, "cancelled", "now")}
              ELSE {Same(v, "cancelled", "now"), To("inbound", "arrival", FALSE)}

FromScheduled(v) ==
    IF clock[v] = "closed" THEN {Same(v, "cancelled", "now")}
    ELSE IF ~admitted THEN {To("scheduled", IF clock[v] = "before" THEN "opens" ELSE "closes", TRUE)}
    ELSE IF clock[v] = "open" THEN Inbound(v)
    ELSE IF OtherVisible(v) THEN {Same(v, "scheduled", "opens")}
    ELSE {To("waiting", "opens", FALSE)}

\* Mutant: a visit that waits is parked without its mark
MutFromWaiting(v) ==
    IF clock[v] = "closed" THEN {Same(v, "cancelled", "now")}
    ELSE IF ~admitted THEN {To("waiting", "closes", FALSE)}
    ELSE IF clock[v] = "open" THEN Inbound(v)
    ELSE {To("waiting", "opens", FALSE)}
FromWaiting(v) ==
    IF clock[v] = "closed" THEN {Same(v, "cancelled", "now")}
    ELSE IF ~admitted THEN {To("waiting", "closes", TRUE)}
    ELSE IF clock[v] = "open" THEN Inbound(v)
    ELSE {To("waiting", "opens", FALSE)}

\* the caravan turns back, or leaves: its shelves are emptied first (_begin_outbound)
MustLeave(v) == visit[v].phase \in {"inbound", "trading"} /\ (clock[v] = "closed" \/ ~admitted)
MustSettle(v) == visit[v].phase = "trading" /\ ~MustLeave(v) /\ ~visit[v].settled

Moving(v) == IF visit[v].arrived
             THEN IF visit[v].phase = "inbound" THEN {Same(v, "trading", "now")} ELSE {Same(v, "departed", "now")}
             ELSE {Same(v, visit[v].phase, "motion")}

\* _begin_outbound, along the whole route or the part of it that was travelled
Leave(v) == Same(v, "outbound", "motion")

Plans(v) ==
    IF visit[v].phase = "scheduled" THEN FromScheduled(v)
    ELSE IF visit[v].phase = "waiting" THEN FromWaiting(v)
    ELSE IF MustLeave(v) THEN {Leave(v)}
    ELSE IF visit[v].phase = "trading" THEN {Same(v, "trading", "closes")}
    ELSE Moving(v)

\* claim_next_visit, and the reads of process_claimed_visit
Claim(d, v) ==
    /\ At(d, "idle") /\ Claimable(v)
    /\ visit' = [visit EXCEPT ![v] = [@ EXCEPT !.owner = d, !.live = TRUE]]
    /\ \E to \in Plans(v) :
          at' = [at EXCEPT ![d] = [pc |-> IF MustLeave(v) THEN "withdraw"
                                          ELSE IF MustSettle(v) THEN "fee" ELSE "move",
                                   visit |-> v, to |-> to]]
    /\ resumed' = IF visit[v].withdrawn /\ visit[v].phase \in {"inbound", "trading"} /\ ~MustLeave(v)
                  THEN resumed \cup {v} ELSE resumed
    /\ UNCHANGED <<clock, admitted, shelf, left>>

\* the WHERE of every write: a driver whose visit was claimed by another writes nothing more
\* Mutant: whoever claimed the visit once may write
MutOwns(d) == Mine(d) # NoOne
Owns(d) == Mine(d) # NoOne /\ visit[Mine(d)].owner = d

\* Mutant: the unique index on visibility_slot is missing
MutSlotFree(d) == d \in Drivers
\* the unique index on visibility_slot
SlotFree(d) == at[d].to.phase \in Visible => ~OtherVisible(Mine(d))

\* _transition
Move(d) ==
    /\ At(d, "move") /\ Owns(d) /\ SlotFree(d)
    /\ LET v == Mine(d)
           to == at[d].to
           starts == to.phase # visit[v].phase /\ to.phase \in {"inbound", "outbound"}
       IN visit' = [visit EXCEPT ![v] =
              [visit[v] EXCEPT !.phase = to.phase, !.wake = to.wake, !.pending = to.pending,
                               !.owner = NoOne, !.live = FALSE, !.arrived = @ /\ ~starts]]
    /\ Quits(d)
    /\ UNCHANGED <<clock, admitted, shelf, resumed, left>>

\* the database refuses a second visible visit: the lease is left to lapse
MoveRefused(d) == /\ At(d, "move") /\ Owns(d) /\ ~SlotFree(d)
                  /\ Quits(d)
                  /\ UNCHANGED <<visit, clock, admitted, shelf, resumed, left>>

\* CaravanLeaseLost
LoseLease(d) == /\ ~At(d, "idle") /\ ~Owns(d)
                /\ Quits(d)
                /\ UNCHANGED <<visit, clock, admitted, shelf, resumed, left>>
----------------------------------------------------------------------------
(* withdraw_visit_imports and settle_caravan_visit: every transaction begins and ends
   with the renewal of the lease (_renew_owned_visit), whether or not it has expired. *)

Writes(d, row) == visit' = [visit EXCEPT ![Mine(d)] = [row EXCEPT !.live = TRUE]]

\* only this visit's goods, and only once
Withdraw(d) ==
    /\ At(d, "withdraw") /\ Owns(d)
    /\ LET v == Mine(d)
       IN /\ Writes(d, [visit[v] EXCEPT !.withdrawn = TRUE])
          /\ shelf' = IF ~visit[v].withdrawn /\ shelf.of = v
                      THEN [shelf EXCEPT !.active = FALSE] ELSE shelf
    /\ Goes(d, "move")
    /\ UNCHANGED <<clock, admitted, resumed, left>>

\* fee_settled_at is NULL
FeeDue(v) == visit[v].fees = 0

Fee(d) == /\ At(d, "fee") /\ Owns(d)
          /\ LET v == Mine(d)
             IN Writes(d, IF FeeDue(v) THEN [visit[v] EXCEPT !.fees = @ + 1] ELSE visit[v])
          /\ Goes(d, "buy")
          /\ UNCHANGED <<clock, admitted, shelf, resumed, left>>

\* _claim_purchase_row: the unique claim of visit and item
Unclaimed(v) == visit[v].buys = 0
\* _buy_one_for_visit for a work on sale: the claim is undone with the rest of the purchase.
\* It may also be sold out, orphaned, beyond the budget, or fail on its own.
Buy(d) == /\ At(d, "buy") /\ Owns(d)
          /\ LET v == Mine(d)
             IN \/ Unclaimed(v) /\ Writes(d, [visit[v] EXCEPT !.buys = @ + 1])
                \/ Writes(d, visit[v])
          /\ Goes(d, "stock")
          /\ UNCHANGED <<clock, admitted, shelf, resumed, left>>

\* _stock_import_goods_pending
Goods(v) == [of |-> v, active |-> TRUE]
Stock(d) ==
    /\ At(d, "stock") /\ Owns(d)
    /\ LET v == Mine(d)
       IN /\ Writes(d, [visit[v] EXCEPT !.stocked = TRUE])
          /\ shelf' = IF visit[v].stocked THEN shelf ELSE Goods(v)
    /\ Goes(d, "finish")
    /\ UNCHANGED <<clock, admitted, resumed, left>>

Finish(d) == /\ At(d, "finish") /\ Owns(d)
             /\ Writes(d, [visit[Mine(d)] EXCEPT !.settled = TRUE])
             /\ Goes(d, "move")
             /\ UNCHANGED <<clock, admitted, shelf, resumed, left>>

\* the driver's process dies, or the database fails it: drive_due_visits goes on without it
Fails(d) == /\ ~At(d, "idle") /\ Costs("failures")
            /\ Quits(d)
            /\ UNCHANGED <<visit, clock, admitted, shelf, resumed>>

Drives(d) == \/ \E v \in Visits : Claim(d, v)
             \/ Move(d) \/ MoveRefused(d) \/ LoseLease(d)
             \/ Withdraw(d) \/ Fee(d) \/ Buy(d) \/ Stock(d) \/ Finish(d)
----------------------------------------------------------------------------
\* Mutant: only an admitted visit is woken
MutToWake == {v \in Visits : admitted /\ visit[v].pending}
\* whom reconcile_market_events wakes: the parked when caravans are admitted, the others when not
ToWake == IF admitted
          THEN {v \in Visits : visit[v].phase \in {"scheduled", "waiting"} /\ visit[v].pending}
          ELSE {v \in Visits : \/ visit[v].phase \in {"inbound", "trading"}
                               \/ visit[v].phase = "waiting" /\ ~visit[v].pending}
Asleep == {v \in Visits : ~Due(v)}

Wakes(vs) == visit' = [v \in Visits |-> IF v \in vs THEN [visit[v] EXCEPT !.wake = "now"] ELSE visit[v]]

\* every round of every driver begins with it
Reconcile == /\ ToWake \cap Asleep # {}
             /\ Wakes(ToWake \cap Asleep)
             /\ UNCHANGED <<clock, admitted, shelf, at, resumed, left>>

\* wake_visit_for_event, by the job that starts and ends events
WakeForEvent(v) == /\ visit[v].phase \in Active /\ v \in Asleep /\ Costs("wakes")
                   /\ Wakes({v})
                   /\ UNCHANGED <<clock, admitted, shelf, at, resumed>>

\* the policy is amended
Amend == /\ Costs("amendments")
         /\ admitted' = ~admitted
         /\ UNCHANGED <<visit, clock, shelf, at, resumed>>

Turns(v, from, to) == /\ clock[v] = from /\ clock' = [clock EXCEPT ![v] = to]
                      /\ UNCHANGED <<visit, admitted, shelf, at, resumed, left>>
Opens(v) == Turns(v, "before", "open")
Closes(v) == Turns(v, "open", "closed")
LeadPasses(v) == /\ visit[v].wake = "lead"
                 /\ Wakes({v})
                 /\ UNCHANGED <<clock, admitted, shelf, at, resumed, left>>
Arrives(v) == /\ visit[v].phase \in {"inbound", "outbound"} /\ ~visit[v].arrived
              /\ visit' = [visit EXCEPT ![v].arrived = TRUE]
              /\ UNCHANGED <<clock, admitted, shelf, at, resumed, left>>

Working(v) == \E d \in Drivers : Mine(d) = v /\ visit[v].owner = d
Expires(v) == /\ visit[v].live
              /\ visit' = [visit EXCEPT ![v].live = FALSE]
              /\ UNCHANGED <<clock, admitted, shelf, at, resumed>>
\* the lease of a driver that is slow expires under it, that of a dead one for good
Lapses(v) == Working(v) /\ Costs("lapses") /\ Expires(v)
OrphanLapses(v) == ~Working(v) /\ UNCHANGED left /\ Expires(v)

Next == \/ \E d \in Drivers : Drives(d) \/ Fails(d)
        \/ Reconcile \/ Amend
        \/ \E v \in Visits : \/ WakeForEvent(v) \/ Opens(v) \/ Closes(v) \/ LeadPasses(v)
                             \/ Arrives(v) \/ Lapses(v) \/ OrphanLapses(v)

Spec == Init /\ [][Next]_vars

\* Drivers come round every few seconds and claim the visit that is due longest; roads end and
\* leases expire.  Nothing makes a market close, a policy change or an event's job run.
Fairness == /\ \A d \in Drivers : WF_vars(~At(d, "idle") /\ Drives(d))
            /\ \A v \in Visits : /\ WF_vars(\E d \in Drivers : Claim(d, v))
                                 /\ WF_vars(Arrives(v)) /\ WF_vars(OrphanLapses(v))
            /\ WF_vars(Reconcile)
FairSpec == Spec /\ Fairness
----------------------------------------------------------------------------
Wake == {"now", "lead", "opens", "closes", "arrival", "motion"}
PlanType == [phase : Active \cup Ended, wake : Wake, pending : BOOLEAN]
VisitType == [phase : Active \cup Ended, wake : Wake, pending : BOOLEAN,
              owner : Drivers \cup {NoOne}, live : BOOLEAN, arrived : BOOLEAN,
              fees : 0..1, buys : 0..1, stocked : BOOLEAN, settled : BOOLEAN, withdrawn : BOOLEAN]
AtType == [pc : {"idle", "move", "withdraw", "fee", "buy", "stock", "finish"},
           visit : Visits \cup {NoOne}, to : PlanType]

\* Every visit pays one stall fee and buys a work at most once, whoever settles it and
\* however often the settlement is resumed.
TypeOK == /\ visit \in [Visits -> VisitType]
          /\ clock \in [Visits -> {"before", "open", "closed"}]
          /\ admitted \in BOOLEAN
          /\ shelf \in [of : Visits \cup {NoOne}, active : BOOLEAN]
          /\ resumed \subseteq Visits
          /\ at \in [Drivers -> AtType]

\* One caravan is in the world at a time, although each driver looks for another one long
\* before it writes (models/caravan_visit.py, visibility_slot).
OneCaravan == \A v, w \in Visits :
                  visit[v].phase \in Visible /\ visit[w].phase \in Visible => v = w

\* No goods are on sale of a caravan that does not trade: it leaves after its shelves were
\* emptied, and no slow driver stocks them again.
ShelvesWithdrawn == shelf.active => visit[shelf.of].phase = "trading"
\* They are, unless a driver failed between emptying the shelves and leaving and the policy
\* let the caravan go on: such a visit stocks again what is never withdrawn again.
ShelvesEmptied == shelf.of \in resumed \/ ShelvesWithdrawn

\* When its market has closed a visit ends, and when the policy keeps caravans out those on
\* the road or trading go home, whichever drivers died with them.
VisitsEnd == \A v \in Visits :
    /\ clock[v] = "closed" ~> visit[v].phase \in Ended
    /\ <>[]~admitted => <>[](visit[v].phase \notin {"inbound", "trading", "outbound"})

\* A visit does not sleep through its market: once the policy lets caravans in, it sets out
\* or is called off, although it was parked until the market closes while it did not.
VisitsSetOut == \A v \in Visits :
    <>[](admitted /\ clock[v] = "open") => <>(visit[v].phase \notin {"scheduled", "waiting"})
============================================================================
