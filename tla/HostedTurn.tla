----------------------------- MODULE HostedTurn -----------------------------
(* One hosted agent: its controller row, its journal of turns and its daily budget
   (services/hosted_agent_service.py), the tasks of the workers that play it
   (hosted_agents/worker.py), the API that performs its actions under a fence
   (routers/agent_players.py) and its operator (routers/admin/hosted_agents.py).

   A step is one database transaction or one remote answer.  The agent has its identity;
   one day; the preflight stands for both stages of provisioning.  A lease token is as
   unique as the epoch of its claim, so the epoch stands for both; the row has a lease
   exactly when its runtime_status is "claimed", but for one PATCH that changes no guard.
   While provider_retry_at is tomorrow ("spent") a claim does nothing but release. *)
EXTENDS Integers, FiniteSets

CONSTANTS Workers,        \* tasks
          MaxTurns,       \* bound: turns in the journal
          MaxCalls,       \* max_provider_calls_per_day
          Caps,           \* values of max_tokens_per_day the operator chooses from
          ReserveTokens,  \* what one call reserves
          Reports,        \* what the provider may say one call used
          Troubles        \* bounds: what can still go wrong, one of these is chosen
ASSUME HostedAssumption ==
    /\ MaxTurns \in Nat /\ MaxCalls \in Nat /\ Caps \subseteq Nat
    /\ ReserveTokens \in Nat /\ Reports \subseteq Nat
    /\ Troubles \subseteq [lapses : Nat, deaths : Nat, faults : Nat, orders : Nat]

VARIABLES ctl,       \* the controller row
          turn,      \* the journal
          seq,       \* turn_sequence
          usage,     \* HostedAgentDailyUsage
          task,      \* per worker: where its task is, and what it read when it claimed
          requests,  \* actions on their way to the API, with the fence they carry
          acts,      \* history: how often the world has seen a turn's action
          left       \* bounds not yet used up

rows == <<ctl, turn, seq, usage>>
vars == <<rows, task, requests, acts, left>>

Turns == 1..MaxTurns
Pending == {"observed", "calling", "decision_ready", "committing"}
Closed == {"completed", "failed", "abandoned"}

\* "bill" is history: a call's reservation is held, its charge was made, or it was given back;
\* "sent" is the control version it was sent under
NoTurn == [state |-> "none", stage |-> FALSE, epoch |-> 0, version |-> 0, bill |-> "none", sent |-> 0]
Idle == [pc |-> "idle", epoch |-> 0, version |-> 0, turn |-> 0, cap |-> 0]

Init == /\ ctl \in [desired : {"running"}, epoch : {0}, version : {1}, lease : {"none"},
                    validate : BOOLEAN, spent : {FALSE}, cap : Caps]
        /\ turn = [t \in Turns |-> NoTurn]
        /\ seq = 0
        /\ usage = [reserved |-> 0, charged |-> 0, tokensReserved |-> 0, tokensCharged |-> 0]
        /\ task = [w \in Workers |-> Idle]
        /\ requests = {}
        /\ acts = [t \in Turns |-> 0]
        /\ left \in Troubles

At(w, pc) == task[w].pc = pc
Goes(w, pc) == task' = [task EXCEPT ![w].pc = pc]
Quits(w) == task' = [task EXCEPT ![w] = Idle]
Costs(trouble) == left[trouble] > 0 /\ left' = [left EXCEPT ![trouble] = @ - 1]
MyTurn(w) == turn[task[w].turn]

\* the WHERE of release_controller and fail_controller: not whether the lease has expired
Owns(w) == /\ ctl.desired = "running" /\ ctl.lease # "none"
           /\ ctl.epoch = task[w].epoch /\ ctl.version = task[w].version
\* _lease_matches
LeaseMatches(w) == Owns(w) /\ ctl.lease = "live"

Release == ctl' = [ctl EXCEPT !.lease = "none"]
\* _apply_unknown_provider_outcome_block: an operator has to resume
Block == ctl' = [ctl EXCEPT !.desired = "paused", !.version = @ + 1, !.lease = "none",
                           !.spent = FALSE]

Affordable == /\ usage.reserved + usage.charged < MaxCalls
              /\ usage.tokensReserved + usage.tokensCharged + ReserveTokens <= ctl.cap

ReserveCall == usage' = [usage EXCEPT !.reserved = @ + 1, !.tokensReserved = @ + ReserveTokens]
GiveBack == usage' = [usage EXCEPT !.reserved = @ - 1, !.tokensReserved = @ - ReserveTokens]

Positive(n) == IF n > 0 THEN n ELSE 0
Larger(m, n) == IF m > n THEN m ELSE n

\* Mutant: the reservation stays although the call was charged
MutCharge(used, cap) ==
    usage' = [usage EXCEPT !.charged = @ + 1, !.tokensCharged = @ + used]
\* what a call used replaces its reservation; a report beyond it uses up the day, to the
\* limit the transaction has read
Charge(used, cap) ==
    LET reserved == Positive(usage.tokensReserved - ReserveTokens)
    IN usage' = [reserved |-> Positive(usage.reserved - 1), charged |-> usage.charged + 1,
                 tokensReserved |-> reserved,
                 tokensCharged |-> IF used <= ReserveTokens THEN usage.tokensCharged + used
                                   ELSE Larger(usage.tokensCharged, cap - reserved)]

-----------------------------------------------------------------------------
(* The lease *)

\* Mutant: only a lease that was given back is free
MutDue == ctl.desired = "running" /\ ctl.lease = "none" /\ ~ctl.spent
\* the WHERE of claim_due_controller
Due == ctl.desired = "running" /\ ctl.lease # "live" /\ ~ctl.spent

Claim(w) ==
    /\ At(w, "idle") /\ Due
    /\ ctl' = [ctl EXCEPT !.epoch = @ + 1, !.lease = "live"]
    /\ task' = [task EXCEPT ![w] = [pc |-> IF ctl.validate THEN "provision" ELSE "play",
                                    epoch |-> ctl.epoch + 1, version |-> ctl.version, turn |-> 0, cap |-> 0]]
    /\ UNCHANGED <<turn, seq, usage, requests, acts, left>>

\* the retry time or the next action's time has not come: release_controller
NotYet(w) ==
    /\ task[w].pc \in {"provision", "play", "create"} /\ Costs("faults")
    /\ IF Owns(w) THEN Release ELSE UNCHANGED ctl
    /\ Quits(w) /\ UNCHANGED <<turn, seq, usage, requests, acts>>

\* _process: every error but a lost lease ends in fail_controller; of an exhausted budget
\* the provider is asked again tomorrow
Fail(w) ==
    /\ task[w].pc \in {"failing", "spent"}
    /\ IF Owns(w) THEN ctl' = [ctl EXCEPT !.lease = "none", !.spent = At(w, "spent")]
       ELSE UNCHANGED ctl
    /\ Quits(w) /\ UNCHANGED <<turn, seq, usage, requests, acts, left>>

\* a transaction that finds the lease lost, or its turn changed, raises HostedAgentError
Raises(w, pc) == Goes(w, pc) /\ UNCHANGED <<rows, requests, acts, left>>

\* _watched looks at the lease while a remote call is under way
WatchLoses(w) ==
    /\ task[w].pc \in {"staging", "calling", "sent"} /\ ~LeaseMatches(w)
    /\ Quits(w) /\ UNCHANGED <<rows, requests, acts, left>>

Dies(w) ==
    /\ ~At(w, "idle") /\ Costs("deaths")
    /\ Quits(w) /\ UNCHANGED <<rows, requests, acts>>

Working == \E w \in Workers : ~At(w, "idle") /\ task[w].epoch = ctl.epoch

\* the lease's time is up: its task is dead, or too slow to renew it
OrphanLapses == /\ ctl.lease = "live" /\ ~Working
                /\ ctl' = [ctl EXCEPT !.lease = "lapsed"]
                /\ UNCHANGED <<turn, seq, usage, task, requests, acts, left>>
Lapses == /\ ctl.lease = "live" /\ Working /\ Costs("lapses")
          /\ ctl' = [ctl EXCEPT !.lease = "lapsed"]
          /\ UNCHANGED <<turn, seq, usage, task, requests, acts>>

-----------------------------------------------------------------------------
(* Provisioning: one metered call to see whether the provider works *)

\* completed_provider_stage_result
StageDone(w) == \E t \in Turns : /\ turn[t].stage /\ turn[t].state = "completed"
                                 /\ turn[t].version = task[w].version

\* calling turns of older versions are superseded
Superseded == [t \in Turns |-> IF turn[t].state = "calling" THEN [turn[t] EXCEPT !.state = "failed"]
                               ELSE turn[t]]
AmbiguousNow == \E t \in Turns : turn[t].state = "calling" /\ turn[t].version = ctl.version

\* begin_provider_stage_call
BeginStage(w) ==
    /\ At(w, "provision") /\ ~StageDone(w) /\ LeaseMatches(w) /\ ~AmbiguousNow
    /\ Affordable /\ seq < MaxTurns
    /\ ReserveCall /\ seq' = seq + 1
    /\ turn' = [Superseded EXCEPT ![seq + 1] =
                   [state |-> "calling", stage |-> TRUE, epoch |-> ctl.epoch,
                    version |-> ctl.version, bill |-> "held", sent |-> ctl.version]]
    /\ task' = [task EXCEPT ![w].pc = "staging", ![w].turn = seq + 1]
    /\ UNCHANGED <<ctl, requests, acts, left>>

StageAmbiguous(w) ==
    /\ At(w, "provision") /\ ~StageDone(w) /\ LeaseMatches(w) /\ AmbiguousNow
    /\ turn' = [t \in Turns |->
                  IF turn[t].state = "calling" /\ turn[t].version = ctl.version
                  THEN [turn[t] EXCEPT !.state = "failed"] ELSE turn[t]]
    /\ Block /\ Goes(w, "failing")
    /\ UNCHANGED <<seq, usage, requests, acts, left>>

StageRaises(w) ==
    /\ At(w, "provision") /\ ~StageDone(w)
    /\ IF LeaseMatches(w) THEN ~AmbiguousNow /\ ~Affordable /\ Raises(w, "spent")
       ELSE Raises(w, "failing")

StageHolds(w) == LeaseMatches(w) /\ MyTurn(w).state = "calling"

\* complete_provider_stage_call, which locks the controller first: the answer is good, or not
CompleteStage(w, used, good) ==
    /\ At(w, "staging") /\ StageHolds(w)
    /\ Charge(used, ctl.cap)
    /\ turn' = [turn EXCEPT ![task[w].turn].state = IF good THEN "completed" ELSE "failed",
                            ![task[w].turn].bill = "charged"]
    /\ Goes(w, IF good THEN "provision" ELSE "failing")
    /\ UNCHANGED <<ctl, seq, requests, acts>>
    /\ IF good THEN used <= ReserveTokens /\ UNCHANGED left ELSE Costs("faults")

StageLost(w) ==
    /\ At(w, "staging") /\ ~StageHolds(w)
    /\ Quits(w) /\ UNCHANGED <<rows, requests, acts, left>>

\* complete_provisioning_without_identity_change
Provisioned(w) ==
    /\ At(w, "provision") /\ StageDone(w)
    /\ IF Owns(w) THEN ctl' = [ctl EXCEPT !.lease = "none", !.validate = FALSE] ELSE UNCHANGED ctl
    /\ Quits(w) /\ UNCHANGED <<turn, seq, usage, requests, acts, left>>

-----------------------------------------------------------------------------
(* One turn *)

\* a call to the town's API fails before the turn begins
ApiFails(w) ==
    /\ At(w, "play") /\ Costs("faults")
    /\ Goes(w, "failing") /\ UNCHANGED <<rows, requests, acts>>

Ambiguous == \E t \in Turns : turn[t].state = "calling"
Decided == {t \in Turns : turn[t].state \in {"decision_ready", "committing"}}
Latest(ts) == CHOOSE t \in ts : \A u \in ts : u <= t

\* Mutant: a turn whose call was under way is abandoned like any other
MutUnclear == FALSE
\* adopt_recoverable_turn: somebody's call may have been billed
Unclear == Ambiguous

AdoptBlocks(w) ==
    /\ At(w, "play") /\ LeaseMatches(w) /\ Unclear
    /\ turn' = [t \in Turns |->
                  IF turn[t].state = "calling" THEN [turn[t] EXCEPT !.state = "failed"]
                  ELSE IF turn[t].state \in Pending THEN [turn[t] EXCEPT !.state = "abandoned"]
                  ELSE turn[t]]
    /\ Block /\ Goes(w, "failing")
    /\ UNCHANGED <<seq, usage, requests, acts, left>>

\* the latest decision is taken over, what else is pending is abandoned
Adopt(w) ==
    /\ At(w, "play") /\ LeaseMatches(w) /\ ~Unclear
    /\ turn' = [t \in Turns |->
                  IF t \in Decided /\ t = Latest(Decided)
                  THEN [turn[t] EXCEPT !.state = "decision_ready", !.epoch = ctl.epoch,
                                       !.version = ctl.version]
                  ELSE IF turn[t].state \in Pending THEN [turn[t] EXCEPT !.state = "abandoned"]
                  ELSE turn[t]]
    /\ task' = IF Decided = {} THEN [task EXCEPT ![w].pc = "create"]
               ELSE [task EXCEPT ![w].pc = "submit", ![w].turn = Latest(Decided)]
    /\ UNCHANGED <<ctl, seq, usage, requests, acts, left>>

AdoptRaises(w) == At(w, "play") /\ ~LeaseMatches(w) /\ Raises(w, "failing")

\* create_turn_journal
Create(w) ==
    /\ At(w, "create") /\ LeaseMatches(w) /\ seq < MaxTurns
    /\ seq' = seq + 1
    /\ turn' = [turn EXCEPT ![seq + 1] = [NoTurn EXCEPT !.state = "observed", !.epoch = ctl.epoch,
                                                        !.version = ctl.version]]
    /\ task' = [task EXCEPT ![w].pc = "reserve", ![w].turn = seq + 1]
    /\ UNCHANGED <<ctl, usage, requests, acts, left>>

CreateRaises(w) == At(w, "create") /\ ~LeaseMatches(w) /\ Raises(w, "failing")

\* Mutant: what others have reserved is not counted
MutMayReserve(w) ==
    /\ LeaseMatches(w) /\ MyTurn(w).state = "observed"
    /\ usage.charged < MaxCalls /\ usage.tokensCharged + ReserveTokens <= ctl.cap
MayReserve(w) == LeaseMatches(w) /\ MyTurn(w).state = "observed" /\ Affordable

\* reserve_turn_provider_budget; the call follows
Reserve(w) ==
    /\ At(w, "reserve") /\ MayReserve(w)
    /\ ReserveCall
    /\ turn' = [turn EXCEPT ![task[w].turn].state = "calling", ![task[w].turn].bill = "held",
                            ![task[w].turn].sent = ctl.version]
    /\ Goes(w, "calling") /\ UNCHANGED <<ctl, seq, requests, acts, left>>

ReserveRaises(w) ==
    /\ At(w, "reserve") /\ ~MayReserve(w)
    /\ Raises(w, IF LeaseMatches(w) /\ MyTurn(w).state = "observed" THEN "spent" ELSE "failing")

\* The provider has answered.  settle_daily_budget reads the controller, for its limit,
\* without a lock, and then waits for the lock of the day's counters.
ReadLimit(w) ==
    /\ At(w, "calling")
    /\ task' = [task EXCEPT ![w].pc = "settling", ![w].cap = ctl.cap]
    /\ UNCHANGED <<rows, requests, acts, left>>

(* settle_daily_budget charges whoever holds the lease by now, to the limit it has read.
   "marking": the provider reports an error and its usage.  "failing": the decision is not
   among the affordances, or the report is beyond the reservation: the turn stays calling. *)
Settle(w, used, next) ==
    /\ At(w, "settling")
    /\ Charge(used, task[w].cap)
    /\ turn' = [turn EXCEPT ![task[w].turn].bill = "charged"]
    /\ task' = [task EXCEPT ![w].pc = next, ![w].cap = 0]
    /\ IF next = "persist" THEN used <= ReserveTokens /\ UNCHANGED left ELSE Costs("faults")
    /\ UNCHANGED <<ctl, seq, requests, acts>>

\* mark_turn_failed
Mark(w) ==
    /\ At(w, "marking")
    /\ IF MyTurn(w).state \in Closed THEN UNCHANGED turn
       ELSE turn' = [turn EXCEPT ![task[w].turn].state = "failed"]
    /\ Goes(w, "failing") /\ UNCHANGED <<ctl, seq, usage, requests, acts, left>>

\* the provider says it will not bill: fail_unbilled_turn_and_release_controller
Unbilled(w) ==
    /\ task[w].pc \in {"calling", "staging"} /\ Costs("faults")
    /\ LeaseMatches(w) /\ MyTurn(w).state = "calling"
    /\ usage.reserved >= 1 /\ usage.tokensReserved >= ReserveTokens
    /\ GiveBack /\ Release
    /\ turn' = [turn EXCEPT ![task[w].turn].state = "failed", ![task[w].turn].bill = "free"]
    /\ Quits(w) /\ UNCHANGED <<seq, requests, acts>>

\* no answer: block_unknown_provider_outcome keeps the reservation
Unknown(w) ==
    /\ task[w].pc \in {"calling", "staging"} /\ Costs("faults")
    /\ LeaseMatches(w) /\ MyTurn(w).state = "calling"
    /\ Block
    /\ turn' = [turn EXCEPT ![task[w].turn].state = "failed"]
    /\ Quits(w) /\ UNCHANGED <<seq, usage, requests, acts>>

\* any other exception after the reservation, as when the provider's URL is refused before
\* anything is sent: the turn stays calling
CallBreaks(w) ==
    /\ task[w].pc \in {"calling", "staging"} /\ Costs("faults")
    /\ Goes(w, "failing") /\ UNCHANGED <<rows, requests, acts>>

MayPersist(w) == LeaseMatches(w) /\ MyTurn(w).state = "calling"

\* persist_turn_decision
Persist(w) ==
    /\ At(w, "persist") /\ MayPersist(w)
    /\ turn' = [turn EXCEPT ![task[w].turn].state = "decision_ready"]
    /\ Goes(w, "submit") /\ UNCHANGED <<ctl, seq, usage, requests, acts, left>>

PersistRaises(w) == At(w, "persist") /\ ~MayPersist(w) /\ Raises(w, "failing")

Fence(w) == [turn |-> task[w].turn, epoch |-> task[w].epoch, version |-> task[w].version]
MayCommit(w) == LeaseMatches(w) /\ MyTurn(w).state \in {"decision_ready", "committing"}

\* mark_turn_committing; the action is sent
Submit(w) ==
    /\ At(w, "submit") /\ MayCommit(w)
    /\ turn' = [turn EXCEPT ![task[w].turn].state = "committing"]
    /\ requests' = requests \cup {Fence(w)}
    /\ Goes(w, "sent") /\ UNCHANGED <<ctl, seq, usage, acts, left>>

SubmitRaises(w) == At(w, "submit") /\ ~MayCommit(w) /\ Raises(w, "failing")

-----------------------------------------------------------------------------
(* The API, and the worker that waits for it *)

\* Mutant: the API does not look at the turn's state
MutFenced(f) ==
    /\ ctl.desired = "running" /\ ctl.lease = "live" /\ ctl.version = f.version
    /\ turn[f.turn].version = ctl.version
\* _lock_hosted_action_fence
Fenced(f) ==
    /\ ctl.desired = "running" /\ ctl.lease = "live"
    /\ ctl.epoch = f.epoch /\ ctl.version = f.version
    /\ turn[f.turn].state = "committing"
    /\ turn[f.turn].epoch = ctl.epoch /\ turn[f.turn].version = ctl.version

\* the action, its receipt, the turn and the lease in one transaction
Act(f) ==
    /\ f \in requests /\ Fenced(f)
    /\ acts' = [acts EXCEPT ![f.turn] = @ + 1]
    /\ turn' = [turn EXCEPT ![f.turn].state = "completed"]
    /\ Release /\ requests' = requests \ {f}
    /\ UNCHANGED <<seq, usage, task, left>>

\* _terminalize_hosted_npc_failure: the chat with a resident has failed for good
ActFails(f) ==
    /\ f \in requests /\ Fenced(f) /\ Costs("faults")
    /\ turn' = [turn EXCEPT ![f.turn].state = "failed"]
    /\ Release /\ requests' = requests \ {f}
    /\ UNCHANGED <<seq, usage, task, acts>>

\* a fence that is lost, or any other 4xx or 5xx
Refuse(f) ==
    /\ f \in requests
    /\ IF Fenced(f) THEN Costs("faults") ELSE UNCHANGED left
    /\ requests' = requests \ {f}
    /\ UNCHANGED <<rows, task, acts>>

\* the answer has come; of an error the worker first sees whether the turn is over
Returns(w) ==
    /\ At(w, "sent") /\ Fence(w) \notin requests /\ MyTurn(w).state \in Closed
    /\ Quits(w) /\ UNCHANGED <<rows, requests, acts, left>>

\* a deterministic 4xx: abandon_turn_and_release_controller
Abandon(w) ==
    /\ At(w, "sent") /\ Fence(w) \notin requests /\ MyTurn(w).state \notin Closed
    /\ IF LeaseMatches(w)
       THEN turn' = [turn EXCEPT ![task[w].turn].state = "failed"] /\ Release
       ELSE UNCHANGED <<ctl, turn>>
    /\ Quits(w) /\ UNCHANGED <<seq, usage, requests, acts, left>>

\* a 5xx, or no answer although the request may still arrive: the same turn is tried again
TryAgain(w) ==
    /\ At(w, "sent")
    /\ IF Fence(w) \in requests THEN Costs("faults") ELSE UNCHANGED left
    /\ IF MyTurn(w).state \in Closed THEN Quits(w) ELSE Goes(w, "failing")
    /\ UNCHANGED <<rows, requests, acts>>

-----------------------------------------------------------------------------
(* The operator *)

Stopped == [t \in Turns |-> IF turn[t].state \in Pending THEN [turn[t] EXCEPT !.state = "abandoned"]
                            ELSE turn[t]]

\* set_desired_status("paused")
Stop == /\ ctl.desired = "running" /\ Costs("orders")
        /\ ctl' = [ctl EXCEPT !.desired = "paused", !.version = @ + 1, !.lease = "none"]
        /\ turn' = Stopped
        /\ UNCHANGED <<seq, usage, task, requests, acts>>

\* set_desired_status("running"): it changes nothing about the turns
Start == /\ ctl.desired = "paused" /\ Costs("orders")
         /\ ctl' = [ctl EXCEPT !.desired = "running", !.version = @ + 1]
         /\ UNCHANGED <<turn, seq, usage, task, requests, acts>>

\* patch_hosted_agent: new limits, perhaps a new provider that must be validated
Patch(cap, provider) ==
    /\ Costs("orders")
    /\ ctl' = [ctl EXCEPT !.version = @ + 1, !.lease = "none", !.cap = cap,
                          !.validate = @ \/ provider]
    /\ UNCHANGED <<turn, seq, usage, task, requests, acts>>

-----------------------------------------------------------------------------
Works(w) ==
    \/ Fail(w) \/ WatchLoses(w)
    \/ BeginStage(w) \/ StageAmbiguous(w) \/ StageRaises(w) \/ StageLost(w) \/ Provisioned(w)
    \/ \E used \in Reports, good \in BOOLEAN : CompleteStage(w, used, good)
    \/ AdoptBlocks(w) \/ Adopt(w) \/ AdoptRaises(w) \/ Create(w) \/ CreateRaises(w)
    \/ Reserve(w) \/ ReserveRaises(w) \/ ReadLimit(w)
    \/ \E used \in Reports, next \in {"persist", "marking", "failing"} : Settle(w, used, next)
    \/ Mark(w) \/ Persist(w) \/ PersistRaises(w) \/ Submit(w) \/ SubmitRaises(w)
    \/ Returns(w) \/ Abandon(w) \/ TryAgain(w)

Serves == \E f \in requests : Act(f) \/ Refuse(f)

Next == \/ \E w \in Workers : \/ Claim(w) \/ NotYet(w) \/ ApiFails(w) \/ Dies(w)
                              \/ Unbilled(w) \/ Unknown(w) \/ CallBreaks(w) \/ Works(w)
        \/ Serves \/ \E f \in requests : ActFails(f)
        \/ OrphanLapses \/ Lapses \/ Stop \/ Start
        \/ \E cap \in Caps, provider \in BOOLEAN : Patch(cap, provider)

Spec == Init /\ [][Next]_vars

(* A live task goes on and its remote calls return; a worker polls for due controllers;
   the clock takes a dead task's lease; the API answers or drops what was sent. *)
FairSpec == /\ Spec
            /\ \A w \in Workers : WF_vars(Works(w))
            /\ WF_vars(\E w \in Workers : Claim(w))
            /\ WF_vars(OrphanLapses) /\ WF_vars(Serves)

-----------------------------------------------------------------------------
CtlType == [desired : {"running", "paused"}, epoch : Nat, version : Nat,
            lease : {"none", "live", "lapsed"}, validate : BOOLEAN, spent : BOOLEAN, cap : Caps]
TurnType == [state : {"none"} \cup Pending \cup Closed, stage : BOOLEAN, epoch : Nat,
             version : Nat, bill : {"none", "held", "charged", "free"}, sent : Nat]
UsageType == [reserved : Nat, charged : Nat, tokensReserved : Nat, tokensCharged : Nat]
TaskType == [pc : {"idle", "provision", "staging", "play", "create", "reserve", "calling",
                   "settling", "marking", "persist", "submit", "sent", "failing", "spent"},
             epoch : Nat, version : Nat, turn : 0..MaxTurns, cap : Nat]

\* Every variable has its type.
TypeOK ==
    /\ ctl \in CtlType /\ turn \in [Turns -> TurnType] /\ seq \in 0..MaxTurns
    /\ usage \in UsageType /\ task \in [Workers -> TaskType]
    /\ requests \subseteq [turn : Turns, epoch : Nat, version : Nat]
    /\ acts \in [Turns -> Nat]
    /\ left \in [lapses : Nat, deaths : Nat, faults : Nat, orders : Nat]

Billed(bill) == {t \in Turns : turn[t].bill = bill}

(* The day's counters hold every call that was sent and not given back, once, although the
   settlement of a decision asks for no lease and clamps at zero, and although turns are
   superseded, abandoned and blocked while their call is under way. *)
EveryCallCounted ==
    /\ usage.reserved = Cardinality(Billed("held"))
    /\ usage.charged = Cardinality(Billed("charged"))
    /\ usage.tokensReserved = ReserveTokens * Cardinality(Billed("held"))

(* A call whose outcome nobody knows is never followed by another one before the operator
   has changed something: the comment "explicit operator resume is required" in
   begin_provider_stage_call and adopt_recoverable_turn. *)
UnknownNeedsOperator ==
    \A t, u \in Billed("held") : turn[t].sent = turn[u].sent => t = u

\* a settlement ends in this step, and with it the use of the limit it has read
Settles(w) == At(w, "settling") /\ ~At(w, "settling")'

(* No call takes what is used and reserved past the limits of the moment, whatever the
   operator has set them to, and no report beyond a reservation past the limit of the moment
   its settlement began: settle_daily_budget does not see what a PATCH sets while it waits. *)
WithinLimits ==
    [][/\ usage'.reserved + usage'.charged > usage.reserved + usage.charged
             => usage'.reserved + usage'.charged <= MaxCalls
       /\ usage'.tokensReserved + usage'.tokensCharged > usage.tokensReserved + usage.tokensCharged
             => \/ usage'.tokensReserved + usage'.tokensCharged <= ctl.cap
                \/ \E w \in Workers :
                      /\ Settles(w)
                      /\ usage'.tokensReserved + usage'.tokensCharged <= task[w].cap]_vars

(* What is over is over: a turn that was performed, failed or was stopped by its operator is
   not performed (again) by a request that arrives late or by the worker that adopts it. *)
ClosedStaysClosed ==
    [][\A t \in Turns : turn[t].state \in Closed
           => /\ turn'[t].state \in Closed /\ acts'[t] = acts[t]
              /\ turn'[t].state = "completed" => turn[t].state = "completed"]_vars

\* the controller waits for its operator or for tomorrow, or the bounded journal is full
Waits == ctl.desired = "paused" \/ ctl.spent \/ (ctl.validate /\ seq = MaxTurns)

(* A turn is not forgotten: unless the controller comes to wait, every turn that was begun
   is performed, failed or abandoned, whoever dies or loses the lease. *)
TurnsClose == \A t \in Turns : turn[t].state \in Pending ~> turn[t].state \in Closed \/ Waits

=============================================================================
