----------------------------- MODULE LabBroker -----------------------------
(* The tool calls of one protocol-v2 run: the rows lab/broker.py keeps of each
   (action, approval, the run's tool_calls budget of lab/budgets.py), the processes
   that drive them one after another under the run's fencing epoch (_V2Orchestrator of
   lab/orchestrator.py), the human who approves and the remote executor.

   An owner is named by its epoch: its owner_id is stable within a process, so a second
   attempt of the same process keeps it.  An owner that was taken over is fenced, but
   runs on until a check tells it so, on the copies its session holds
   (expire_on_commit=False).  A transaction on locked rows is one step; an unlocked
   read and the write that follows it are two.  The lease is LabLease, reduced to its
   epoch; the session and its events are kept only as far as they order the intents. *)
EXTENDS Integers, FiniteSets

CONSTANTS N,         \* intents of the runtime, one after another
          Asks,      \* those the policy asks a human about
          Declares,  \* those that declare outputs
          Limit,     \* limit_tool_calls
          MaxEpoch,  \* bound: takeovers
          MaxFaults  \* bound: owners that break, lose their lease or die
ASSUME BrokerAssumption == /\ N \in Nat \ {0} /\ Asks \subseteq 1..N /\ Declares \subseteq 1..N
                           /\ Limit \in Nat \ {0} /\ MaxEpoch \in Nat /\ MaxFaults \in Nat

VARIABLES epoch,   \* lab_run_leases.fencing_epoch
          grants,  \* epochs with a grant that is not revoked
          act,     \* lab_tool_actions: "parked" is reconciliation_required
          appr,    \* lab_approvals; "used" is consumed_at, "late" that expires_at has passed
          budget,  \* lab_run_budgets
          job,     \* the executor's job of an action and an epoch
          answer,  \* lab_runtime_results.outcome
          run,     \* lab_runs.status, while it is open or once it failed
          owner,   \* per epoch: where it is, its intent, and the status its copy has
          hist,    \* history: reservations taken, settlements made, actions a fenced owner wrote
          left     \* faults not yet met
vars == <<epoch, grants, act, appr, budget, job, answer, run, owner, hist, left>>

Intents == 1..N
Owners == 0..MaxEpoch
Ended == {"succeeded", "failed", "denied"}
Underway == {"executing", "parked"}

Init == /\ epoch = 0 /\ grants = {}
        /\ act = [i \in Intents |-> [status |-> "none", epoch |-> 0]]
        /\ appr = [i \in Intents |-> [decision |-> "none", epoch |-> 0, used |-> FALSE, late |-> FALSE]]
        /\ budget = [used |-> 0, reserved |-> 0]
        /\ job = [i \in Intents |-> [e \in Owners |-> "none"]]
        /\ answer = [i \in Intents |-> "none"]
        /\ run = "open"
        /\ owner = [e \in Owners |-> [pc |-> IF e = 0 THEN "entering" ELSE "away", i |-> 1, copy |-> "none"]]
        /\ hist = [held |-> {}, settled |-> [i \in Intents |-> 0], overtaken |-> {}]
        /\ left = MaxFaults

At(e, pc) == owner[e].pc = pc
My(e) == owner[e].i
Goes(e, pc) == owner' = [owner EXCEPT ![e].pc = pc]
Keeps(e, pc, status) == owner' = [owner EXCEPT ![e] = [pc |-> pc, i |-> @.i, copy |-> status]]
Leads(e) == e = epoch
Driving(e) == owner[e].pc \in {"idle", "asked", "refusing", "persisting", "recovering", "waiting",
                               "resolving", "ready", "denying", "claiming", "running", "settling",
                               "parking", "reconciling", "answering"}
Active(e) == e \in grants /\ Leads(e)

\* _handle_v2_intent: what to do with an action, by the status and the epoch it was read with
Then(e, status, at) == CASE status \in Underway -> "reconciling"
                          [] status \notin Underway /\ at # e -> "recovering"
                          [] status = "waiting" /\ at = e -> "waiting"
                          [] status = "approved" /\ at = e -> "ready"
                          [] status \in Ended /\ at = e -> "answering"
Holds(e, i) == Keeps(e, Then(e, act[i].status, act[i].epoch), act[i].status)

Denying(i) == act' = [act EXCEPT ![i].status = "denied"]
\* stage_action_settlement, and the history of who wrote
Wrote(e, i) == IF Leads(e) THEN hist.overtaken ELSE hist.overtaken \cup {i}
Settle(i, won, overtaken) ==
    /\ budget' = [used |-> budget.used + (IF won THEN 1 ELSE 0),
                  reserved |-> IF budget.reserved > 0 THEN budget.reserved - 1 ELSE 0]
    /\ hist' = [held |-> hist.held, settled |-> [hist.settled EXCEPT ![i] = @ + 1], overtaken |-> overtaken]

-----------------------------------------------------------------------------
(* An owner comes: acquire_lease, execute *)

\* the lease lapsed: of the owner before, nothing is known
TakeOver(e) ==
    /\ At(e, "away") /\ e = epoch + 1 /\ run = "open"
    /\ epoch' = e /\ Goes(e, "entering")
    /\ UNCHANGED <<grants, act, appr, budget, job, answer, run, hist, left>>

\* revoke_grants_before_epoch, then the session is bound under the live lease
Binds(e) ==
    /\ At(e, "entering")
    /\ grants' = {g \in grants : g >= e}
    /\ Goes(e, IF Leads(e) THEN "bound" ELSE "gone")
    /\ UNCHANGED <<epoch, act, appr, budget, job, answer, run, hist, left>>

\* revoke_run_grants
Revokes(e) ==
    /\ At(e, "bound")
    /\ grants' = {}
    /\ Goes(e, "issuing")
    /\ UNCHANGED <<epoch, act, appr, budget, job, answer, run, hist, left>>

Issues(e) ==
    /\ At(e, "issuing")
    /\ grants' = grants \cup {e}
    /\ Goes(e, "idle")
    /\ UNCHANGED <<epoch, act, appr, budget, job, answer, run, hist, left>>

\* commit_runtime_event: the next intent, under the live lease
Commits(e) ==
    /\ At(e, "idle")
    /\ \E i \in Intents :
         /\ answer[i] = "none" /\ \A k \in 1..(i - 1) : answer[k] # "none"
         /\ owner' = [owner EXCEPT ![e] = [pc |-> IF Leads(e) THEN "asked" ELSE "gone",
                                          i |-> i, copy |-> "none"]]
    /\ UNCHANGED <<epoch, grants, act, appr, budget, job, answer, run, hist, left>>

-----------------------------------------------------------------------------
(* Asking: request_action *)

\* the row of its idempotency key, or the checks of grant and epoch
Looks(e) ==
    /\ At(e, "asked")
    /\ IF act[My(e)].status # "none" THEN Holds(e, My(e))
       ELSE Goes(e, IF Active(e) THEN "persisting" ELSE "refusing")
    /\ UNCHANGED <<epoch, grants, act, appr, budget, job, answer, run, hist, left>>

Refuses(e) ==
    /\ At(e, "refusing")
    /\ LET i == My(e) IN
       IF act[i].status # "none" THEN Holds(e, i) /\ UNCHANGED act
       ELSE /\ act' = [act EXCEPT ![i] = [status |-> "denied", epoch |-> e]]
            /\ Keeps(e, "answering", "denied")
    /\ UNCHANGED <<epoch, grants, appr, budget, job, answer, run, hist, left>>

\* reservation, action and approval in one transaction, or the row that was first
Persists(e) ==
    /\ At(e, "persisting")
    /\ LET i == My(e)
           status == IF i \in Asks THEN "waiting" ELSE "approved"
       IN
       \/ /\ act[i].status # "none"
          /\ Holds(e, i)
          /\ UNCHANGED <<act, appr, budget, hist>>
       \/ /\ act[i].status = "none" /\ budget.used + budget.reserved < Limit
          /\ budget' = [budget EXCEPT !.reserved = @ + 1]
          /\ act' = [act EXCEPT ![i] = [status |-> status, epoch |-> e]]
          /\ appr' = IF i \in Asks
                     THEN [appr EXCEPT ![i].decision = "pending", ![i].epoch = e] ELSE appr
          /\ Keeps(e, Then(e, status, e), status)
          /\ hist' = [hist EXCEPT !.held = @ \cup {i}]
    /\ UNCHANGED <<epoch, grants, job, answer, run, left>>

\* the budget is exhausted: a denied row, every grant of the run revoked, the run fails
Exhausts(e) ==
    /\ At(e, "persisting") /\ act[My(e)].status = "none"
    /\ budget.used + budget.reserved >= Limit
    /\ act' = [act EXCEPT ![My(e)] = [status |-> "denied", epoch |-> e]]
    /\ grants' = {}
    /\ Goes(e, "failing")
    /\ UNCHANGED <<epoch, appr, budget, job, answer, run, hist, left>>

\* recover_action_authority: the row is locked, the grant was checked before the epoch
Recovers(e) ==
    /\ At(e, "recovering")
    /\ LET i == My(e)
           adopts == act[i].status \in {"waiting", "approved"} /\ act[i].epoch < e
           bound == i \in Asks => /\ appr[i].epoch = act[i].epoch
                                  /\ appr[i].decision \in {"pending", "approved"}
       IN
       IF ~Active(e) THEN Goes(e, IF e \in grants THEN "gone" ELSE "breaking") /\ UNCHANGED <<act, appr>>
       ELSE IF adopts /\ bound
       THEN /\ act' = [act EXCEPT ![i].epoch = e]
            /\ appr' = IF i \in Asks THEN [appr EXCEPT ![i].epoch = e] ELSE appr
            /\ Keeps(e, Then(e, act[i].status, e), act[i].status)
       ELSE /\ IF act[i].status \in Ended \cup {"parked"}
               THEN Keeps(e, "answering", act[i].status) ELSE Goes(e, "failing")
            /\ UNCHANGED <<act, appr>>
    /\ UNCHANGED <<epoch, grants, budget, job, answer, run, hist, left>>

-----------------------------------------------------------------------------
(* A human decides, or the time to decide passes *)

\* _decide_approval
Decides(i) ==
    /\ appr[i].decision = "pending" /\ act[i].status = "waiting" /\ appr[i].epoch = act[i].epoch
    /\ \E says \in {"approved", "denied"} :
         LET decision == IF appr[i].late THEN "expired" ELSE says IN
         /\ appr' = [appr EXCEPT ![i].decision = decision]
         /\ IF decision = "approved"
            THEN act' = [act EXCEPT ![i].status = "approved"] /\ UNCHANGED <<budget, hist>>
            ELSE Denying(i) /\ Settle(i, FALSE, hist.overtaken)
    /\ UNCHANGED <<epoch, grants, job, answer, run, owner, left>>

Elapses(i) ==
    /\ appr[i].decision \in {"pending", "approved"} /\ ~appr[i].late
    /\ appr' = [appr EXCEPT ![i].late = TRUE]
    /\ UNCHANGED <<epoch, grants, act, budget, job, answer, run, owner, hist, left>>

\* Mutant: the poll waits for a decision without a deadline
MutDue(i) == appr[i].decision # "pending"

\* a decision to wait for no longer, or none will come in time
Due(i) == appr[i].decision # "pending" \/ appr[i].late

\* _await_approval ends; its event is refused to a fenced owner
Awaits(e) ==
    /\ At(e, "waiting") /\ Due(My(e))
    /\ Goes(e, IF Leads(e) THEN "resolving" ELSE "gone")
    /\ UNCHANGED <<epoch, grants, act, appr, budget, job, answer, run, hist, left>>

\* Mutant: an action denied because its time was over is denied, and settled, again
MutPending(i) == act[i].status \in {"waiting", "denied"}

Pending(i) == act[i].status = "waiting"

\* the action re-read, and expire_pending_approval on the locked rows, for its own epoch
Resolves(e) ==
    /\ At(e, "resolving")
    /\ LET i == My(e) IN
       \/ /\ ~Pending(i)
          /\ Keeps(e, IF act[i].status = "approved" THEN "ready" ELSE "answering", act[i].status)
          /\ UNCHANGED <<act, appr, budget, hist>>
       \/ /\ Pending(i) /\ act[i].epoch # e
          /\ Goes(e, "breaking")
          /\ UNCHANGED <<act, appr, budget, hist>>
       \/ /\ Pending(i) /\ act[i].epoch = e
          /\ appr' = [appr EXCEPT ![i].decision = "expired"]
          /\ Denying(i) /\ Settle(i, FALSE, Wrote(e, i))
          /\ Keeps(e, "answering", "denied")
    /\ UNCHANGED <<epoch, grants, job, answer, run, left>>

-----------------------------------------------------------------------------
(* execute_action, on the copy of the action that says "approved" *)

\* grant and epoch; the clock is read here, once
Checks(e) ==
    /\ At(e, "ready")
    /\ IF Active(e) THEN Keeps(e, "claiming", IF appr[My(e)].late THEN "late" ELSE "approved")
       ELSE Goes(e, "denying")
    /\ UNCHANGED <<epoch, grants, act, appr, budget, job, answer, run, hist, left>>

\* _deny_now: the action by primary key, its approval under a lock
Denies(e) ==
    /\ At(e, "denying")
    /\ LET i == My(e) IN
       /\ Denying(i)
       /\ appr' = IF i \in Asks /\ ~appr[i].used THEN [appr EXCEPT ![i].decision = "denied"] ELSE appr
       /\ Settle(i, FALSE, Wrote(e, i))
    /\ Keeps(e, "answering", "denied")
    /\ UNCHANGED <<epoch, grants, job, answer, run, left>>

Late(e) == owner[e].copy = "late"
Approved(i) == appr[i].decision = "approved"
Consumable(e, i) == Approved(i) /\ ~appr[i].used /\ ~Late(e) /\ appr[i].epoch = e
Claimable(e, i) == act[i].status = "approved" /\ act[i].epoch = e

\* the approval consumed, the action claimed, the job's target registered under the live
\* lease (prepare): one transaction, rolled back as a whole
Claims(e) ==
    /\ At(e, "claiming")
    /\ LET i == My(e) IN
       /\ i \in Asks => Consumable(e, i)
       /\ Claimable(e, i) /\ Leads(e)
       /\ act' = [act EXCEPT ![i].status = "executing"]
       /\ appr' = IF i \in Asks THEN [appr EXCEPT ![i].used = TRUE] ELSE appr
    /\ Goes(e, "running")
    /\ UNCHANGED <<epoch, grants, budget, job, answer, run, hist, left>>

\* found after an approval could not be consumed: its time is over by now
LateNow(e, i) == /\ Approved(i) /\ ~Late(e) /\ ~Consumable(e, i)
                 /\ ~appr[i].used /\ appr[i].late /\ act[i].status = "approved"

\* the approval has expired: denied by primary key, and the run fails
Expires(e) ==
    /\ At(e, "claiming")
    /\ LET i == My(e) IN
       /\ i \in Asks
       /\ appr[i].decision = "expired" \/ (Approved(i) /\ Late(e)) \/ LateNow(e, i)
       /\ appr' = [appr EXCEPT ![i].decision = "expired"]
       /\ Denying(i)
       /\ Settle(i, FALSE, Wrote(e, i))
    /\ Goes(e, "failing")
    /\ UNCHANGED <<epoch, grants, job, answer, run, left>>

NotClaimed(e) ==
    /\ At(e, "claiming")
    /\ LET i == My(e) IN
       \/ /\ i \in Asks /\ appr[i].decision = "denied" /\ Goes(e, "denying")
       \/ /\ i \in Asks
          /\ \/ appr[i].decision = "pending"
             \/ Approved(i) /\ ~Late(e) /\ ~Consumable(e, i) /\ ~LateNow(e, i)
          /\ Goes(e, "failing")
       \/ /\ i \in Asks => Consumable(e, i)
          /\ ~Claimable(e, i)
          /\ IF act[i].status \in Ended \cup {"parked"}
             THEN Keeps(e, "answering", act[i].status) ELSE Goes(e, "failing")
       \/ /\ i \in Asks => Consumable(e, i)
          /\ Claimable(e, i) /\ ~Leads(e) /\ Goes(e, "gone")
    /\ UNCHANGED <<epoch, grants, act, appr, budget, job, answer, run, hist, left>>

-----------------------------------------------------------------------------
(* The executor *)

\* Mutant: the job is looked for, and submitted again, under the reconciling owner's epoch
MutJobEpoch(e, i) == e

\* the job is that of the command persisted with the claim: its epoch is the action's
JobEpoch(e, i) == act[i].epoch

\* submitted, or found not to have been
Submits(e) ==
    /\ At(e, "running") \/ At(e, "reconciling")
    /\ LET i == My(e)
           of == IF At(e, "running") THEN e ELSE JobEpoch(e, i)
       IN job[i][of] = "none" /\ job' = [job EXCEPT ![i][of] = "running"]
    /\ UNCHANGED <<epoch, grants, act, appr, budget, answer, run, owner, hist, left>>

JobEnds(i, e) ==
    /\ job[i][e] = "running"
    /\ \E end \in {"succeeded", "failed", "unknown"} : job' = [job EXCEPT ![i][e] = end]
    /\ UNCHANGED <<epoch, grants, act, appr, budget, answer, run, owner, hist, left>>

\* Mutant: a job whose outcome nobody knows counts as one that failed
MutOutcomes(e, i, of) ==
    CASE job[i][of] \in {"failed", "unknown"} -> {"failed"}
      [] job[i][of] = "succeeded" -> {"succeeded"}
      [] OTHER -> {}

\* _apply_executor_outputs: outputs are applied under the live lease, or refused
Outcomes(e, i, of) ==
    CASE job[i][of] = "failed" -> IF i \in Declares /\ ~Leads(e) THEN {} ELSE {"failed"}
      [] job[i][of] = "succeeded" -> IF i \notin Declares THEN {"succeeded"}
                                     ELSE IF Leads(e) THEN {"succeeded", "failed"} ELSE {}
      [] OTHER -> {}

Learns(e) ==
    /\ At(e, "running")
    /\ \E outcome \in Outcomes(e, My(e), e) : Keeps(e, "settling", outcome)
    /\ UNCHANGED <<epoch, grants, act, appr, budget, job, answer, run, hist, left>>

\* the status by primary key, and the settlement: the owner's authority is not asked for
Settles(e) ==
    /\ At(e, "settling")
    /\ LET i == My(e) IN
       /\ act' = [act EXCEPT ![i].status = owner[e].copy]
       /\ Settle(i, owner[e].copy = "succeeded", Wrote(e, i))
    /\ Goes(e, "answering")
    /\ UNCHANGED <<epoch, grants, appr, job, answer, run, left>>

\* UncertainOutcome: a call failed, the deadline passed, or the outputs could not be applied
Doubts(e) ==
    /\ At(e, "running")
    /\ Goes(e, IF act[My(e)].status \in Underway THEN "parking" ELSE "failing")
    /\ UNCHANGED <<epoch, grants, act, appr, budget, job, answer, run, hist, left>>

Parks(e) ==
    /\ At(e, "parking")
    /\ act' = [act EXCEPT ![My(e)].status = "parked"]
    /\ hist' = [hist EXCEPT !.overtaken = Wrote(e, My(e))]
    /\ Keeps(e, "answering", "parked")
    /\ UNCHANGED <<epoch, grants, appr, budget, job, answer, run, left>>

\* settle_reconciled_action: nothing is asked of the owner's authority here either
Reconciles(e) ==
    /\ At(e, "reconciling")
    /\ LET i == My(e) IN
       \E outcome \in Outcomes(e, i, JobEpoch(e, i)) :
         \/ /\ act[i].status \in Underway
            /\ act' = [act EXCEPT ![i].status = outcome]
            /\ Settle(i, outcome = "succeeded", Wrote(e, i))
            /\ Keeps(e, Then(e, outcome, act[i].epoch), outcome)
         \/ /\ act[i].status = outcome
            /\ Keeps(e, Then(e, outcome, act[i].epoch), outcome)
            /\ UNCHANGED <<act, budget, hist>>
         \/ /\ act[i].status \notin Underway \cup {outcome}
            /\ Goes(e, "failing")
            /\ UNCHANGED <<act, budget, hist>>
    /\ UNCHANGED <<epoch, grants, appr, job, answer, run, left>>

\* park_reconciled_action, and round again
ParksAgain(e) ==
    /\ At(e, "reconciling")
    /\ IF act[My(e)].status = "executing"
       THEN /\ act' = [act EXCEPT ![My(e)].status = "parked"]
            /\ hist' = [hist EXCEPT !.overtaken = Wrote(e, My(e))]
            /\ UNCHANGED owner
       ELSE /\ act[My(e)].status # "parked" /\ Goes(e, "failing")
            /\ UNCHANGED <<act, hist>>
    /\ UNCHANGED <<epoch, grants, appr, budget, job, answer, run, left>>

\* the wall clock's budget is spent
RunsOut(e) ==
    /\ At(e, "reconciling")
    /\ Goes(e, "failing")
    /\ UNCHANGED <<epoch, grants, act, appr, budget, job, answer, run, hist, left>>

-----------------------------------------------------------------------------
(* The end of an intent, of an owner and of the run *)

\* persist_runtime_result, under the live lease
Answers(e) ==
    /\ At(e, "answering")
    /\ IF Leads(e) /\ owner[e].copy \in Ended
       THEN answer' = [answer EXCEPT ![My(e)] = owner[e].copy] /\ Goes(e, "idle")
       ELSE Goes(e, "failing") /\ UNCHANGED answer
    /\ UNCHANGED <<epoch, grants, act, appr, budget, job, run, hist, left>>

\* _fail: the epoch is asserted, the run is failed by primary key, the grants are revoked
Fails(e) ==
    /\ At(e, "failing")
    /\ Goes(e, IF Leads(e) THEN "failed" ELSE "gone")
    /\ UNCHANGED <<epoch, grants, act, appr, budget, job, answer, run, hist, left>>

FailsRun(e) ==
    /\ At(e, "failed")
    /\ run' = "failed"
    /\ grants' = IF Leads(e) THEN {} ELSE grants
    /\ Goes(e, "gone")
    /\ UNCHANGED <<epoch, act, appr, budget, job, answer, hist, left>>

\* an error nobody expects: the finally of execute revokes the run's grants, unless a
\* heartbeat has already found the owner fenced; its process may take the run up again
Breaks(e) ==
    /\ At(e, "breaking")
    /\ \/ grants' = {} /\ Goes(e, "left")
       \/ ~Leads(e) /\ Goes(e, "gone") /\ UNCHANGED grants
    /\ UNCHANGED <<epoch, act, appr, budget, job, answer, run, hist, left>>

Reenters(e) ==
    /\ At(e, "left") /\ Leads(e) /\ run = "open"
    /\ Goes(e, "entering")
    /\ UNCHANGED <<epoch, grants, act, appr, budget, job, answer, run, hist, left>>

Working(e) == ~(At(e, "away") \/ At(e, "left") \/ At(e, "gone"))

Faulted(e, pc) ==
    /\ Working(e) /\ left > 0 /\ left' = left - 1
    /\ Goes(e, pc)
    /\ UNCHANGED <<epoch, grants, act, appr, budget, job, answer, run, hist>>
Errs(e) == Faulted(e, "breaking")
\* the bounded wait of _drive_runtime_v2_bounded is over, wherever it is, or the lease lapsed
TimesOut(e) == Driving(e) /\ Faulted(e, "failing")
Dies(e) == e < MaxEpoch /\ Faulted(e, "gone")

OwnerNext(e) == \/ Binds(e) \/ Revokes(e) \/ Issues(e) \/ Commits(e)
                \/ Looks(e) \/ Refuses(e) \/ Persists(e) \/ Exhausts(e) \/ Recovers(e) \/ Awaits(e) \/ Resolves(e)
                \/ Checks(e) \/ Denies(e) \/ Claims(e) \/ Expires(e) \/ NotClaimed(e)
                \/ Submits(e) \/ Learns(e) \/ Settles(e) \/ Doubts(e) \/ Parks(e)
                \/ Reconciles(e) \/ ParksAgain(e)
                \/ Answers(e) \/ Fails(e) \/ FailsRun(e) \/ Breaks(e) \/ Reenters(e)

Next == \/ \E e \in Owners : OwnerNext(e) \/ TakeOver(e) \/ RunsOut(e)
                               \/ Errs(e) \/ TimesOut(e) \/ Dies(e)
        \/ \E i \in Intents : Decides(i) \/ Elapses(i)
        \/ \E i \in Intents, e \in Owners : JobEnds(i, e)

Spec == Init /\ [][Next]_vars

\* A process goes on; a runner takes up a run whose lease has lapsed; time passes and the
\* executor ends its jobs.  Nothing is assumed of the human.
FairSpec == /\ Spec
            /\ \A e \in Owners : WF_vars(OwnerNext(e)) /\ WF_vars(TakeOver(e)) /\ WF_vars(RunsOut(e))
            /\ \A i \in Intents : WF_vars(Elapses(i))
            /\ \A i \in Intents, e \in Owners : WF_vars(JobEnds(i, e))

-----------------------------------------------------------------------------
(* What must hold *)

Statuses == {"none", "waiting", "approved"} \cup Underway \cup Ended
Places == {"away", "entering", "bound", "issuing", "idle", "asked", "refusing", "persisting",
           "recovering", "waiting", "resolving", "ready", "denying", "claiming", "running", "settling",
           "parking", "reconciling", "answering", "failing", "failed", "breaking", "left", "gone"}
ActType == [status : Statuses, epoch : Owners]
ApprType == [decision : {"none", "pending", "approved", "denied", "expired"},
             epoch : Owners, used : BOOLEAN, late : BOOLEAN]
OwnerType == [pc : Places, i : Intents, copy : Statuses \cup {"late"}]
HistType == [held : SUBSET Intents, settled : [Intents -> Nat], overtaken : SUBSET Intents]

TypeOK == /\ epoch \in Owners /\ grants \subseteq Owners
          /\ act \in [Intents -> ActType] /\ appr \in [Intents -> ApprType]
          /\ budget \in [used : Nat, reserved : Nat]
          /\ job \in [Intents -> [Owners -> {"none", "running", "succeeded", "failed", "unknown"}]]
          /\ answer \in [Intents -> {"none"} \cup Ended] /\ run \in {"open", "failed"}
          /\ owner \in [Owners -> OwnerType] /\ hist \in HistType /\ left \in 0..MaxFaults

Started(i) == {e \in Owners : job[i][e] # "none"}

\* An effect is started once, whoever takes the run over, resubmits or reconciles, and one a
\* human is asked about only when the approval was consumed; nobody denies it afterwards
\* (execute_action: "exactly one caller can win").
OneApprovedEffect ==
    \A i \in Intents :
       /\ Cardinality(Started(i)) <= 1
       /\ i \in Asks /\ Started(i) # {} => appr[i].used /\ appr[i].decision \notin {"pending", "denied"}

\* The counters are the reservations not settled and the calls that succeeded, however many
\* decide, expire, deny, settle and reconcile, although a settlement clamps at zero
\* (budgets.py:266).  Only a fenced owner that still settles what it had begun upsets them.
BooksAddUp ==
    hist.overtaken = {} =>
       /\ \A i \in Intents : hist.settled[i] <= 1
       /\ budget.reserved = Cardinality({i \in hist.held : hist.settled[i] = 0})
       /\ budget.used = Cardinality({i \in Intents : act[i].status = "succeeded"})

\* What the runtime is told happened is what happened: a denied call did nothing, a
\* succeeded one succeeded, a failed one is known to have ended, and the action never says
\* otherwise later (_runtime_outcome).  A fenced owner's write is again the exception.
AnswersTrue ==
    \A i \in Intents \ hist.overtaken :
       /\ answer[i] = "denied" => Started(i) = {}
       /\ answer[i] = "succeeded" => \E e \in Started(i) : job[i][e] = "succeeded"
       /\ answer[i] = "failed" => \E e \in Started(i) : job[i][e] \in {"failed", "succeeded"}
       /\ answer[i] # "none" => act[i].status = answer[i]

\* Every intent is answered or the run fails, whoever dies, whatever the executor says and
\* whether or not a human ever decides.
IntentsEnd == <>(run = "failed" \/ \A i \in Intents : answer[i] # "none")

\* The owner of the run has its grant while it works, which does NOT hold: an owner that was
\* taken over revokes every grant of the run, the new owner's too (orchestrator.py:2087).
GrantKept == owner[epoch].pc \in {"idle", "asked", "persisting", "recovering", "ready", "claiming"}
             => epoch \in grants
=============================================================================
