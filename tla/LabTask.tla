------------------------------ MODULE LabTask -------------------------------
(* One Lab commission from funding to the end of its escrow (v1 cohort):
   services/lab_task_service.py, services/lab_terminalization_service.py,
   lab/terminalizer.py, and the two consumers of its run, lab/runner.py (the legacy
   path, the default) and lab/orchestrator.py (the control plane).

   Every request and worker has a database session of its own, which remembers the
   task as it was first read (expire_on_commit=False): proc keeps the part of that
   copy the code uses later.  A transaction that locks the rows it decides on is one
   step.  Deadlines and heartbeats are abstract: a scheduled pass may come at any
   time.  The run's lease is LabLease, reduced to its epoch. *)
EXTENDS Integers, FiniteSets

CONSTANTS Starters,    \* who may start a run: create_task, and dispatch_open_tasks
          Creator,     \* the Starter that is create_task
          Attempts,    \* deliveries of a run from the queue
          Requests,    \* calls served concurrently: players, admins, nightly passes
          Path,        \* lab_agent_v1_enabled: "legacy" or "control_plane"
          Overlap,     \* which calls the environment lets overlap: "start", "reject"
          Calls,       \* bound: the operations the requests ask for
          MaxEpoch,    \* bound: fencing epochs; a takeover needs 2, a refund the last
          Budgets,     \* bound: how often each of Events may happen; negative: no bound
          MaxTries,    \* MAX_COMMAND_ATTEMPTS
          NoRun, NoLease

ASSUME StarterAssumption == Creator \in Starters /\ NoRun \notin Starters
ASSUME ProcAssumption == Starters \cap (Attempts \cup Requests) = {} /\ Attempts \cap Requests = {}
ASSUME PathAssumption == Path \in {"legacy", "control_plane"} /\ Overlap \subseteq {"start", "reject"}
ASSUME CallAssumption == Calls \subseteq {"accept", "auto_release", "arbitrate_settle",
                                         "cancel", "expire", "arbitrate_refund"}
ASSUME NumberAssumption == MaxEpoch \in Nat /\ MaxTries \in Nat \ {0} /\ NoLease \notin Nat

\* What happens only so often: a transient error of the worker, an orphan sweep, a lapsed
\* lease taken over, a pass of the dispatcher, an exception of the adapter or the database,
\* what a player or an admin asks for
Events == {"retry", "sweep", "takeover", "dispatch", "break", "ask"}
ASSUME BudgetAssumption == Budgets \subseteq [Events -> Int]

VARIABLES task,    \* the lab_tasks row
          hold,    \* coin_holds.status
          run,     \* lab_runs.status, by the starter that created the run
          lease,   \* lab_run_leases.fencing_epoch
          cmd,     \* lab_terminalization_commands
          proc,    \* starters, attempts and requests: where each is and what it read
          spare    \* what is left of the budget

vars == <<task, hold, run, lease, cmd, proc, spare>>

Procs == Starters \cup Attempts \cup Requests
Epochs == 0..MaxEpoch
ActiveRun == {"queued", "running"}     \* needs_approval is part of running
Terminal == {"completed", "cancelled", "failed", "expired"}

-----------------------------------------------------------------------------
(* SETTLEMENT_OPERATIONS and REFUND_OPERATIONS *)
Settlements == {"accept", "auto_release", "arbitrate_settle"}
Refunds == {"cancel", "fail", "expire", "arbitrate_refund"}
Ops == Settlements \cup Refunds
Scheduled == {"expire", "auto_release"}     \* what expire_lab_tasks asks for, every night

\* Mutant: a task that was assigned but never started cannot be expired
MutExpected(op) == CASE op \in {"accept", "auto_release"} -> {"review"}
                     [] op \in {"arbitrate_settle", "arbitrate_refund"} -> {"rejected"}
                     [] op = "cancel" -> {"funded", "assigned", "running"}
                     [] op = "expire" -> {"funded", "running"}
                     [] op = "fail" -> {"assigned", "running"}

Expected(op) == CASE op \in {"accept", "auto_release"} -> {"review"}
                  [] op \in {"arbitrate_settle", "arbitrate_refund"} -> {"rejected"}
                  [] op \in {"cancel", "expire"} -> {"funded", "assigned", "running"}
                  [] op = "fail" -> {"assigned", "running"}

Target(op) == CASE op \in Settlements -> "completed"
                [] op \in {"cancel", "arbitrate_refund"} -> "cancelled"
                [] op = "fail" -> "failed"
                [] op = "expire" -> "expired"

Keys == [op : Ops, epoch : Epochs]

At(pc, op, r, epoch) == [pc |-> pc, op |-> op, run |-> r, epoch |-> epoch]
Idle == At("idle", "none", NoRun, 0)
Over == At("done", "none", NoRun, 0)
Goes(p, x) == proc' = [proc EXCEPT ![p] = x]
Moves(p, pc) == Goes(p, At(pc, proc[p].op, proc[p].run, proc[p].epoch))
In(p, pcs) == proc[p].pc \in pcs
Marks(k, status, tries) == cmd' = [cmd EXCEPT ![k] = [status |-> status, tries |-> tries]]

\* create_task committed: the task, its hold and the debit, in one transaction
Init == /\ task = [status |-> "funded", run |-> NoRun, rejects |-> 0]
        /\ hold = "held"
        /\ run = [s \in Starters |-> "none"]
        /\ lease = [s \in Starters |-> NoLease]
        /\ cmd = [k \in Keys |-> [status |-> "none", tries |-> 0]]
        /\ proc = [p \in Procs |-> IF p = Creator THEN At("picking", "none", NoRun, 0) ELSE Idle]
        /\ spare \in Budgets

Spend(event) == /\ spare[event] # 0
                /\ spare' = [spare EXCEPT ![event] = IF @ > 0 THEN @ - 1 ELSE @]

Epoch(r) == IF r = NoRun \/ lease[r] = NoLease THEN 0 ELSE lease[r]
Runs == {s \in Starters : run[s] # "none"}

\* the environment: does a call on the task wait for its creation to return?
Starting == \E s \in Starters : In(s, {"picking", "starting"})
Serving == \E q \in Requests : ~In(q, {"idle"})
Promised == \E k \in Keys : cmd[k].status = "pending"

-----------------------------------------------------------------------------
(* Starting a run: _assign_and_start, dispatch_open_tasks, _start_run *)

DispatchRead(s) ==
    /\ In(s, {"idle"}) /\ task.status = "funded"
    /\ "start" \in Overlap \/ ~(Starting \/ Serving \/ Promised)
    /\ Moves(s, "picking")
    /\ Spend("dispatch")
    /\ UNCHANGED <<task, hold, run, lease, cmd>>

\* a researcher is idle: task.status is written by primary key
Assign(s) ==
    /\ In(s, {"picking"})
    /\ task' = [task EXCEPT !.status = "assigned"]
    /\ Moves(s, "starting")
    /\ UNCHANGED <<hold, run, lease, cmd, spare>>

\* no researcher is: create_task leaves the task funded, for the dispatcher
NobodyIdle(s) ==
    /\ In(s, {"picking"})
    /\ Goes(s, IF s = Creator THEN Over ELSE Idle)
    /\ UNCHANGED <<task, hold, run, lease, cmd, spare>>

\* the run, accepted_run_id and the enqueue event, in one transaction
StartRun(s) ==
    /\ In(s, {"starting"})
    /\ run' = [run EXCEPT ![s] = "queued"]
    /\ task' = [task EXCEPT !.run = s]
    /\ Goes(s, Over)
    /\ UNCHANGED <<hold, lease, cmd, spare>>

StarterDies(s) ==
    /\ In(s, {"picking", "starting"})
    /\ Goes(s, Over)
    /\ UNCHANGED <<task, hold, run, lease, cmd, spare>>

-----------------------------------------------------------------------------
(* Executing a run *)

Mine(a) == proc[a].run
Enter(a, pc, epoch) == Goes(a, At(pc, "none", Mine(a), epoch))

\* run_one: the run is queued
Pick(a, r) ==
    /\ In(a, {"idle"}) /\ run[r] = "queued"
    /\ Goes(a, At(IF Path = "legacy" THEN "opening" ELSE "acquiring", "none", r, 0))
    /\ UNCHANGED <<task, hold, run, lease, cmd, spare>>

\* acquire_lease: a new row, or a lapsed one taken over
Acquire(a) ==
    /\ In(a, {"acquiring"})
    /\ lease[Mine(a)] # NoLease => lease[Mine(a)] + 1 < MaxEpoch     \* bound: the last is a refund's
    /\ IF lease[Mine(a)] = NoLease THEN UNCHANGED spare ELSE Spend("takeover")
    /\ LET epoch == IF lease[Mine(a)] = NoLease THEN 0 ELSE lease[Mine(a)] + 1
       IN  lease' = [lease EXCEPT ![Mine(a)] = epoch] /\ Enter(a, "opening", epoch)
    /\ UNCHANGED <<task, hold, run, cmd>>

\* held by another owner
NotAcquired(a) ==
    /\ In(a, {"acquiring"}) /\ lease[Mine(a)] # NoLease
    /\ Goes(a, Over)
    /\ UNCHANGED <<task, hold, run, lease, cmd, spare>>

\* legacy: both rows are claimed with compare-and-set
OpenLegacy(a) ==
    /\ Path = "legacy" /\ In(a, {"opening"})
    /\ run[Mine(a)] = "queued" /\ task.status = "assigned"
    /\ run' = [run EXCEPT ![Mine(a)] = "running"]
    /\ task' = [task EXCEPT !.status = "running"]
    /\ Enter(a, "working", Epoch(Mine(a)))
    /\ UNCHANGED <<hold, lease, cmd, spare>>

OpenLost(a) ==
    /\ Path = "legacy" /\ In(a, {"opening"})
    /\ ~(run[Mine(a)] = "queued" /\ task.status = "assigned")
    /\ Goes(a, Over)
    /\ UNCHANGED <<task, hold, run, lease, cmd, spare>>

\* control plane: both rows are written by primary key
OpenControlPlane(a) ==
    /\ Path = "control_plane" /\ In(a, {"opening"})
    /\ run' = [run EXCEPT ![Mine(a)] = "running"]
    /\ task' = [task EXCEPT !.status = "running"]
    /\ Enter(a, "working", proc[a].epoch)
    /\ UNCHANGED <<hold, lease, cmd, spare>>

\* _assert_legacy_run_active, or the epoch of assert_epoch
Authority(a) ==
    /\ Epoch(Mine(a)) = proc[a].epoch
    /\ Path = "legacy" => run[Mine(a)] = "running" /\ task.status = "running"

Finish(a) ==
    /\ In(a, {"working"}) /\ Authority(a)
    /\ Moves(a, "finishing")
    /\ UNCHANGED <<task, hold, run, lease, cmd, spare>>

Stopped(a) ==
    /\ In(a, {"working"}) /\ ~Authority(a)
    /\ Goes(a, Over)
    /\ UNCHANGED <<task, hold, run, lease, cmd, spare>>

\* Mutant: mark_review writes the task it has, without a compare-and-set
MutReviewable(a) == TRUE

\* mark_review's compare-and-set, and in the legacy path the run's in the same transaction
Reviewable(a) == /\ task.status \in {"assigned", "running"}
                 /\ Path = "legacy" => run[Mine(a)] = "running"

Review(a) ==
    /\ In(a, {"finishing"}) /\ Reviewable(a)
    /\ task' = [task EXCEPT !.status = "review", !.run = Mine(a)]
    /\ IF Path = "legacy"
       THEN run' = [run EXCEPT ![Mine(a)] = "succeeded"] /\ Goes(a, Over)
       ELSE UNCHANGED run /\ Moves(a, "reviewed")
    /\ UNCHANGED <<hold, lease, cmd, spare>>

ReviewLost(a) ==
    /\ In(a, {"finishing"}) /\ ~Reviewable(a)
    /\ Goes(a, Over)
    /\ UNCHANGED <<task, hold, run, lease, cmd, spare>>

\* control plane: the run's success is a second transaction, and run.completed comes after
Succeeds(a) ==
    /\ In(a, {"reviewed"})
    /\ run' = [run EXCEPT ![Mine(a)] = "succeeded"]
    /\ Goes(a, Over) \/ Moves(a, "completing")
    /\ UNCHANGED <<task, hold, lease, cmd, spare>>

\* any exception of the adapter or the database
Breaks(a) ==
    /\ In(a, {"working", "finishing", "reviewed", "completing"})
    /\ IF ~Authority(a) THEN Goes(a, Over)
       ELSE Moves(a, IF In(a, {"working", "finishing"}) THEN "failing" ELSE "undoing")
    /\ Spend("break")
    /\ UNCHANGED <<task, hold, run, lease, cmd>>

\* fail_task and the terminal operations begin with the task as the session knows it
Reads(p, op) == Goes(p, At("read", op, task.run, 0))

\* legacy: compare-and-set, and the task is refreshed; control plane: by primary key,
\* and the task is the session's own copy, running unless this attempt delivered it
MarkFailed(a) ==
    /\ In(a, {"failing", "undoing"})
    /\ IF Path = "legacy"
       THEN IF run[Mine(a)] = "running"
            THEN /\ run' = [run EXCEPT ![Mine(a)] = "failed"]
                 /\ IF task.status \in Expected("fail") THEN Reads(a, "fail") ELSE Goes(a, Over)
            ELSE UNCHANGED run /\ Goes(a, Over)
       ELSE run' = [run EXCEPT ![Mine(a)] = "failed"]
            /\ IF In(a, {"undoing"}) THEN Goes(a, Over) ELSE Moves(a, "emitting")
    /\ UNCHANGED <<task, hold, lease, cmd, spare>>

\* control plane: run.failed is appended, unless the attempt is fenced
EmitFailed(a) ==
    /\ In(a, {"emitting"})
    /\ IF Authority(a) THEN Reads(a, "fail") ELSE Goes(a, Over)
    /\ UNCHANGED <<task, hold, run, lease, cmd, spare>>

AttemptDies(a) ==
    /\ ~In(a, {"idle", "done"})
    /\ Goes(a, Over)
    /\ UNCHANGED <<task, hold, run, lease, cmd, spare>>

-----------------------------------------------------------------------------
(* Calls on the task: cancel_task, accept_result, arbitrate_result, expire_lab_tasks
   (expire and auto_release), reject_result, sweep_orphan_lab_runs *)

Admitted(q) == In(q, {"idle"}) /\ ("start" \in Overlap \/ ~Starting)

Call(q, op) ==
    /\ Admitted(q) /\ task.status \in Expected(op)
    /\ Reads(q, op)
    /\ IF op \in Scheduled THEN UNCHANGED spare ELSE Spend("ask")
    /\ UNCHANGED <<task, hold, run, lease, cmd>>

RejectRead(q) ==
    /\ Admitted(q) /\ task.status = "review" /\ task.rejects = 0
    /\ "reject" \in Overlap \/ ~Serving
    /\ Moves(q, "rejecting")
    /\ Spend("ask")
    /\ UNCHANGED <<task, hold, run, lease, cmd>>

\* written by primary key
RejectWrite(q) ==
    /\ In(q, {"rejecting"})
    /\ "reject" \in Overlap \/ task.status = "review"
    /\ task' = [task EXCEPT !.status = "rejected", !.rejects = 1]
    /\ Goes(q, Idle)
    /\ UNCHANGED <<hold, run, lease, cmd, spare>>

\* a run whose heartbeat is stale ...
SweepRead(q, r) ==
    /\ Admitted(q) /\ run[r] = "running"
    /\ Goes(q, At("sweeping", "none", r, 0))
    /\ Spend("sweep")
    /\ UNCHANGED <<task, hold, run, lease, cmd>>

\* ... is failed by primary key, and then its task
SweepWrite(q) ==
    /\ In(q, {"sweeping"})
    /\ run' = [run EXCEPT ![proc[q].run] = "failed"]
    /\ IF task.status \in Expected("fail") THEN Reads(q, "fail") ELSE Goes(q, Idle)
    /\ UNCHANGED <<task, hold, lease, cmd, spare>>

Ends(p) == Goes(p, IF p \in Requests THEN Idle ELSE Over)

CallDies(q) ==
    /\ ~In(q, {"idle"})
    /\ Goes(q, Idle)
    /\ UNCHANGED <<task, hold, run, lease, cmd, spare>>

-----------------------------------------------------------------------------
(* Terminalization: submit_command persists the intention, the finalizer acts *)

\* submit_command: the hold is checked, and a command of this key is reused
Submit(p) ==
    /\ In(p, {"read"}) /\ hold = "held"
    /\ LET k == [op |-> proc[p].op, epoch |-> Epoch(proc[p].run)]
       IN  /\ cmd[k].status # "failed"
           /\ IF cmd[k].status = "none" THEN Marks(k, "pending", 0) ELSE UNCHANGED cmd
           /\ Goes(p, At("submitted", k.op, proc[p].run, k.epoch))
    /\ UNCHANGED <<task, hold, run, lease, spare>>

Refused(p) ==
    /\ In(p, {"read"})
    /\ hold # "held" \/ cmd[[op |-> proc[p].op, epoch |-> Epoch(proc[p].run)]].status = "failed"
    /\ Ends(p)
    /\ UNCHANGED <<task, hold, run, lease, cmd, spare>>

\* _finalize_orm_attempt and _prepare_task_runs: r is the accepted run the finalizing
\* session knows; everything else is read under the row locks
RunsMatch(k, r) == /\ Runs = (IF r = NoRun THEN {} ELSE {r})
                   /\ Epoch(r) = k.epoch

Eligible(k, r) == /\ task.status \in Expected(k.op) /\ hold = "held"
                  /\ RunsMatch(k, r)

\* Mutant: the run is not fenced and not cancelled when the escrow is refunded
MutFence(k) == UNCHANGED <<lease, run>>

\* a refund raises the epoch of the task's runs and cancels the active ones
Fence(k) ==
    IF k.op \in Refunds
    THEN /\ lease' = [s \in Starters |-> IF lease[s] = NoLease THEN NoLease ELSE lease[s] + 1]
         /\ run' = [s \in Starters |-> IF run[s] \in ActiveRun THEN "cancelled" ELSE run[s]]
    ELSE UNCHANGED <<lease, run>>

\* one transaction: escrow, task, runs, receipt, outbox event, command
Finalize(k) ==
    /\ Fence(k)
    /\ hold' = IF k.op \in Settlements THEN "settled" ELSE "refunded"
    /\ task' = [task EXCEPT !.status = Target(k.op)]
    /\ Marks(k, "completed", cmd[k].tries)
    /\ UNCHANGED spare

KeyOf(p) == [op |-> proc[p].op, epoch |-> proc[p].epoch]
CanBump(k) == \A s \in Starters : lease[s] # NoLease => lease[s] < MaxEpoch     \* bound

\* Mutant: the caller finalizes on what submit_command judged, without judging again
MutCallerFinalizes(p) ==
    /\ In(p, {"submitted"}) /\ CanBump(KeyOf(p))
    /\ Finalize(KeyOf(p))
    /\ Ends(p)

\* submit_for_caller finalizes inline; to its session the command is still as it was
\* submitted, although the worker may have failed it since
CallerFinalizes(p) ==
    /\ In(p, {"submitted"}) /\ Eligible(KeyOf(p), proc[p].run) /\ CanBump(KeyOf(p))
    /\ Finalize(KeyOf(p))
    /\ Ends(p)

\* an error, which leaves the command as it is; or a receipt that exists already
CallerStops(p) ==
    /\ In(p, {"submitted"}) /\ ~Eligible(KeyOf(p), proc[p].run)
    /\ Ends(p)
    /\ UNCHANGED <<task, hold, run, lease, cmd, spare>>

\* process_pending_commands, with a session of its own
WorkerFinalizes(k) ==
    /\ cmd[k].status = "pending" /\ Eligible(k, task.run) /\ CanBump(k)
    /\ Finalize(k)
    /\ UNCHANGED proc

\* _record_failure of an error that is not transient
WorkerFails(k) ==
    /\ cmd[k].status = "pending" /\ ~Eligible(k, task.run)
    /\ Marks(k, "failed", cmd[k].tries)
    /\ UNCHANGED <<task, hold, run, lease, proc, spare>>

\* _record_failure of a serialization failure or deadlock
WorkerRetries(k) ==
    /\ cmd[k].status = "pending"
    /\ Spend("retry")
    /\ LET tries == cmd[k].tries + 1
       IN  Marks(k, IF tries < MaxTries THEN "pending" ELSE "failed", tries)
    /\ UNCHANGED <<task, hold, run, lease, proc>>

-----------------------------------------------------------------------------
StarterNext(s) == DispatchRead(s) \/ Assign(s) \/ NobodyIdle(s) \/ StartRun(s) \/ StarterDies(s)

AttemptNext(a) ==
    \/ \E r \in Starters : Pick(a, r)
    \/ Acquire(a) \/ NotAcquired(a) \/ OpenLegacy(a) \/ OpenLost(a) \/ OpenControlPlane(a)
    \/ Finish(a) \/ Stopped(a) \/ Review(a) \/ ReviewLost(a) \/ Succeeds(a)
    \/ Breaks(a) \/ MarkFailed(a) \/ EmitFailed(a) \/ AttemptDies(a)

RequestNext(q) ==
    \/ \E op \in Calls : Call(q, op)
    \/ RejectRead(q) \/ RejectWrite(q)
    \/ \E r \in Starters : SweepRead(q, r)
    \/ SweepWrite(q) \/ CallDies(q)

TerminalNext(p) == Submit(p) \/ Refused(p) \/ CallerFinalizes(p) \/ CallerStops(p)

WorkerNext(k) == WorkerFinalizes(k) \/ WorkerFails(k) \/ WorkerRetries(k)

Next == \/ \E s \in Starters : StarterNext(s)
        \/ \E a \in Attempts : AttemptNext(a)
        \/ \E q \in Requests : RequestNext(q)
        \/ \E p \in Attempts \cup Requests : TerminalNext(p)
        \/ \E k \in Keys : WorkerNext(k)

Spec == Init /\ [][Next]_vars

\* The nightly pass comes back every night and is not killed every time; the
\* terminalizer polls.  Nothing is assumed of players, admins, researchers or runners.
FairSpec ==
    /\ Spec
    /\ \A q \in Requests :
          /\ SF_vars(\E op \in Scheduled : Call(q, op))
          /\ SF_vars(proc[q].op \in Scheduled /\ Submit(q))
          /\ SF_vars(proc[q].op \in Scheduled /\ CallerFinalizes(q))
    /\ \A q \in Requests : WF_vars(CallDies(q))
    /\ \A s \in Starters : WF_vars(StarterDies(s))
    /\ WF_vars(\E k \in Keys : WorkerFinalizes(k) \/ WorkerFails(k))

-----------------------------------------------------------------------------
(* What must hold *)

\* Where an attempt, or the sweep, works on a run, and where a call on an operation
OnRun == {"acquiring", "opening", "working", "finishing", "reviewed", "completing",
          "failing", "undoing", "emitting", "sweeping"}
OnOp == {"read", "submitted"}

ProcType == [pc : {"idle", "done", "picking", "starting", "rejecting"} \cup OnRun \cup OnOp,
             op : Ops \cup {"none"}, run : Starters \cup {NoRun}, epoch : Epochs]
TaskType == [status : {"funded", "assigned", "running", "review", "rejected"} \cup Terminal,
             run : Starters \cup {NoRun}, rejects : 0..1]
RunType == {"none", "queued", "running", "succeeded", "failed", "cancelled"}
CmdType == [status : {"none", "pending", "completed", "failed"}, tries : 0..MaxTries]

\* The rows and the processes keep the values the code gives them.
TypeOK ==
    /\ task \in TaskType /\ hold \in {"held", "settled", "refunded"}
    /\ run \in [Starters -> RunType] /\ lease \in [Starters -> Epochs \cup {NoLease}]
    /\ cmd \in [Keys -> CmdType] /\ proc \in [Procs -> ProcType] /\ spare \in [Events -> Int]

Decided == {k \in Keys : cmd[k].status = "completed"}

\* The escrow is paid out once, whichever of a cancel, a failing run, an acceptance, an
\* admin and the nightly pass come together, and whoever finalizes: the one command
\* that was completed is the one that moved the hold.
OneOutcome ==
    /\ hold = "held" <=> Decided = {}
    /\ \A k, l \in Decided : k = l
    /\ \A k \in Decided : hold = (IF k.op \in Settlements THEN "settled" ELSE "refunded")

\* Refunding stops the work: no run of the task is queued or running any more, and
\* none is opened again by an attempt that had picked it before the refund.
RefundStopsWork == hold = "refunded" => \A s \in Starters : run[s] \notin ActiveRun

\* The task and its escrow go through the life LabEscrow promises: delivered work is
\* never refunded without a rejection, undelivered work never paid, and an ended task
\* never revived, although every writer decides on a copy it read earlier.
Escrow == INSTANCE LabEscrow WITH status <- task.status, escrow <- hold
Lifecycle == Escrow!Spec

\* A task that has ended stays as it ended.  On the control plane this does NOT hold: the
\* opening write of an attempt overwrites a refund committed since its reads (and so does an
\* assignment when starts overlap with other calls).
TerminalStays == [][task.status \in Terminal => task'.status = task.status]_vars

\* The command that would release the escrow of the task as it stands has failed for good:
\* its key, operation and epoch, is never submitted again.
Barred(op) == /\ task.status \in Expected(op)
              /\ cmd[[op |-> op, epoch |-> Epoch(task.run)]].status = "failed"

\* No nightly pass releases the escrow of such a task: creation and the dispatcher both
\* started a run, or the pass's command failed too often or met the task in another state
\* (reopened after its review by an attempt that took the lease over).
Stranded == Cardinality(Runs) > 1 \/ Barred("expire") \/ Barred("auto_release")

\* However the researcher, the runner and the players behave, the nightly pass releases
\* the escrow, or from some moment on the issuer's rejection leaves it to an admin or the
\* task is stranded for one of the two reasons above.  There is no third way to lose it.
EscrowReleased == <>(hold # "held") \/ <>[](task.status = "rejected" \/ Stranded)
=============================================================================
