------------------------------ MODULE LabQueue -------------------------------
(* How a protocol 2 Lab run reaches a runner and is not lost on the way:
   lab/queue.py (a pending and a processing list in Redis), lab/control_plane.py (the
   durable claim of a dequeued run, the reconciler), lab/concurrency.py (the counter of
   busy slots), lab/outbox_dispatcher.py (the enqueue replayed from the database) and
   the loop of lab/runner.py that drives them.

   A Redis command, a pipeline and a guarded UPDATE are one step each; what a runner
   read and uses later is kept in its record.  The lists are counted per run: LREM
   removes every copy, and the order of the runs decides nothing here.  Expiry times
   are abstract (a claim or a lease is live until it lapses).  All runs
   have one researcher, whose cap and counter stand for both counters.  A process that
   dies comes back with a new owner id, so its claims and leases become NoOne's.  No name
   here is one of LabLease: LabRunProofs is about both. *)
EXTENDS Integers, FiniteSets

CONSTANTS Runs, Runners,   \* lab_runs rows, runner loops
          Tardy,         \* bound: the runners that may be too late
          MaxAttempts,   \* MAX_ATTEMPTS of the outbox
          MaxCopies,     \* bound: list entries of one run
          Settings,      \* a deployment's cap and, as bounds, how often each of the Events happens
          NoOne, NoRun

\* The creator's own LPUSH, an error of the publisher, a runner's crash, error or pause, an
\* owner that is too late, an end from outside
Events == {"enqueue", "publisher", "runner", "late", "outside"}

ASSUME QueueAssumption ==
    /\ Settings \subseteq [cap : Nat \ {0}, spare : [Events -> Nat]]
    /\ MaxAttempts \in Nat \ {0} /\ MaxCopies \in Nat \ {0}
    /\ IsFiniteSet(Runs) /\ IsFiniteSet(Runners)
ASSUME QueueNames == Tardy \subseteq Runners /\ NoOne \notin Runners /\ NoRun \notin Runs

VARIABLES cap,          \* lab_max_concurrent_per_researcher, chosen once
          run,          \* lab_runs.status; "done" is succeeded, failed or cancelled
          starting,     \* runs whose creator has committed and not yet enqueued
          outbox,       \* the lab.run.enqueue row of each run
          pending, processing,   \* copies of each run in the two lists
          claim,        \* lab_queue_claims
          leases,       \* lab_run_leases, as LabLease decides it
          slots,        \* the Redis counter
          runner,       \* runner loops: where each is and what it has read
          over,         \* runs whose lab_tasks row is in review or terminal
          stopped,      \* runs fenced by a stop request that is still open
          forgot,       \* history: a reconcile wrote fewer slots than were reserved
          astray,       \* history: runs let go by a fenced owner, or opened after their end
          spare         \* what is left of the budget

rows == <<run, claim, leases>>
lists == <<pending, processing>>
sending == <<starting, outbox>>
aside == <<over, stopped, astray>>
queueVars == <<cap, rows, sending, lists, slots, runner, aside, forgot, spare>>

\* current: the fencing epoch is still the one its owner was given.  Nothing tells a lapsed
\* lease that nobody acts on from none, nor a claim that was released, completed or expired.
Unleased == [owner |-> NoOne, live |-> FALSE, current |-> FALSE]
Unclaimed == [status |-> "settled", owner |-> NoOne, live |-> FALSE]

\* pc, the run in hand, runs left to reconcile, rows counted
At(pc, r, todo, seen) == [pc |-> pc, run |-> r, todo |-> todo, seen |-> seen]
Waiting == At("idle", NoRun, {}, 0)
Startup == At("counting", NoRun, {}, 0)

\* _start_run committed the run and its outbox row in one transaction
QueueInit ==
    /\ \E x \in Settings : cap = x.cap /\ spare = x.spare
    /\ run = [r \in Runs |-> "queued"]
    /\ starting = Runs
    /\ outbox = [r \in Runs |-> [status |-> "pending", tries |-> 0]]
    /\ pending = [r \in Runs |-> 0] /\ processing = [r \in Runs |-> 0]
    /\ claim = [r \in Runs |-> Unclaimed]
    /\ leases = [r \in Runs |-> Unleased]
    /\ slots = 0
    /\ runner = [w \in Runners |-> Startup]
    /\ over = {} /\ stopped = {}
    /\ forgot = FALSE /\ astray = {}

In(w, pcs) == runner[w].pc \in pcs
Mine(w) == runner[w].run
Goes(w, x) == runner' = [runner EXCEPT ![w] = x]
Walks(w, pc) == Goes(w, [runner[w] EXCEPT !.pc = pc])
Spend(event) == spare[event] > 0 /\ spare' = [spare EXCEPT ![event] = @ - 1]

\* Who counts in the semaphore: the slot is taken, or taken and about to be given back
Inside == {"acquiring", "opening", "writing", "working", "failing", "ran", "error"}
Holders == {w \in Runners : In(w, Inside)}
Outstanding == Holders \cup {w \in Runners : In(w, {"refused"})}
Room(r) == pending[r] + processing[r] < MaxCopies

-----------------------------------------------------------------------------
(* Sending: the creator's own LPUSH, and the outbox *)

\* never taken when the creator dies or Redis refuses: the run is committed all the same
Enqueue(r) ==
    /\ r \in starting /\ Room(r) /\ Spend("enqueue")
    /\ starting' = starting \ {r}
    /\ pending' = [pending EXCEPT ![r] = @ + 1]
    /\ UNCHANGED <<cap, rows, outbox, processing, slots, runner, aside, forgot>>

OutboxRow(r, status, tries) == outbox' = [outbox EXCEPT ![r] = [status |-> status, tries |-> tries]]

\* dispatch_once: the row is locked behind a guard, and published ...
Publish(r) ==
    /\ outbox[r].status = "pending" /\ Room(r)
    /\ OutboxRow(r, "sent", outbox[r].tries)
    /\ pending' = [pending EXCEPT ![r] = @ + 1]
    /\ UNCHANGED <<cap, rows, starting, processing, slots, runner, aside, forgot, spare>>

\* ... and then marked
Mark(r) ==
    /\ outbox[r].status = "sent"
    /\ OutboxRow(r, "published", outbox[r].tries)
    /\ UNCHANGED <<cap, rows, starting, lists, slots, runner, aside, forgot, spare>>

\* the publisher raises: the row is retried later, or dead-lettered
PublishFails(r) ==
    /\ outbox[r].status = "pending" /\ Spend("publisher")
    /\ LET tries == outbox[r].tries + 1
       IN  OutboxRow(r, IF tries >= MaxAttempts THEN "dead" ELSE "pending", tries)
    /\ UNCHANGED <<cap, rows, starting, lists, slots, runner, aside, forgot>>

\* the dispatcher dies before it marks the row: published again when the lock lapses
MarkFails(r) ==
    /\ outbox[r].status = "sent" /\ Spend("publisher")
    /\ OutboxRow(r, "pending", outbox[r].tries)
    /\ UNCHANGED <<cap, rows, starting, lists, slots, runner, aside, forgot>>

-----------------------------------------------------------------------------
(* The runner loop: dequeue, claim, admit, execute, give back *)

InHand == UNCHANGED <<cap, sending, aside, forgot, spare>>

Dequeue(w, r) ==
    /\ In(w, {"idle"}) /\ pending[r] > 0
    /\ pending' = [pending EXCEPT ![r] = @ - 1]
    /\ processing' = [processing EXCEPT ![r] = @ + 1]
    /\ Goes(w, At("claiming", r, {}, 0))
    /\ InHand /\ UNCHANGED <<rows, slots>>

ClaimHeld(w, r) == claim[r].status = "processing" /\ claim[r].live /\ claim[r].owner # w

\* claim_queue_run, behind the row's lock
Claim(w) ==
    /\ In(w, {"claiming"}) /\ ~ClaimHeld(w, Mine(w))
    /\ claim' = [claim EXCEPT ![Mine(w)] = [status |-> "processing", owner |-> w, live |-> TRUE]]
    /\ Walks(w, "claimed")
    /\ InHand /\ UNCHANGED <<run, leases, lists, slots>>

\* a live owner has it: the entry stays in the processing list
ClaimRefused(w) ==
    /\ In(w, {"claiming"}) /\ ClaimHeld(w, Mine(w))
    /\ Goes(w, Waiting)
    /\ InHand /\ UNCHANGED <<rows, lists, slots>>

\* the kill switch is on: put back
Paused(w) ==
    /\ In(w, {"claimed"}) /\ Spend("runner")
    /\ Walks(w, "returning")
    /\ UNCHANGED <<cap, sending, aside, forgot, rows, lists, slots>>

\* _process_run looks at the run ...
Peek(w) ==
    /\ In(w, {"claimed"}) /\ run[Mine(w)] # "done"
    /\ Walks(w, "reserving")
    /\ InHand /\ UNCHANGED <<rows, lists, slots>>

Skipped(w) ==
    /\ In(w, {"claimed"}) /\ run[Mine(w)] = "done"
    /\ Walks(w, "acking")
    /\ InHand /\ UNCHANGED <<rows, lists, slots>>

\* ... and reserves: INCR, and one too many ...
Reserve(w) ==
    /\ In(w, {"reserving"})
    /\ slots' = slots + 1
    /\ Walks(w, IF slots' > cap THEN "refused" ELSE "acquiring")
    /\ InHand /\ UNCHANGED <<rows, lists>>

\* ... is given back
Refused(w) ==
    /\ In(w, {"refused"})
    /\ slots' = slots - 1
    /\ Walks(w, "returning")
    /\ InHand /\ UNCHANGED <<rows, lists>>

LeaseHeld(w, r) == leases[r].live /\ leases[r].owner # w

\* run_one_v2 and acquire_lease: a run that ended meanwhile is left alone
Acquire(w) ==
    /\ In(w, {"acquiring"})
    /\ IF run[Mine(w)] = "done" THEN Walks(w, "ran") /\ UNCHANGED leases
       ELSE IF LeaseHeld(w, Mine(w)) THEN Walks(w, "error") /\ UNCHANGED leases
       ELSE /\ leases' = [leases EXCEPT ![Mine(w)] = [owner |-> w, live |-> TRUE, current |-> TRUE]]
            /\ Walks(w, "opening")
    /\ InHand /\ UNCHANGED <<run, claim, lists, slots>>

\* execute, after the runtime was prepared: run and task are read again, the task decides ...
Open(w) ==
    /\ In(w, {"opening"})
    /\ IF Mine(w) \in over THEN Walks(w, "ran")
       ELSE Walks(w, IF run[Mine(w)] = "running" THEN "working" ELSE "writing")
    /\ InHand /\ UNCHANGED <<rows, lists, slots>>

Strays(r) == astray' = IF run[r] = "done" THEN astray \cup {r} ELSE astray

\* the run is set running by primary key, whatever has ended it
WritesRunning(w) ==
    /\ run' = [run EXCEPT ![Mine(w)] = "running"] /\ Strays(Mine(w))
    /\ Walks(w, "working")
    /\ UNCHANGED <<cap, sending, over, stopped, forgot, spare, claim, leases, lists, slots>>

\* ... and a run that was not yet running is written
Begin(w) == In(w, {"writing"}) /\ WritesRunning(w)

\* _await_approval does the same when the decision is there
Approved(w) == In(w, {"working"}) /\ run[Mine(w)] = "done" /\ WritesRunning(w)

HasEpoch(w) == leases[Mine(w)].owner = w /\ leases[Mine(w)].current
HasAuthority(w) == HasEpoch(w) /\ leases[Mine(w)].live

\* the result is written behind _lock_current_authority, and the task goes to review; it
\* has not ended before, for that raises the epoch
Finish(w) ==
    /\ In(w, {"working"}) /\ HasAuthority(w) /\ Mine(w) \notin over /\ run[Mine(w)] # "done"
    /\ run' = [run EXCEPT ![Mine(w)] = "done"]
    /\ over' = over \cup {Mine(w)}
    /\ Walks(w, "ran")
    /\ UNCHANGED <<cap, sending, stopped, astray, forgot, spare, claim, leases, lists, slots>>

\* _fail (a timeout, a budget, a protocol conflict): the epoch decides, not the expiry ...
Fails(w) ==
    /\ In(w, {"opening", "working"}) /\ HasEpoch(w)
    /\ Walks(w, "failing")
    /\ InHand /\ UNCHANGED <<rows, lists, slots>>

\* ... and the run is written by primary key
WriteFailed(w) ==
    /\ In(w, {"failing"})
    /\ run' = [run EXCEPT ![Mine(w)] = "done"]
    /\ Walks(w, "ran")
    /\ InHand /\ UNCHANGED <<claim, leases, lists, slots>>

\* _fail and the first check of _succeed swallow StaleEpoch: execute returns as from a
\* run that has ended, and the loop will acknowledge it
Swallowed(w) ==
    /\ \/ In(w, {"opening", "working"}) /\ ~HasEpoch(w)
       \/ In(w, {"working"}) /\ ~HasAuthority(w)
    /\ astray' = IF run[Mine(w)] = "done" THEN astray ELSE astray \cup {Mine(w)}
    /\ Walks(w, "ran")
    /\ UNCHANGED <<cap, sending, over, stopped, forgot, spare, rows, lists, slots>>

\* StaleEpoch from any other gate: another owner took the lease, or it lapsed
Fenced(w) ==
    /\ In(w, {"opening", "working"}) /\ ~HasAuthority(w)
    /\ Walks(w, "error")
    /\ InHand /\ UNCHANGED <<rows, lists, slots>>

\* Mutant: an error is acknowledged, as protocol 1 does
MutBreaksAcked(w) ==
    /\ In(w, {"acquiring", "opening", "writing", "working", "failing"}) /\ Spend("runner")
    /\ Walks(w, "ran")
    /\ UNCHANGED <<cap, sending, aside, forgot, rows, lists, slots>>

\* Mutant: the slot is given back where the error is caught, and again in the finally
MutBreaks(w) ==
    /\ In(w, {"acquiring", "opening", "writing", "working", "failing"}) /\ Spend("runner")
    /\ slots' = slots - 1
    /\ Walks(w, "error")
    /\ UNCHANGED <<cap, sending, aside, forgot, rows, lists>>

\* the adapter, a gateway or the database raises
Breaks(w) ==
    /\ In(w, {"acquiring", "opening", "writing", "working", "failing"}) /\ Spend("runner")
    /\ Walks(w, "error")
    /\ UNCHANGED <<cap, sending, aside, forgot, rows, lists, slots>>

\* release, in the finally
Release(w) ==
    /\ In(w, {"ran", "error"})
    /\ slots' = slots - 1
    /\ Walks(w, IF In(w, {"ran"}) THEN "acking" ELSE "returning")
    /\ InHand /\ UNCHANGED <<rows, lists>>

\* requeue_run: one pipeline, one pending copy whatever there was
PutBack(r) == pending' = [pending EXCEPT ![r] = 1] /\ processing' = [processing EXCEPT ![r] = 0]

Requeue(w) ==
    /\ In(w, {"returning"})
    /\ PutBack(Mine(w))
    /\ Walks(w, "settling")
    /\ InHand /\ UNCHANGED <<rows, slots>>

\* ack_run: every copy in processing
Ack(w) ==
    /\ In(w, {"acking"})
    /\ processing' = [processing EXCEPT ![Mine(w)] = 0]
    /\ Walks(w, "settling")
    /\ InHand /\ UNCHANGED <<rows, pending, slots>>

\* settle_queue_claim, guarded by owner, token and status; then the loop goes round, or
\* through the reconcilers (every 50th item)
Settle(w, next) ==
    /\ In(w, {"settling"})
    /\ claim' = IF claim[Mine(w)].owner = w /\ claim[Mine(w)].status = "processing"
                THEN [claim EXCEPT ![Mine(w)] = Unclaimed]
                ELSE claim
    /\ Goes(w, next)
    /\ InHand /\ UNCHANGED <<run, leases, lists, slots>>

\* heartbeat_queue_claim, while a run is being processed: it revives a lapsed claim too
Processing(w) == In(w, {"reserving", "refused"} \cup Inside)

Heartbeat(w) ==
    /\ Processing(w) /\ claim[Mine(w)].owner = w /\ claim[Mine(w)].status = "processing"
    /\ ~claim[Mine(w)].live
    /\ claim' = [claim EXCEPT ![Mine(w)].live = TRUE]
    /\ InHand /\ UNCHANGED <<run, leases, lists, slots, runner>>

-----------------------------------------------------------------------------
(* The reconcilers, run by a loop at start-up, after every 50th item, and (processing
   only) when idle *)

\* concurrency.reconcile: the rows are counted ...
Count(w) ==
    /\ In(w, {"counting"})
    /\ Goes(w, At("setting", NoRun, {}, Cardinality({r \in Runs : run[r] = "running"})))
    /\ InHand /\ UNCHANGED <<rows, lists, slots>>

\* reconcile_v2_processing: LRANGE, then one run at a time
Checks(w, rs) == Goes(w, IF rs = {} THEN Waiting ELSE At("checking", NoRun, rs, 0))
Listed == {r \in Runs : processing[r] > 0}

\* ... and the counter is SET to that; the list is read next
SetSlots(w) ==
    /\ In(w, {"setting"})
    /\ slots' = runner[w].seen
    /\ forgot' = (forgot \/ runner[w].seen < Cardinality(Outstanding))
    /\ Checks(w, Listed)
    /\ UNCHANGED <<cap, sending, aside, rows, lists, spare>>

\* the dequeue timed out (ten times): processing is looked at
LookIdle(w) ==
    /\ In(w, {"idle"}) /\ Listed # {} /\ \A r \in Runs : pending[r] = 0
    /\ Checks(w, Listed)
    /\ InHand /\ UNCHANGED <<rows, lists, slots>>

Left(w, r) == runner[w].todo \ {r}
Judging(w, r) == In(w, {"checking"}) /\ r \in runner[w].todo

Removed(w, r) ==
    /\ Judging(w, r) /\ run[r] = "done"
    /\ processing' = [processing EXCEPT ![r] = 0]
    /\ claim' = [claim EXCEPT ![r] = Unclaimed]
    /\ Checks(w, Left(w, r))
    /\ InHand /\ UNCHANGED <<run, leases, pending, slots>>


\* live_claim or live_execution_lease
Owned(r) == (claim[r].status = "processing" /\ claim[r].live) \/ leases[r].live

Retained(w, r) ==
    /\ Judging(w, r) /\ run[r] # "done" /\ Owned(r)
    /\ Checks(w, Left(w, r))
    /\ InHand /\ UNCHANGED <<rows, lists, slots>>

Abandoned(w, r) ==
    /\ Judging(w, r) /\ run[r] # "done" /\ ~Owned(r)
    /\ Goes(w, At(IF claim[r].status = "processing" THEN "expiring" ELSE "recovering",
                  r, Left(w, r), 0))
    /\ InHand /\ UNCHANGED <<rows, lists, slots>>

\* written by primary key, whoever has claimed the run since
Expire(w) ==
    /\ In(w, {"expiring"})
    /\ claim' = [claim EXCEPT ![Mine(w)] = Unclaimed]
    /\ Walks(w, "recovering")
    /\ InHand /\ UNCHANGED <<run, leases, lists, slots>>

Recover(w) ==
    /\ In(w, {"recovering"})
    /\ PutBack(Mine(w))
    /\ Checks(w, runner[w].todo)
    /\ InHand /\ UNCHANGED <<rows, slots>>

-----------------------------------------------------------------------------
(* What happens to a runner and to a run *)

Orphan(f, w) == [r \in Runs |-> IF f[r].owner = w THEN [f[r] EXCEPT !.owner = NoOne] ELSE f[r]]

\* the process dies anywhere, and starts again as somebody else
Crash(w) ==
    /\ Spend("runner")
    /\ claim' = Orphan(claim, w) /\ leases' = Orphan(leases, w)
    /\ Goes(w, Startup)
    /\ UNCHANGED <<cap, sending, aside, forgot, run, lists, slots>>

\* Redis or the database fails outside the execution: logged, and the loop goes on
LoopError(w) ==
    /\ In(w, {"claiming", "claimed", "returning", "acking", "settling"}) /\ Spend("runner")
    /\ Goes(w, Waiting)
    /\ UNCHANGED <<cap, sending, aside, forgot, rows, lists, slots>>

Attended(r, owner) == \E w \in Runners : owner = w /\ Mine(w) = r

\* claims and leases that nobody attends to lapse
ClaimLapses(r) ==
    /\ claim[r].status = "processing" /\ claim[r].live /\ ~Attended(r, claim[r].owner)
    /\ claim' = [claim EXCEPT ![r].live = FALSE]
    /\ UNCHANGED <<cap, sending, aside, forgot, spare, run, leases, lists, slots, runner>>

LeaseLapses(r) ==
    /\ leases[r].live
    /\ ~ \E w \in Runners : /\ leases[r].owner = w /\ Mine(w) = r
                           /\ In(w, {"opening", "writing", "working", "failing"})
    /\ leases' = [leases EXCEPT ![r] = Unleased]
    /\ UNCHANGED <<cap, sending, aside, forgot, spare, run, claim, lists, slots, runner>>

\* An owner is too late: what it holds of its run lapses, the claim, the lease or both, and
\* whoever comes may take it over
Lapsed(f, w) == [f EXCEPT ![Mine(w)].live = @ /\ f[Mine(w)].owner # w]

Late(w) ==
    /\ Mine(w) # NoRun /\ w \in Tardy /\ Spend("late")
    /\ claim' \in {claim, Lapsed(claim, w)} /\ leases' \in {leases, Lapsed(leases, w)}
    /\ <<claim, leases>>' # <<claim, leases>>
    /\ UNCHANGED <<cap, sending, aside, forgot, run, lists, slots, runner>>

-----------------------------------------------------------------------------
(* Ending a run from outside, always with the epoch raised *)

Fence(r, live) == leases' = [leases EXCEPT ![r].current = FALSE, ![r].live = @ /\ live]

\* a pass over a stop request: the epoch goes up, the lease ends now, ...
ControlFences(r) ==
    /\ Spend("outside")
    /\ stopped' = stopped \cup {r}
    /\ Fence(r, FALSE)
    /\ UNCHANGED <<cap, sending, over, astray, forgot, run, claim, lists, slots, runner>>

\* ... and when every target has stopped the run is cancelled, unless one is quarantined
ControlCancels(r) ==
    /\ r \in stopped
    /\ stopped' = stopped \ {r}
    /\ run' \in {run, [run EXCEPT ![r] = "done"]}
    /\ UNCHANGED <<cap, sending, over, astray, forgot, spare, claim, leases, lists, slots, runner>>

\* the supervisor (kill switch, overdue): the run first, its task later
SupervisorCancels(r) ==
    /\ run[r] # "done" /\ Spend("outside")
    /\ run' = [run EXCEPT ![r] = "done"]
    /\ Fence(r, TRUE)
    /\ UNCHANGED <<cap, sending, aside, forgot, claim, lists, slots, runner>>

\* the task is refunded (LabTask): task and run in one transaction
TaskEnds(r) ==
    /\ r \notin over /\ Spend("outside")
    /\ over' = over \cup {r}
    /\ run' = [run EXCEPT ![r] = "done"]
    /\ Fence(r, TRUE)
    /\ UNCHANGED <<cap, sending, stopped, astray, forgot, claim, lists, slots, runner>>

-----------------------------------------------------------------------------
Sends(r) == \/ Enqueue(r)
            \/ Publish(r) \/ PublishFails(r) \/ Mark(r) \/ MarkFails(r)

\* everything a runner does but the choices that need a fairness of their own
Loop(w) ==
    \/ \E r \in Runs : Dequeue(w, r)
    \/ Claim(w) \/ ClaimRefused(w) \/ Peek(w) \/ Skipped(w) \/ Reserve(w) \/ Refused(w)
    \/ Acquire(w) \/ Open(w) \/ Begin(w)
    \/ Finish(w) \/ Fails(w) \/ WriteFailed(w) \/ Swallowed(w) \/ Fenced(w)
    \/ Release(w)
    \/ Requeue(w) \/ Ack(w) \/ Settle(w, Waiting) \/ Settle(w, Startup)
    \/ Count(w) \/ SetSlots(w) \/ LookIdle(w)
    \/ \E r \in Runs : Removed(w, r) \/ Retained(w, r) \/ Abandoned(w, r)
    \/ Expire(w) \/ Recover(w)

QueueNext ==
    \/ \E w \in Runners : \/ Loop(w) \/ Paused(w) \/ Heartbeat(w) \/ Approved(w)
                          \/ Breaks(w) \/ Crash(w) \/ LoopError(w) \/ Late(w)
    \/ \E r \in Runs : \/ Sends(r) \/ ClaimLapses(r) \/ LeaseLapses(r)
                       \/ ControlFences(r) \/ ControlCancels(r)
                       \/ SupervisorCancels(r) \/ TaskEnds(r)

QueueSpec == QueueInit /\ [][QueueNext]_queueVars

\* A dispatcher and a runner keep going, the kill switch is off again and again, an
\* unattended claim or lease lapses.  Events stop when the budget is spent.
FairSpec ==
    /\ QueueSpec
    /\ \A w \in Runners : WF_queueVars(Loop(w))
    /\ \A r \in Runs : /\ WF_queueVars(ClaimLapses(r)) /\ WF_queueVars(LeaseLapses(r))
                       /\ WF_queueVars(Publish(r))

\* ... and the 50th item comes, after which the counter is written anew
HealingSpec == FairSpec /\ \A w \in Runners : SF_queueVars(Settle(w, Startup))

-----------------------------------------------------------------------------
RunnerType ==
    [pc : {"idle", "claiming", "claimed", "reserving", "refused", "acquiring", "opening",
           "writing", "working", "failing", "ran", "error", "returning", "acking", "settling",
           "counting", "setting", "checking", "expiring", "recovering"},
     run : Runs \cup {NoRun}, todo : SUBSET Runs, seen : Nat]

\* The rows, lists and loops keep the values the code gives them.
QueueTypeOK ==
    /\ cap \in Nat \ {0} /\ spare \in [Events -> Nat] /\ slots \in Int /\ forgot \in BOOLEAN
    /\ run \in [Runs -> {"queued", "running", "done"}] /\ starting \subseteq Runs
    /\ outbox \in [Runs -> [status : {"pending", "sent", "published", "dead"},
                            tries : 0..MaxAttempts]]
    /\ pending \in [Runs -> 0..MaxCopies] /\ processing \in [Runs -> 0..MaxCopies]
    /\ claim \in [Runs -> [status : {"settled", "processing"},
                           owner : Runners \cup {NoOne}, live : BOOLEAN]]
    /\ leases \in [Runs -> [owner : Runners \cup {NoOne}, live : BOOLEAN, current : BOOLEAN]]
    /\ over \subseteq Runs /\ stopped \subseteq Runs /\ astray \subseteq Runs
    /\ runner \in [Runners -> RunnerType]

\* A run that has not ended is still owed to somebody: its creator or the outbox has yet
\* to send it, or an entry of it is in Redis, whoever crashed between whichever steps
\* (queue.py, "At-least-once").  Excepted are a row the outbox gave up and the runs gone
\* astray: acknowledged for an owner whose StaleEpoch was swallowed, or written running
\* again after they had ended.  There is no third way to lose a run.
NothingLost ==
    \A r \in Runs : \/ run[r] = "done" \/ r \in astray
                    \/ outbox[r].status \in {"pending", "dead"}
                    \/ pending[r] + processing[r] > 0

\* The semaphore counts every runner inside it and admits no more than the cap
\* (concurrency.py:67), whatever fails where, unless a reconcile has overwritten a
\* reservation that no row showed yet.
NeverOverAdmits ==
    forgot \/ (Cardinality(Holders) <= cap /\ Cardinality(Outstanding) <= slots)


\* The same promise for any cap, which does NOT hold: a slot leaked by a crashed runner is
\* healed by reconcile (concurrency.py:6) and the run is delivered again (runner.py:810), but
\* reconcile counts the crashed run's own row, and with a cap of 1 its retry finds no slot.
CrashedRunsResume == \A r \in Runs : run[r] = "running" ~> run[r] = "done"
=============================================================================
