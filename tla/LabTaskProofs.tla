--------------------------- MODULE LabTaskProofs ----------------------------
(* What LabTask guarantees on both paths, with every overlap, for any starters,
   attempts, requests and bounds: the rows keep their types, and the escrow of a
   commission is paid out once.  The argument is short: only Finalize completes a
   command, it does so only when the hold is held, and it moves the hold in the same
   step.  The rest of the invariant makes the key a caller finalizes a real one.

   More holds of the default path when only one process starts runs of the task
   (LegacyAlone): a refund stops the work, and the rows implement LabEscrow unless a
   rejection overlaps.  There is one run then, and what an attempt or a request knows
   of it is still true of the rows or can no longer be written (Legacy). *)
EXTENDS LabTask, TLAPS

\* A process that works on a run has one; a call on an operation has one
Sound(x) == /\ x.pc \in OnRun => x.run \in Starters
            /\ x.pc \in OnOp => x.op \in Ops

TriesLeft == \A k \in Keys : cmd[k].status = "pending" => cmd[k].tries < MaxTries

Invariant == /\ TypeOK
             /\ OneOutcome
             /\ TriesLeft
             /\ \A p \in Procs : Sound(proc[p])

-----------------------------------------------------------------------------
(* The records a process takes are well typed. *)
LEMMA AtType ==
    ASSUME NEW pc \in {"idle", "done", "picking", "starting", "rejecting"} \cup OnRun \cup OnOp,
           NEW op \in Ops \cup {"none"}, NEW r \in Starters \cup {NoRun}, NEW e \in Epochs
    PROVE  /\ At(pc, op, r, e) \in ProcType
           /\ At(pc, op, r, e).pc = pc /\ At(pc, op, r, e).run = r /\ At(pc, op, r, e).op = op
  BY DEF At, ProcType

LEMMA RestType == Idle \in ProcType /\ Over \in ProcType /\ Sound(Idle) /\ Sound(Over)
  BY NumberAssumption DEF Idle, Over, At, ProcType, Epochs, Sound, OnRun, OnOp

(* An epoch read is an epoch. *)
LEMMA EpochType ==
    ASSUME TypeOK, NEW r \in Starters \cup {NoRun}
    PROVE  Epoch(r) \in Epochs
  BY NumberAssumption DEF TypeOK, Epoch, Epochs

(* A step of one process that leaves the hold and the commands alone keeps the
   invariant, when what it writes is well typed. *)
LEMMA LocalStep ==
    ASSUME Invariant, NEW p \in Procs, NEW x \in ProcType, Sound(x), Goes(p, x),
           UNCHANGED <<hold, cmd>>, task' \in TaskType, run' \in [Starters -> RunType],
           lease' \in [Starters -> Epochs \cup {NoLease}], spare' \in [Events -> Int]
    PROVE  Invariant'
<1>1. TypeOK'
  BY DEF Invariant, TypeOK, Goes
<1>2. OneOutcome' /\ TriesLeft'
  BY DEF Invariant, OneOutcome, TriesLeft, Decided
<1>3. ASSUME NEW q \in Procs PROVE Sound(proc'[q])
  <2>1. Sound(proc[q])
    BY DEF Invariant
  <2>2. proc'[q] = (IF q = p THEN x ELSE proc[q])
    BY DEF Invariant, TypeOK, Goes
  <2> QED  BY <2>1, <2>2 DEF Sound
<1> QED  BY <1>1, <1>2, <1>3 DEF Invariant, Sound

(* Moves is Goes with everything but pc kept. *)
LEMMA MovesStep ==
    ASSUME TypeOK, NEW p \in Procs, NEW pc \in {"idle", "done", "picking", "starting", "rejecting"} \cup OnRun \cup OnOp,
           Moves(p, pc)
    PROVE  LET x == At(pc, proc[p].op, proc[p].run, proc[p].epoch)
           IN  x \in ProcType /\ Goes(p, x)
  BY DEF TypeOK, ProcType, Moves, Goes, At

(* What an event spends leaves a budget. *)
LEMMA SpendType ==
    ASSUME TypeOK, NEW event \in Events, Spend(event)
    PROVE  spare' \in [Events -> Int]
<1>1. spare \in [Events -> Int]
  BY DEF TypeOK
<1> QED  BY <1>1 DEF Spend

(* A step of one process that changes nothing else but the budget. *)
LEMMA GoStep ==
    ASSUME Invariant, NEW p \in Procs, NEW x \in ProcType, Sound(x), Goes(p, x),
           UNCHANGED <<task, hold, run, lease, cmd>>,
           UNCHANGED spare \/ spare' \in [Events -> Int]
    PROVE  Invariant'
<1>1. spare' \in [Events -> Int]
  BY DEF Invariant, TypeOK
<1>2. task' \in TaskType /\ run' \in [Starters -> RunType]
      /\ lease' \in [Starters -> Epochs \cup {NoLease}]
  BY DEF Invariant, TypeOK
<1> QED  BY <1>1, <1>2, LocalStep

LEMMA MoveStep ==
    ASSUME Invariant, NEW p \in Procs, NEW pc \in {"idle", "done", "picking", "starting", "rejecting"} \cup OnRun,
           pc \in OnRun => proc[p].run \in Starters, Moves(p, pc),
           UNCHANGED <<hold, cmd>>, UNCHANGED spare \/ spare' \in [Events -> Int],
           task' \in TaskType, run' \in [Starters -> RunType],
           lease' \in [Starters -> Epochs \cup {NoLease}]
    PROVE  Invariant'
<1> DEFINE x == At(pc, proc[p].op, proc[p].run, proc[p].epoch)
<1>1. x \in ProcType /\ Goes(p, x)
  BY MovesStep DEF Invariant
<1>2. Sound(x)
  BY DEF Sound, At, OnRun, OnOp
<1>3. spare' \in [Events -> Int]
  BY DEF Invariant, TypeOK
<1> HIDE DEF x
<1> QED  BY <1>1, <1>2, <1>3, LocalStep

-----------------------------------------------------------------------------
(* Starting a run *)
LEMMA StarterStep ==
    ASSUME Invariant, NEW s \in Starters, StarterNext(s)
    PROVE  Invariant'
<1> s \in Procs /\ TypeOK
  BY DEF Procs, Invariant
<1>1. CASE DispatchRead(s)
  <2>1. spare' \in [Events -> Int]
    BY <1>1, SpendType DEF DispatchRead, Events
  <2> QED  BY <1>1, <2>1, MoveStep DEF DispatchRead, TypeOK, OnRun
<1>2. CASE Assign(s)
  <2>1. task' \in TaskType
    BY <1>2 DEF Assign, TypeOK, TaskType
  <2> QED  BY <1>2, <2>1, MoveStep DEF Assign, TypeOK, OnRun
<1>3. CASE NobodyIdle(s)
  BY <1>3, GoStep, RestType DEF NobodyIdle
<1>4. CASE StartRun(s)
  <2>1. task' \in TaskType /\ run' \in [Starters -> RunType]
    BY <1>4 DEF StartRun, TypeOK, TaskType, RunType
  <2> QED  BY <1>4, <2>1, RestType, LocalStep DEF StartRun, TypeOK
<1>5. CASE StarterDies(s)
  BY <1>5, GoStep, RestType DEF StarterDies
<1> QED  BY <1>1, <1>2, <1>3, <1>4, <1>5 DEF StarterNext

(* fail_task and the calls begin by reading the task. *)
LEMMA ReadsType ==
    ASSUME TypeOK, NEW op \in Ops
    PROVE  LET x == At("read", op, task.run, 0) IN x \in ProcType /\ Sound(x)
  BY NumberAssumption DEF TypeOK, TaskType, At, ProcType, Epochs, Sound, OnRun, OnOp

LEMMA FailIsOp == "fail" \in Ops
  BY DEF Ops, Refunds

(* An attempt that enters a step of its run. *)
LEMMA EnterType ==
    ASSUME TypeOK, NEW pc \in OnRun, NEW r \in Starters, NEW e \in Epochs
    PROVE  LET x == At(pc, "none", r, e) IN x \in ProcType /\ Sound(x)
  BY DEF At, ProcType, Sound, OnRun, OnOp

-----------------------------------------------------------------------------
(* Executing a run *)
LEMMA AttemptStep ==
    ASSUME Invariant, NEW a \in Attempts, AttemptNext(a)
    PROVE  Invariant'
<1> a \in Procs /\ TypeOK /\ proc[a] \in ProcType
  BY DEF Procs, Invariant, TypeOK
<1> Sound(proc[a])
  BY DEF Invariant
<1>0. proc[a].pc \in OnRun => Mine(a) \in Starters
  BY DEF Sound, Mine
<1>1. ASSUME NEW r \in Starters, Pick(a, r) PROVE Invariant'
  <2>1. At(IF Path = "legacy" THEN "opening" ELSE "acquiring", "none", r, 0) \in ProcType
    BY NumberAssumption DEF At, ProcType, OnRun, Epochs
  <2>2. Sound(At(IF Path = "legacy" THEN "opening" ELSE "acquiring", "none", r, 0))
    BY DEF At, Sound, OnRun, OnOp
  <2> QED  BY <1>1, <2>1, <2>2, GoStep DEF Pick
<1>2. CASE Acquire(a)
  <2> DEFINE e == IF lease[Mine(a)] = NoLease THEN 0 ELSE lease[Mine(a)] + 1
  <2>1. Mine(a) \in Starters
    BY <1>0, <1>2 DEF Acquire, In, OnRun
  <2>2. e \in Epochs
    BY <1>2, <2>1, NumberAssumption DEF Acquire, TypeOK, Epochs
  <2>3. lease' = [lease EXCEPT ![Mine(a)] = e] /\ Enter(a, "opening", e)
    BY <1>2 DEF Acquire
  <2> HIDE DEF e
  <2>4. lease' \in [Starters -> Epochs \cup {NoLease}]
    BY <2>1, <2>2, <2>3 DEF TypeOK
  <2>5. LET x == At("opening", "none", Mine(a), e) IN x \in ProcType /\ Sound(x)
    BY <2>1, <2>2, EnterType DEF OnRun
  <2>6. spare' \in [Events -> Int]
    <3>1. CASE UNCHANGED spare
      BY <3>1 DEF TypeOK
    <3>2. CASE Spend("takeover")
      BY <3>2, SpendType DEF Events
    <3> QED  BY <1>2, <3>1, <3>2 DEF Acquire
  <2> QED  BY <1>2, <2>3, <2>4, <2>5, <2>6, LocalStep DEF Acquire, Enter, TypeOK
<1>3. CASE NotAcquired(a)
  BY <1>3, GoStep, RestType DEF NotAcquired
<1>4. CASE OpenLegacy(a)
  <2>1. Mine(a) \in Starters
    BY <1>0, <1>4 DEF OpenLegacy, In, OnRun
  <2>2. LET x == At("working", "none", Mine(a), Epoch(Mine(a))) IN x \in ProcType /\ Sound(x)
    BY <2>1, EpochType, EnterType DEF OnRun
  <2>3. task' \in TaskType /\ run' \in [Starters -> RunType]
    BY <1>4, <2>1 DEF OpenLegacy, TypeOK, TaskType, RunType
  <2> QED  BY <1>4, <2>2, <2>3, LocalStep DEF OpenLegacy, Enter, TypeOK
<1>5. CASE OpenLost(a)
  BY <1>5, GoStep, RestType DEF OpenLost
<1>6. CASE OpenControlPlane(a)
  <2>1. Mine(a) \in Starters
    BY <1>0, <1>6 DEF OpenControlPlane, In, OnRun
  <2>2. LET x == At("working", "none", Mine(a), proc[a].epoch) IN x \in ProcType /\ Sound(x)
    BY <2>1, EnterType DEF OnRun, ProcType
  <2>3. task' \in TaskType /\ run' \in [Starters -> RunType]
    BY <1>6, <2>1 DEF OpenControlPlane, TypeOK, TaskType, RunType
  <2> QED  BY <1>6, <2>2, <2>3, LocalStep DEF OpenControlPlane, Enter, TypeOK
<1>7. CASE Finish(a)
  BY <1>0, <1>7, MoveStep DEF Finish, TypeOK, OnRun, In, Mine
<1>8. CASE Stopped(a)
  BY <1>8, GoStep, RestType DEF Stopped
<1>9. CASE Review(a)
  <2>1. Mine(a) \in Starters /\ proc[a].run \in Starters
    BY <1>0, <1>9 DEF Review, In, OnRun, Mine
  <2>2. task' \in TaskType
    BY <1>9, <2>1 DEF Review, TypeOK, TaskType
  <2>3. CASE Path = "legacy"
    <3>1. run' \in [Starters -> RunType]
      BY <1>9, <2>1, <2>3 DEF Review, TypeOK, RunType
    <3> QED  BY <1>9, <2>2, <2>3, <3>1, RestType, LocalStep DEF Review, TypeOK
  <2>4. CASE Path # "legacy"
    BY <1>9, <2>1, <2>2, <2>4, MoveStep DEF Review, TypeOK, OnRun
  <2> QED  BY <2>3, <2>4
<1>10. CASE ReviewLost(a)
  BY <1>10, GoStep, RestType DEF ReviewLost
<1>11. CASE Succeeds(a)
  <2>1. Mine(a) \in Starters /\ proc[a].run \in Starters
    BY <1>0, <1>11 DEF Succeeds, In, OnRun, Mine
  <2>2. run' \in [Starters -> RunType]
    BY <1>11, <2>1 DEF Succeeds, TypeOK, RunType
  <2>3. CASE Goes(a, Over)
    BY <1>11, <2>2, <2>3, RestType, LocalStep DEF Succeeds, TypeOK
  <2>4. CASE Moves(a, "completing")
    BY <1>11, <2>1, <2>2, <2>4, MoveStep DEF Succeeds, TypeOK, OnRun
  <2> QED  BY <1>11, <2>3, <2>4 DEF Succeeds
<1>12. CASE Breaks(a)
  <2>1. proc[a].run \in Starters
    BY <1>0, <1>12 DEF Breaks, In, OnRun, Mine
  <2>0. spare' \in [Events -> Int]
    BY <1>12, SpendType DEF Breaks, Events
  <2>2. CASE Goes(a, Over)
    BY <1>12, <2>0, <2>2, RestType, GoStep DEF Breaks
  <2>3. ASSUME NEW pc \in {"failing", "undoing"}, Moves(a, pc) PROVE Invariant'
    BY <1>12, <2>0, <2>1, <2>3, MoveStep DEF Breaks, TypeOK, OnRun
  <2> QED  BY <1>12, <2>2, <2>3 DEF Breaks
<1>13. CASE MarkFailed(a)
  <2>1. Mine(a) \in Starters /\ proc[a].run \in Starters
    BY <1>0, <1>13 DEF MarkFailed, In, OnRun, Mine
  <2>2. run' \in [Starters -> RunType]
    BY <1>13, <2>1 DEF MarkFailed, TypeOK, RunType
  <2>3. CASE Goes(a, Over)
    BY <1>13, <2>2, <2>3, RestType, LocalStep DEF MarkFailed, TypeOK
  <2>4. CASE Reads(a, "fail")
    BY <1>13, <2>2, <2>4, ReadsType, FailIsOp, LocalStep DEF MarkFailed, TypeOK, Reads
  <2>5. CASE Moves(a, "emitting")
    BY <1>13, <2>1, <2>2, <2>5, MoveStep DEF MarkFailed, TypeOK, OnRun
  <2> QED  BY <1>13, <2>3, <2>4, <2>5 DEF MarkFailed
<1>14. CASE EmitFailed(a)
  <2>1. CASE Goes(a, Over)
    BY <1>14, <2>1, RestType, GoStep DEF EmitFailed
  <2>2. CASE Reads(a, "fail")
    BY <1>14, <2>2, ReadsType, FailIsOp, GoStep DEF EmitFailed, Reads
  <2> QED  BY <1>14, <2>1, <2>2 DEF EmitFailed
<1>15. CASE AttemptDies(a)
  BY <1>15, GoStep, RestType DEF AttemptDies
<1> QED  BY <1>1, <1>2, <1>3, <1>4, <1>5, <1>6, <1>7, <1>8, <1>9, <1>10, <1>11,
            <1>12, <1>13, <1>14, <1>15 DEF AttemptNext

-----------------------------------------------------------------------------
(* Calls on the task *)
LEMMA RequestStep ==
    ASSUME Invariant, NEW q \in Requests, RequestNext(q)
    PROVE  Invariant'
<1> q \in Procs /\ TypeOK /\ proc[q] \in ProcType
  BY DEF Procs, Invariant, TypeOK
<1> Sound(proc[q])
  BY DEF Invariant
<1>1. ASSUME NEW op \in Calls, Call(q, op) PROVE Invariant'
  <2>1. op \in Ops
    BY CallAssumption DEF Ops, Settlements, Refunds
  <2>2. UNCHANGED spare \/ spare' \in [Events -> Int]
    <3>1. CASE Spend("ask")
      BY <3>1, SpendType DEF Events
    <3> QED  BY <1>1, <3>1 DEF Call
  <2> QED  BY <1>1, <2>1, <2>2, ReadsType, GoStep DEF Call, Reads
<1>2. CASE RejectRead(q)
  <2>1. spare' \in [Events -> Int]
    BY <1>2, SpendType DEF RejectRead, Events
  <2> QED  BY <1>2, <2>1, MoveStep DEF RejectRead, TypeOK, OnRun
<1>3. CASE RejectWrite(q)
  <2>1. task' \in TaskType
    <3>1. task' = [status |-> "rejected", run |-> task.run, rejects |-> 1]
      BY <1>3 DEF RejectWrite, TypeOK, TaskType
    <3> QED  BY <3>1 DEF TypeOK, TaskType
  <2> QED  BY <1>3, <2>1, RestType, LocalStep DEF RejectWrite, TypeOK
<1>4. ASSUME NEW r \in Starters, SweepRead(q, r) PROVE Invariant'
  <2>1. 0 \in Epochs /\ "sweeping" \in OnRun
    BY NumberAssumption DEF Epochs, OnRun
  <2>2. spare' \in [Events -> Int]
    BY <1>4, SpendType DEF SweepRead, Events
  <2> QED  BY <1>4, <2>1, <2>2, EnterType, GoStep DEF SweepRead
<1>5. CASE SweepWrite(q)
  <2>1. proc[q].run \in Starters
    BY <1>5 DEF SweepWrite, In, OnRun, Sound
  <2>2. run' \in [Starters -> RunType]
    BY <1>5, <2>1 DEF SweepWrite, TypeOK, RunType
  <2>3. CASE Goes(q, Idle)
    BY <1>5, <2>2, <2>3, RestType, LocalStep DEF SweepWrite, TypeOK
  <2>4. CASE Reads(q, "fail")
    BY <1>5, <2>2, <2>4, ReadsType, FailIsOp, LocalStep DEF SweepWrite, TypeOK, Reads
  <2> QED  BY <1>5, <2>3, <2>4 DEF SweepWrite
<1>6. CASE CallDies(q)
  BY <1>6, GoStep, RestType DEF CallDies
<1> QED  BY <1>1, <1>2, <1>3, <1>4, <1>5, <1>6 DEF RequestNext

-----------------------------------------------------------------------------
(* Terminalization *)

(* A step that decides no command and leaves the hold alone decides no outcome. *)
LEMMA UndecidedStep ==
    ASSUME Invariant, TypeOK', UNCHANGED hold, Decided' = Decided, TriesLeft',
           \A p \in Procs : Sound(proc'[p])
    PROVE  Invariant'
<1>1. OneOutcome'
  BY DEF Invariant, OneOutcome
<1> QED  BY <1>1 DEF Invariant, Sound

(* A process that goes somewhere sound leaves all processes sound. *)
LEMMA SoundAfter ==
    ASSUME Invariant, NEW p \in Procs, NEW x \in ProcType, Sound(x), Goes(p, x)
    PROVE  proc' \in [Procs -> ProcType] /\ \A q \in Procs : Sound(proc'[q])
<1>1. proc' \in [Procs -> ProcType]
  BY DEF Invariant, TypeOK, Goes
<1>2. ASSUME NEW q \in Procs PROVE Sound(proc'[q])
  <2>1. Sound(proc[q])
    BY DEF Invariant
  <2>2. proc'[q] = (IF q = p THEN x ELSE proc[q])
    BY DEF Invariant, TypeOK, Goes
  <2> QED  BY <2>1, <2>2 DEF Sound
<1> QED  BY <1>1, <1>2

(* A command that is marked, and not completed before or after, decides nothing. *)
LEMMA MarksUndecided ==
    ASSUME TypeOK, NEW k \in Keys, cmd[k].status # "completed",
           NEW st \in {"pending", "failed"}, NEW n \in 0..MaxTries, Marks(k, st, n)
    PROVE  cmd' \in [Keys -> CmdType] /\ Decided' = Decided
<1>1. cmd' \in [Keys -> CmdType]
  BY DEF TypeOK, Marks, CmdType
<1>2. \A l \in Keys : cmd'[l] = IF l = k THEN [status |-> st, tries |-> n] ELSE cmd[l]
  BY DEF TypeOK, Marks
<1> QED  BY <1>1, <1>2 DEF Decided

(* The finalizer's transaction: the only step that decides. *)
LEMMA FinalizeStep ==
    ASSUME Invariant, NEW k \in Keys, NEW r \in Starters \cup {NoRun},
           Eligible(k, r), CanBump(k), Finalize(k),
           proc' \in [Procs -> ProcType], \A p \in Procs : Sound(proc'[p])
    PROVE  Invariant'
<1> TypeOK
  BY DEF Invariant
<1>1. hold = "held" /\ Decided = {}
  BY DEF Eligible, Invariant, OneOutcome
<1>2. cmd[k] \in CmdType /\ cmd' \in [Keys -> CmdType]
  BY DEF TypeOK, Finalize, Marks, CmdType
<1>3. \A l \in Keys : cmd'[l] = IF l = k THEN [status |-> "completed", tries |-> cmd[k].tries]
                                ELSE cmd[l]
  BY DEF TypeOK, Finalize, Marks
<1>4. Decided' = {k}
  BY <1>1, <1>3 DEF Decided
<1>5. hold' = (IF k.op \in Settlements THEN "settled" ELSE "refunded")
  BY DEF Finalize
<1>6. OneOutcome'
  BY <1>4, <1>5 DEF OneOutcome
<1>7. TriesLeft'
  BY <1>3 DEF Invariant, TriesLeft
<1>8. task' \in TaskType
  <2>1. k.op \in Ops
    BY DEF Keys
  <2>2. Target(k.op) \in Terminal
    BY <2>1 DEF Target, Ops, Settlements, Refunds, Terminal
  <2> QED  BY <2>2 DEF Finalize, TypeOK, TaskType
<1>9. run' \in [Starters -> RunType] /\ lease' \in [Starters -> Epochs \cup {NoLease}]
  <2>1. CASE k.op \in Refunds
    <3>1. \A s \in Starters : (IF lease[s] = NoLease THEN NoLease ELSE lease[s] + 1)
                                  \in Epochs \cup {NoLease}
      BY NumberAssumption DEF CanBump, TypeOK, Epochs
    <3> QED  BY <2>1, <3>1 DEF Finalize, Fence, TypeOK, RunType
  <2>2. CASE k.op \notin Refunds
    BY <2>2 DEF Finalize, Fence, TypeOK
  <2> QED  BY <2>1, <2>2
<1>10. TypeOK'
  BY <1>2, <1>5, <1>8, <1>9 DEF TypeOK, Finalize
<1> QED  BY <1>6, <1>7, <1>10 DEF Invariant, Sound

(* Where a call ends is sound. *)
LEMMA EndsSound ==
    ASSUME Invariant, NEW p \in Procs, Ends(p)
    PROVE  proc' \in [Procs -> ProcType] /\ \A q \in Procs : Sound(proc'[q])
<1>1. CASE Goes(p, Idle)
  BY <1>1, RestType, SoundAfter
<1>2. CASE Goes(p, Over)
  BY <1>2, RestType, SoundAfter
<1> QED  BY <1>1, <1>2 DEF Ends

LEMMA TerminalStep ==
    ASSUME Invariant, NEW p \in Attempts \cup Requests, TerminalNext(p)
    PROVE  Invariant'
<1> p \in Procs /\ TypeOK /\ proc[p] \in ProcType
  BY DEF Procs, Invariant, TypeOK
<1> Sound(proc[p])
  BY DEF Invariant
<1> proc[p].run \in Starters \cup {NoRun} /\ proc[p].epoch \in Epochs
  BY DEF ProcType
<1>1. CASE Submit(p)
  <2> DEFINE e == Epoch(proc[p].run)
             k == [op |-> proc[p].op, epoch |-> e]
             x == At("submitted", k.op, proc[p].run, k.epoch)
  <2>1. proc[p].op \in Ops
    BY <1>1 DEF Submit, In, Sound, OnOp
  <2>2. e \in Epochs
    BY EpochType
  <2>3. k \in Keys /\ k.op = proc[p].op /\ k.epoch = e
    BY <2>1, <2>2 DEF Keys
  <2>4. x \in ProcType /\ Sound(x)
    BY <2>1, <2>2, <2>3 DEF At, ProcType, Sound, OnRun, OnOp
  <2>5. /\ IF cmd[k].status = "none" THEN Marks(k, "pending", 0) ELSE UNCHANGED cmd
        /\ Goes(p, x) /\ UNCHANGED <<task, hold, run, lease, spare>>
    BY <1>1 DEF Submit
  <2> HIDE DEF e, k, x
  <2>6. proc' \in [Procs -> ProcType] /\ \A q \in Procs : Sound(proc'[q])
    BY <2>4, <2>5, SoundAfter
  <2>7. CASE cmd[k].status = "none"
    <3>1. 0 \in 0..MaxTries /\ 0 < MaxTries
      BY NumberAssumption
    <3>2. cmd' \in [Keys -> CmdType] /\ Decided' = Decided
      BY <2>3, <2>5, <2>7, <3>1, MarksUndecided
    <3>3. \A l \in Keys : cmd'[l] = IF l = k THEN [status |-> "pending", tries |-> 0] ELSE cmd[l]
      BY <2>5, <2>7 DEF TypeOK, Marks
    <3>4. TriesLeft'
      BY <3>1, <3>3 DEF Invariant, TriesLeft
    <3>5. TypeOK'
      BY <2>5, <2>6, <3>2 DEF TypeOK
    <3> QED  BY <2>5, <2>6, <3>2, <3>4, <3>5, UndecidedStep
  <2>8. CASE cmd[k].status # "none"
    <3>1. TypeOK' /\ TriesLeft' /\ Decided' = Decided
      BY <2>5, <2>6, <2>8 DEF Invariant, TypeOK, TriesLeft, Decided
    <3> QED  BY <2>5, <2>6, <3>1, UndecidedStep
  <2> QED  BY <2>7, <2>8
<1>2. ASSUME Ends(p), UNCHANGED <<task, hold, run, lease, cmd, spare>> PROVE Invariant'
  <2>1. CASE Goes(p, Idle)
    BY <1>2, <2>1, RestType, GoStep
  <2>2. CASE Goes(p, Over)
    BY <1>2, <2>2, RestType, GoStep
  <2> QED  BY <1>2, <2>1, <2>2 DEF Ends
<1>3. CASE Refused(p)
  BY <1>2, <1>3 DEF Refused
<1>4. CASE CallerStops(p)
  BY <1>2, <1>4 DEF CallerStops
<1>5. CASE CallerFinalizes(p)
  <2>1. KeyOf(p) \in Keys
    BY <1>5 DEF CallerFinalizes, In, Sound, OnOp, KeyOf, Keys
  <2>2. proc' \in [Procs -> ProcType] /\ \A q \in Procs : Sound(proc'[q])
    BY <1>5, EndsSound DEF CallerFinalizes
  <2> QED  BY <1>5, <2>1, <2>2, FinalizeStep DEF CallerFinalizes
<1> QED  BY <1>1, <1>3, <1>4, <1>5 DEF TerminalNext

LEMMA WorkerStep ==
    ASSUME Invariant, NEW k \in Keys, WorkerNext(k)
    PROVE  Invariant'
<1> TypeOK /\ \A p \in Procs : Sound(proc[p])
  BY DEF Invariant
<1>1. CASE WorkerFinalizes(k)
  <2>1. task.run \in Starters \cup {NoRun} /\ proc' = proc
    BY <1>1 DEF TypeOK, TaskType, WorkerFinalizes
  <2> QED  BY <1>1, <2>1, FinalizeStep DEF WorkerFinalizes, TypeOK
<1>2. ASSUME cmd[k].status = "pending", NEW st \in {"pending", "failed"}, NEW n \in 0..MaxTries,
             Marks(k, st, n), st = "pending" => n < MaxTries, spare' \in [Events -> Int],
             UNCHANGED <<task, hold, run, lease, proc>>
      PROVE  Invariant'
  <2>1. cmd' \in [Keys -> CmdType] /\ Decided' = Decided
    BY <1>2, MarksUndecided
  <2>2. \A l \in Keys : cmd'[l] = IF l = k THEN [status |-> st, tries |-> n] ELSE cmd[l]
    BY <1>2 DEF TypeOK, Marks
  <2>3. TriesLeft'
    BY <1>2, <2>2 DEF Invariant, TriesLeft
  <2>4. TypeOK'
    BY <1>2, <2>1 DEF TypeOK
  <2> QED  BY <1>2, <2>1, <2>3, <2>4, UndecidedStep
<1>3. cmd[k].tries \in 0..MaxTries /\ spare \in [Events -> Int]
  BY DEF TypeOK, CmdType
<1>4. CASE WorkerFails(k)
  BY <1>2, <1>3, <1>4 DEF WorkerFails
<1>5. CASE WorkerRetries(k)
  <2> DEFINE n == cmd[k].tries + 1
             st == IF n < MaxTries THEN "pending" ELSE "failed"
  <2>1. cmd[k].status = "pending" /\ cmd[k].tries < MaxTries
    BY <1>5 DEF WorkerRetries, Invariant, TriesLeft
  <2>2. n \in 0..MaxTries /\ st \in {"pending", "failed"} /\ (st = "pending" => n < MaxTries)
    BY <1>3, <2>1, NumberAssumption
  <2>3. Marks(k, st, n) /\ spare' \in [Events -> Int] /\ UNCHANGED <<task, hold, run, lease, proc>>
    <3>1. Spend("retry")
      BY <1>5 DEF WorkerRetries
    <3>2. spare' \in [Events -> Int]
      BY <3>1, SpendType DEF Events
    <3> QED  BY <1>5, <3>2 DEF WorkerRetries
  <2> HIDE DEF n, st
  <2> QED  BY <1>2, <2>1, <2>2, <2>3
<1> QED  BY <1>1, <1>4, <1>5 DEF WorkerNext

-----------------------------------------------------------------------------
LEMMA InitInvariant == Init => Invariant
<1> SUFFICES ASSUME Init PROVE Invariant
  OBVIOUS
<1>1. \A p \in Procs : proc[p] \in ProcType /\ Sound(proc[p])
  <2>1. At("picking", "none", NoRun, 0) \in ProcType /\ Sound(At("picking", "none", NoRun, 0))
    BY NumberAssumption DEF At, ProcType, Epochs, Sound, OnRun, OnOp
  <2> QED  BY <2>1, RestType DEF Init
<1>2. TypeOK
  <2>1. task \in TaskType
    BY DEF Init, TaskType
  <2>2. cmd \in [Keys -> CmdType]
    BY NumberAssumption DEF Init, CmdType
  <2>3. spare \in [Events -> Int]
    BY BudgetAssumption DEF Init
  <2> QED  BY <1>1, <2>1, <2>2, <2>3 DEF Init, TypeOK, RunType
<1>3. Decided = {} /\ TriesLeft
  BY NumberAssumption DEF Init, Decided, TriesLeft
<1>4. OneOutcome
  BY <1>3 DEF Init, OneOutcome
<1> QED  BY <1>1, <1>2, <1>3, <1>4 DEF Invariant

LEMMA StepInvariant == Invariant /\ [Next]_vars => Invariant'
<1> SUFFICES ASSUME Invariant, [Next]_vars PROVE Invariant'
  OBVIOUS
<1>1. CASE UNCHANGED vars
  BY <1>1 DEF vars, Invariant, TypeOK, OneOutcome, TriesLeft, Decided, Sound
<1>2. CASE Next
  BY <1>2, StarterStep, AttemptStep, RequestStep, TerminalStep, WorkerStep DEF Next
<1> QED  BY <1>1, <1>2

LEMMA Inductive == Spec => []Invariant
  BY InitInvariant, StepInvariant, PTL DEF Spec

(* The rows and the processes of a commission keep the values the code gives them. *)
THEOREM TaskTyping == Spec => []TypeOK
<1>1. Invariant => TypeOK
  BY DEF Invariant
<1> QED  BY <1>1, Inductive, PTL

(* A commission's escrow is paid out once, by the one command that completed, on both
   paths and whatever overlaps (_finalize_orm_attempt: hold, task, runs and command
   move in one transaction). *)
THEOREM EscrowLeavesOnce == Spec => []OneOutcome
<1>1. Invariant => OneOutcome
  BY DEF Invariant
<1> QED  BY <1>1, Inductive, PTL

-----------------------------------------------------------------------------
(* The legacy path, when no call on a task overlaps its start: a task is started by one
   process, with nothing else going on, so it has one run at most *)

LegacyAlone == Path = "legacy" /\ "start" \notin Overlap

Unstarted == /\ task.run = NoRun /\ \A s \in Starters : run[s] = "none"
             /\ \A a \in Attempts : In(a, {"idle", "done"})

StartsAlone ==
    /\ \A s, t \in Starters : In(s, {"picking", "starting"}) /\ In(t, {"picking", "starting"}) => s = t
    /\ \A s \in Starters : /\ In(s, {"picking"}) => task.status = "funded"
                           /\ In(s, {"starting"}) => task.status = "assigned"
    /\ Starting => Unstarted /\ ~Serving /\ ~Promised /\ hold = "held"
    /\ task.status = "funded" => Unstarted /\ hold = "held"

OneRun ==
    /\ \A s \in Starters : run[s] # "none" => task.run = s
    /\ \A s \in Starters : run[s] = "running" => task.status \notin {"funded", "assigned"}
    /\ \A p \in Procs : In(p, OnRun) => run[proc[p].run] # "none"

PaidWorkOver == hold # "held" => task.status \notin {"funded", "assigned", "running"}

Legacy == Invariant /\ StartsAlone /\ OneRun /\ PaidWorkOver /\ RefundStopsWork

(* A step that is not of a starter, while no task is being started. *)
LEMMA AloneKept ==
    ASSUME StartsAlone, ~Starting, \A s \in Starters : proc'[s] = proc[s],
           task'.status = "funded" => UNCHANGED <<task, run, hold>> /\ \A a \in Attempts : proc'[a] = proc[a]
    PROVE  StartsAlone'
<1>1. ~Starting'
  BY DEF Starting, In
<1> QED  BY <1>1 DEF StartsAlone, Starting, Unstarted, In

(* One process goes on, and the rows stay. *)
LEMMA RowsKept ==
    ASSUME Legacy, NEW p \in Procs, UNCHANGED <<task, hold, run>>,
           \A q \in Procs : q # p => proc'[q] = proc[q],
           proc'[p].pc \in OnRun => run[proc'[p].run] # "none"
    PROVE  OneRun' /\ PaidWorkOver' /\ RefundStopsWork'
  BY DEF Legacy, OneRun, PaidWorkOver, RefundStopsWork, In

(* A run that is set leaves the others alone. *)
LEMMA RunSet ==
    ASSUME TypeOK, NEW r \in Starters, NEW st, run' = [run EXCEPT ![r] = st]
    PROVE  \A s \in Starters : run'[s] = IF s = r THEN st ELSE run[s]
  BY DEF TypeOK

(* A process that goes on leaves the others alone. *)
LEMMA ProcSet ==
    ASSUME TypeOK, NEW p \in Procs, NEW x, Goes(p, x)
    PROVE  \A q \in Procs : proc'[q] = IF q = p THEN x ELSE proc[q]
  BY DEF TypeOK, Goes

LEMMA ProcMoved ==
    ASSUME TypeOK, NEW p \in Procs, NEW pc, Moves(p, pc)
    PROVE  \A q \in Procs : proc'[q] = IF q = p THEN At(pc, proc[p].op, proc[p].run, proc[p].epoch) ELSE proc[q]
  BY DEF TypeOK, Goes, Moves

LEMMA AtParts ==
    ASSUME NEW pc, NEW op, NEW r, NEW e
    PROVE  At(pc, op, r, e).pc = pc /\ At(pc, op, r, e).run = r
  BY DEF At

LEMMA LegacyStarter ==
    ASSUME LegacyAlone, Legacy, NEW s \in Starters, StarterNext(s)
    PROVE  StartsAlone' /\ OneRun' /\ PaidWorkOver' /\ RefundStopsWork'
<1> TypeOK /\ s \in Procs
  BY DEF Legacy, Invariant, Procs
<1> USE DEF LegacyAlone
<1>0. \A q \in Requests \cup Attempts : q \in Procs /\ q # s
  BY ProcAssumption DEF Procs
<1>1. CASE DispatchRead(s)
  <2>1. ~Starting /\ ~Serving /\ ~Promised /\ task.status = "funded"
    BY <1>1 DEF DispatchRead
  <2>2. \A q \in Procs : proc'[q] = IF q = s THEN At("picking", proc[s].op, proc[s].run, proc[s].epoch) ELSE proc[q]
    BY <1>1, ProcMoved DEF DispatchRead
  <2>3. UNCHANGED <<task, hold, run, cmd>> /\ proc'[s].pc = "picking"
    BY <1>1, <2>2, AtParts DEF DispatchRead
  <2>4. StartsAlone'
    BY <1>0, <2>1, <2>2, <2>3 DEF Legacy, StartsAlone, Starting, Serving, Promised, Unstarted, In, Procs
  <2> QED  BY <2>2, <2>3, <2>4, RowsKept DEF OnRun
<1>2. CASE Assign(s)
  <2>1. \A q \in Procs : proc'[q] = IF q = s THEN At("starting", proc[s].op, proc[s].run, proc[s].epoch) ELSE proc[q]
    BY <1>2, ProcMoved DEF Assign
  <2>2. /\ UNCHANGED <<hold, run, cmd>> /\ proc'[s].pc = "starting"
        /\ task'.status = "assigned" /\ task'.run = task.run
    BY <1>2, <2>1, AtParts DEF Assign, TypeOK, TaskType
  <2>3. Starting /\ Unstarted /\ ~Serving /\ ~Promised /\ hold = "held"
    BY <1>2 DEF Assign, Starting, Legacy, StartsAlone, In
  <2>4. StartsAlone'
    BY <1>0, <1>2, <2>1, <2>2, <2>3
       DEF Assign, Legacy, StartsAlone, Starting, Serving, Promised, Unstarted, In, Procs
  <2>5. OneRun' /\ PaidWorkOver' /\ RefundStopsWork'
    BY <2>1, <2>2, <2>3 DEF Legacy, OneRun, Unstarted, PaidWorkOver, RefundStopsWork, In, OnRun
  <2> QED  BY <2>4, <2>5
<1>3. CASE NobodyIdle(s) \/ StarterDies(s)
  <2>1. /\ UNCHANGED <<task, hold, run, cmd>> /\ In(s, {"picking", "starting"})
        /\ \E x \in {Over, Idle} : Goes(s, x)
    BY <1>3 DEF NobodyIdle, StarterDies, In
  <2>2. proc'[s].pc \in {"idle", "done"} /\ \A q \in Procs : q # s => proc'[q] = proc[q]
    BY <2>1, ProcSet, AtParts DEF Idle, Over
  <2>3. StartsAlone'
    BY <1>0, <2>1, <2>2 DEF Legacy, StartsAlone, Starting, Serving, Promised, Unstarted, In, Procs
  <2> QED  BY <2>1, <2>2, <2>3, RowsKept DEF OnRun
<1>4. CASE StartRun(s)
  <2>1. /\ UNCHANGED <<hold, cmd>> /\ In(s, {"starting"}) /\ Goes(s, Over) /\ run' = [run EXCEPT ![s] = "queued"]
        /\ task'.status = task.status /\ task'.run = s
    BY <1>4 DEF StartRun, TypeOK, TaskType
  <2>2. proc'[s].pc = "done" /\ \A q \in Procs : q # s => proc'[q] = proc[q]
    BY <2>1, ProcSet, AtParts DEF Over
  <2>3. Starting /\ Unstarted /\ hold = "held" /\ task.status = "assigned"
    BY <2>1 DEF Starting, Legacy, StartsAlone, In
  <2>4. \A t \in Starters : run'[t] = IF t = s THEN "queued" ELSE run[t]
    BY <2>1, RunSet
  <2>5. StartsAlone'
    BY <1>0, <2>1, <2>2, <2>3 DEF Legacy, StartsAlone, Starting, In, Procs
  <2>6. OneRun' /\ PaidWorkOver' /\ RefundStopsWork'
    <3>1. ASSUME NEW p \in Procs, In(p, OnRun)' PROVE run'[proc'[p].run] # "none"
      <4>1. p # s /\ In(p, OnRun) /\ proc'[p] = proc[p]
        BY <2>2, <3>1 DEF In, OnRun
      <4>2. Sound(proc[p]) /\ run[proc[p].run] # "none"
        BY <4>1 DEF Legacy, OneRun, Invariant
      <4> QED  BY <2>4, <4>1, <4>2 DEF Sound, In
    <3> QED  BY <2>1, <2>3, <2>4, <3>1 DEF OneRun, Unstarted, PaidWorkOver, RefundStopsWork, ActiveRun
  <2> QED  BY <2>5, <2>6
<1> QED  BY <1>1, <1>2, <1>3, <1>4 DEF StarterNext

(* An attempt that is at work: its task is not being started, and has its run. *)
LEMMA LegacyAttempt ==
    ASSUME LegacyAlone, Legacy, NEW a \in Attempts, AttemptNext(a)
    PROVE  StartsAlone' /\ OneRun' /\ PaidWorkOver' /\ RefundStopsWork'
<1> TypeOK /\ a \in Procs /\ \A s \in Starters : s \in Procs /\ s # a
  BY ProcAssumption DEF Legacy, Invariant, Procs
<1> USE DEF LegacyAlone
<1>1. ~Starting /\ task.status # "funded"
  <2>1. CASE \E r \in Starters : Pick(a, r)
    BY <2>1 DEF Pick, Legacy, StartsAlone, Unstarted
  <2>2. CASE ~In(a, {"idle", "done"})
    BY <2>2 DEF Legacy, StartsAlone, Unstarted
  <2> QED  BY <2>1, <2>2 DEF AttemptNext, Acquire, NotAcquired, OpenLegacy, OpenLost, OpenControlPlane, Finish,
         Stopped, Review, ReviewLost, Succeeds, Breaks, MarkFailed, EmitFailed, AttemptDies, In
<1>2. ASSUME NEW x, Goes(a, x), task'.status # "funded" PROVE StartsAlone'
  <2>1. \A s \in Starters : proc'[s] = proc[s]
    BY <1>2, ProcSet
  <2> QED  BY <1>1, <1>2, <2>1, AloneKept DEF Legacy
<1>3. ASSUME NEW x, Goes(a, x), UNCHANGED <<task, hold, run>>, x.pc \in OnRun => run[x.run] # "none"
      PROVE  StartsAlone' /\ OneRun' /\ PaidWorkOver' /\ RefundStopsWork'
  <2>1. \A q \in Procs : proc'[q] = IF q = a THEN x ELSE proc[q]
    BY <1>3, ProcSet
  <2> QED  BY <1>1, <1>2, <1>3, <2>1, RowsKept
<1>4. ASSUME NEW pc, Moves(a, pc), UNCHANGED <<task, hold, run>>, pc \in OnRun => In(a, OnRun)
      PROVE  StartsAlone' /\ OneRun' /\ PaidWorkOver' /\ RefundStopsWork'
  <2> DEFINE x == At(pc, proc[a].op, proc[a].run, proc[a].epoch)
  <2>1. Goes(a, x) /\ x.pc = pc /\ x.run = proc[a].run
    BY <1>4, MovesStep, AtParts DEF Moves, Goes, TypeOK, At, ProcType
  <2>2. x.pc \in OnRun => run[x.run] # "none"
    BY <1>4, <2>1 DEF Legacy, OneRun
  <2> HIDE DEF x
  <2> QED  BY <1>3, <1>4, <2>1, <2>2
<1>5. In(a, OnRun) => Mine(a) \in Starters /\ run[Mine(a)] # "none" /\ task.run = Mine(a)
  BY DEF Legacy, Invariant, Sound, OneRun, Mine, In
\* the run's row is written, and the attempt is over or has its task to read
<1>6. ASSUME NEW x, Goes(a, x), x.pc \notin OnRun, In(a, OnRun), NEW st \in {"succeeded", "failed"},
             run' = [run EXCEPT ![Mine(a)] = st], hold' = hold, task'.run = task.run,
             task'.status \in {task.status, "review"}
      PROVE  StartsAlone' /\ OneRun' /\ PaidWorkOver' /\ RefundStopsWork'
  <2>1. \A q \in Procs : proc'[q] = IF q = a THEN x ELSE proc[q]
    BY <1>6, ProcSet
  <2>2. \A s \in Starters : run'[s] = IF s = Mine(a) THEN st ELSE run[s]
    BY <1>5, <1>6, RunSet
  <2>3. \A p \in Procs : In(p, OnRun)' => p # a /\ In(p, OnRun) /\ proc'[p] = proc[p] /\ proc[p].run \in Starters
    BY <1>6, <2>1 DEF In, Legacy, Invariant, Sound
  <2>4. OneRun' /\ PaidWorkOver' /\ RefundStopsWork'
    BY <1>5, <1>6, <2>2, <2>3 DEF Legacy, OneRun, PaidWorkOver, RefundStopsWork, ActiveRun
  <2> QED  BY <1>1, <1>2, <1>6, <2>4
<1>7. ASSUME NEW r \in Starters, Pick(a, r) PROVE StartsAlone' /\ OneRun' /\ PaidWorkOver' /\ RefundStopsWork'
  <2>1. Goes(a, At("opening", "none", r, 0)) /\ UNCHANGED <<task, hold, run>> /\ run[r] = "queued"
    BY <1>7 DEF Pick
  <2> QED  BY <1>3, <2>1, AtParts
<1>8. CASE Acquire(a)
  <2>1. PICK e : Enter(a, "opening", e)
    BY <1>8 DEF Acquire
  <2> QED  BY <1>3, <1>5, <1>8, <2>1, AtParts DEF Acquire, Enter, In, OnRun
<1>9. CASE NotAcquired(a) \/ OpenLost(a) \/ Stopped(a) \/ ReviewLost(a) \/ AttemptDies(a)
  <2>1. Goes(a, Over) /\ UNCHANGED <<task, hold, run>>
    BY <1>9 DEF NotAcquired, OpenLost, Stopped, ReviewLost, AttemptDies
  <2>2. Over.pc \notin OnRun
    BY AtParts DEF Over, OnRun
  <2> QED  BY <1>3, <2>1, <2>2
<1>10. CASE OpenLegacy(a)
  <2>1. PICK e : Goes(a, At("working", "none", Mine(a), e))
    BY <1>10 DEF OpenLegacy, Enter
  <2>2. \A q \in Procs : proc'[q] = IF q = a THEN At("working", "none", Mine(a), e) ELSE proc[q]
    BY <2>1, ProcSet
  <2>3. /\ In(a, OnRun) /\ hold' = hold /\ task.status = "assigned" /\ task'.status = "running"
        /\ task'.run = task.run /\ run' = [run EXCEPT ![Mine(a)] = "running"]
    BY <1>10 DEF OpenLegacy, In, OnRun, TypeOK, TaskType
  <2>4. \A s \in Starters : run'[s] = IF s = Mine(a) THEN "running" ELSE run[s]
    BY <1>5, <2>3, RunSet, ZenonT(40)
  <2>5. hold = "held"
    BY <2>3 DEF Legacy, PaidWorkOver
  <2>6. \A p \in Procs : In(p, OnRun)' => proc'[p].run \in Starters /\ run'[proc'[p].run] # "none"
    <3>1. At("working", "none", Mine(a), e).run = Mine(a)
      BY AtParts
    <3> QED  BY <1>5, <2>2, <2>3, <2>4, <3>1 DEF In, Legacy, Invariant, Sound, OneRun
  <2>7. OneRun' /\ PaidWorkOver' /\ RefundStopsWork'
    BY <1>5, <2>3, <2>4, <2>5, <2>6 DEF Legacy, OneRun, PaidWorkOver, RefundStopsWork
  <2> QED  BY <1>1, <1>2, <2>1, <2>3, <2>7
<1>11. CASE Finish(a)
  BY <1>4, <1>11 DEF Finish, In, OnRun
<1>12. CASE Review(a)
  <2>1. Goes(a, Over) /\ hold' = hold /\ In(a, OnRun) /\ run' = [run EXCEPT ![Mine(a)] = "succeeded"]
    BY <1>12 DEF Review, In, OnRun
  <2>2. task'.run = task.run /\ task'.status = "review"
    BY <1>5, <1>12, <2>1 DEF Review, TypeOK, TaskType
  <2>3. Over.pc \notin OnRun
    BY AtParts DEF Over, OnRun
  <2> QED  BY <1>6, <2>1, <2>2, <2>3
<1>13. CASE Succeeds(a)
  <2>1. In(a, OnRun) /\ UNCHANGED <<task, hold>> /\ run' = [run EXCEPT ![Mine(a)] = "succeeded"]
    BY <1>13 DEF Succeeds, In, OnRun
  <2>2. PICK x : Goes(a, x) /\ (x.pc \in OnRun => x.run = Mine(a))
    <3>1. Over.pc \notin OnRun
      BY AtParts DEF Over, OnRun
    <3>2. Moves(a, "completing") => Goes(a, At("completing", proc[a].op, proc[a].run, proc[a].epoch))
      BY MovesStep DEF OnRun
    <3> QED  BY <1>13, <3>1, <3>2, AtParts DEF Succeeds, Mine
  <2>3. \A q \in Procs : proc'[q] = IF q = a THEN x ELSE proc[q]
    BY <2>2, ProcSet
  <2>4. \A s \in Starters : run'[s] = IF s = Mine(a) THEN "succeeded" ELSE run[s]
    <3>1. Mine(a) \in Starters
      BY <1>5, <2>1
    <3> QED  BY <2>1, <3>1, RunSet
  <2>5. \A p \in Procs : In(p, OnRun)' => proc'[p].run \in Starters /\ run'[proc'[p].run] # "none"
    BY <1>5, <2>1, <2>2, <2>3, <2>4 DEF In, Legacy, Invariant, Sound, OneRun
  <2>6. OneRun' /\ PaidWorkOver' /\ RefundStopsWork'
    BY <1>5, <2>1, <2>4, <2>5 DEF Legacy, OneRun, PaidWorkOver, RefundStopsWork, ActiveRun
  <2> QED  BY <1>1, <1>2, <2>1, <2>2, <2>6
<1>14. CASE Breaks(a)
  <2>1. CASE Goes(a, Over)
    <3>1. Over.pc \notin OnRun
      BY AtParts DEF Over, OnRun
    <3> QED  BY <1>3, <1>14, <2>1, <3>1 DEF Breaks
  <2>2. CASE ~Goes(a, Over)
    BY <1>4, <1>14, <2>2 DEF Breaks, In, OnRun
  <2> QED  BY <2>1, <2>2
<1>15. CASE MarkFailed(a)
  <2>1. UNCHANGED <<task, hold>> /\ In(a, OnRun) /\ \E x \in {Over, At("read", "fail", task.run, 0)} : Goes(a, x)
    BY <1>15 DEF MarkFailed, Reads, In, OnRun
  <2>2. PICK x \in {Over, At("read", "fail", task.run, 0)} : Goes(a, x)
    BY <2>1
  <2>3. x.pc \notin OnRun
    BY AtParts DEF Over, OnRun
  <2>4. run' = run \/ run' = [run EXCEPT ![Mine(a)] = "failed"]
    BY <1>15 DEF MarkFailed
  <2> QED  BY <1>3, <1>6, <2>1, <2>2, <2>3, <2>4
<1>16. CASE EmitFailed(a)
  <2>1. PICK x \in {Over, At("read", "fail", task.run, 0)} : Goes(a, x)
    BY <1>16 DEF EmitFailed, Reads
  <2>2. x.pc \notin OnRun
    BY AtParts DEF Over, OnRun
  <2> QED  BY <1>3, <1>16, <2>1, <2>2 DEF EmitFailed
<1> QED  BY <1>7, <1>8, <1>9, <1>10, <1>11, <1>12, <1>13, <1>14, <1>15, <1>16 DEF AttemptNext, OpenControlPlane

(* A call on the task, or the sweep: the task is not being started. *)
LEMMA LegacyRequest ==
    ASSUME LegacyAlone, Legacy, NEW q \in Requests, RequestNext(q)
    PROVE  StartsAlone' /\ OneRun' /\ PaidWorkOver' /\ RefundStopsWork'
<1> TypeOK /\ q \in Procs /\ \A p \in Starters \cup Attempts : p \in Procs /\ p # q
  BY ProcAssumption DEF Legacy, Invariant, Procs
<1> USE DEF LegacyAlone
<1>1. ~Starting
  <2>1. CASE Admitted(q)
    BY <2>1 DEF Admitted
  <2>2. CASE ~In(q, {"idle"})
    BY <2>2 DEF Legacy, StartsAlone, Serving
  <2> QED  BY <2>1, <2>2 DEF RequestNext, Call, RejectRead, RejectWrite, SweepRead, SweepWrite, CallDies, In
<1>2. ASSUME NEW x, Goes(q, x), hold' = hold, task'.status = "funded" => UNCHANGED <<task, run>>
      PROVE  StartsAlone'
  <2>1. \A p \in Procs : p # q => proc'[p] = proc[p]
    BY <1>2, ProcSet
  <2> QED  BY <1>1, <1>2, <2>1, AloneKept DEF Legacy
<1>3. ASSUME NEW x, Goes(q, x), UNCHANGED <<task, hold, run>>, x.pc \in OnRun => run[x.run] # "none"
      PROVE  StartsAlone' /\ OneRun' /\ PaidWorkOver' /\ RefundStopsWork'
  <2>1. \A p \in Procs : proc'[p] = IF p = q THEN x ELSE proc[p]
    BY <1>3, ProcSet
  <2> QED  BY <1>2, <1>3, <2>1, RowsKept
<1>4. ASSUME NEW op \in Ops, Call(q, op) PROVE StartsAlone' /\ OneRun' /\ PaidWorkOver' /\ RefundStopsWork'
  <2>1. Goes(q, At("read", op, task.run, 0)) /\ UNCHANGED <<task, hold, run>>
    BY <1>4 DEF Call, Reads
  <2>2. At("read", op, task.run, 0).pc \notin OnRun
    BY AtParts DEF OnRun
  <2> QED  BY <1>3, <2>1, <2>2
<1>5. CASE RejectRead(q)
  <2>1. PICK x : Goes(q, x) /\ x.pc = "rejecting"
    <3>1. Moves(q, "rejecting")
      BY <1>5 DEF RejectRead
    <3> QED  BY <3>1, MovesStep, AtParts
  <2> QED  BY <1>3, <1>5, <2>1 DEF RejectRead, OnRun
<1>6. CASE RejectWrite(q)
  <2>1. Goes(q, Idle) /\ UNCHANGED <<hold, run>> /\ task'.status = "rejected" /\ task'.run = task.run
    BY <1>6 DEF RejectWrite, TypeOK, TaskType
  <2>2. Idle.pc \notin OnRun
    BY AtParts DEF Idle, OnRun
  <2>3. \A p \in Procs : proc'[p] = IF p = q THEN Idle ELSE proc[p]
    BY <2>1, ProcSet
  <2>4. OneRun' /\ PaidWorkOver' /\ RefundStopsWork'
    BY <2>1, <2>2, <2>3 DEF Legacy, OneRun, PaidWorkOver, RefundStopsWork, In
  <2> QED  BY <1>2, <2>1, <2>4
<1>7. ASSUME NEW r \in Starters, SweepRead(q, r) PROVE StartsAlone' /\ OneRun' /\ PaidWorkOver' /\ RefundStopsWork'
  <2>1. Goes(q, At("sweeping", "none", r, 0)) /\ UNCHANGED <<task, hold, run>> /\ run[r] = "running"
    BY <1>7 DEF SweepRead
  <2> QED  BY <1>3, <2>1, AtParts
<1>8. CASE SweepWrite(q)
  <2>1. /\ In(q, OnRun) /\ UNCHANGED <<task, hold>> /\ run' = [run EXCEPT ![proc[q].run] = "failed"]
        /\ \E x \in {Idle, At("read", "fail", task.run, 0)} : Goes(q, x)
    BY <1>8 DEF SweepWrite, Reads, In, OnRun
  <2>2. PICK x \in {Idle, At("read", "fail", task.run, 0)} : Goes(q, x)
    BY <2>1
  <2>3. x.pc \notin OnRun
    BY AtParts DEF Idle, OnRun
  <2>4. \A p \in Procs : proc'[p] = IF p = q THEN x ELSE proc[p]
    BY <2>2, ProcSet
  <2>5. proc[q].run \in Starters /\ run[proc[q].run] # "none"
    BY <2>1 DEF Legacy, Invariant, Sound, OneRun, In
  <2>6. \A s \in Starters : run'[s] = IF s = proc[q].run THEN "failed" ELSE run[s]
    BY <2>1, <2>5, RunSet
  <2>7. \A p \in Procs : In(p, OnRun)' => In(p, OnRun) /\ proc'[p] = proc[p] /\ proc[p].run \in Starters
    BY <2>3, <2>4 DEF In, Legacy, Invariant, Sound
  <2>8. OneRun' /\ PaidWorkOver' /\ RefundStopsWork'
    BY <2>1, <2>5, <2>6, <2>7 DEF Legacy, OneRun, PaidWorkOver, RefundStopsWork, ActiveRun
  <2>9. task.status # "funded"
    BY <2>5 DEF Legacy, StartsAlone, Unstarted
  <2> QED  BY <1>2, <2>1, <2>2, <2>8, <2>9
<1>9. CASE CallDies(q)
  <2>1. Idle.pc \notin OnRun
    BY AtParts DEF Idle, OnRun
  <2> QED  BY <1>3, <1>9, <2>1 DEF CallDies
<1>10. Calls \subseteq Ops
  BY CallAssumption DEF Ops, Settlements, Refunds
<1> QED  BY <1>4, <1>5, <1>6, <1>7, <1>8, <1>9, <1>10 DEF RequestNext

(* The finalizer ends the task and stops its runs, while the task is not being started. *)
LEMMA LegacyFinalize ==
    ASSUME Legacy, ~Starting, NEW k \in Keys, NEW r, Eligible(k, r), Finalize(k),
           \A s \in Starters : proc'[s] = proc[s],
           \A p \in Procs : In(p, OnRun)' => proc'[p] = proc[p]
    PROVE  StartsAlone' /\ OneRun' /\ PaidWorkOver' /\ RefundStopsWork'
<1> TypeOK
  BY DEF Legacy, Invariant
<1>1. task'.status \in Terminal /\ task'.run = task.run
  <2>1. k.op \in Ops
    BY DEF Keys
  <2>2. Target(k.op) \in Terminal
    BY <2>1 DEF Target, Ops, Settlements, Refunds, Terminal
  <2> QED  BY <2>2 DEF Finalize, TypeOK, TaskType
<1>2. StartsAlone'
  BY <1>1, AloneKept DEF Legacy, Terminal
<1>3. /\ \A s \in Starters : run'[s] = run[s] \/ (run'[s] = "cancelled" /\ run[s] # "none")
      /\ k.op \in Refunds => \A s \in Starters : run'[s] \notin ActiveRun
      /\ k.op \notin Refunds => hold' = "settled"
  BY DEF Finalize, Fence, TypeOK, ActiveRun, Keys, Ops
<1>4. \A p \in Procs : In(p, OnRun)' => In(p, OnRun) /\ proc'[p] = proc[p] /\ proc[p].run \in Starters
  BY DEF In, Legacy, Invariant, Sound
<1>5. OneRun' /\ PaidWorkOver' /\ RefundStopsWork'
  BY <1>1, <1>3, <1>4 DEF Legacy, OneRun, PaidWorkOver, RefundStopsWork, Terminal
<1> QED  BY <1>2, <1>5

(* A call that submits and finalizes its command. *)
LEMMA LegacyTerminal ==
    ASSUME Legacy, NEW p \in Attempts \cup Requests, TerminalNext(p)
    PROVE  StartsAlone' /\ OneRun' /\ PaidWorkOver' /\ RefundStopsWork'
<1> TypeOK /\ p \in Procs /\ \A s \in Starters : s \in Procs /\ s # p
  BY ProcAssumption DEF Legacy, Invariant, Procs
<1>1. In(p, OnOp) /\ ~Starting /\ (p \in Attempts => task.status # "funded")
  <2>1. In(p, OnOp) /\ ~In(p, {"idle", "done"})
    BY DEF TerminalNext, Submit, Refused, CallerFinalizes, CallerStops, In, OnOp
  <2>2. p \in Attempts => ~Unstarted
    BY <2>1 DEF Unstarted
  <2>3. p \in Requests => Serving
    BY <2>1 DEF Serving, In, OnOp
  <2> QED  BY <2>1, <2>2, <2>3 DEF Legacy, StartsAlone
<1>2. PICK x : Goes(p, x) /\ x.pc \notin OnRun
  <2>1. Over.pc \notin OnRun /\ Idle.pc \notin OnRun
    BY AtParts DEF Idle, Over, OnRun
  <2>2. Ends(p) => Goes(p, Over) \/ Goes(p, Idle)
    BY DEF Ends
  <2>3. CASE Submit(p)
    <3>1. \E op, r, e : Goes(p, At("submitted", op, r, e))
      BY <2>3 DEF Submit
    <3> QED  BY <3>1, AtParts DEF OnRun
  <2> QED  BY <2>1, <2>2, <2>3 DEF TerminalNext, Refused, CallerFinalizes, CallerStops
<1>3. \A q \in Procs : proc'[q] = IF q = p THEN x ELSE proc[q]
  BY <1>2, ProcSet
<1>4. CASE UNCHANGED <<task, hold, run>>
  <2>1. task.status = "funded" => \A a \in Attempts : proc'[a] = proc[a]
    BY <1>1, <1>3 DEF Procs
  <2>2. StartsAlone'
    BY <1>1, <1>3, <1>4, <2>1, AloneKept DEF Legacy
  <2> QED  BY <1>2, <1>3, <1>4, <2>2, RowsKept
<1>5. CASE CallerFinalizes(p)
  <2>1. KeyOf(p) \in Keys
    BY <1>1 DEF KeyOf, Keys, Legacy, Invariant, Sound, In, TypeOK, ProcType
  <2> QED  BY <1>1, <1>2, <1>3, <1>5, <2>1, LegacyFinalize DEF CallerFinalizes, In
<1> QED  BY <1>4, <1>5 DEF TerminalNext, Submit, Refused, CallerStops

(* The worker acts on a command that is pending, so the task is not being started. *)
LEMMA LegacyWorker ==
    ASSUME Legacy, NEW k \in Keys, WorkerNext(k)
    PROVE  StartsAlone' /\ OneRun' /\ PaidWorkOver' /\ RefundStopsWork'
<1>1. ~Starting /\ proc' = proc
  BY DEF WorkerNext, WorkerFinalizes, WorkerFails, WorkerRetries, Promised, Legacy, StartsAlone
<1>2. CASE WorkerFinalizes(k)
  BY <1>1, <1>2, LegacyFinalize DEF WorkerFinalizes
<1>3. CASE UNCHANGED <<task, hold, run>>
  <2>1. StartsAlone'
    BY <1>1, <1>3, AloneKept DEF Legacy
  <2> QED  BY <1>1, <1>3, <2>1 DEF Legacy, OneRun, PaidWorkOver, RefundStopsWork, In
<1> QED  BY <1>2, <1>3 DEF WorkerNext, WorkerFails, WorkerRetries

LEMMA LegacyInit == Init => Legacy
<1> SUFFICES ASSUME Init PROVE Legacy
  OBVIOUS
<1>1. \A p \in Procs : proc[p].pc = IF p = Creator THEN "picking" ELSE "idle"
  BY AtParts DEF Init, Idle
<1>2. ~Promised
  BY DEF Init, Promised
<1>3. \A q \in Attempts \cup Requests : q # Creator /\ q \in Procs
  BY StarterAssumption, ProcAssumption DEF Procs
<1>4. Unstarted /\ ~Serving
  BY <1>1, <1>3 DEF Init, Unstarted, Serving, In
<1>5. StartsAlone
  BY <1>1, <1>2, <1>4, SMTT(30) DEF Init, StartsAlone, In, Procs
<1>6. OneRun /\ PaidWorkOver /\ RefundStopsWork
  BY <1>1 DEF Init, OneRun, PaidWorkOver, RefundStopsWork, In, OnRun
<1> QED  BY <1>5, <1>6, InitInvariant DEF Legacy

LEMMA LegacyStep == ASSUME LegacyAlone PROVE Legacy /\ [Next]_vars => Legacy'
<1> SUFFICES ASSUME Legacy, [Next]_vars PROVE Legacy'
  OBVIOUS
<1>1. Invariant'
  BY StepInvariant DEF Legacy
<1>2. CASE UNCHANGED vars
  BY <1>1, <1>2 DEF vars, Legacy, StartsAlone, OneRun, PaidWorkOver, RefundStopsWork, Starting, Serving, Promised,
                    Unstarted, In
<1>3. CASE Next
  BY <1>1, <1>3, LegacyStarter, LegacyAttempt, LegacyRequest, LegacyTerminal, LegacyWorker DEF Next, Legacy
<1> QED  BY <1>2, <1>3

LEMMA LegacyInductive == ASSUME LegacyAlone PROVE Spec => []Legacy
  BY LegacyInit, LegacyStep, PTL DEF Spec

(* On the legacy path, when no call overlaps the start of its task, a refund stops the work
   for good: the runs it cancels are never opened again, by an attempt that had picked one
   before or by a later start, for any number of starters, attempts and requests, and
   also when rejections overlap other calls. *)
THEOREM RefundedWorkStops == ASSUME LegacyAlone PROVE Spec => []RefundStopsWork
<1>1. Legacy => RefundStopsWork
  BY DEF Legacy
<1> QED  BY <1>1, LegacyInductive, PTL

-----------------------------------------------------------------------------
(* The refinement of LabEscrow: every step of a task maps to one of its escrow, or to none *)

EscrowStep == [Escrow!Next]_<<task.status, hold>>

(* The finalizer settles or refunds, as the table of operations says. *)
LEMMA FinalizeEscrow ==
    ASSUME TypeOK, NEW k \in Keys, NEW r, Eligible(k, r), Finalize(k)
    PROVE  Escrow!Settle \/ Escrow!Refund
<1>1. /\ k.op \in Ops /\ hold = "held" /\ task.status \in Expected(k.op) /\ task'.status = Target(k.op)
      /\ hold' = IF k.op \in Settlements THEN "settled" ELSE "refunded"
  BY DEF Eligible, Finalize, Keys, TypeOK, TaskType
<1>2. CASE k.op \in Settlements
  BY <1>1, <1>2 DEF Expected, Target, Settlements, Escrow!Settle
<1>3. CASE k.op = "cancel"
  BY <1>1, <1>3 DEF Expected, Target, Settlements, Escrow!Refund, Escrow!Open
<1>4. CASE k.op = "fail"
  BY <1>1, <1>4 DEF Expected, Target, Settlements, Escrow!Refund, Escrow!Open
<1>5. CASE k.op = "expire"
  BY <1>1, <1>5 DEF Expected, Target, Settlements, Escrow!Refund, Escrow!Open
<1>6. CASE k.op = "arbitrate_refund"
  BY <1>1, <1>6 DEF Expected, Target, Settlements, Escrow!Refund
<1> QED  BY <1>1, <1>2, <1>3, <1>4, <1>5, <1>6 DEF Ops, Refunds

(* Who writes the status is the party whose turn it is in the escrow's life. *)
LEMMA LegacyEscrow ==
    ASSUME LegacyAlone, "reject" \notin Overlap, Legacy, [Next]_vars
    PROVE  EscrowStep
<1> TypeOK
  BY DEF Legacy, Invariant
<1> USE DEF LegacyAlone, EscrowStep
<1>1. CASE UNCHANGED <<task, hold>>
  BY <1>1
<1>2. ASSUME NEW s \in Starters, Assign(s) PROVE EscrowStep
  <2>1. task.status = "funded" /\ task'.status = "assigned" /\ hold' = hold
    BY <1>2 DEF Assign, Legacy, StartsAlone, TypeOK, TaskType
  <2> QED  BY <2>1 DEF Escrow!Next, Escrow!Advance
<1>3. ASSUME NEW s \in Starters, StartRun(s) PROVE EscrowStep
  <2>1. task'.status = task.status /\ hold' = hold
    BY <1>3 DEF StartRun, TypeOK, TaskType
  <2> QED  BY <2>1
<1>4. ASSUME NEW a \in Attempts, OpenLegacy(a) PROVE EscrowStep
  <2>1. task.status = "assigned" /\ task'.status = "running" /\ hold' = hold
    BY <1>4 DEF OpenLegacy, TypeOK, TaskType
  <2> QED  BY <2>1 DEF Escrow!Next, Escrow!Advance
<1>5. ASSUME NEW a \in Attempts, Review(a) PROVE EscrowStep
  <2>1. /\ task.status \in {"assigned", "running"} /\ task'.status = "review" /\ hold' = hold
        /\ run[Mine(a)] = "running" /\ In(a, OnRun) /\ a \in Procs
    BY <1>5 DEF Review, Reviewable, TypeOK, TaskType, In, OnRun, Procs
  <2>2. Mine(a) \in Starters
    BY <2>1 DEF Legacy, Invariant, Sound, In, Mine
  <2> QED  BY <2>1, <2>2 DEF Legacy, OneRun, Escrow!Next, Escrow!Deliver
<1>6. ASSUME NEW q \in Requests, RejectWrite(q) PROVE EscrowStep
  <2>1. task.status = "review" /\ task'.status = "rejected" /\ hold' = hold
    BY <1>6 DEF RejectWrite, TypeOK, TaskType
  <2> QED  BY <2>1 DEF Escrow!Next, Escrow!Reject
<1>7. ASSUME NEW p \in Attempts \cup Requests, CallerFinalizes(p) PROVE EscrowStep
  <2>1. KeyOf(p) \in Keys
    BY <1>7 DEF CallerFinalizes, KeyOf, Keys, Legacy, Invariant, Sound, In, OnOp, TypeOK, ProcType, Procs
  <2> QED  BY <1>7, <2>1, FinalizeEscrow DEF CallerFinalizes, Escrow!Next
<1>8. ASSUME NEW k \in Keys, WorkerFinalizes(k) PROVE EscrowStep
  BY <1>8, FinalizeEscrow DEF WorkerFinalizes, Escrow!Next
<1>9. ASSUME NEW s \in Starters, StarterNext(s) PROVE EscrowStep
  BY <1>1, <1>2, <1>3, <1>9 DEF StarterNext, DispatchRead, NobodyIdle, StarterDies
<1>10. ASSUME NEW a \in Attempts, AttemptNext(a) PROVE EscrowStep
  BY <1>1, <1>4, <1>5, <1>10 DEF AttemptNext, Pick, Acquire, NotAcquired, OpenLost, OpenControlPlane, Finish, Stopped,
       ReviewLost, Succeeds, Breaks, MarkFailed, EmitFailed, AttemptDies
<1>11. ASSUME NEW q \in Requests, RequestNext(q) PROVE EscrowStep
  BY <1>1, <1>6, <1>11 DEF RequestNext, Call, RejectRead, SweepRead, SweepWrite, CallDies
<1>12. ASSUME NEW p \in Attempts \cup Requests, TerminalNext(p) PROVE EscrowStep
  BY <1>1, <1>7, <1>12 DEF TerminalNext, Submit, Refused, CallerStops
<1>13. ASSUME NEW k \in Keys, WorkerNext(k) PROVE EscrowStep
  BY <1>1, <1>8, <1>13 DEF WorkerNext, WorkerFails, WorkerRetries
<1> QED  BY <1>1, <1>9, <1>10, <1>11, <1>12, <1>13 DEF Next, vars

(* On the legacy path, when neither the start of a task nor a rejection overlaps other calls,
   the commission goes through the life LabEscrow promises. *)
THEOREM EscrowPromiseKept ==
    ASSUME LegacyAlone, "reject" \notin Overlap
    PROVE  Spec => Lifecycle
<1>1. Init => Escrow!Init
  BY DEF Init, Escrow!Init
<1>2. Legacy /\ [Next]_vars => EscrowStep
  BY LegacyEscrow
<1> QED  BY <1>1, <1>2, LegacyInductive, PTL DEF Spec, Lifecycle, Escrow!Spec, EscrowStep
=============================================================================
