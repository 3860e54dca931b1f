-------------------------- MODULE HostedTurnProofs --------------------------
(* What HostedTurn guarantees of an agent with any number of workers, turns, limits and
   troubles: the day's counters hold every call once and stay within the limits, a call
   whose outcome nobody knows is followed by no other, and what is over stays over.

   The journal is what workers who lost their lease and those who have it share, so the
   invariant says what a worker's place means for the row of its turn (Places): at "reserve",
   "staging" and "calling" nobody else is on that turn, and there its call is unpaid; later
   it is charged, whatever became of the turn's state.  Leases says why nobody else asks the
   provider meanwhile: epochs are won once, and from the look of Adopt to Reserve only the
   owner of the last one may start a call.  Row ties a reservation to the version of its
   operator: while that version is the last, the turn of an open call shows it. *)
EXTENDS HostedTurn, FiniteSetTheorems, WellFoundedInduction, TLAPS

-----------------------------------------------------------------------------
(* The inductive invariant *)

Sending == {"staging", "calling", "settling"}
Alone == Sending \cup {"reserve"}
Counted == {"marking", "persist", "submit", "sent"}

\* what a turn's state says of its call
Row(t) ==
    /\ t > seq => turn[t].state = "none"
    /\ turn[t].state \in {"none", "observed"} => turn[t].bill = "none"
    /\ turn[t].state \in {"decision_ready", "committing"} => turn[t].bill = "charged"
    /\ turn[t].bill = "held" =>
         /\ turn[t].sent <= ctl.version
         /\ turn[t].sent = ctl.version => turn[t].state = "calling" /\ turn[t].version = ctl.version
Journal == \A t \in Turns : Row(t)

\* what a worker's place says of its turn
Place(w) ==
    /\ task[w].pc \in Alone \cup Counted => task[w].turn \in 1..seq
    /\ task[w].pc \in Sending => MyTurn(w).bill = "held"
    /\ task[w].pc \in Counted => MyTurn(w).bill = "charged"
    /\ At(w, "reserve") => MyTurn(w).bill = "none" /\ MyTurn(w).version = task[w].version
Apart(v, w) == task[v].pc \in Alone /\ task[w].pc \in Alone => task[v].turn # task[w].turn
Places == /\ \A w \in Workers : Place(w)
          /\ \A v, w \in Workers : v # w => Apart(v, w)

\* who may ask the provider
Lease(w) ==
    /\ ~At(w, "idle") => task[w].epoch <= ctl.epoch
    /\ task[w].pc \in {"create", "reserve"} /\ task[w].epoch = ctl.epoch => ~Ambiguous
Differ(v, w) == ~At(v, "idle") /\ ~At(w, "idle") => task[v].epoch # task[w].epoch
Leases == /\ \A w \in Workers : Lease(w)
          /\ \A v, w \in Workers : v # w => Differ(v, w)

Books == EveryCallCounted /\ UnknownNeedsOperator
Inductive == TypeOK /\ Journal /\ Places /\ Leases /\ Books

-----------------------------------------------------------------------------
(* The types *)

(* What is spent of the troubles. *)
LEMMA CostsType ==
    ASSUME TypeOK, NEW trouble \in {"lapses", "deaths", "faults", "orders"}, Costs(trouble)
    PROVE  left' \in [lapses : Nat, deaths : Nat, faults : Nat, orders : Nat]
  BY DEF TypeOK, Costs

(* A worker that goes on, and one that quits. *)
LEMMA GoesType ==
    ASSUME TypeOK, NEW w \in Workers,
           NEW pc \in {"idle", "provision", "staging", "play", "create", "reserve", "calling",
                       "settling", "marking", "persist", "submit", "sent", "failing", "spent"}
    PROVE  /\ Goes(w, pc) => task' \in [Workers -> TaskType]
           /\ Quits(w) => task' \in [Workers -> TaskType]
<1>1. Goes(w, pc) => task' \in [Workers -> TaskType]
  BY DEF TypeOK, Goes, TaskType
<1>2. Idle \in TaskType
  BY HostedAssumption DEF Idle, TaskType
<1>3. Quits(w) => task' \in [Workers -> TaskType]
  BY <1>2 DEF TypeOK, Quits
<1> QED  BY <1>1, <1>3

\* the owner's part of the row is as it was
Calm == ctl' \in CtlType /\ ctl'.epoch = ctl.epoch /\ ctl'.version = ctl.version
\* the operator, or a block in its name, has changed it
Ordered == ctl' \in CtlType /\ ctl'.epoch = ctl.epoch /\ ctl'.version = ctl.version + 1

(* What the writers but a claim make of the controller row. *)
LEMMA CtlSteps ==
    ASSUME TypeOK, NEW flag \in BOOLEAN, NEW cap \in Caps
    PROVE  /\ UNCHANGED ctl => Calm
           /\ Release => Calm
           /\ ctl' = [ctl EXCEPT !.lease = "lapsed"] => Calm
           /\ ctl' = [ctl EXCEPT !.lease = "none", !.spent = flag] => Calm
           /\ ctl' = [ctl EXCEPT !.lease = "none", !.validate = FALSE] => Calm
           /\ Block => Ordered
           /\ ctl' = [ctl EXCEPT !.desired = "paused", !.version = @ + 1, !.lease = "none"] => Ordered
           /\ ctl' = [ctl EXCEPT !.desired = "running", !.version = @ + 1] => Ordered
           /\ ctl' = [ctl EXCEPT !.version = @ + 1, !.lease = "none", !.cap = cap,
                                 !.validate = @ \/ flag] => Ordered
<1>1. PICK c \in CtlType : c = ctl
  BY DEF TypeOK
<1>2. PICK n \in Nat : n = c.version + 1
  BY DEF CtlType
<1>3. PICK b \in BOOLEAN : b = (c.validate \/ flag)
  OBVIOUS
<1>4. /\ [c EXCEPT !.lease = "none"].epoch = c.epoch
      /\ [c EXCEPT !.lease = "none"].version = c.version
      /\ [c EXCEPT !.lease = "lapsed"].epoch = c.epoch
      /\ [c EXCEPT !.lease = "lapsed"].version = c.version
      /\ [c EXCEPT !.lease = "none", !.spent = flag].epoch = c.epoch
      /\ [c EXCEPT !.lease = "none", !.spent = flag].version = c.version
      /\ [c EXCEPT !.lease = "none", !.validate = FALSE].epoch = c.epoch
      /\ [c EXCEPT !.lease = "none", !.validate = FALSE].version = c.version
  BY DEF CtlType
<1>5. /\ [c EXCEPT !.lease = "none"] \in CtlType /\ [c EXCEPT !.lease = "lapsed"] \in CtlType
      /\ [c EXCEPT !.lease = "none", !.spent = flag] \in CtlType
      /\ [c EXCEPT !.lease = "none", !.validate = FALSE] \in CtlType
  BY Zenon DEF CtlType
<1>6. /\ [c EXCEPT !.desired = "paused", !.version = n, !.lease = "none", !.spent = FALSE].epoch = c.epoch
      /\ [c EXCEPT !.desired = "paused", !.version = n, !.lease = "none", !.spent = FALSE].version = n
      /\ [c EXCEPT !.desired = "paused", !.version = n, !.lease = "none"].epoch = c.epoch
      /\ [c EXCEPT !.desired = "paused", !.version = n, !.lease = "none"].version = n
      /\ [c EXCEPT !.desired = "running", !.version = n].epoch = c.epoch
      /\ [c EXCEPT !.desired = "running", !.version = n].version = n
      /\ [c EXCEPT !.version = n, !.lease = "none", !.cap = cap, !.validate = b].epoch = c.epoch
      /\ [c EXCEPT !.version = n, !.lease = "none", !.cap = cap, !.validate = b].version = n
  BY DEF CtlType
<1>7. /\ [c EXCEPT !.desired = "paused", !.version = n, !.lease = "none", !.spent = FALSE] \in CtlType
      /\ [c EXCEPT !.desired = "paused", !.version = n, !.lease = "none"] \in CtlType
      /\ [c EXCEPT !.desired = "running", !.version = n] \in CtlType
      /\ [c EXCEPT !.version = n, !.lease = "none", !.cap = cap, !.validate = b] \in CtlType
  BY Zenon DEF CtlType
<1>8. /\ UNCHANGED ctl => Calm
      /\ Release => Calm
      /\ ctl' = [ctl EXCEPT !.lease = "lapsed"] => Calm
      /\ ctl' = [ctl EXCEPT !.lease = "none", !.spent = flag] => Calm
      /\ ctl' = [ctl EXCEPT !.lease = "none", !.validate = FALSE] => Calm
  BY <1>1, <1>4, <1>5 DEF TypeOK, Calm, Release
<1>9. Block => Ordered
  <2>1. Block => ctl' = [c EXCEPT !.desired = "paused", !.version = n, !.lease = "none",
                                  !.spent = FALSE]
    BY <1>1, <1>2 DEF Block
  <2> QED  BY <1>1, <1>2, <1>6, <1>7, <2>1 DEF Ordered
<1>10. ctl' = [ctl EXCEPT !.desired = "paused", !.version = @ + 1, !.lease = "none"] => Ordered
  <2>1. [ctl EXCEPT !.desired = "paused", !.version = @ + 1, !.lease = "none"]
          = [c EXCEPT !.desired = "paused", !.version = n, !.lease = "none"]
    BY <1>1, <1>2
  <2> QED  BY <1>1, <1>2, <1>6, <1>7, <2>1 DEF Ordered
<1>11. ctl' = [ctl EXCEPT !.desired = "running", !.version = @ + 1] => Ordered
  <2>1. [ctl EXCEPT !.desired = "running", !.version = @ + 1]
          = [c EXCEPT !.desired = "running", !.version = n]
    BY <1>1, <1>2
  <2> QED  BY <1>1, <1>2, <1>6, <1>7, <2>1 DEF Ordered
<1>12. ctl' = [ctl EXCEPT !.version = @ + 1, !.lease = "none", !.cap = cap, !.validate = @ \/ flag]
        => Ordered
  <2>1. [ctl EXCEPT !.version = @ + 1, !.lease = "none", !.cap = cap, !.validate = @ \/ flag]
          = [c EXCEPT !.version = n, !.lease = "none", !.cap = cap, !.validate = b]
    BY <1>1, <1>2, <1>3
  <2> QED  BY <1>1, <1>2, <1>3, <1>6, <1>7, <2>1 DEF Ordered
<1> QED  BY <1>8, <1>9, <1>10, <1>11, <1>12

(* A turn that changes its state. *)
LEMMA StateType ==
    ASSUME TypeOK, NEW t \in 0..MaxTurns, NEW state \in Pending \cup Closed
    PROVE  [turn EXCEPT ![t].state = state] \in [Turns -> TurnType]
  BY DEF TypeOK, TurnType

(* The daily counters. *)
LEMMA ChargeType ==
    ASSUME TypeOK, NEW used \in Nat, NEW cap \in Nat, Charge(used, cap)
    PROVE  usage' \in UsageType
<1>1. /\ usage \in UsageType /\ ReserveTokens \in Nat
  BY HostedAssumption DEF TypeOK, CtlType
<1> QED  BY <1>1 DEF Charge, UsageType, Positive, Larger

-----------------------------------------------------------------------------
(* What a step leaves as it is *)

(* A row that stays, is closed, or goes on after its call was charged: an open call that is
   closed becomes one of an older version. *)
Stays(t) ==
    \/ turn'[t] = turn[t]
    \/ /\ turn[t].state \in Pending
       /\ turn'[t].bill = turn[t].bill /\ turn'[t].sent = turn[t].sent
       /\ \/ turn[t].bill = "charged" /\ turn'[t].state \in {"decision_ready", "committing"}
          \/ /\ turn'[t].state \in Closed /\ turn'[t].version = turn[t].version
             /\ turn[t].bill = "held" => turn[t].sent < ctl'.version

(* Such a row goes on saying the same of its call. *)
LEMMA RowStays ==
    ASSUME TypeOK, ctl' \in CtlType, seq' \in Nat, seq <= seq', ctl.version <= ctl'.version,
           NEW t \in Turns, turn'[t] \in TurnType, Row(t), Stays(t)
    PROVE  Row(t)'
<1>1. /\ turn[t] \in TurnType /\ seq \in Nat /\ t \in Int
      /\ ctl.version \in Nat /\ ctl'.version \in Nat
  BY HostedAssumption DEF TypeOK, CtlType, Turns
<1>2. CASE turn'[t] = turn[t]
  BY <1>1, <1>2 DEF Row, TurnType
<1>3. CASE turn'[t] # turn[t]
  BY <1>1, <1>3 DEF Row, Stays, Pending, Closed, TurnType
<1> QED  BY <1>2, <1>3

(* A worker that is left alone, quits, gives up, or goes on with a call that was charged. *)
Moves(v) ==
    \/ task'[v] = task[v]
    \/ task'[v].pc = "idle"
    \/ /\ ~At(v, "idle") /\ task'[v].epoch = task[v].epoch
       /\ task'[v].version = task[v].version /\ task'[v].turn = task[v].turn
       /\ \/ task'[v].pc \in {"failing", "spent", "provision"}
          \/ task[v].pc \in Counted /\ task'[v].pc \in Counted
          \/ task[v].pc \in Sending /\ task'[v].pc \in Sending

(* Its place is still right, if the row of its turn stays. *)
LEMMA PlaceMoves ==
    ASSUME TypeOK, task' \in [Workers -> TaskType], seq' \in Nat, seq <= seq', seq' <= MaxTurns,
           NEW v \in Workers, Place(v), Moves(v),
           task[v].pc \in Alone \cup Counted => Stays(task[v].turn), Journal
    PROVE  Place(v)'
<1>1. CASE task'[v].pc \notin Alone \cup Counted
  BY <1>1 DEF Place, Alone, Sending, Counted, At
<1>2. CASE task'[v].pc \in Alone \cup Counted
  <2>1. /\ task[v].pc \in Alone \cup Counted /\ task'[v].turn = task[v].turn
        /\ task'[v].version = task[v].version
        /\ \/ task'[v].pc = task[v].pc
           \/ task[v].pc \in Counted /\ task'[v].pc \in Counted
           \/ task[v].pc \in Sending /\ task'[v].pc \in Sending
    <3>1. CASE task'[v] = task[v]
      BY <1>2, <3>1
    <3>2. CASE task'[v] # task[v]
      BY <1>2, <3>2 DEF Moves, Alone, Sending, Counted
    <3> QED  BY <3>1, <3>2
  <2>2. PICK t \in Turns : t = task[v].turn /\ t \in 1..seq
    BY <2>1, HostedAssumption DEF Place, TypeOK, Turns
  <2>3. Stays(t) /\ Row(t) /\ task'[v].turn = t /\ t \in 1..seq'
    BY <2>1, <2>2, HostedAssumption DEF Journal, TypeOK
  <2>4. turn'[t].bill = turn[t].bill /\ (turn[t].bill = "none" => turn'[t].version = turn[t].version)
    BY <2>3 DEF Stays
  <2> QED  BY <2>1, <2>2, <2>3, <2>4 DEF Place, MyTurn, At, Alone, Sending, Counted
<1> QED  BY <1>1, <1>2

LEMMA ApartMoves ==
    ASSUME NEW v \in Workers, NEW w \in Workers, Apart(v, w), Moves(v), Moves(w)
    PROVE  Apart(v, w)'
  BY DEF Apart, Moves, Alone, Sending, Counted

(* Nobody calls who did not call before. *)
NoNewCall == \A t \in Turns : turn'[t].state = "calling" => turn[t].state = "calling"

LEMMA LeaseMoves ==
    ASSUME TypeOK, ctl'.epoch \in Nat, ctl.epoch <= ctl'.epoch, NEW v \in Workers, Moves(v),
           task' \in [Workers -> TaskType], Lease(v),
           task'[v].epoch = ctl'.epoch /\ task[v].pc \in {"create", "reserve"} =>
              ctl'.epoch = ctl.epoch /\ NoNewCall
    PROVE  Lease(v)'
  BY DEF TypeOK, Lease, Moves, At, NoNewCall, Ambiguous, Counted, Sending, TaskType, CtlType

LEMMA DifferMoves ==
    ASSUME NEW v \in Workers, NEW w \in Workers, Differ(v, w), Moves(v), Moves(w)
    PROVE  Differ(v, w)'
  BY DEF Differ, Moves, At

(* When all rows stay, the books are right after as before. *)
LEMMA BooksStay ==
    ASSUME TypeOK, Books, \A t \in Turns : Stays(t), turn' \in [Turns -> TurnType], UNCHANGED usage
    PROVE  Books'
<1>1. \A t \in Turns : turn'[t].bill = turn[t].bill /\ turn'[t].sent = turn[t].sent
  BY DEF Stays
<1>2. \A bill : Billed(bill)' = Billed(bill)
  BY <1>1 DEF Billed
<1>3. EveryCallCounted'
  BY <1>2 DEF Books, EveryCallCounted
<1>4. UnknownNeedsOperator'
  BY <1>1, <1>2 DEF Books, UnknownNeedsOperator, Billed
<1> QED  BY <1>3, <1>4 DEF Books

(* A step that starts no call, charges nothing and gives no lease away. *)
Quiet ==
    /\ Calm \/ Ordered
    /\ turn' \in [Turns -> TurnType] /\ \A t \in Turns : Stays(t)
    /\ task' \in [Workers -> TaskType] /\ \A v \in Workers : Moves(v)
    /\ UNCHANGED <<seq, usage>>
    /\ requests' \subseteq [turn : Turns, epoch : Nat, version : Nat]
    /\ acts' \in [Turns -> Nat]
    /\ left' \in [lapses : Nat, deaths : Nat, faults : Nat, orders : Nat]

LEMMA QuietStep ==
    ASSUME Inductive, Quiet
    PROVE  Inductive'
<1>1. TypeOK'
  BY DEF Inductive, Quiet, TypeOK, Calm, Ordered
<1>2. /\ seq' \in Nat /\ seq <= seq' /\ seq' <= MaxTurns
      /\ ctl' \in CtlType /\ ctl.version <= ctl'.version
      /\ ctl'.epoch \in Nat /\ ctl.epoch <= ctl'.epoch /\ ctl'.epoch = ctl.epoch
  BY HostedAssumption DEF Inductive, TypeOK, Quiet, Calm, Ordered, CtlType
<1>3. Journal'
  BY <1>2, RowStays DEF Inductive, Quiet, Journal
<1>4. Places'
  <2>1. \A v \in Workers : task[v].pc \in Alone \cup Counted => Stays(task[v].turn)
    BY HostedAssumption DEF Inductive, TypeOK, Places, Place, Quiet, Turns
  <2> QED  BY <1>2, <2>1, PlaceMoves, ApartMoves DEF Inductive, Quiet, Places
<1>5. NoNewCall
  BY DEF Quiet, Stays, NoNewCall, Pending, Closed
<1>6. Leases'
  BY <1>2, <1>5, LeaseMoves, DifferMoves DEF Inductive, Quiet, Leases
<1>7. Books'
  BY BooksStay DEF Inductive, Quiet
<1> QED  BY <1>1, <1>3, <1>4, <1>6, <1>7 DEF Inductive

-----------------------------------------------------------------------------
(* The quiet steps *)

(* The row of a turn that changes its state. *)
LEMMA RowState ==
    ASSUME NEW r \in TurnType, NEW state \in Pending \cup Closed
    PROVE  /\ [r EXCEPT !.state = state] \in TurnType
           /\ [r EXCEPT !.state = state].state = state
           /\ [r EXCEPT !.state = state].bill = r.bill
           /\ [r EXCEPT !.state = state].sent = r.sent
           /\ [r EXCEPT !.state = state].version = r.version
  BY DEF TurnType

(* A journal of which some open turns are closed. *)
LEMMA CloseSome ==
    ASSUME TypeOK, turn' = [t \in Turns |-> turn'[t]],
           \A t \in Turns :
              \/ turn'[t] = turn[t]
              \/ /\ turn[t].state \in Pending
                 /\ turn[t].bill = "held" => turn[t].sent < ctl'.version
                 /\ \/ turn'[t] = [turn[t] EXCEPT !.state = "failed"]
                    \/ turn'[t] = [turn[t] EXCEPT !.state = "abandoned"]
                    \/ turn'[t] = [turn[t] EXCEPT !.state = "completed"]
    PROVE  turn' \in [Turns -> TurnType] /\ \A t \in Turns : Stays(t)
<1>1. ASSUME NEW t \in Turns PROVE turn'[t] \in TurnType /\ Stays(t)
  <2>1. PICK r \in TurnType : r = turn[t]
    BY DEF TypeOK
  <2>2. CASE turn'[t] = turn[t]
    BY <2>1, <2>2 DEF Stays
  <2>3. CASE turn'[t] # turn[t]
    <3>1. PICK state \in Closed : turn'[t] = [r EXCEPT !.state = state]
      BY <2>1, <2>3 DEF Closed
    <3>2. turn'[t] \in TurnType /\ turn'[t].state = state /\ turn'[t].bill = r.bill
          /\ turn'[t].sent = r.sent /\ turn'[t].version = r.version
      BY <3>1, RowState
    <3> QED  BY <2>1, <2>3, <3>2 DEF Stays
  <2> QED  BY <2>2, <2>3
<1> QED  BY <1>1

(* ... or one. *)
LEMMA CloseOne ==
    ASSUME TypeOK, NEW t \in Turns, turn[t].state \in Pending,
           turn[t].bill = "held" => turn[t].sent < ctl'.version,
           NEW state \in Closed, turn' = [turn EXCEPT ![t].state = state]
    PROVE  turn' \in [Turns -> TurnType] /\ \A u \in Turns : Stays(u)
<1>1. turn' \in [Turns -> TurnType]
  BY DEF TypeOK, TurnType
<1>2. \A u \in Turns : u # t => turn'[u] = turn[u]
  BY DEF TypeOK
<1>3. /\ turn'[t].state = state /\ turn'[t].bill = turn[t].bill
      /\ turn'[t].sent = turn[t].sent /\ turn'[t].version = turn[t].version
  BY DEF TypeOK, TurnType
<1> QED  BY <1>1, <1>2, <1>3 DEF Stays

(* A worker that quits or gives up. *)
LEMMA Leaves ==
    ASSUME TypeOK, NEW w \in Workers, ~At(w, "idle"),
           \/ Quits(w) \/ Goes(w, "failing") \/ Goes(w, "spent") \/ Goes(w, "provision")
    PROVE  task' \in [Workers -> TaskType] /\ \A v \in Workers : Moves(v)
<1>1. task' \in [Workers -> TaskType]
  BY GoesType
<1>2. \A v \in Workers : v # w => task'[v] = task[v]
  BY DEF TypeOK, Quits, Goes
<1>3. Moves(w)
  BY DEF TypeOK, Quits, Goes, Moves, Idle, TaskType
<1> QED  BY <1>1, <1>2, <1>3 DEF Moves

(* A worker that goes on with its turn. *)
LEMMA GoesOn ==
    ASSUME TypeOK, NEW w \in Workers, task[w].pc \in Counted, Goes(w, "submit") \/ Goes(w, "sent")
    PROVE  task' \in [Workers -> TaskType] /\ \A v \in Workers : Moves(v)
<1>1. task' \in [Workers -> TaskType]
  BY GoesType
<1>2. \A v \in Workers : v # w => task'[v] = task[v]
  BY DEF TypeOK, Goes
<1>3. Moves(w)
  BY DEF TypeOK, Goes, Moves, TaskType, Counted, At
<1> QED  BY <1>1, <1>2, <1>3 DEF Moves

(* What nobody touches. *)
LEMMA Untouched ==
    ASSUME TypeOK
    PROVE  /\ UNCHANGED task => task' \in [Workers -> TaskType] /\ \A v \in Workers : Moves(v)
           /\ UNCHANGED turn => turn' \in [Turns -> TurnType] /\ \A t \in Turns : Stays(t)
           /\ UNCHANGED requests => requests' \subseteq [turn : Turns, epoch : Nat, version : Nat]
           /\ UNCHANGED acts => acts' \in [Turns -> Nat]
           /\ UNCHANGED left => left' \in [lapses : Nat, deaths : Nat, faults : Nat, orders : Nat]
  BY DEF TypeOK, Moves, Stays

(* A worker that was refused, failed or died has done nothing to the journal. *)
LEMMA GivesUp ==
    ASSUME Inductive, NEW w \in Workers,
           \/ NotYet(w) \/ Fail(w) \/ WatchLoses(w) \/ Dies(w) \/ StageRaises(w) \/ StageLost(w)
           \/ Provisioned(w) \/ ApiFails(w) \/ AdoptRaises(w) \/ CreateRaises(w) \/ ReserveRaises(w)
           \/ CallBreaks(w) \/ PersistRaises(w) \/ SubmitRaises(w) \/ Returns(w) \/ TryAgain(w)
    PROVE  Quiet
<1> TypeOK
  BY DEF Inductive
<1> USE DEF rows, Raises
<1>1. UNCHANGED <<turn, seq, usage, requests, acts>> /\ ~At(w, "idle")
  BY DEF NotYet, Fail, WatchLoses, Dies, StageRaises, StageLost, Provisioned, ApiFails, AdoptRaises,
     CreateRaises, ReserveRaises, CallBreaks, PersistRaises, SubmitRaises, Returns, TryAgain, At
<1>2. \/ Quits(w) \/ Goes(w, "failing") \/ Goes(w, "spent") \/ Goes(w, "provision")
  BY DEF NotYet, Fail, WatchLoses, Dies, StageRaises, StageLost, Provisioned, ApiFails, AdoptRaises,
     CreateRaises, ReserveRaises, CallBreaks, PersistRaises, SubmitRaises, Returns, TryAgain
<1>3. \/ UNCHANGED left \/ Costs("faults") \/ Costs("deaths")
  BY DEF NotYet, Fail, WatchLoses, Dies, StageRaises, StageLost, Provisioned, ApiFails, AdoptRaises,
     CreateRaises, ReserveRaises, CallBreaks, PersistRaises, SubmitRaises, Returns, TryAgain
<1>4. \/ UNCHANGED ctl \/ Release \/ ctl' = [ctl EXCEPT !.lease = "none", !.spent = At(w, "spent")]
      \/ ctl' = [ctl EXCEPT !.lease = "none", !.validate = FALSE]
  BY DEF NotYet, Fail, WatchLoses, Dies, StageRaises, StageLost, Provisioned, ApiFails, AdoptRaises,
     CreateRaises, ReserveRaises, CallBreaks, PersistRaises, SubmitRaises, Returns, TryAgain
<1>5. Calm
  <2>1. PICK flag \in BOOLEAN : flag = At(w, "spent")
    BY DEF At
  <2>2. \E cap \in Caps : TRUE
    BY DEF TypeOK, CtlType
  <2> QED  BY <1>4, <2>1, <2>2, CtlSteps
<1>6. left' \in [lapses : Nat, deaths : Nat, faults : Nat, orders : Nat]
  BY <1>3, CostsType, Untouched
<1> QED  BY <1>1, <1>2, <1>5, <1>6, Leaves, Untouched DEF Quiet

(* An open turn is closed without a charge: the operator's stop, a block, a failed or a
   refused action, the API's answer. *)
LEMMA ClosesTurns ==
    ASSUME Inductive, NEW w \in Workers,
           StageAmbiguous(w) \/ AdoptBlocks(w) \/ Mark(w) \/ Unknown(w) \/ Abandon(w)
    PROVE  Quiet
<1> TypeOK /\ \E cap \in Caps : TRUE
  BY DEF Inductive, TypeOK, CtlType
<1>1. /\ UNCHANGED <<seq, usage, requests, acts>> /\ ~At(w, "idle")
      /\ UNCHANGED left \/ Costs("faults")
      /\ Quits(w) \/ Goes(w, "failing")
  BY DEF StageAmbiguous, AdoptBlocks, Mark, Unknown, Abandon, At
<1>2. /\ left' \in [lapses : Nat, deaths : Nat, faults : Nat, orders : Nat]
      /\ task' \in [Workers -> TaskType] /\ \A v \in Workers : Moves(v)
      /\ UNCHANGED <<seq, usage>>
      /\ requests' \subseteq [turn : Turns, epoch : Nat, version : Nat] /\ acts' \in [Turns -> Nat]
  BY <1>1, CostsType, Untouched, Leaves
<1>3. \A t \in Turns : turn[t].bill = "held" => turn[t].sent <= ctl.version /\ turn[t].sent \in Nat
  BY DEF Inductive, Journal, Row, TypeOK, TurnType
<1>4. ctl.version \in Nat
  BY DEF TypeOK, CtlType
<1>5. CASE StageAmbiguous(w) \/ AdoptBlocks(w) \/ Unknown(w)
  <2>1. Block
    BY <1>5 DEF StageAmbiguous, AdoptBlocks, Unknown
  <2>2. Ordered
    BY <2>1, CtlSteps
  <2>3. Ordered /\ \A t \in Turns : turn[t].bill = "held" => turn[t].sent < ctl'.version
    BY <1>3, <1>4, <2>2 DEF Ordered
  <2>4. CASE StageAmbiguous(w) \/ AdoptBlocks(w)
    <3>1. turn' = [t \in Turns |-> turn'[t]]
      BY <2>4 DEF StageAmbiguous, AdoptBlocks
    <3>2. \A t \in Turns :
              \/ turn'[t] = turn[t]
              \/ turn[t].state \in Pending /\ turn'[t] = [turn[t] EXCEPT !.state = "failed"]
              \/ turn[t].state \in Pending /\ turn'[t] = [turn[t] EXCEPT !.state = "abandoned"]
      BY <2>4 DEF StageAmbiguous, AdoptBlocks, Pending
    <3>3. turn' \in [Turns -> TurnType] /\ \A t \in Turns : Stays(t)
      BY <2>3, <3>1, <3>2, CloseSome
    <3> QED  BY <1>2, <2>3, <3>3 DEF Quiet
  <2>5. CASE Unknown(w)
    <3>1. PICK t \in Turns : t = task[w].turn
      BY <2>5, HostedAssumption DEF Inductive, Places, Place, Unknown, Alone, Sending, TypeOK, Turns
    <3>2. turn[t].state \in Pending /\ turn' = [turn EXCEPT ![t].state = "failed"]
      BY <2>5, <3>1 DEF Unknown, MyTurn, Pending
    <3>3. turn' \in [Turns -> TurnType] /\ \A u \in Turns : Stays(u)
      BY <2>3, <3>2, CloseOne DEF Closed
    <3> QED  BY <1>2, <2>3, <3>3 DEF Quiet
  <2> QED  BY <1>5, <2>4, <2>5
<1>6. CASE Mark(w) \/ Abandon(w)
  <2>1. PICK t \in Turns : t = task[w].turn /\ turn[t].bill = "charged"
    BY <1>6, HostedAssumption
       DEF Inductive, Places, Place, Mark, Abandon, At, MyTurn, Alone, Sending, Counted, TypeOK, Turns
  <2>2. Calm
    BY <1>6, CtlSteps DEF Mark, Abandon
  <2>3. CASE UNCHANGED turn
    BY <1>2, <2>2, <2>3, Untouched DEF Quiet
  <2>4. CASE turn' = [turn EXCEPT ![t].state = "failed"] /\ turn[t].state \notin Closed
    <3>1. turn[t].state \in Pending
      BY <2>1, <2>4 DEF Inductive, Journal, Row, TypeOK, TurnType
    <3>2. turn' \in [Turns -> TurnType] /\ \A u \in Turns : Stays(u)
      BY <2>1, <2>4, <3>1, CloseOne DEF Closed
    <3> QED  BY <1>2, <2>2, <3>2 DEF Quiet
  <2> QED  BY <1>6, <2>1, <2>3, <2>4 DEF Mark, Abandon, MyTurn
<1> QED  BY <1>5, <1>6

(* The API, the clock and the operator. *)
LEMMA OthersQuiet ==
    ASSUME Inductive,
           \/ \E f \in requests : Act(f) \/ Refuse(f) \/ ActFails(f)
           \/ OrphanLapses \/ Lapses \/ Stop \/ Start
           \/ \E cap \in Caps, provider \in BOOLEAN : Patch(cap, provider)
    PROVE  Quiet
<1> TypeOK /\ \E cap \in Caps : TRUE
  BY DEF Inductive, TypeOK, CtlType
<1> USE DEF rows
<1>1. /\ UNCHANGED <<seq, usage, task>>
      /\ UNCHANGED requests \/ \E f \in requests : requests' = requests \ {f}
      /\ \/ UNCHANGED left \/ Costs("faults") \/ Costs("lapses") \/ Costs("orders")
  BY DEF Act, Refuse, ActFails, OrphanLapses, Lapses, Stop, Start, Patch
<1>2. /\ UNCHANGED <<seq, usage>> /\ task' \in [Workers -> TaskType] /\ \A v \in Workers : Moves(v)
      /\ requests' \subseteq [turn : Turns, epoch : Nat, version : Nat]
      /\ left' \in [lapses : Nat, deaths : Nat, faults : Nat, orders : Nat]
  BY <1>1, Untouched, CostsType DEF TypeOK
<1>3. ASSUME NEW f \in requests, Act(f) \/ Refuse(f) \/ ActFails(f) PROVE Quiet
  <2>1. Calm
    BY <1>3, CtlSteps DEF Act, Refuse, ActFails
  <2>2. PICK t \in Turns : t = f.turn
    BY DEF TypeOK
  <2>3. acts' \in [Turns -> Nat]
    BY <1>3, <2>2, Untouched DEF Act, Refuse, ActFails, TypeOK
  <2>4. CASE Refuse(f)
    BY <1>2, <2>1, <2>3, <2>4, Untouched DEF Refuse, Quiet
  <2>5. CASE Act(f) \/ ActFails(f)
    <3>1. turn[t].state \in Pending /\ turn[t].bill = "charged"
      BY <2>2, <2>5 DEF Act, ActFails, Fenced, Pending, Inductive, Journal, Row
    <3>2. PICK state \in Closed : turn' = [turn EXCEPT ![t].state = state]
      BY <2>2, <2>5 DEF Act, ActFails, Closed
    <3>3. turn' \in [Turns -> TurnType] /\ \A u \in Turns : Stays(u)
      BY <3>1, <3>2, CloseOne
    <3> QED  BY <1>2, <2>1, <2>3, <3>3 DEF Quiet
  <2> QED  BY <1>3, <2>4, <2>5
<1>4. CASE OrphanLapses \/ Lapses
  BY <1>2, <1>4, CtlSteps, Untouched DEF OrphanLapses, Lapses, Quiet
<1>5. CASE Stop
  <2>1. Ordered
    BY <1>5, CtlSteps DEF Stop
  <2>2. \A t \in Turns : turn[t].bill = "held" => turn[t].sent < ctl'.version
    BY <2>1 DEF Ordered, CtlType, Inductive, Journal, Row, TypeOK, TurnType
  <2>3. turn' \in [Turns -> TurnType] /\ \A t \in Turns : Stays(t)
    BY <1>5, <2>2, CloseSome DEF Stop, Stopped
  <2> QED  BY <1>2, <1>5, <2>1, <2>3, Untouched DEF Stop, Quiet
<1>6. CASE Start
  BY <1>2, <1>6, CtlSteps, Untouched DEF Start, Quiet
<1>7. ASSUME NEW cap \in Caps, NEW provider \in BOOLEAN, Patch(cap, provider) PROVE Quiet
  <2>1. Ordered
    BY <1>7, CtlSteps DEF Patch
  <2> QED  BY <1>2, <1>7, <2>1, Untouched DEF Patch, Quiet
<1> QED  BY <1>3, <1>4, <1>5, <1>6, <1>7

(* A decision is written down and sent. *)
LEMMA GoesOnQuiet ==
    ASSUME Inductive, NEW w \in Workers, Persist(w) \/ Submit(w)
    PROVE  Quiet
<1> TypeOK /\ \E cap \in Caps : TRUE
  BY DEF Inductive, TypeOK, CtlType
<1>1. PICK t \in Turns : t = task[w].turn /\ turn[t].bill = "charged" /\ t \in 1..seq
  BY HostedAssumption
     DEF Inductive, Places, Place, Persist, Submit, At, MyTurn, Alone, Sending, Counted, TypeOK, Turns
<1>2. /\ Calm /\ task' \in [Workers -> TaskType] /\ \A v \in Workers : Moves(v)
  BY CtlSteps, GoesOn DEF Persist, Submit, At, Counted
<1>3. PICK state \in {"decision_ready", "committing"} : turn' = [turn EXCEPT ![t].state = state]
  BY <1>1 DEF Persist, Submit
<1>4. turn[t].state \in Pending
  BY <1>1 DEF Persist, Submit, MayPersist, MayCommit, MyTurn, Pending
<1>5. turn' \in [Turns -> TurnType]
  <2>1. t \in 0..MaxTurns /\ state \in Pending \cup Closed
    BY HostedAssumption DEF Pending, Turns
  <2> QED  BY <1>3, <2>1, StateType
<1>6. \A u \in Turns : Stays(u)
  <2>1. \A u \in Turns : u # t => turn'[u] = turn[u]
    BY <1>3 DEF TypeOK
  <2>2. /\ turn'[t].state = state /\ turn'[t].bill = turn[t].bill
        /\ turn'[t].sent = turn[t].sent
    BY <1>3 DEF TypeOK, TurnType
  <2> QED  BY <1>1, <1>4, <2>1, <2>2 DEF Stays
<1>7. requests' \subseteq [turn : Turns, epoch : Nat, version : Nat]
  <2>1. Fence(w) \in [turn : Turns, epoch : Nat, version : Nat]
    BY <1>1 DEF Fence, TypeOK, TaskType
  <2> QED  BY <2>1 DEF Persist, Submit, TypeOK
<1> QED  BY <1>2, <1>5, <1>6, <1>7, Untouched DEF Persist, Submit, Quiet

-----------------------------------------------------------------------------
(* The steps of one worker on the turn it has for itself *)

(* The limit a settlement reads goes into the session that makes it. *)
LEMMA ReadsQuiet ==
    ASSUME Inductive, NEW w \in Workers, ReadLimit(w)
    PROVE  Quiet
<1> TypeOK /\ \E cap \in Caps : TRUE
  BY DEF Inductive, TypeOK, CtlType
<1>1. /\ At(w, "calling") /\ UNCHANGED <<ctl, turn, seq, usage, requests, acts, left>>
  BY DEF ReadLimit, rows
<1>2. PICK cap \in Nat : cap = ctl.cap
  BY HostedAssumption DEF TypeOK, CtlType
<1>3. task' = [task EXCEPT ![w].pc = "settling", ![w].cap = cap]
  BY <1>2 DEF ReadLimit
<1>4. task' \in [Workers -> TaskType]
  BY <1>3 DEF TypeOK, TaskType
<1>5. \A v \in Workers : Moves(v)
  <2>1. \A v \in Workers : v # w => task'[v] = task[v]
    BY <1>3 DEF TypeOK
  <2>2. /\ task'[w].pc = "settling" /\ task'[w].epoch = task[w].epoch
        /\ task'[w].version = task[w].version /\ task'[w].turn = task[w].turn
    BY <1>3 DEF TypeOK, TaskType
  <2> QED  BY <1>1, <2>1, <2>2 DEF Moves, At, Sending
<1> QED  BY <1>1, <1>4, <1>5, CtlSteps, Untouched DEF Quiet

(* A turn is a worker's own when it has just begun, or while the worker is alone on it. *)
Owned(w, k) == \/ k = seq + 1 /\ seq' = seq + 1
               \/ task[w].pc \in Alone /\ k = task[w].turn /\ seq' = seq

(* Nobody else's place is disturbed by what is done to it. *)
LEMMA OthersStay ==
    ASSUME Inductive, NEW w \in Workers, NEW k \in Turns, Owned(w, k),
           task' \in [Workers -> TaskType], \A v \in Workers : v # w => task'[v] = task[v],
           turn[k].bill # "charged", \A t \in Turns : t # k => Stays(t),
           NEW v \in Workers, v # w
    PROVE  Place(v)' /\ (task'[v].pc \in Alone => task'[v].turn # k)
<1>1. TypeOK /\ Place(v) /\ Place(w) /\ Apart(v, w) /\ Journal /\ Moves(v)
  BY DEF Inductive, Places, Moves
<1>2. /\ seq' \in Nat /\ seq \in Nat /\ seq <= seq' /\ seq' <= MaxTurns
      /\ \A t \in 1..seq : t \in Turns
  BY <1>1, HostedAssumption DEF TypeOK, Owned, Turns
<1>3. task[v].pc \in Alone \cup Counted => task[v].turn # k /\ task[v].turn \in Turns
  <2>1. CASE k = seq + 1
    BY <1>1, <1>2, <2>1 DEF Place
  <2>2. CASE k # seq + 1
    BY <1>1, <1>2, <2>2 DEF Place, Apart, Owned, MyTurn
  <2> QED  BY <2>1, <2>2
<1> QED  BY <1>1, <1>2, <1>3, PlaceMoves

(* So the journal, the places and the leases are right after if they are right for the
   worker and its turn, and only the owner of the last lease may call. *)
LEMMA OneTurn ==
    ASSUME Inductive, Calm, NEW w \in Workers, NEW k \in Turns, Owned(w, k), ~At(w, "idle"),
           task' \in [Workers -> TaskType], \A v \in Workers : v # w => task'[v] = task[v],
           task'[w].pc = "idle" \/ task'[w].epoch = task[w].epoch,
           task'[w].pc \in Alone => task'[w].turn = k,
           task'[w].pc \in {"create", "reserve"} => task[w].pc = "create" /\ turn'[k].state = "observed",
           turn' \in [Turns -> TurnType], \A t \in Turns : t # k => Stays(t),
           turn[k].bill # "charged", Row(k)', Place(w)',
           turn'[k].state = "calling" => turn[k].state = "calling" \/ LeaseMatches(w)
    PROVE  Journal' /\ Places' /\ Leases'
<1>1. TypeOK /\ Journal
  BY DEF Inductive
<1>2. /\ ctl' \in CtlType /\ ctl.version <= ctl'.version /\ seq' \in Nat /\ seq <= seq'
      /\ ctl'.epoch = ctl.epoch /\ ctl.epoch \in Nat
  BY <1>1, HostedAssumption DEF TypeOK, Owned, Calm, CtlType
<1>3. Journal'
  BY <1>1, <1>2, RowStays DEF Journal
<1>4. Places'
  <2>1. \A v \in Workers : Place(v)' /\ (v # w /\ task'[v].pc \in Alone => task'[v].turn # k)
    BY OthersStay
  <2>2. \A u, v \in Workers : u # w /\ v # w /\ u # v => Apart(u, v)'
    BY ApartMoves DEF Moves, Inductive, Places
  <2>3. \A u, v \in Workers : u # v => Apart(u, v)'
    BY <2>1, <2>2 DEF Apart
  <2> QED  BY <2>1, <2>3 DEF Places
<1>5. \A t \in Turns : t # k /\ turn'[t].state = "calling" => turn[t].state = "calling"
  BY DEF Stays, Pending, Closed
<1>6. Leases'
  <2>1. ASSUME NEW v \in Workers, v # w PROVE Lease(v)'
    <3>1. Lease(v) /\ Lease(w) /\ Differ(v, w)
      BY <2>1 DEF Inductive, Leases
    <3>2. task'[v] = task[v]
      BY <2>1
    <3>3. ASSUME task[v].pc \in {"create", "reserve"}, task[v].epoch = ctl.epoch PROVE NoNewCall
      <4>1. ~LeaseMatches(w)
        BY <3>1, <3>3 DEF Differ, At, LeaseMatches, Owns
      <4> QED  BY <1>5, <4>1 DEF NoNewCall
    <3> QED  BY <1>2, <3>1, <3>2, <3>3 DEF Lease, At, NoNewCall, Ambiguous
  <2>2. Lease(w)'
    <3>1. Lease(w) /\ task'[w].epoch \in Nat
      BY DEF Inductive, Leases, TaskType
    <3> QED  BY <1>2, <1>5, <3>1 DEF Lease, At, Ambiguous
  <2>3. \A u, v \in Workers : u # v => Differ(u, v)'
    <3>1. \A u \in Workers : At(u, "idle")' \/ (~At(u, "idle") /\ task'[u].epoch = task[u].epoch)
      BY DEF At
    <3> QED  BY <3>1 DEF Differ, Inductive, Leases, At
  <2> QED  BY <2>1, <2>2, <2>3 DEF Leases
<1> QED  BY <1>3, <1>4, <1>6

-----------------------------------------------------------------------------
(* The day's books *)

(* The counters count finite sets. *)
LEMMA BilledFinite ==
    ASSUME NEW bill
    PROVE  IsFiniteSet(Billed(bill)) /\ Cardinality(Billed(bill)) \in Nat
<1>1. IsFiniteSet(Turns)
  BY HostedAssumption, FS_Interval DEF Turns
<1>2. Billed(bill) \in SUBSET Turns
  BY DEF Billed
<1> QED  BY <1>1, <1>2, FS_Subset, FS_CardinalityType

(* Only the call of turn k changes its bill. *)
LEMMA BillMoves ==
    ASSUME NEW k \in Turns, \A t \in Turns : t # k => Stays(t), NEW from, NEW to, NEW other,
           turn[k].bill = from, turn'[k].bill = to, from # to, other # from, other # to
    PROVE  /\ Cardinality(Billed(from)') = Cardinality(Billed(from)) - 1
           /\ Cardinality(Billed(to)') = Cardinality(Billed(to)) + 1
           /\ Cardinality(Billed(other)') = Cardinality(Billed(other))
           /\ Cardinality(Billed(from)) \in Nat \ {0}
<1>1. \A t \in Turns : t # k => turn'[t].bill = turn[t].bill
  BY DEF Stays
<1>2. Billed(from)' = Billed(from) \ {k} /\ k \in Billed(from)
  BY <1>1 DEF Billed
<1>3. Billed(to)' = Billed(to) \cup {k} /\ k \notin Billed(to)
  BY <1>1 DEF Billed
<1>4. Billed(other)' = Billed(other)
  BY <1>1 DEF Billed
<1>5. Cardinality(Billed(from)) # 0
  BY <1>2, BilledFinite, FS_EmptySet
<1>6. Cardinality(Billed(from) \ {k}) = Cardinality(Billed(from)) - 1
  BY <1>2, BilledFinite, FS_RemoveElement
<1>7. Cardinality(Billed(to) \cup {k}) = Cardinality(Billed(to)) + 1
  BY <1>3, BilledFinite, FS_AddElement
<1>8. Cardinality(Billed(from)) \in Nat
  BY BilledFinite
<1> QED  BY <1>2, <1>3, <1>4, <1>5, <1>6, <1>7, <1>8

(* Calls whose reservation is no longer held differ from each other as before. *)
LEMMA UnknownStays ==
    ASSUME UnknownNeedsOperator, NEW k \in Turns, \A t \in Turns : t # k => Stays(t),
           turn'[k].bill # "held"
    PROVE  UnknownNeedsOperator'
<1>1. \A t \in Turns : t # k => turn'[t].bill = turn[t].bill /\ turn'[t].sent = turn[t].sent
  BY DEF Stays
<1> QED  BY <1>1 DEF UnknownNeedsOperator, Billed

(* A call is reserved. *)
LEMMA BooksOpen ==
    ASSUME TypeOK, Books, NEW k \in Turns, \A t \in Turns : t # k => Stays(t),
           turn[k].bill = "none", turn'[k].bill = "held", turn'[k].sent = ctl.version, ReserveCall,
           \A t \in Turns : t # k /\ turn[t].bill = "held" => turn[t].sent # ctl.version
    PROVE  Books' /\ usage' \in UsageType
<1>1. PICK u \in UsageType : u = usage
  BY DEF TypeOK
<1>2. PICK n \in Nat : n = Cardinality(Billed("held"))
  BY BilledFinite
<1>3. /\ Cardinality(Billed("held")') = n + 1
      /\ Cardinality(Billed("charged")') = Cardinality(Billed("charged"))
  BY <1>2, BillMoves
<1>4. usage' = [reserved |-> u.reserved + 1, charged |-> u.charged,
                tokensReserved |-> u.tokensReserved + ReserveTokens,
                tokensCharged |-> u.tokensCharged]
  BY <1>1 DEF ReserveCall, UsageType
<1>5. /\ u.reserved = n /\ u.charged = Cardinality(Billed("charged"))
      /\ u.tokensReserved = ReserveTokens * n /\ ReserveTokens \in Nat
  BY <1>1, <1>2, HostedAssumption DEF Books, EveryCallCounted
<1>6. ReserveTokens * (n + 1) = ReserveTokens * n + ReserveTokens
  BY <1>2, <1>5
<1>7. EveryCallCounted'
  BY <1>3, <1>4, <1>5, <1>6 DEF EveryCallCounted
<1>8. usage' \in UsageType
  BY <1>4, <1>5, <1>2 DEF UsageType
<1>9. UnknownNeedsOperator'
  <2>1. \A t \in Turns : t # k => turn'[t].bill = turn[t].bill /\ turn'[t].sent = turn[t].sent
    BY DEF Stays
  <2> QED  BY <2>1 DEF UnknownNeedsOperator, Billed, Books
<1> QED  BY <1>7, <1>8, <1>9 DEF Books

(* A reservation becomes a charge, and neither clamp of settle_daily_budget clamps. *)
LEMMA BooksCharge ==
    ASSUME TypeOK, Books, NEW k \in Turns, \A t \in Turns : t # k => Stays(t),
           turn[k].bill = "held", turn'[k].bill = "charged", NEW used \in Nat,
           NEW cap \in Nat, Charge(used, cap)
    PROVE  /\ Books' /\ usage' \in UsageType
           /\ usage'.reserved + usage'.charged = usage.reserved + usage.charged
           /\ usage'.tokensReserved + usage'.tokensCharged
                > usage.tokensReserved + usage.tokensCharged
              => usage'.tokensReserved + usage'.tokensCharged <= cap
<1>1. PICK u \in UsageType : u = usage
  BY DEF TypeOK
<1>2. PICK n \in Nat, c \in Nat : n = Cardinality(Billed("held")) /\ c = Cardinality(Billed("charged"))
  BY BilledFinite
<1>3. /\ Cardinality(Billed("held")') = n - 1 /\ n # 0
      /\ Cardinality(Billed("charged")') = c + 1
      /\ Cardinality(Billed("free")') = Cardinality(Billed("free"))
  BY <1>2, BillMoves
<1>4. /\ u.reserved = n /\ u.charged = c
      /\ u.tokensReserved = ReserveTokens * n /\ ReserveTokens \in Nat /\ cap \in Nat
  BY <1>1, <1>2, HostedAssumption DEF Books, EveryCallCounted, TypeOK, CtlType
<1>5. PICK r \in Nat : r = ReserveTokens * (n - 1) /\ r + ReserveTokens = ReserveTokens * n
  BY <1>2, <1>3, <1>4
<1>6. PICK spent \in Nat :
        /\ spent = (IF used <= ReserveTokens THEN u.tokensCharged + used
                    ELSE Larger(u.tokensCharged, cap - r))
        /\ spent + r > u.tokensCharged + u.tokensReserved => spent + r <= cap
  BY <1>4, <1>5 DEF Larger, UsageType
<1>7. usage' = [reserved |-> n - 1, charged |-> c + 1, tokensReserved |-> r, tokensCharged |-> spent]
  <2>1. usage.reserved = n /\ usage.charged = c /\ usage.tokensReserved = r + ReserveTokens
    BY <1>1, <1>4, <1>5
  <2>2. Positive(usage.reserved - 1) = n - 1 /\ Positive(usage.tokensReserved - ReserveTokens) = r
    BY <1>3, <2>1, HostedAssumption DEF Positive
  <2> QED  BY <1>1, <1>6, <2>1, <2>2 DEF Charge
<1>8. EveryCallCounted' /\ usage' \in UsageType
  BY <1>3, <1>5, <1>7 DEF EveryCallCounted, UsageType
<1>9. UnknownNeedsOperator'
  BY UnknownStays DEF Books
<1>10. /\ u.tokensCharged \in Nat /\ u.tokensReserved = r + ReserveTokens
       /\ u.reserved = n /\ u.charged = c /\ ReserveTokens \in Nat
  BY <1>4, <1>5 DEF UsageType
<1>11. /\ usage'.reserved = n - 1 /\ usage'.charged = c + 1
       /\ usage'.tokensReserved = r /\ usage'.tokensCharged = spent
  BY <1>7
<1> QED  BY <1>1, <1>6, <1>8, <1>9, <1>10, <1>11 DEF Books

(* A reservation is given back. *)
LEMMA BooksFree ==
    ASSUME TypeOK, Books, NEW k \in Turns, \A t \in Turns : t # k => Stays(t),
           turn[k].bill = "held", turn'[k].bill = "free", GiveBack
    PROVE  /\ Books' /\ usage' \in UsageType
           /\ usage'.reserved + usage'.charged <= usage.reserved + usage.charged
           /\ usage'.tokensReserved + usage'.tokensCharged
                <= usage.tokensReserved + usage.tokensCharged
<1>1. PICK u \in UsageType : u = usage
  BY DEF TypeOK
<1>2. PICK n \in Nat : n = Cardinality(Billed("held"))
  BY BilledFinite
<1>3. /\ Cardinality(Billed("held")') = n - 1 /\ n # 0
      /\ Cardinality(Billed("charged")') = Cardinality(Billed("charged"))
      /\ Cardinality(Billed("free")') = Cardinality(Billed("free")) + 1
  <2>1. /\ Cardinality(Billed("held")') = Cardinality(Billed("held")) - 1
        /\ Cardinality(Billed("free")') = Cardinality(Billed("free")) + 1
        /\ Cardinality(Billed("charged")') = Cardinality(Billed("charged"))
        /\ Cardinality(Billed("held")) \in Nat \ {0}
    BY BillMoves, SMTT(40)
  <2> QED  BY <1>2, <2>1
<1>4. /\ u.reserved = n /\ u.charged = Cardinality(Billed("charged"))
      /\ u.tokensReserved = ReserveTokens * n /\ ReserveTokens \in Nat
  BY <1>1, <1>2, HostedAssumption DEF Books, EveryCallCounted
<1>5. PICK r \in Nat : r = ReserveTokens * (n - 1) /\ r + ReserveTokens = ReserveTokens * n
  BY <1>2, <1>3, <1>4
<1>6. usage' = [reserved |-> n - 1, charged |-> u.charged, tokensReserved |-> r,
                tokensCharged |-> u.tokensCharged]
  <2>1. usage' = [reserved |-> u.reserved - 1, charged |-> u.charged,
                  tokensReserved |-> u.tokensReserved - ReserveTokens,
                  tokensCharged |-> u.tokensCharged]
    BY <1>1 DEF GiveBack, UsageType
  <2> QED  BY <1>4, <1>5, <2>1
<1>7. EveryCallCounted' /\ usage' \in UsageType
  BY <1>3, <1>4, <1>5, <1>6 DEF EveryCallCounted, UsageType
<1>8. UnknownNeedsOperator'
  BY UnknownStays DEF Books
<1> QED  BY <1>1, <1>4, <1>5, <1>6, <1>7, <1>8 DEF Books, UsageType

-----------------------------------------------------------------------------
(* The steps that call, charge, begin a turn or take one over *)

\* the step of WithinLimits
Limited ==
    /\ usage'.reserved + usage'.charged > usage.reserved + usage.charged
         => usage'.reserved + usage'.charged <= MaxCalls
    /\ usage'.tokensReserved + usage'.tokensCharged > usage.tokensReserved + usage.tokensCharged
         => \/ usage'.tokensReserved + usage'.tokensCharged <= ctl.cap
            \/ \E w \in Workers :
                  /\ Settles(w)
                  /\ usage'.tokensReserved + usage'.tokensCharged <= task[w].cap
\* what is over stays as it is
Final == \A t \in Turns :
            turn[t].state \in Closed => turn'[t].state = turn[t].state /\ acts'[t] = acts[t]

LEMMA StaysFinal ==
    ASSUME NEW t \in Turns, Stays(t), turn[t].state \in Closed
    PROVE  turn'[t] = turn[t]
  BY DEF Stays, Pending, Closed

(* An open reservation of this version shows in the journal. *)
LEMMA OpenShows ==
    ASSUME TypeOK, Journal, NEW t \in Turns, turn[t].bill = "held",
           turn[t].state # "calling" \/ turn[t].version # ctl.version
    PROVE  turn[t].sent < ctl.version
<1>1. Row(t) /\ turn[t].sent \in Int /\ ctl.version \in Int
  BY DEF TypeOK, Journal, TurnType, CtlType
<1> QED  BY <1>1 DEF Row

(* There is a latest decision. *)
LEMMA LatestDecided ==
    ASSUME Decided # {}
    PROVE  Latest(Decided) \in Decided
<1> DEFINE T == {MaxTurns - t : t \in Decided}
<1>1. T \subseteq Nat /\ T # {} /\ Decided \subseteq Nat
  BY HostedAssumption DEF Decided, Turns
<1>2. PICK x \in T : \A y \in T : ~(<<y, x>> \in OpToRel(<, Nat))
  BY <1>1, WFMin, NatLessThanWellFounded
<1>3. PICK t \in Decided : x = MaxTurns - t
  BY <1>2
<1>4. \A u \in Decided : u <= t
  <2>1. ASSUME NEW u \in Decided, ~(u <= t) PROVE FALSE
    <3>1. MaxTurns - u \in T /\ MaxTurns - u \in Nat /\ x \in Nat
      BY <1>1, <1>2
    <3>2. MaxTurns - u < x
      BY <1>1, <1>3, <2>1, HostedAssumption
    <3> QED  BY <1>2, <3>1, <3>2 DEF OpToRel
  <2> QED  BY <2>1
<1> QED  BY <1>4 DEF Latest

(* claim_due_controller: a new epoch, which nobody else has. *)
LEMMA ClaimStep ==
    ASSUME Inductive, NEW w \in Workers, Claim(w)
    PROVE  Inductive' /\ Limited /\ Final
<1> TypeOK /\ Journal
  BY DEF Inductive
<1>1. PICK c \in CtlType : c = ctl
  BY DEF TypeOK
<1>2. PICK n \in Nat : n = ctl.epoch + 1
  BY <1>1 DEF CtlType
<1>3. ctl' = [c EXCEPT !.epoch = n, !.lease = "live"]
  BY <1>1, <1>2 DEF Claim
<1>4. ctl' \in CtlType
  BY <1>3, Zenon DEF CtlType
<1>5. ctl'.epoch = ctl.epoch + 1 /\ ctl'.version = ctl.version
  BY <1>1, <1>2, <1>3 DEF CtlType
<1>6. /\ At(w, "idle") /\ UNCHANGED <<turn, seq, usage, requests, acts, left>>
      /\ \A v \in Workers : v # w => task'[v] = task[v]
      /\ task'[w].pc \in {"provision", "play"} /\ task'[w].epoch = ctl.epoch + 1
  BY DEF Claim, TypeOK
<1>7. task' \in [Workers -> TaskType]
  <2>1. [pc |-> IF ctl.validate THEN "provision" ELSE "play",
         epoch |-> ctl.epoch + 1, version |-> ctl.version, turn |-> 0, cap |-> 0] \in TaskType
    BY HostedAssumption DEF TaskType, TypeOK, CtlType
  <2> QED  BY <2>1 DEF Claim, TypeOK
<1>8. TypeOK'
  BY <1>4, <1>6, <1>7 DEF TypeOK
<1>9. \A t \in Turns : Stays(t)
  BY <1>6 DEF Stays
<1>10. /\ seq' \in Nat /\ seq <= seq' /\ seq' <= MaxTurns /\ ctl.version <= ctl'.version
       /\ ctl.epoch \in Nat /\ ctl'.epoch \in Nat /\ ctl.epoch <= ctl'.epoch
  BY <1>5, <1>6, HostedAssumption DEF TypeOK, CtlType
<1>11. Journal'
  BY <1>4, <1>6, <1>9, <1>10, RowStays DEF Journal, TypeOK
<1>12. Places'
  <2>1. \A v \in Workers : v # w => Place(v)'
    <3>1. \A v \in Workers : task[v].pc \in Alone \cup Counted => Stays(task[v].turn)
      BY <1>9, HostedAssumption DEF Inductive, TypeOK, Places, Place, Turns
    <3> QED  BY <1>6, <1>7, <1>10, <3>1, PlaceMoves DEF Moves, Inductive, Places
  <2>2. Place(w)' /\ task'[w].pc \notin Alone
    BY <1>6 DEF Place, Alone, Sending, Counted, At
  <2>3. \A u, v \in Workers : u # v => Apart(u, v)'
    BY <1>6, <2>2 DEF Apart, Inductive, Places
  <2> QED  BY <2>1, <2>2, <2>3 DEF Places
<1>13. Leases'
  <2>1. \A v \in Workers : ~At(v, "idle") => task[v].epoch <= ctl.epoch /\ task[v].epoch \in Nat
    BY DEF Inductive, Leases, Lease, TypeOK, TaskType
  <2>2. \A v \in Workers : Lease(v)'
    BY <1>5, <1>6, <1>10, <2>1 DEF Lease, At
  <2>3. \A u, v \in Workers : u # v => Differ(u, v)'
    BY <1>6, <1>10, <2>1 DEF Differ, At, Inductive, Leases
  <2> QED  BY <2>2, <2>3 DEF Leases
<1>14. Books'
  BY <1>6, <1>9, BooksStay DEF Inductive, TypeOK
<1>15. Limited /\ Final
  BY <1>6 DEF Limited, Final, TypeOK, UsageType
<1> QED  BY <1>8, <1>11, <1>12, <1>13, <1>14, <1>15 DEF Inductive

(* The row of a turn whose call begins or ends. *)
LEMMA RowCall ==
    ASSUME NEW r \in TurnType, NEW state \in Pending \cup Closed, NEW n \in Nat,
           NEW bill \in {"none", "held", "charged", "free"}
    PROVE  /\ [r EXCEPT !.state = state, !.bill = bill] \in TurnType
           /\ [r EXCEPT !.state = state, !.bill = bill, !.sent = n] \in TurnType
  BY Zenon DEF TurnType

(* What a worker alone on its turn may assume of it. *)
LEMMA Mine ==
    ASSUME Inductive, NEW w \in Workers, task[w].pc \in Alone
    PROVE  \E k \in Turns : /\ k = task[w].turn /\ k \in 1..seq
                            /\ seq' = seq => Owned(w, k)
                            /\ turn[k] \in TurnType /\ Row(k)
                            /\ task[w].pc \in Sending => turn[k].bill = "held"
                            /\ At(w, "reserve") => turn[k].bill = "none" /\ turn[k].version = task[w].version
<1>1. Place(w) /\ TypeOK /\ Journal
  BY DEF Inductive, Places
<1>2. task[w].turn \in 1..seq /\ task[w].turn \in Turns
  BY <1>1, HostedAssumption DEF Place, TypeOK, Turns
<1> QED  BY <1>1, <1>2 DEF Place, Owned, MyTurn, TypeOK, Journal, At, Alone

(* The turn that begins. *)
LEMMA Fresh ==
    ASSUME Inductive, seq < MaxTurns
    PROVE  \E k \in Turns : k = seq + 1 /\ turn[k].state = "none" /\ turn[k].bill = "none"
<1>1. seq \in Nat /\ seq + 1 \in Turns
  BY HostedAssumption DEF Inductive, TypeOK, Turns
<1> QED  BY <1>1 DEF Inductive, Journal, Row

(* create_turn_journal counts nothing. *)
LEMMA CreateStep ==
    ASSUME Inductive, NEW w \in Workers, Create(w)
    PROVE  Inductive' /\ Limited /\ Final
<1> TypeOK
  BY DEF Inductive
<1>0. /\ At(w, "create") /\ LeaseMatches(w) /\ seq < MaxTurns /\ seq' = seq + 1
      /\ task' = [task EXCEPT ![w].pc = "reserve", ![w].turn = seq + 1]
      /\ UNCHANGED <<ctl, usage, requests, acts, left>>
  BY DEF Create
<1>1. PICK k \in Turns : k = seq + 1 /\ turn[k].state = "none" /\ turn[k].bill = "none"
  BY <1>0, Fresh
<1> DEFINE row == [NoTurn EXCEPT !.state = "observed", !.epoch = ctl.epoch, !.version = ctl.version]
<1>2. /\ row \in TurnType /\ row.state = "observed" /\ row.bill = "none" /\ row.version = ctl.version
  BY DEF NoTurn, TurnType, TypeOK, CtlType, Pending
<1> HIDE DEF row
<1>3. /\ turn' \in [Turns -> TurnType] /\ turn'[k] = row /\ \A t \in Turns : t # k => turn'[t] = turn[t]
  BY <1>1, <1>2 DEF Create, TypeOK, row
<1>4. /\ task' \in [Workers -> TaskType] /\ \A v \in Workers : v # w => task'[v] = task[v]
      /\ task'[w].pc = "reserve" /\ task'[w].turn = k /\ task'[w].epoch = task[w].epoch
      /\ task'[w].version = task[w].version /\ At(w, "create")
  <2>1. k \in 0..MaxTurns /\ task' = [task EXCEPT ![w].pc = "reserve", ![w].turn = k]
    BY <1>0, <1>1, HostedAssumption DEF Turns
  <2>2. task' \in [Workers -> TaskType]
    BY <2>1, ZenonT(40) DEF TypeOK, TaskType
  <2>3. \A v \in Workers : v # w => task'[v] = task[v]
    BY <2>1 DEF TypeOK
  <2> QED  BY <1>0, <2>1, <2>2, <2>3 DEF TypeOK, TaskType
<1>5. Calm /\ Owned(w, k) /\ seq' \in 0..MaxTurns
  BY <1>1, HostedAssumption DEF Create, Calm, Owned, Turns, TypeOK
<1>6. \A t \in Turns : t # k => Stays(t)
  BY <1>3 DEF Stays
<1>7. Row(k)'
  <2>1. ~(k > seq') /\ turn'[k].state = "observed" /\ turn'[k].bill = "none"
    BY <1>0, <1>1, <1>2, <1>3, HostedAssumption DEF Turns
  <2> QED  BY <2>1 DEF Row
<1>8. Place(w)'
  <2>1. k \in 1..seq' /\ turn'[k].bill = "none" /\ turn'[k].version = task[w].version
    BY <1>0, <1>1, <1>2, <1>3, HostedAssumption DEF LeaseMatches, Owns, Turns, TypeOK
  <2> QED  BY <1>4, <2>1 DEF Place, MyTurn, At, Sending, Counted
<1>9. Journal' /\ Places' /\ Leases'
  BY <1>1, <1>2, <1>3, <1>4, <1>5, <1>6, <1>7, <1>8, OneTurn DEF At
<1>10. TypeOK'
  BY <1>3, <1>4, <1>5 DEF TypeOK, Create, Calm
<1>11. Books'
  <2>1. \A bill : turn'[k].bill = turn[k].bill /\ Billed(bill)' = Billed(bill)
    BY <1>1, <1>2, <1>3 DEF Billed
  <2>2. EveryCallCounted'
    BY <2>1 DEF Create, EveryCallCounted, Books, Inductive
  <2>3. UnknownNeedsOperator'
    BY <1>1, <1>2, <1>3 DEF UnknownNeedsOperator, Billed, Books, Inductive
  <2> QED  BY <2>2, <2>3 DEF Books
<1>12. Limited
  BY DEF Create, Limited, TypeOK, UsageType
<1>13. Final
  BY <1>1, <1>3 DEF Create, Final, Closed
<1> QED  BY <1>9, <1>10, <1>11, <1>12, <1>13 DEF Inductive

(* A reservation that the limits allow. *)
LEMMA ReserveLimited ==
    ASSUME TypeOK, Affordable, ReserveCall
    PROVE  Limited
<1>1. PICK u \in UsageType : u = usage
  BY DEF TypeOK
<1>2. usage' = [reserved |-> u.reserved + 1, charged |-> u.charged,
                tokensReserved |-> u.tokensReserved + ReserveTokens,
                tokensCharged |-> u.tokensCharged]
  BY <1>1 DEF ReserveCall, UsageType
<1> QED  BY <1>1, <1>2, HostedAssumption DEF Affordable, Limited, UsageType, TypeOK, CtlType

(* begin_provider_stage_call: what is superseded is of older versions, so no open call of this
   one is followed by another. *)
LEMMA BeginStageStep ==
    ASSUME Inductive, NEW w \in Workers, BeginStage(w)
    PROVE  Inductive' /\ Limited /\ Final
<1> TypeOK /\ Journal
  BY DEF Inductive
<1>0. /\ At(w, "provision") /\ LeaseMatches(w) /\ seq < MaxTurns /\ seq' = seq + 1
      /\ task' = [task EXCEPT ![w].pc = "staging", ![w].turn = seq + 1]
      /\ UNCHANGED <<ctl, requests, acts, left>> /\ Affordable /\ ReserveCall /\ ~AmbiguousNow
  BY DEF BeginStage
<1>1. PICK k \in Turns : k = seq + 1 /\ turn[k].state = "none" /\ turn[k].bill = "none"
  BY <1>0, Fresh
<1> DEFINE row == [state |-> "calling", stage |-> TRUE, epoch |-> ctl.epoch,
                   version |-> ctl.version, bill |-> "held", sent |-> ctl.version]
<1>2. /\ row \in TurnType /\ row.state = "calling" /\ row.bill = "held"
      /\ row.version = ctl.version /\ row.sent = ctl.version
  BY DEF TurnType, TypeOK, CtlType, Pending
<1>3. turn' = [Superseded EXCEPT ![k] = row]
  BY <1>1 DEF BeginStage
<1> HIDE DEF row
<1>4. \A t \in Turns : turn[t].bill = "held" => turn[t].sent < ctl.version
  BY <1>0, OpenShows DEF AmbiguousNow
<1>5. ASSUME NEW t \in Turns, t # k PROVE turn'[t] \in TurnType /\ Stays(t)
  <2>1. turn'[t] = turn[t] \/ (turn[t].state = "calling" /\ turn'[t] = [turn[t] EXCEPT !.state = "failed"])
    BY <1>3, <1>5 DEF Superseded
  <2>2. PICK r \in TurnType : r = turn[t]
    BY DEF TypeOK
  <2>3. CASE turn'[t] = turn[t]
    BY <2>2, <2>3 DEF Stays
  <2>4. CASE turn[t].state = "calling" /\ turn'[t] = [r EXCEPT !.state = "failed"]
    <3>1. /\ turn'[t] \in TurnType /\ turn'[t].state = "failed" /\ turn'[t].bill = r.bill
          /\ turn'[t].sent = r.sent /\ turn'[t].version = r.version
      BY <2>4, RowState DEF Closed
    <3> QED  BY <1>0, <1>4, <2>2, <2>4, <3>1 DEF Stays, Pending, Closed
  <2> QED  BY <2>1, <2>2, <2>3, <2>4
<1>6. turn' \in [Turns -> TurnType] /\ turn'[k] = row /\ \A t \in Turns : t # k => Stays(t)
  <2>1. turn'[k] = row /\ turn' = [t \in Turns |-> turn'[t]]
    BY <1>3 DEF Superseded
  <2> QED  BY <1>2, <1>5, <2>1
<1>7. /\ task' \in [Workers -> TaskType] /\ \A v \in Workers : v # w => task'[v] = task[v]
      /\ task'[w].pc = "staging" /\ task'[w].turn = k /\ task'[w].epoch = task[w].epoch
  <2>1. k \in 0..MaxTurns /\ task' = [task EXCEPT ![w].pc = "staging", ![w].turn = k]
    BY <1>0, <1>1, HostedAssumption DEF Turns
  <2>2. task' \in [Workers -> TaskType]
    BY <2>1, ZenonT(40) DEF TypeOK, TaskType
  <2>3. \A v \in Workers : v # w => task'[v] = task[v]
    BY <2>1 DEF TypeOK
  <2> QED  BY <2>1, <2>2, <2>3 DEF TypeOK, TaskType
<1>8. Calm /\ Owned(w, k) /\ seq' \in 0..MaxTurns /\ ctl.version \in Nat
  BY <1>0, <1>1, HostedAssumption DEF Calm, Owned, TypeOK, CtlType
<1>9. Row(k)'
  <2>1. ~(k > seq')
    BY <1>0, <1>1, HostedAssumption DEF Turns
  <2> QED  BY <1>0, <1>2, <1>6, <1>8, <2>1 DEF Row
<1>10. Place(w)'
  <2>1. k \in 1..seq' /\ turn'[k].bill = "held"
    BY <1>0, <1>1, <1>2, <1>6, HostedAssumption DEF Turns, TypeOK
  <2> QED  BY <1>7, <2>1 DEF Place, MyTurn, At, Sending, Counted
<1>11. Journal' /\ Places' /\ Leases'
  BY <1>0, <1>1, <1>6, <1>7, <1>8, <1>9, <1>10, OneTurn DEF At
<1>12. Books' /\ usage' \in UsageType
  <2>1. \A t \in Turns : t # k /\ turn[t].bill = "held" => turn[t].sent # ctl.version
    BY <1>4, <1>8
  <2> QED  BY <1>0, <1>1, <1>2, <1>6, <2>1, BooksOpen DEF Inductive
<1>13. TypeOK'
  BY <1>0, <1>6, <1>7, <1>8, <1>12 DEF TypeOK, Calm
<1>14. Limited
  BY <1>0, ReserveLimited
<1>15. Final
  BY <1>0, <1>1, <1>6, StaysFinal DEF Final, Closed
<1> QED  BY <1>11, <1>12, <1>13, <1>14, <1>15 DEF Inductive

(* reserve_turn_provider_budget: nobody has called since this worker looked. *)
LEMMA ReserveStep ==
    ASSUME Inductive, NEW w \in Workers, Reserve(w)
    PROVE  Inductive' /\ Limited /\ Final
<1> TypeOK /\ Journal
  BY DEF Inductive
<1>0. /\ At(w, "reserve") /\ LeaseMatches(w) /\ Affordable /\ ReserveCall /\ Goes(w, "calling")
      /\ UNCHANGED <<ctl, seq, requests, acts, left>> /\ MyTurn(w).state = "observed"
  BY DEF Reserve, MayReserve
<1>1. PICK k \in Turns : /\ k = task[w].turn /\ k \in 1..seq /\ Owned(w, k) /\ turn[k].bill = "none"
                         /\ turn[k].version = task[w].version
  BY <1>0, Mine DEF At, Alone
<1>2. /\ turn[k].state = "observed" /\ ctl.version \in Nat /\ turn[k].version = ctl.version
      /\ task[w].epoch = ctl.epoch
  BY <1>0, <1>1 DEF MyTurn, LeaseMatches, Owns, TypeOK, CtlType
<1>3. turn' = [turn EXCEPT ![k].state = "calling", ![k].bill = "held", ![k].sent = ctl.version]
  BY <1>1 DEF Reserve
<1>4. /\ turn' \in [Turns -> TurnType] /\ \A t \in Turns : t # k => turn'[t] = turn[t]
      /\ turn'[k].state = "calling" /\ turn'[k].bill = "held" /\ turn'[k].sent = ctl.version
      /\ turn'[k].version = ctl.version
  <2>1. PICK n \in Nat : n = ctl.version
    BY <1>2
  <2>2. turn' = [turn EXCEPT ![k].state = "calling", ![k].bill = "held", ![k].sent = n]
    BY <1>3, <2>1
  <2>3. turn' \in [Turns -> TurnType] /\ \A t \in Turns : t # k => turn'[t] = turn[t]
    <3>1. turn' \in [Turns -> TurnType]
      <4>1. turn' = [turn EXCEPT ![k] = [turn[k] EXCEPT !.state = "calling", !.bill = "held", !.sent = n]]
        BY <2>2
      <4>2. [turn[k] EXCEPT !.state = "calling", !.bill = "held", !.sent = n] \in TurnType
        BY RowCall DEF TypeOK, Pending
      <4> QED  BY <4>1, <4>2 DEF TypeOK
    <3>2. \A t \in Turns : t # k => turn'[t] = turn[t]
      BY <2>2 DEF TypeOK
    <3> QED  BY <3>1, <3>2
  <2>4. /\ turn'[k].state = "calling" /\ turn'[k].bill = "held" /\ turn'[k].sent = n
        /\ turn'[k].version = turn[k].version
    BY <2>2 DEF TypeOK, TurnType
  <2> QED  BY <1>2, <2>1, <2>3, <2>4
<1>5. \A t \in Turns : turn[t].bill = "held" => turn[t].sent < ctl.version
  <2>1. ~Ambiguous
    BY <1>0, <1>2 DEF Inductive, Leases, Lease, At
  <2> QED  BY <2>1, OpenShows DEF Ambiguous
<1>6. \A t \in Turns : t # k => Stays(t)
  BY <1>4 DEF Stays
<1>7. /\ task' \in [Workers -> TaskType] /\ \A v \in Workers : v # w => task'[v] = task[v]
      /\ task'[w].pc = "calling" /\ task'[w].turn = k /\ task'[w].epoch = task[w].epoch
  BY <1>0, <1>1, GoesType DEF Goes, TypeOK, TaskType
<1>8. Calm
  BY <1>0 DEF Calm, TypeOK
<1>9. Row(k)'
  <2>1. ~(k > seq')
    BY <1>0, <1>1, HostedAssumption DEF TypeOK
  <2> QED  BY <1>0, <1>2, <1>4, <2>1 DEF Row
<1>10. Place(w)'
  BY <1>0, <1>1, <1>4, <1>7 DEF Place, MyTurn, At, Sending, Counted
<1>11. Journal' /\ Places' /\ Leases'
  BY <1>0, <1>1, <1>4, <1>6, <1>7, <1>8, <1>9, <1>10, OneTurn DEF At
<1>12. Books' /\ usage' \in UsageType
  <2>1. \A t \in Turns : t # k /\ turn[t].bill = "held" => turn[t].sent # ctl.version
    BY <1>2, <1>5
  <2> QED  BY <1>0, <1>1, <1>4, <1>6, <2>1, BooksOpen DEF Inductive
<1>13. TypeOK'
  BY <1>0, <1>4, <1>7, <1>8, <1>12 DEF TypeOK, Calm
<1>14. Limited
  BY <1>0, ReserveLimited
<1>15. Final
  BY <1>0, <1>2, <1>6, StaysFinal DEF Final, Closed
<1> QED  BY <1>11, <1>12, <1>13, <1>14, <1>15 DEF Inductive

(* A call that a worker is alone on is answered: it is charged, whoever holds the lease by now
   and whatever became of the turn (settle_daily_budget), or given back. *)
LEMMA AnswerStep ==
    ASSUME Inductive, NEW w \in Workers,
           \/ \E used \in Reports, good \in BOOLEAN : CompleteStage(w, used, good)
           \/ \E used \in Reports, next \in {"persist", "marking", "failing"} : Settle(w, used, next)
           \/ Unbilled(w)
    PROVE  Inductive' /\ Limited /\ Final
<1> TypeOK /\ Journal /\ \E cap \in Caps : TRUE
  BY DEF Inductive, TypeOK, CtlType
<1>0. /\ task[w].pc \in Sending /\ UNCHANGED <<seq, requests, acts>>
      /\ UNCHANGED left \/ Costs("faults")
      /\ UNCHANGED ctl \/ Release
  BY DEF CompleteStage, Settle, Unbilled, Sending, At
<1>1. PICK k \in Turns : /\ k = task[w].turn /\ k \in 1..seq /\ Owned(w, k) /\ Row(k)
                         /\ turn[k].bill = "held" /\ turn[k] \in TurnType
  BY <1>0, Mine DEF Alone
<1>2. left' \in [lapses : Nat, deaths : Nat, faults : Nat, orders : Nat] /\ Calm
  BY <1>0, CostsType, CtlSteps, Untouched
<1> DEFINE Answered(bill) ==
             /\ turn' \in [Turns -> TurnType] /\ \A t \in Turns : t # k => turn'[t] = turn[t]
             /\ turn'[k].bill = bill
             /\ turn'[k].state = turn[k].state
                  \/ (turn[k].state = "calling" /\ turn'[k].state \in {"completed", "failed"})
           Leaving(pcs) ==
             /\ task' \in [Workers -> TaskType] /\ \A v \in Workers : v # w => task'[v] = task[v]
             /\ task'[w].pc \in pcs
             /\ task'[w].pc # "idle" => task'[w].turn = k /\ task'[w].epoch = task[w].epoch
           Charged(cap) == \E used \in Nat : Charge(used, cap)
<1>3. ASSUME NEW used \in Reports, NEW good \in BOOLEAN, CompleteStage(w, used, good)
      PROVE  Answered("charged") /\ Leaving({"provision", "failing"}) /\ Charged(ctl.cap)
  <2>1. PICK state \in {"completed", "failed"} :
          turn' = [turn EXCEPT ![k].state = state, ![k].bill = "charged"]
    BY <1>1, <1>3 DEF CompleteStage
  <2>2. turn[k].state = "calling"
    BY <1>1, <1>3 DEF CompleteStage, StageHolds, MyTurn
  <2>3. turn' \in [Turns -> TurnType] /\ \A t \in Turns : t # k => turn'[t] = turn[t]
    <3>1. turn' \in [Turns -> TurnType]
      <4>1. turn' = [turn EXCEPT ![k] = [turn[k] EXCEPT !.state = state, !.bill = "charged"]]
        BY <2>1
      <4>2. [turn[k] EXCEPT !.state = state, !.bill = "charged"] \in TurnType
        BY RowCall DEF TypeOK, Closed
      <4> QED  BY <4>1, <4>2 DEF TypeOK
    <3>2. \A t \in Turns : t # k => turn'[t] = turn[t]
      BY <2>1 DEF TypeOK
    <3> QED  BY <3>1, <3>2
  <2>4. turn'[k].bill = "charged" /\ turn'[k].state = state
    BY <2>1 DEF TypeOK, TurnType
  <2>5. PICK pc \in {"provision", "failing"} : Goes(w, pc)
    BY <1>3 DEF CompleteStage
  <2>6. Leaving({"provision", "failing"})
    BY <1>1, <2>5, GoesType DEF Goes, TypeOK, TaskType
  <2> QED  BY <1>3, <2>2, <2>3, <2>4, <2>6, HostedAssumption DEF CompleteStage
<1>4. ASSUME NEW used \in Reports, NEW next \in {"persist", "marking", "failing"}, Settle(w, used, next)
      PROVE  /\ Answered("charged") /\ Leaving({"persist", "marking", "failing"})
             /\ Charged(task[w].cap) /\ Settles(w)
  <2>1. turn' = [turn EXCEPT ![k].bill = "charged"]
    BY <1>1, <1>4 DEF Settle
  <2>2. turn' \in [Turns -> TurnType] /\ \A t \in Turns : t # k => turn'[t] = turn[t]
    BY <2>1 DEF TypeOK, TurnType
  <2>3. turn'[k].bill = "charged" /\ turn'[k].state = turn[k].state
    BY <2>1 DEF TypeOK, TurnType
  <2>4. Leaving({"persist", "marking", "failing"})
    BY <1>1, <1>4 DEF Settle, TypeOK, TaskType
  <2>5. Settles(w)
    BY <1>4, <2>4 DEF Settle, Settles, At
  <2> QED  BY <1>4, <2>2, <2>3, <2>4, <2>5, HostedAssumption DEF Settle
<1>5. ASSUME Unbilled(w)
      PROVE  Answered("free") /\ Leaving({"idle"}) /\ GiveBack
  <2>1. turn' = [turn EXCEPT ![k].state = "failed", ![k].bill = "free"]
    BY <1>1, <1>5 DEF Unbilled
  <2>2. turn[k].state = "calling"
    BY <1>1, <1>5 DEF Unbilled, MyTurn
  <2>3. turn' \in [Turns -> TurnType] /\ \A t \in Turns : t # k => turn'[t] = turn[t]
    <3>1. turn' \in [Turns -> TurnType]
      <4>1. turn' = [turn EXCEPT ![k] = [turn[k] EXCEPT !.state = "failed", !.bill = "free"]]
        BY <2>1
      <4>2. [turn[k] EXCEPT !.state = "failed", !.bill = "free"] \in TurnType
        BY RowCall DEF TypeOK, Closed
      <4> QED  BY <4>1, <4>2 DEF TypeOK
    <3>2. \A t \in Turns : t # k => turn'[t] = turn[t]
      BY <2>1 DEF TypeOK
    <3> QED  BY <3>1, <3>2
  <2>4. turn'[k].bill = "free" /\ turn'[k].state = "failed"
    BY <2>1 DEF TypeOK, TurnType
  <2>5. Leaving({"idle"})
    BY <1>5, GoesType DEF Unbilled, Quits, Idle, TypeOK, TaskType
  <2> QED  BY <1>5, <2>2, <2>3, <2>4, <2>5 DEF Unbilled
<1> DEFINE Bound(cap) == cap = ctl.cap \/ (cap = task[w].cap /\ Settles(w))
<1>6. \/ /\ Answered("charged") /\ Leaving({"provision", "persist", "marking", "failing"})
         /\ \E cap \in Nat : Bound(cap) /\ Charged(cap)
      \/ Answered("free") /\ Leaving({"idle"}) /\ GiveBack
  <2>1. ctl.cap \in Nat /\ task[w].cap \in Nat
    BY HostedAssumption DEF TypeOK, CtlType, TaskType
  <2>2. ASSUME NEW used \in Reports, NEW good \in BOOLEAN, CompleteStage(w, used, good)
        PROVE  /\ Answered("charged") /\ Leaving({"provision", "persist", "marking", "failing"})
               /\ \E cap \in Nat : Bound(cap) /\ Charged(cap)
    <3>1. Answered("charged") /\ Leaving({"provision", "failing"}) /\ Charged(ctl.cap)
      BY <1>3, <2>2
    <3>2. Leaving({"provision", "persist", "marking", "failing"})
      BY <3>1
    <3>3. Bound(ctl.cap)
      OBVIOUS
    <3> HIDE DEF Answered, Charged, Leaving, Bound
    <3> QED  BY <2>1, <3>1, <3>2, <3>3
  <2>3. ASSUME NEW used \in Reports, NEW next \in {"persist", "marking", "failing"},
               Settle(w, used, next)
        PROVE  /\ Answered("charged") /\ Leaving({"provision", "persist", "marking", "failing"})
               /\ \E cap \in Nat : Bound(cap) /\ Charged(cap)
    <3>1. /\ Answered("charged") /\ Leaving({"persist", "marking", "failing"})
          /\ Charged(task[w].cap) /\ Settles(w)
      BY <1>4, <2>3
    <3>2. Leaving({"provision", "persist", "marking", "failing"})
      BY <3>1
    <3>3. Bound(task[w].cap)
      BY <3>1
    <3> HIDE DEF Answered, Charged, Leaving, Bound
    <3> QED  BY <2>1, <3>1, <3>2, <3>3
  <2> HIDE DEF Answered, Charged, Leaving, Bound
  <2>4. CASE Unbilled(w)
    BY <1>5, <2>4
  <2> QED  BY <2>2, <2>3, <2>4
<1> HIDE DEF Charged
<1>7. PICK bill \in {"charged", "free"} : Answered(bill)
  BY <1>6
<1>8. Leaving({"provision", "persist", "marking", "failing", "idle"})
  BY <1>6
<1>9. \A t \in Turns : t # k => Stays(t)
  BY <1>7 DEF Stays
<1>10. Row(k)'
  <2>1. ~(k > seq')
    BY <1>0, <1>1, HostedAssumption DEF TypeOK
  <2>2. turn[k].state \notin {"none", "observed", "decision_ready", "committing"}
    BY <1>1 DEF Row
  <2>3. turn'[k].state \notin {"none", "observed", "decision_ready", "committing"}
    BY <1>7, <2>2
  <2> QED  BY <1>7, <2>1, <2>3 DEF Row
<1>11. Place(w)'
  <2>1. task'[w].pc \in Counted => turn'[k].bill = "charged"
    BY <1>6 DEF Counted
  <2> QED  BY <1>0, <1>1, <1>8, <2>1 DEF Place, MyTurn, At, Alone, Sending, Counted
<1>12. Journal' /\ Places' /\ Leases'
  BY <1>0, <1>1, <1>2, <1>7, <1>8, <1>9, <1>10, <1>11, OneTurn DEF At, Alone, Sending
<1>13. Books' /\ usage' \in UsageType /\ Limited
  <2>1. ASSUME Answered("charged"), NEW cap \in Nat, Bound(cap), Charged(cap)
        PROVE  Books' /\ usage' \in UsageType /\ Limited
    <3>1. PICK used \in Nat : Charge(used, cap)
      BY <2>1 DEF Charged
    <3>2. /\ Books' /\ usage' \in UsageType
          /\ usage'.reserved + usage'.charged = usage.reserved + usage.charged
          /\ usage'.tokensReserved + usage'.tokensCharged
                > usage.tokensReserved + usage.tokensCharged
              => usage'.tokensReserved + usage'.tokensCharged <= cap
      BY <1>1, <1>9, <2>1, <3>1, BooksCharge DEF Inductive
    <3> QED  BY <2>1, <3>2 DEF Limited, TypeOK, UsageType
  <2>2. CASE Answered("free") /\ GiveBack
    BY <1>1, <1>9, <2>2, BooksFree DEF Inductive, Limited, TypeOK, UsageType
  <2> QED  BY <1>6, <2>1, <2>2
<1>14. TypeOK'
  BY <1>0, <1>2, <1>7, <1>8, <1>13 DEF TypeOK, Calm
<1>15. Final
  BY <1>0, <1>7 DEF Final, Closed
<1> QED  BY <1>12, <1>13, <1>14, <1>15 DEF Inductive

(* adopt_recoverable_turn without an open call: the latest decision goes on under the new
   lease, what else is open is abandoned. *)
LEMMA AdoptStep ==
    ASSUME Inductive, NEW w \in Workers, Adopt(w)
    PROVE  Inductive' /\ Limited /\ Final
<1> TypeOK /\ Journal
  BY DEF Inductive
<1>0. /\ At(w, "play") /\ ~Ambiguous /\ LeaseMatches(w)
      /\ UNCHANGED <<ctl, seq, usage, requests, acts, left>>
  BY DEF Adopt, Unclear
<1>1. ASSUME NEW t \in Turns
      PROVE  /\ turn'[t] \in TurnType /\ Stays(t)
             /\ turn[t].state \in Closed => turn'[t].state = turn[t].state
  <2>1. PICK r \in TurnType : r = turn[t] /\ Row(t)
    BY DEF TypeOK, Journal
  <2>2. CASE t \in Decided /\ t = Latest(Decided)
    <3>1. PICK e \in Nat, v \in Nat : e = ctl.epoch /\ v = ctl.version
      BY DEF TypeOK, CtlType
    <3>2. turn'[t] = [r EXCEPT !.state = "decision_ready", !.epoch = e, !.version = v]
      BY <2>1, <2>2, <3>1 DEF Adopt
    <3>3. [r EXCEPT !.state = "decision_ready", !.epoch = e, !.version = v] \in TurnType
      BY Zenon DEF TurnType, Pending
    <3>4. turn'[t].state = "decision_ready" /\ turn'[t].bill = r.bill /\ turn'[t].sent = r.sent
      BY <3>2 DEF TurnType
    <3>5. r.state \in {"decision_ready", "committing"} /\ r.bill = "charged"
      BY <2>1, <2>2 DEF Decided, Row
    <3> QED  BY <2>1, <3>2, <3>3, <3>4, <3>5 DEF Stays, Pending, Closed
  <2>3. CASE ~(t \in Decided /\ t = Latest(Decided)) /\ turn[t].state \in Pending
    <3>1. turn'[t] = [r EXCEPT !.state = "abandoned"]
      BY <2>1, <2>3 DEF Adopt
    <3>2. /\ turn'[t] \in TurnType /\ turn'[t].state = "abandoned" /\ turn'[t].bill = r.bill
          /\ turn'[t].sent = r.sent /\ turn'[t].version = r.version
      BY <3>1, RowState DEF Closed
    <3>3. turn[t].bill = "held" => turn[t].sent < ctl'.version
      BY <1>0, OpenShows DEF Ambiguous
    <3> QED  BY <2>1, <2>3, <3>2, <3>3 DEF Stays, Pending, Closed
  <2>4. CASE ~(t \in Decided /\ t = Latest(Decided)) /\ turn[t].state \notin Pending
    <3>1. turn'[t] = turn[t]
      BY <2>4 DEF Adopt
    <3> QED  BY <2>1, <3>1 DEF Stays
  <2> QED  BY <2>2, <2>3, <2>4
<1>2. turn' \in [Turns -> TurnType]
  <2>1. turn' = [t \in Turns |-> turn'[t]]
    BY DEF Adopt
  <2> QED  BY <1>1, <2>1
<1>3. Decided # {} => /\ Latest(Decided) \in 1..seq /\ Latest(Decided) \in Turns
                      /\ turn'[Latest(Decided)].bill = "charged"
  <2>1. ASSUME Decided # {} PROVE /\ Latest(Decided) \in 1..seq /\ Latest(Decided) \in Turns
                                  /\ turn'[Latest(Decided)].bill = "charged"
    <3>1. PICK t \in Turns : t = Latest(Decided) /\ t \in Decided /\ Row(t) /\ Stays(t)
      BY <1>1, <2>1, LatestDecided DEF Decided, Journal
    <3>2. turn[t].bill = "charged" /\ t <= seq
      BY <3>1, HostedAssumption DEF Decided, Row, TypeOK, Turns
    <3> QED  BY <3>1, <3>2, HostedAssumption DEF Stays, Turns, TypeOK
  <2> QED  BY <2>1
<1>4. /\ task' \in [Workers -> TaskType] /\ \A v \in Workers : v # w => task'[v] = task[v]
      /\ task'[w].pc = "create" \/ (task'[w].pc = "submit" /\ Decided # {} /\ task'[w].turn = Latest(Decided))
      /\ task'[w].epoch = task[w].epoch
  <2>1. CASE Decided = {}
    <3>1. task' = [task EXCEPT ![w].pc = "create"]
      BY <2>1 DEF Adopt
    <3> QED  BY <3>1 DEF TypeOK, TaskType
  <2>2. CASE Decided # {}
    <3>1. PICK t \in 0..MaxTurns : t = Latest(Decided)
      BY <1>3, <2>2, HostedAssumption DEF Turns
    <3>2. task' = [task EXCEPT ![w].pc = "submit", ![w].turn = t]
      BY <2>2, <3>1 DEF Adopt
    <3>3. task' \in [Workers -> TaskType]
      BY <3>2 DEF TypeOK, TaskType
    <3>4. \A v \in Workers : v # w => task'[v] = task[v]
      BY <3>2 DEF TypeOK
    <3> QED  BY <2>2, <3>1, <3>2, <3>3, <3>4 DEF TypeOK, TaskType
  <2> QED  BY <2>1, <2>2
<1>5. TypeOK'
  BY <1>0, <1>2, <1>4 DEF TypeOK
<1>6. /\ seq' \in Nat /\ seq <= seq' /\ seq' <= MaxTurns /\ ctl' \in CtlType
      /\ ctl.version <= ctl'.version /\ ctl.epoch <= ctl'.epoch /\ ctl'.epoch \in Nat
  BY <1>0, HostedAssumption DEF TypeOK, CtlType
<1>7. Journal'
  BY <1>1, <1>6, RowStays DEF Journal
<1>8. \A v \in Workers : v # w => Moves(v)
  BY <1>4 DEF Moves
<1>9. Places'
  <2>1. \A v \in Workers : task[v].pc \in Alone \cup Counted => Stays(task[v].turn)
    BY <1>1, HostedAssumption DEF Inductive, TypeOK, Places, Place, Turns
  <2>2. \A v \in Workers : v # w => Place(v)'
    BY <1>4, <1>6, <1>8, <2>1, PlaceMoves DEF Inductive, Places
  <2>3. Place(w)'
    BY <1>0, <1>3, <1>4 DEF Place, MyTurn, At, Alone, Sending, Counted
  <2>4. \A u, v \in Workers : u # v => Apart(u, v)'
    BY <1>4 DEF Apart, Alone, Sending, Inductive, Places
  <2> QED  BY <2>2, <2>3, <2>4 DEF Places
<1>10. NoNewCall
  BY <1>1 DEF Stays, NoNewCall, Pending, Closed
<1>11. Leases'
  <2>1. \A v \in Workers : v # w => Lease(v)'
    BY <1>0, <1>4, <1>6, <1>8, <1>10, LeaseMoves DEF Inductive, Leases
  <2>2. Lease(w)'
    BY <1>0, <1>4, <1>10 DEF Lease, At, Ambiguous, NoNewCall, Inductive, Leases
  <2>3. \A u, v \in Workers : u # v => Differ(u, v)'
    <3>1. \A v \in Workers : At(v, "idle")' = At(v, "idle") /\ task'[v].epoch = task[v].epoch
      BY <1>0, <1>4 DEF At
    <3> QED  BY <3>1 DEF Differ, Inductive, Leases
  <2> QED  BY <2>1, <2>2, <2>3 DEF Leases
<1>12. Books'
  BY <1>0, <1>1, <1>2, BooksStay DEF Inductive
<1>13. Limited /\ Final
  BY <1>0, <1>1 DEF Limited, Final, TypeOK, UsageType
<1> QED  BY <1>5, <1>7, <1>9, <1>11, <1>12, <1>13 DEF Inductive

-----------------------------------------------------------------------------
(* All steps together *)

LEMMA Initially == Init => Inductive
<1> SUFFICES ASSUME Init PROVE Inductive
  OBVIOUS
<1>1. TypeOK
  <2>1. ctl \in CtlType
    <3>1. {0} \subseteq Nat /\ {1} \subseteq Nat
      OBVIOUS
    <3>2. {"running"} \subseteq {"running", "paused"} /\ {"none"} \subseteq {"none", "live", "lapsed"}
          /\ {FALSE} \subseteq BOOLEAN
      OBVIOUS
    <3> QED  BY <3>1, <3>2, Zenon DEF Init, CtlType
  <2>2. NoTurn \in TurnType /\ Idle \in TaskType
    BY HostedAssumption DEF NoTurn, TurnType, Idle, TaskType
  <2> QED  BY <2>1, <2>2, HostedAssumption DEF Init, TypeOK, UsageType
<1>2. \A t \in Turns : turn[t].state = "none" /\ turn[t].bill = "none"
  BY DEF Init, NoTurn
<1>3. Journal
  BY <1>2 DEF Journal, Row
<1>4. Places /\ Leases
  BY DEF Init, Idle, Places, Place, Apart, Leases, Lease, Differ, At, Alone, Sending, Counted
<1>5. \A bill \in {"held", "charged"} : Billed(bill) = {}
  BY <1>2 DEF Billed
<1>6. Books
  <2>1. /\ Cardinality(Billed("held")) = 0 /\ Cardinality(Billed("charged")) = 0
        /\ Billed("held") = {}
    BY <1>5, FS_EmptySet
  <2>2. usage.reserved = 0 /\ usage.charged = 0 /\ usage.tokensReserved = 0
    BY DEF Init
  <2>3. ReserveTokens * 0 = 0
    BY HostedAssumption
  <2> QED  BY <2>1, <2>2, <2>3 DEF Books, EveryCallCounted, UnknownNeedsOperator
<1> QED  BY <1>1, <1>3, <1>4, <1>6 DEF Inductive

(* A quiet step touches no counter and no turn that is over. *)
LEMMA QuietLimits ==
    ASSUME Inductive, Quiet, \/ UNCHANGED acts \/ \E f \in requests : Act(f)
    PROVE  Inductive' /\ Limited /\ Final
<1>1. Limited
  BY DEF Quiet, Limited, Inductive, TypeOK, UsageType
<1>2. ASSUME NEW t \in Turns, turn[t].state \in Closed
      PROVE  turn'[t].state = turn[t].state /\ acts'[t] = acts[t]
  <2>1. acts'[t] = acts[t]
    BY <1>2 DEF Act, Fenced, Closed, Inductive, TypeOK
  <2> QED  BY <1>2, <2>1, StaysFinal DEF Quiet
<1> QED  BY <1>1, <1>2, QuietStep DEF Final

LEMMA Preserved ==
    ASSUME Inductive, Next
    PROVE  Inductive' /\ Limited /\ Final
<1>1. ASSUME NEW w \in Workers,
             \/ NotYet(w) \/ Fail(w) \/ WatchLoses(w) \/ Dies(w) \/ StageRaises(w) \/ StageLost(w)
             \/ Provisioned(w) \/ ApiFails(w) \/ AdoptRaises(w) \/ CreateRaises(w) \/ ReserveRaises(w)
             \/ CallBreaks(w) \/ PersistRaises(w) \/ SubmitRaises(w) \/ Returns(w) \/ TryAgain(w)
      PROVE  Inductive' /\ Limited /\ Final
  <2>1. UNCHANGED acts
    BY <1>1 DEF NotYet, Fail, WatchLoses, Dies, StageRaises, StageLost, Provisioned, ApiFails,
         AdoptRaises, CreateRaises, ReserveRaises, CallBreaks, PersistRaises, SubmitRaises, Returns,
         TryAgain, Raises
  <2> QED  BY <1>1, <2>1, GivesUp, QuietLimits
<1>2. ASSUME NEW w \in Workers,
             StageAmbiguous(w) \/ AdoptBlocks(w) \/ Mark(w) \/ Unknown(w) \/ Abandon(w)
      PROVE  Inductive' /\ Limited /\ Final
  <2>1. UNCHANGED acts
    BY <1>2 DEF StageAmbiguous, AdoptBlocks, Mark, Unknown, Abandon
  <2> QED  BY <1>2, <2>1, ClosesTurns, QuietLimits
<1>3. ASSUME NEW w \in Workers, Persist(w) \/ Submit(w)
      PROVE  Inductive' /\ Limited /\ Final
  <2>1. UNCHANGED acts
    BY <1>3 DEF Persist, Submit
  <2> QED  BY <1>3, <2>1, GoesOnQuiet, QuietLimits
<1>6. ASSUME NEW w \in Workers, ReadLimit(w) PROVE Inductive' /\ Limited /\ Final
  <2>1. UNCHANGED acts
    BY <1>6 DEF ReadLimit
  <2> QED  BY <1>6, <2>1, ReadsQuiet, QuietLimits
<1>4. CASE \/ Serves \/ \E f \in requests : ActFails(f)
           \/ OrphanLapses \/ Lapses \/ Stop \/ Start
           \/ \E cap \in Caps, provider \in BOOLEAN : Patch(cap, provider)
  <2>1. UNCHANGED acts \/ \E f \in requests : Act(f)
    BY <1>4 DEF Serves, Refuse, ActFails, OrphanLapses, Lapses, Stop, Start, Patch
  <2> QED  BY <1>4, <2>1, OthersQuiet, QuietLimits DEF Serves
<1>5. \A w \in Workers : Works(w) => Inductive' /\ Limited /\ Final
  BY <1>1, <1>2, <1>3, <1>6, BeginStageStep, AdoptStep, CreateStep, ReserveStep, AnswerStep DEF Works
<1> QED  BY <1>1, <1>2, <1>4, <1>5, ClaimStep, AnswerStep DEF Next

LEMMA Invariance == Spec => []Inductive
<1>1. Inductive /\ UNCHANGED vars => Inductive'
  <2>1. SUFFICES ASSUME Inductive, UNCHANGED vars PROVE Quiet
    BY QuietStep
  <2> QED  BY Untouched, <2>1 DEF Inductive, TypeOK, Quiet, Calm, vars, rows
<1> QED  BY <1>1, Initially, Preserved, PTL DEF Spec

(* Every row and every task has its type, whatever the limits and the troubles. *)
THEOREM AgentTyping == Spec => []TypeOK
<1>1. Inductive => TypeOK
  BY DEF Inductive
<1> QED  BY <1>1, Invariance, PTL

(* The day's counters hold each call once, although settle_daily_budget asks for no lease and
   clamps at zero. *)
THEOREM CallsCounted == Spec => []EveryCallCounted
<1>1. Inductive => EveryCallCounted
  BY DEF Inductive, Books
<1> QED  BY <1>1, Invariance, PTL

(* A call whose outcome nobody knows is followed by no other until the operator acts
   (begin_provider_stage_call, adopt_recoverable_turn). *)
THEOREM UnknownStopsAgent == Spec => []UnknownNeedsOperator
<1>1. Inductive => UnknownNeedsOperator
  BY DEF Inductive, Books
<1> QED  BY <1>1, Invariance, PTL

(* No step takes the day past its limits, whatever they were set to meanwhile, but a
   settlement, and that not past the limit it read when it began: the operator may have
   lowered it since (reserve_turn_provider_budget, settle_daily_budget). *)
THEOREM LimitsKept == Spec => WithinLimits
<1>1. Inductive /\ [Next]_vars => [Limited]_vars
  BY Preserved
<1> QED  BY <1>1, Invariance, PTL DEF Spec, WithinLimits, Limited

(* A turn that is over is never performed (again) (_lock_hosted_action_fence,
   adopt_recoverable_turn). *)
THEOREM OverIsOver == Spec => ClosedStaysClosed
<1> DEFINE Over == \A t \in Turns : turn[t].state \in Closed
                      => /\ turn'[t].state \in Closed /\ acts'[t] = acts[t]
                         /\ turn'[t].state = "completed" => turn[t].state = "completed"
<1>1. Inductive /\ [Next]_vars => [Over]_vars
  BY Preserved DEF Final
<1> QED  BY <1>1, Invariance, PTL DEF Spec, ClosedStaysClosed

=============================================================================
