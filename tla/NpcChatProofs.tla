---------------------------- MODULE NpcChatProofs ----------------------------
(* What NpcChat guarantees in any company, of any number of people, sockets, requests,
   second starts, lapses and deaths: nobody's lock is taken from under a talk, and the
   agent's turn is paid for once.  HolderKeepsLock is nearly inductive: whoever gives a
   lock back compares the owner, and whoever takes one finds it free or its own, so a step
   of one party leaves the others' locks alone (the Bystanders lemmas).  What is missing is
   the reaper, which gives back the lock of a token that is not its own: Begun says that
   this token has lost the receipt and never gets it again. *)
EXTENDS NpcChat, TLAPS

-----------------------------------------------------------------------------
(* The shape of the records that a step writes *)

(* The company is one of Casts. *)
LEMMA CastType ==
    ASSUME TypeOK
    PROVE  /\ cast.user \in [Conns -> Users] /\ cast.conns \subseteq Conns
           /\ cast.requests \subseteq Requests /\ cast.skip \in BOOLEAN
           /\ cast.starts \in Nat /\ cast.lapses \in Nat /\ cast.deaths \in Nat
  BY CastAssumption DEF TypeOK

(* A socket that goes on to another step keeps the rest of its record. *)
LEMMA MovesType ==
    ASSUME TypeOK, NEW c \in Conns, Moves(c, "idle") \/ Moves(c, "opening") \/ Moves(c, "unlocking")
               \/ Moves(c, "forgetting") \/ Moves(c, "resetting") \/ Moves(c, "leaving")
    PROVE  conn' \in [Conns -> ConnType]
  BY DEF TypeOK, Moves, ConnType

(* ... or starts afresh. *)
LEMMA FreshType ==
    ASSUME TypeOK, NEW c \in Conns, conn' = [conn EXCEPT ![c] = Fresh(conn[c].starts)]
    PROVE  conn' \in [Conns -> ConnType]
  BY DEF TypeOK, Fresh, ConnType

(* A request that goes on. *)
LEMMA GoesType ==
    ASSUME TypeOK, NEW r \in Requests, NEW own \in BOOLEAN,
           NEW pc \in {"calling", "failing", "renewing", "finalizing", "unlocking", "done"},
           Goes(r, pc, own)
    PROVE  req' \in [Requests -> ReqType]
  BY DEF TypeOK, Goes, ReqType

(* What EXCEPT makes of a receipt. *)
LEMMA TurnParts ==
    ASSUME NEW t \in TurnType
    PROVE  /\ t.status \in {"none", "pending", "completed", "failed"}
           /\ t.token \in Requests \cup {Nobody}
           /\ [t EXCEPT !.live = FALSE] \in TurnType
           /\ [t EXCEPT !.token = Nobody] \in TurnType
           /\ [t EXCEPT !.token = Nobody, !.live = FALSE] \in TurnType
           /\ [t EXCEPT !.live = FALSE].status = t.status
           /\ [t EXCEPT !.live = FALSE].token = t.token
           /\ [t EXCEPT !.live = FALSE].live = FALSE
           /\ [t EXCEPT !.token = Nobody].status = t.status
           /\ [t EXCEPT !.token = Nobody].token = Nobody
           /\ [t EXCEPT !.token = Nobody, !.live = FALSE].status = t.status
           /\ [t EXCEPT !.token = Nobody, !.live = FALSE].token = Nobody
  BY DEF TurnType

-----------------------------------------------------------------------------
(* Types *)

(* What the socket's actions may write. *)
LEMMA SocketTypes ==
    ASSUME TypeOK, conn' \in [Conns -> ConnType], UNCHANGED <<cast, agent, loop, reaper, lapses>>,
           status' \in {status, "idle", "chatting"}, lock' \in {lock, Nobody} \cup Users,
           lapsed' \subseteq lapsed \cup Conns, deaths' \in 0 .. cast.deaths
    PROVE  TypeOK'
  BY DEF TypeOK, ConnType, TurnType, ReqType, agent

(* A step of a socket keeps the types. *)
LEMMA SocketTyping ==
    ASSUME TypeOK, NEW c \in Conns,
           StartReads(c) \/ StartLocks(c) \/ StartCommits(c) \/ StartRefused(c)
        \/ EndCommits(c) \/ EndUnlocks(c) \/ EndForgets(c)
        \/ Drop(c) \/ CleanupResets(c) \/ Leave(c) \/ WorkerDies(c)
    PROVE  TypeOK'
<1> deaths \in 0 .. cast.deaths /\ User(c) \in Users /\ lapsed \subseteq lapsed \cup Conns
  BY CastType DEF TypeOK, User
<1> USE DEF HumanOnly, counts, Unlock
<1>1. CASE StartReads(c)
  <2>1. conn' \in [Conns -> ConnType]
    BY <1>1, CastType DEF TypeOK, StartReads, ConnType
  <2> QED  BY <1>1, <2>1, SocketTypes DEF StartReads
<1>2. CASE StartLocks(c)
  BY <1>2, MovesType, SocketTypes DEF StartLocks
<1>3. CASE StartCommits(c)
  <2>1. conn' \in [Conns -> ConnType]
    BY <1>3 DEF TypeOK, StartCommits, Fresh, ConnType
  <2> QED  BY <1>3, <2>1, SocketTypes DEF StartCommits
<1>4. CASE StartRefused(c)
  BY <1>4, MovesType, SocketTypes DEF StartRefused
<1>5. CASE EndCommits(c)
  BY <1>5, MovesType, SocketTypes DEF EndCommits
<1>6. CASE EndUnlocks(c)
  BY <1>6, MovesType, SocketTypes DEF EndUnlocks
<1>7. CASE EndForgets(c)
  BY <1>7, FreshType, SocketTypes DEF EndForgets
<1>8. CASE Drop(c)
  BY <1>8, MovesType, SocketTypes DEF Drop
<1>9. CASE CleanupResets(c)
  BY <1>9, MovesType, SocketTypes DEF CleanupResets
<1>10. CASE Leave(c)
  BY <1>10, FreshType, SocketTypes DEF Leave
<1>11. CASE WorkerDies(c)
  <2>1. deaths' \in 0 .. cast.deaths
    BY <1>11, CastType DEF WorkerDies
  <2> QED  BY <1>11, <2>1, FreshType, SocketTypes DEF WorkerDies
<1> QED  BY <1>1, <1>2, <1>3, <1>4, <1>5, <1>6, <1>7, <1>8, <1>9, <1>10, <1>11

(* What the request's actions may write. *)
LEMMA RequestTypes ==
    ASSUME TypeOK, req' \in [Requests -> ReqType], turn' \in TurnType,
           UNCHANGED <<cast, conn, loop, reaper, lapses>>,
           status' \in {status, "idle", "chatting"}, lock' \in {lock, Nobody} \cup Requests,
           lapsed' \subseteq lapsed, charged' \in Nat, deaths' \in 0 .. cast.deaths
    PROVE  TypeOK'
  BY DEF TypeOK, ConnType, TurnType, ReqType

(* A step of a request keeps the types. *)
LEMMA RequestTyping ==
    ASSUME TypeOK, NEW r \in Requests, RequestStep(r)
    PROVE  TypeOK'
<1> /\ deaths \in 0 .. cast.deaths /\ charged \in Nat /\ turn \in TurnType
    /\ \A o \in Requests : Lockable(o) \in BOOLEAN /\ req[o].own \in BOOLEAN
  BY DEF TypeOK, Lockable, ReqType
<1> USE DEF AgentOnly, counts, Unlock, Relock
<1>1. CASE Begin(r)
  BY <1>1, GoesType, RequestTypes DEF Begin, TurnType
<1>2. CASE BeginDies(r)
  <2>1. deaths' \in 0 .. cast.deaths
    BY <1>2, CastType DEF BeginDies
  <2> QED  BY <1>2, <2>1, GoesType, RequestTypes DEF BeginDies
<1>3. CASE BeginRefused(r)
  BY <1>3, GoesType, RequestTypes DEF BeginRefused
<1>4. CASE Answer(r)
  BY <1>4, GoesType, RequestTypes DEF Answer
<1>5. CASE Fails(r)
  BY <1>5, GoesType, TurnParts, RequestTypes DEF Fails
<1>6. CASE FailsLate(r)
  BY <1>6, GoesType, RequestTypes DEF FailsLate
<1>7. CASE Renew(r)
  BY <1>7, GoesType, RequestTypes DEF Renew
<1>8. CASE Finalize(r)
  <2>1. turn' \in TurnType
    <3>1. CASE Ends("completed")
      BY <3>1 DEF Ends, TurnType
    <3>2. CASE Ends("failed")
      BY <3>2 DEF Ends, TurnType
    <3> QED  BY <1>8, <3>1, <3>2 DEF Finalize
  <2>2. charged' \in Nat
    BY <1>8 DEF Finalize
  <2> QED  BY <1>8, <2>1, <2>2, GoesType, RequestTypes DEF Finalize
<1>9. CASE FinalizeLost(r)
  BY <1>9, GoesType, TurnParts, RequestTypes DEF FinalizeLost
<1>10. CASE FinalizeReplays(r)
  BY <1>10, GoesType, RequestTypes DEF FinalizeReplays
<1>11. CASE Release(r)
  BY <1>11, GoesType, RequestTypes DEF Release
<1>12. CASE RequestDies(r)
  <2>1. deaths' \in 0 .. cast.deaths
    BY <1>12, CastType DEF RequestDies
  <2> QED  BY <1>12, <2>1, GoesType, RequestTypes DEF RequestDies
<1> QED  BY <1>1, <1>2, <1>3, <1>4, <1>5, <1>6, <1>7, <1>8, <1>9, <1>10, <1>11, <1>12 DEF RequestStep

(* What the reaper, the loop, the sweep and time may write. *)
LEMMA BackgroundTypes ==
    ASSUME TypeOK, turn' \in TurnType, UNCHANGED <<cast, conn, req, charged>>,
           status' \in {status, "idle", "sleeping", "socializing"},
           lock' \in {lock, Nobody} \cup Requests, reaper' \in Requests \cup {Nobody},
           loop' \in {"off", "probing", "healing", "ticking", "social"},
           lapsed' \subseteq Conns \cup Requests,
           lapses' \in 0 .. cast.lapses, deaths' \in 0 .. cast.deaths
    PROVE  TypeOK'
  BY DEF TypeOK, ConnType, TurnType, ReqType

Background == ReaperNext \/ LoopNext \/ Recover \/ LockLapses \/ OrphanLapses \/ LeaseLapses

(* A step of theirs keeps the types. *)
LEMMA BackgroundTyping ==
    ASSUME TypeOK, Background
    PROVE  TypeOK'
<1> /\ turn \in TurnType /\ reaper \in Requests \cup {Nobody} /\ lapsed \subseteq Conns \cup Requests
    /\ loop \in {"off", "probing", "healing", "ticking", "social"}
    /\ lapses \in 0 .. cast.lapses /\ deaths \in 0 .. cast.deaths
  BY DEF TypeOK
<1> USE DEF Others
<1>1. CASE Reap
  <2>1. turn.token \in Requests /\ turn' \in TurnType
    BY <1>1, TurnParts DEF Reap
  <2> QED  BY <1>1, <2>1, BackgroundTypes DEF Reap, Relock
<1>2. CASE ReaperReleases
  BY <1>2, BackgroundTypes DEF ReaperReleases, Unlock
<1>3. CASE LoopNext
  <2>1. CASE SocialDies
    <3>1. deaths' \in 0 .. cast.deaths
      BY <2>1, CastType DEF SocialDies
    <3> QED  BY <2>1, <3>1, BackgroundTypes DEF SocialDies, agent
  <2>2. CASE ~SocialDies
    BY <1>3, <2>2, BackgroundTypes DEF LoopNext, Look, Probe, Heal, Tick, Wake, SocialEnds
  <2> QED  BY <2>1, <2>2
<1>4. CASE Recover
  BY <1>4, BackgroundTypes DEF Recover
<1>5. CASE LockLapses
  <2>1. lapses' \in 0 .. cast.lapses /\ lapsed' \subseteq Conns \cup Requests
    BY <1>5, CastType DEF LockLapses
  <2> QED  BY <1>5, <2>1, BackgroundTypes DEF LockLapses
<1>6. CASE OrphanLapses
  BY <1>6, BackgroundTypes DEF OrphanLapses
<1>7. CASE LeaseLapses
  <2>1. turn' \in TurnType
    BY <1>7, TurnParts DEF LeaseLapses
  <2>2. lapses' = lapses \/ (lapses < cast.lapses /\ lapses' = lapses + 1)
    BY <1>7 DEF LeaseLapses
  <2>3. lapses' \in 0 .. cast.lapses
    BY <2>2, CastType
  <2> QED  BY <1>7, <2>1, <2>3, BackgroundTypes DEF LeaseLapses
<1> QED  BY <1>1, <1>2, <1>3, <1>4, <1>5, <1>6, <1>7 DEF Background, ReaperNext

(* A company at rest is well typed. *)
LEMMA InitTyping == Init => TypeOK
<1> SUFFICES ASSUME Init PROVE TypeOK
  OBVIOUS
<1>1. cast.starts \in Nat /\ cast.lapses \in Nat /\ cast.deaths \in Nat
  BY CastAssumption DEF Init
<1>2. conn \in [Conns -> ConnType] /\ turn \in TurnType /\ req \in [Requests -> ReqType]
  BY <1>1 DEF Init, Fresh, NoTurn, ConnType, TurnType, ReqType
<1> QED  BY <1>1, <1>2 DEF Init, TypeOK

(* Every step keeps the types. *)
LEMMA StepTyping == TypeOK /\ [Next]_vars => TypeOK'
<1> SUFFICES ASSUME TypeOK, [Next]_vars PROVE TypeOK'
  OBVIOUS
<1>1. CASE HumanNext
  BY <1>1, SocketTyping DEF HumanNext
<1>2. CASE \E r \in Requests : RequestStep(r)
  BY <1>2, RequestTyping
<1>3. CASE Background
  BY <1>3, BackgroundTyping
<1>4. CASE UNCHANGED vars
  BY <1>4 DEF vars, agent, counts, TypeOK, ConnType, TurnType, ReqType
<1> QED  BY <1>1, <1>2, <1>3, <1>4 DEF Next, Background

(* The rows, the lock, the receipt and every socket and request keep the values the code
   gives them, in any company. *)
THEOREM ChatTyping == Spec => []TypeOK
  BY InitTyping, StepTyping, PTL DEF Spec

-----------------------------------------------------------------------------
(* The charge and the lock *)

\* A request that owns the receipt, or did until the reaper took it, has begun, and the
\* reaper holds only a token that the receipt has lost
Begun == \A r \in Requests : /\ turn.token = r => req[r].pc # "new"
                             /\ reaper = r => req[r].pc # "new" /\ turn.token # r

SocketKeeps(c) == Talks(c) /\ c \notin lapsed => lock = User(c)
RequestKeeps(r) == Works(r) /\ turn.token = r /\ turn.live /\ r \notin lapsed => lock = r

Inductive == TypeOK /\ Begun /\ TurnChargedOnce /\ HolderKeepsLock

(* HolderKeepsLock, party by party. *)
LEMMA Keeping ==
    HolderKeepsLock <=> (OneSocketEach => /\ \A c \in Conns : SocketKeeps(c)
                                          /\ \A r \in Requests : RequestKeeps(r))
  BY DEF HolderKeepsLock, SocketKeeps, RequestKeeps

(* What one socket does leaves the talks of the others and the turns alone: it takes the
   lock only when that is free or its own, and gives back only its own. *)
LEMMA SocketBystanders ==
    ASSUME TypeOK, HolderKeepsLock, OneSocketEach, NEW c \in cast.conns,
           UNCHANGED <<cast, req, turn>>, lock' = lock \/ lock \in {Nobody, User(c)},
           lapsed' \in {lapsed, lapsed \cup {c}, lapsed \ {c}},
           \A d \in Conns \ {c} : conn'[d] = conn[d]
    PROVE  /\ \A d \in Conns \ {c} : SocketKeeps(d)'
           /\ \A r \in Requests : RequestKeeps(r)'
<1> c \in Conns /\ User(c) \in Users
  BY CastType DEF User
<1>1. ASSUME NEW d \in Conns \ {c} PROVE SocketKeeps(d)'
  <2>1. SocketKeeps(d) /\ (d \in lapsed' <=> d \in lapsed) /\ (Talks(d)' <=> Talks(d)) /\ User(d)' = User(d)
    BY Keeping DEF Talks, User
  <2>2. d \in cast.conns => User(d) \in Users /\ User(d) # User(c)
    BY CastType DEF OneSocketEach, User
  <2> QED  BY <2>1, <2>2, NameAssumption DEF SocketKeeps, Talks
<1>2. ASSUME NEW r \in Requests PROVE RequestKeeps(r)'
  <2>1. RequestKeeps(r) /\ (r \in lapsed' <=> r \in lapsed) /\ (Works(r)' <=> Works(r))
    BY Keeping, NameAssumption DEF Works
  <2> QED  BY <2>1, NameAssumption DEF RequestKeeps
<1> QED  BY <1>1, <1>2

(* A step of a socket keeps its own lock while it talks, and the others'. *)
LEMMA SocketKeeping ==
    ASSUME Inductive, NEW c \in Conns,
           StartReads(c) \/ StartLocks(c) \/ StartCommits(c) \/ StartRefused(c)
        \/ EndCommits(c) \/ EndUnlocks(c) \/ EndForgets(c)
        \/ Drop(c) \/ CleanupResets(c) \/ Leave(c) \/ WorkerDies(c)
    PROVE  HolderKeepsLock'
<1> DEFINE Acts == \/ StartReads(c) \/ StartLocks(c) \/ StartCommits(c) \/ StartRefused(c)
                   \/ EndCommits(c) \/ EndUnlocks(c) \/ EndForgets(c)
                   \/ Drop(c) \/ CleanupResets(c) \/ Leave(c) \/ WorkerDies(c)
<1>0. /\ UNCHANGED <<cast, req, turn>> /\ c \in cast.conns
      /\ lock' = lock \/ lock \in {Nobody, User(c)}
      /\ lapsed' \in {lapsed, lapsed \cup {c}, lapsed \ {c}}
      /\ \A d \in Conns \ {c} : conn'[d] = conn[d]
  BY DEF Inductive, TypeOK, StartReads, StartLocks, StartCommits, StartRefused, EndCommits, EndUnlocks, EndForgets,
         Drop, CleanupResets, Leave, WorkerDies, In, Moves, HumanOnly, agent, counts, Unlock, Lockable
<1> SUFFICES ASSUME OneSocketEach' PROVE (\A d \in Conns : SocketKeeps(d)') /\ \A r \in Requests : RequestKeeps(r)'
  BY Keeping DEF HolderKeepsLock, SocketKeeps, RequestKeeps
<1>1. OneSocketEach /\ TypeOK /\ HolderKeepsLock /\ SocketKeeps(c) /\ conn \in [Conns -> ConnType]
  BY <1>0, Keeping DEF Inductive, OneSocketEach, User, TypeOK
<1>2. SocketKeeps(c)'
  <2>1. User(c)' = User(c) /\ (Talks(c)' <=> c \in cast.conns /\ (conn'[c].pc = "opening" \/ (conn'[c].talking /\ conn'[c].pc \in {"idle", "locking"})))
    BY <1>0 DEF User, Talks
  <2> USE <1>0, <1>1, <2>1 DEF SocketKeeps, In, Moves, HumanOnly, Talks
  <2>2. CASE StartReads(c)
    BY <2>2 DEF StartReads, ConnType
  <2>3. CASE StartLocks(c)
    BY <2>3 DEF StartLocks, ConnType
  <2>4. CASE StartCommits(c)
    BY <2>4 DEF StartCommits, ConnType
  <2>5. CASE StartRefused(c)
    BY <2>5 DEF StartRefused, ConnType
  <2>6. CASE EndCommits(c) \/ EndUnlocks(c) \/ CleanupResets(c)
    BY <2>6 DEF EndCommits, EndUnlocks, CleanupResets, ConnType
  <2>7. CASE EndForgets(c) \/ Leave(c) \/ WorkerDies(c)
    BY <2>7 DEF EndForgets, Leave, WorkerDies, Fresh
  <2>8. CASE Drop(c)
    BY <2>8 DEF Drop, ConnType
  <2> QED  BY <2>2, <2>3, <2>4, <2>5, <2>6, <2>7, <2>8
<1> QED  BY <1>0, <1>1, <1>2, SocketBystanders

(* What one request does leaves the talks and the other requests alone. *)
LEMMA RequestBystanders ==
    ASSUME TypeOK, HolderKeepsLock, OneSocketEach, NEW r \in Requests,
           UNCHANGED <<cast, conn>>, lock' = lock \/ lock \in {Nobody, r},
           turn' = turn \/ turn'.token \in {r, Nobody}, lapsed' \in {lapsed, lapsed \ {r}},
           \A o \in Requests \ {r} : req'[o] = req[o]
    PROVE  /\ \A c \in Conns : SocketKeeps(c)'
           /\ \A o \in Requests \ {r} : RequestKeeps(o)'
<1>1. ASSUME NEW c \in Conns PROVE SocketKeeps(c)'
  <2>1. SocketKeeps(c) /\ (c \in lapsed' <=> c \in lapsed) /\ (Talks(c)' <=> Talks(c)) /\ User(c)' = User(c)
    BY Keeping, NameAssumption DEF Talks, User
  <2>2. User(c) \in Users
    BY CastType DEF User
  <2> QED  BY <2>1, <2>2, NameAssumption DEF SocketKeeps
<1>2. ASSUME NEW o \in Requests \ {r} PROVE RequestKeeps(o)'
  <2>1. RequestKeeps(o) /\ (o \in lapsed' <=> o \in lapsed) /\ (Works(o)' <=> Works(o))
    BY Keeping DEF Works
  <2> QED  BY <2>1, NameAssumption DEF RequestKeeps
<1> QED  BY <1>1, <1>2

(* A request never begins again. *)
LEMMA RequestMoves ==
    ASSUME TypeOK, NEW r \in Requests, RequestStep(r)
    PROVE  /\ UNCHANGED <<cast, conn, reaper>> /\ (lock' = lock \/ lock \in {Nobody, r})
           /\ turn' = turn \/ turn'.token \in {r, Nobody}
           /\ lapsed' \in {lapsed, lapsed \ {r}}
           /\ req' \in [Requests -> ReqType] /\ req'[r].pc # "new"
           /\ \A o \in Requests \ {r} : req'[o] = req[o]
<1>1. turn \in TurnType /\ req \in [Requests -> ReqType] /\ req' \in [Requests -> ReqType]
  BY RequestTyping DEF TypeOK
<1>2. turn' = turn \/ turn'.token \in {r, Nobody}
  <2>1. CASE Begin(r)
    BY <2>1 DEF Begin
  <2>2. CASE Finalize(r)
    BY <2>2 DEF Finalize, Ends
  <2>3. CASE Fails(r) \/ FinalizeLost(r)
    BY <1>1, <2>3, TurnParts DEF Fails, FinalizeLost
  <2> QED  BY <2>1, <2>2, <2>3 DEF RequestStep, BeginDies, BeginRefused, Answer, FailsLate, Renew,
         FinalizeReplays, Release, RequestDies
<1>3. \E pc \in {"calling", "failing", "renewing", "finalizing", "unlocking", "done"}, own \in BOOLEAN : Goes(r, pc, own)
  <2>1. Lockable(r) \in BOOLEAN
    BY DEF Lockable
  <2> QED  BY <2>1 DEF RequestStep, Begin, BeginDies, BeginRefused, Answer, Fails, FailsLate, Renew,
         Finalize, FinalizeLost, FinalizeReplays, Release, RequestDies
<1>4. req'[r].pc # "new" /\ \A o \in Requests \ {r} : req'[o] = req[o]
  BY <1>1, <1>3 DEF Goes
<1> QED  BY <1>1, <1>2, <1>4 DEF RequestStep, Begin, BeginDies, BeginRefused, Answer, Fails, FailsLate, Renew,
         Finalize, FinalizeLost, FinalizeReplays, Release, RequestDies, AgentOnly, counts, Unlock, Relock, Lockable

(* A step of a request keeps its own lock while it owns the receipt, and the others'. *)
LEMMA RequestKeeping ==
    ASSUME Inductive, NEW r \in Requests, RequestStep(r)
    PROVE  HolderKeepsLock'
<1> SUFFICES ASSUME OneSocketEach' PROVE (\A c \in Conns : SocketKeeps(c)') /\ \A o \in Requests : RequestKeeps(o)'
  BY Keeping DEF HolderKeepsLock, SocketKeeps, RequestKeeps
<1>1. TypeOK /\ HolderKeepsLock
  BY DEF Inductive
<1>2. /\ UNCHANGED <<cast, conn>> /\ (lock' = lock \/ lock \in {Nobody, r})
      /\ turn' = turn \/ turn'.token \in {r, Nobody}
      /\ lapsed' \in {lapsed, lapsed \ {r}}
      /\ \A o \in Requests \ {r} : req'[o] = req[o]
  BY <1>1, RequestMoves
<1>3. TypeOK /\ RequestKeeps(r) /\ OneSocketEach /\ HolderKeepsLock
  BY <1>1, <1>2, Keeping DEF OneSocketEach, User
<1>4. RequestKeeps(r)'
  <2>1. UNCHANGED cast /\ req \in [Requests -> ReqType] /\ turn \in TurnType
    BY <1>3, <1>2 DEF TypeOK
  <2>2. Works(r)' => req'[r].pc \in {"calling", "renewing", "finalizing"} /\ r \in cast.requests
    BY <2>1 DEF Works
  <2> USE <1>3, <2>1, <2>2 DEF RequestKeeps, At, Goes
  <2>3. CASE Begin(r)
    BY <2>3 DEF Begin
  <2>4. CASE Answer(r)
    BY <2>4 DEF Answer, Works
  <2>5. CASE Renew(r)
    BY <2>5 DEF Renew, Works, Relock, Lockable
  <2>6. CASE Fails(r) \/ Finalize(r) \/ FinalizeLost(r)
    BY <2>6 DEF Fails, Finalize, FinalizeLost, ReqType
  <2>7. CASE BeginDies(r) \/ BeginRefused(r) \/ FailsLate(r) \/ FinalizeReplays(r) \/ Release(r) \/ RequestDies(r)
    BY <2>7 DEF BeginDies, BeginRefused, FailsLate, FinalizeReplays, Release, RequestDies, ReqType
  <2> QED  BY <2>3, <2>4, <2>5, <2>6, <2>7 DEF RequestStep
<1> QED  BY <1>3, <1>4, <1>2, RequestBystanders

(* What runs by itself takes no lock from under a talk: the reaper's token has lost the
   receipt, and a talk whose lock lapses is noted. *)
LEMMA BackgroundKeeping ==
    ASSUME Inductive, Background
    PROVE  HolderKeepsLock'
<1> SUFFICES ASSUME OneSocketEach' PROVE (\A c \in Conns : SocketKeeps(c)') /\ \A r \in Requests : RequestKeeps(r)'
  BY Keeping DEF HolderKeepsLock, SocketKeeps, RequestKeeps
<1>1. UNCHANGED <<cast, conn, req>>
  BY DEF Background, ReaperNext, LoopNext, Reap, ReaperReleases, Look, Probe, Heal, Tick, Wake, SocialEnds, SocialDies,
         Recover, LockLapses, OrphanLapses, LeaseLapses, Others, agent
<1>2. /\ TypeOK /\ turn \in TurnType /\ Begun
      /\ (\A c \in Conns : SocketKeeps(c)) /\ \A r \in Requests : RequestKeeps(r)
  BY <1>1, Keeping DEF Inductive, TypeOK, OneSocketEach, User
<1>3. ASSUME NEW c \in Conns
      PROVE  User(c) \in Users /\ User(c)' = User(c) /\ (Talks(c)' <=> Talks(c))
  BY <1>1, <1>2, CastType DEF User, Talks
<1>4. ASSUME NEW r \in Requests PROVE Works(r)' <=> Works(r)
  BY <1>1 DEF Works
<1>5. CASE UNCHANGED <<lock, lapsed>> /\ (turn' = turn \/ turn'.token = Nobody \/ ~turn'.live)
  BY <1>2, <1>3, <1>4, <1>5, NameAssumption DEF SocketKeeps, RequestKeeps
<1>6. CASE Reap
  <2>1. turn.token \in Requests /\ ~turn.live /\ turn'.token = Nobody
    BY <1>2, <1>6, TurnParts DEF Reap
  <2> QED  BY <1>2, <1>3, <1>6, <2>1, NameAssumption DEF Reap, Relock, Lockable, Others, SocketKeeps, RequestKeeps
<1>7. CASE ReaperReleases
  <2>1. reaper \in Requests /\ turn.token # reaper
    BY <1>2, <1>7 DEF ReaperReleases, Begun, TypeOK
  <2> QED  BY <1>2, <1>3, <1>4, <1>7, <2>1, NameAssumption DEF ReaperReleases, Unlock, Others, SocketKeeps, RequestKeeps
<1>8. CASE LockLapses
  BY <1>2, <1>3, <1>4, <1>8 DEF LockLapses, Others, SocketKeeps, RequestKeeps
<1>9. CASE OrphanLapses
  BY <1>2, <1>3, <1>4, <1>9 DEF OrphanLapses, Others, SocketKeeps, RequestKeeps
<1>10. CASE LeaseLapses
  BY <1>2, <1>5, <1>10, TurnParts DEF LeaseLapses
<1>11. CASE LoopNext \/ Recover
  BY <1>5, <1>11 DEF LoopNext, Recover, Look, Probe, Heal, Tick, Wake, SocialEnds, SocialDies, Others, agent
<1> QED  BY <1>6, <1>7, <1>8, <1>9, <1>10, <1>11 DEF Background, ReaperNext

(* Only Begin gives a token the receipt, and only Finalize charges; no token begins twice. *)
LEMMA Beginning ==
    ASSUME Inductive, [Next]_vars
    PROVE  Begun' /\ TurnChargedOnce'
<1>1. TypeOK /\ Begun /\ TurnChargedOnce /\ turn \in TurnType /\ charged \in Nat
  BY DEF Inductive, TypeOK
<1>2. CASE HumanNext
  <2>1. UNCHANGED <<turn, req, reaper, charged>>
    BY <1>2 DEF HumanNext, StartReads, StartLocks, StartCommits, StartRefused, EndCommits, EndUnlocks, EndForgets,
         Drop, CleanupResets, Leave, WorkerDies, HumanOnly, agent
  <2> QED  BY <1>1, <2>1 DEF Begun, TurnChargedOnce
<1>3. ASSUME NEW r \in Requests, RequestStep(r) PROVE Begun' /\ TurnChargedOnce'
  <2>1. Begun'
    <3>1. ASSUME NEW o \in Requests, turn'.token = o, o # r PROVE turn' = turn
      BY <1>1, <1>3, <3>1, RequestMoves, NameAssumption
    <3>2. turn'.token = r => turn.token = r \/ Begin(r)
      <4>1. CASE Finalize(r)
        BY <4>1, NameAssumption DEF Finalize, Ends
      <4>2. CASE Fails(r) \/ FinalizeLost(r)
        BY <1>1, <4>2, TurnParts, NameAssumption DEF Fails, FinalizeLost
      <4> QED  BY <1>3, <4>1, <4>2 DEF RequestStep, BeginDies, BeginRefused, Answer, FailsLate, Renew,
         FinalizeReplays, Release, RequestDies
    <3>3. Begin(r) => reaper # r
      BY <1>1 DEF Begun, Begin, At
    <3>4. /\ reaper' = reaper /\ req'[r].pc # "new"
          /\ \A o \in Requests \ {r} : req'[o] = req[o]
      BY <1>1, <1>3, RequestMoves
    <3>5. reaper = r => turn'.token # r
      BY <1>1, <3>2, <3>3 DEF Begun
    <3> QED  BY <1>1, <3>1, <3>4, <3>5 DEF Begun
  <2>2. TurnChargedOnce'
    <3>1. CASE Finalize(r)
      BY <1>1, <3>1 DEF Finalize, Ends, TurnChargedOnce
    <3>2. CASE Begin(r)
      BY <1>1, <3>2 DEF Begin, Admits, Pending, TurnChargedOnce
    <3>3. CASE ~Finalize(r) /\ ~Begin(r)
      <4>1. charged' = charged /\ turn'.status = turn.status
        BY <1>1, <1>3, <3>3, TurnParts DEF RequestStep, BeginDies, BeginRefused, Answer, Fails, FailsLate, Renew,
         FinalizeLost, FinalizeReplays, Release, RequestDies
      <4> QED  BY <1>1, <4>1 DEF TurnChargedOnce
    <3> QED  BY <3>1, <3>2, <3>3
  <2> QED  BY <2>1, <2>2
<1>4. CASE Background
  <2>1. UNCHANGED <<req, charged>> /\ turn'.status = turn.status
    BY <1>1, <1>4, TurnParts DEF Background, ReaperNext, LoopNext, Reap, ReaperReleases, Look, Probe, Heal, Tick, Wake,
         SocialEnds, SocialDies, Recover, LockLapses, OrphanLapses, LeaseLapses, Others, agent
  <2>2. CASE Reap
    <3>1. turn'.token = Nobody /\ reaper' \in {turn.token, Nobody}
      BY <1>1, <2>2, TurnParts DEF Reap
    <3> QED  BY <1>1, <2>1, <3>1, NameAssumption DEF Begun, TurnChargedOnce
  <2>3. CASE ~Reap
    <3>1. turn'.token = turn.token /\ reaper' \in {reaper, Nobody}
      BY <1>1, <1>4, <2>3, TurnParts DEF Background, ReaperNext, LoopNext, ReaperReleases, Look, Probe, Heal, Tick, Wake,
         SocialEnds, SocialDies, Recover, LockLapses, OrphanLapses, LeaseLapses, Others, agent
    <3> QED  BY <1>1, <2>1, <3>1, NameAssumption DEF Begun, TurnChargedOnce
  <2> QED  BY <2>2, <2>3
<1>5. CASE UNCHANGED vars
  BY <1>1, <1>5 DEF vars, agent, Begun, TurnChargedOnce
<1> QED  BY <1>2, <1>3, <1>4, <1>5 DEF Next, Background

-----------------------------------------------------------------------------
(* At first nobody talks, owns or owes anything. *)
LEMMA Initially == Init => Inductive
<1> SUFFICES ASSUME Init PROVE Inductive
  OBVIOUS
<1>1. Begun /\ TurnChargedOnce
  BY NameAssumption DEF Init, NoTurn, Begun, TurnChargedOnce
<1>2. HolderKeepsLock
  BY DEF Init, Fresh, HolderKeepsLock, Talks, Works
<1> QED  BY <1>1, <1>2, InitTyping DEF Inductive

(* The three parts together are inductive. *)
LEMMA Preserved == Inductive /\ [Next]_vars => Inductive'
<1> SUFFICES ASSUME Inductive, [Next]_vars PROVE Inductive'
  OBVIOUS
<1>1. TypeOK'
  BY StepTyping DEF Inductive
<1>2. HolderKeepsLock'
  <2>1. CASE HumanNext
    BY <2>1, SocketKeeping DEF HumanNext
  <2>2. CASE \E r \in Requests : RequestStep(r)
    BY <2>2, RequestKeeping
  <2>3. CASE Background
    BY <2>3, BackgroundKeeping
  <2>4. CASE UNCHANGED vars
    BY <2>4 DEF vars, agent, Inductive, HolderKeepsLock, OneSocketEach, Talks, Works, User
  <2> QED  BY <2>1, <2>2, <2>3, <2>4 DEF Next, Background
<1> QED  BY <1>1, <1>2, Beginning DEF Inductive

(* No lock is taken from under a talk, in any company: of any number of people, requests for
   the turn, lapses and deaths, however the loop, the reaper and the sweep come by. *)
THEOREM LocksKept == Spec => []HolderKeepsLock
<1>1. Inductive => HolderKeepsLock
  BY DEF Inductive
<1> QED  BY <1>1, Initially, Preserved, PTL DEF Spec

(* The agent pays for a turn once, with its answer, however often the turn is sent, taken
   over or reaped. *)
THEOREM ChargedOnceEver == Spec => []TurnChargedOnce
<1>1. Inductive => TurnChargedOnce
  BY DEF Inductive
<1> QED  BY <1>1, Initially, Preserved, PTL DEF Spec
=============================================================================
