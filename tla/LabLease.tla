------------------------------ MODULE LabLease ------------------------------
(* The lease of one Lab run and the event ledger it fences (lab/leases.py,
   lab/ledger.py).  An attempt is one orchestrator executing the run.  It takes
   the lease, renews it, and appends events stamped with the fencing epoch it was
   given; another attempt takes a lapsed lease over and raises the epoch, and so
   does whoever cancels the run.

   Postgres statements are steps; what an attempt read, and the time it captured
   when the operation began, stay with it.  _emit appends with three statements
   (next_seq, assert_epoch, the insert) and nothing locked: every event of protocol 1,
   and under protocol 2 run.started, the approvals, budget.exhausted and run.failed.
   Protocol 2 holds the lease row locked around its other events. *)
EXTENDS Integers, FiniteSets

CONSTANTS Attempts, Owners,
          OwnerOf,     \* [Attempts -> Owners]: the owner_id an attempt presents
          Protocol,    \* lab run protocol_version
          TTL,         \* LEASE_TTL_S, in ticks
          MaxClock,    \* bound: the clock
          MaxEvents,   \* bound: ledger rows
          NoOwner,     \* no lab_run_leases row yet
          Supervisor   \* the writer of the supervisor's own event

ASSUME OwnerAssumption == OwnerOf \in [Attempts -> Owners] /\ NoOwner \notin Owners
ASSUME WriterAssumption == Supervisor \notin Attempts
ASSUME NumberAssumption == /\ Protocol \in {1, 2}
                           /\ TTL \in Nat \ {0} /\ MaxClock \in Nat /\ MaxEvents \in Nat

VARIABLES clock,
          lease,       \* the lab_run_leases row
          at,          \* what each attempt is doing, and what it read
          ledger,      \* lab_run_events: a set of rows
          sup,         \* the supervisor fencing the run and recording it
          cancelled,   \* lab_runs.status has left the active states
          wins         \* history: who was given which epoch by a create or takeover

vars == <<clock, lease, at, ledger, sup, cancelled, wins>>

Times == 0..(MaxClock + TTL)
Seqs == 0..MaxEvents
Local(pc, now, epoch, seq) == [pc |-> pc, now |-> now, epoch |-> epoch, seq |-> seq]
Idle == Local("idle", 0, 0, 0)
Over == Local("done", 0, 0, 0)
Acquiring == {"picked", "create", "reread", "renew", "takeover", "lost", "refresh"}
Holding == {"hold", "beat", "seq", "checked"}

Init == /\ clock = 0
        /\ lease = [owner |-> NoOwner, epoch |-> 0, expires |-> 0]
        /\ at = [a \in Attempts |-> Idle]
        /\ ledger = {}
        /\ sup = Idle
        /\ cancelled = FALSE
        /\ wins = {}

Row == lease.owner # NoOwner
Tick == clock < MaxClock /\ clock' = clock + 1 /\ UNCHANGED <<lease, at, ledger, sup, cancelled, wins>>

-----------------------------------------------------------------------------
(* run_one and acquire_lease *)

Moves(a, pc) == at' = [at EXCEPT ![a].pc = pc]
Holds(a, epoch) == at' = [at EXCEPT ![a] = Local("hold", 0, epoch, 0)]
Ends(a) == at' = [at EXCEPT ![a] = Over]

\* run_one_v1 / run_one_v2: the run is read, and is not terminal.  Attempts that
\* present one owner_id belong to one process and wait for each other.
Pick(a) ==
    /\ at[a].pc = "idle" /\ ~cancelled
    /\ \A b \in Attempts : OwnerOf[b] = OwnerOf[a] => at[b].pc \in {"idle", "done"}
    /\ Moves(a, "picked")
    /\ UNCHANGED <<clock, lease, ledger, sup, cancelled, wins>>

\* acquire_lease, on the row it read
Branch(a, now) ==
    IF ~Row THEN "create"
    ELSE IF lease.expires > now
         THEN IF lease.owner = OwnerOf[a] THEN "renew" ELSE "done"
         ELSE "takeover"

\* the first read; the time is captured here and used to the end
ReadLease(a) ==
    /\ at[a].pc = "picked"
    /\ at' = [at EXCEPT ![a] = IF Branch(a, clock) = "done" THEN Over
                               ELSE Local(Branch(a, clock), clock, lease.epoch, 0)]
    /\ UNCHANGED <<clock, lease, ledger, sup, cancelled, wins>>

Grant(a, epoch) == /\ lease' = [owner |-> OwnerOf[a], epoch |-> epoch, expires |-> at[a].now + TTL]
                   /\ wins' = wins \cup {[epoch |-> epoch, by |-> a]}
                   /\ Moves(a, "refresh")
                   /\ UNCHANGED <<clock, ledger, sup, cancelled>>

\* no row was read: insert one; a concurrent creator makes it a row to contend for
Create(a) == at[a].pc = "create" /\ ~Row /\ Grant(a, 0)

CreateLost(a) == /\ at[a].pc = "create" /\ Row
                 /\ Moves(a, "reread")
                 /\ UNCHANGED <<clock, lease, ledger, sup, cancelled, wins>>

Reread(a) == /\ at[a].pc = "reread"
             /\ at' = [at EXCEPT ![a] = IF Branch(a, at[a].now) = "done" THEN Over
                                        ELSE Local(Branch(a, at[a].now), at[a].now, lease.epoch, 0)]
             /\ UNCHANGED <<clock, lease, ledger, sup, cancelled, wins>>

\* the same owner, still live when read: WHERE owner_id = ..., row count not looked at
Renew(a) ==
    /\ at[a].pc = "renew"
    /\ lease' = IF lease.owner = OwnerOf[a]
                THEN [lease EXCEPT !.expires = at[a].now + TTL] ELSE lease
    /\ Moves(a, "refresh")
    /\ UNCHANGED <<clock, ledger, sup, cancelled, wins>>

\* Mutant: the takeover writes the epoch it read plus one, unconditionally
MutTakeOverRead(a) == at[a].pc = "takeover" /\ Grant(a, at[a].epoch + 1)

\* expired: one conditional UPDATE
TakeOver(a) == at[a].pc = "takeover" /\ lease.expires <= at[a].now /\ Grant(a, lease.epoch + 1)

TakeOverLost(a) == /\ at[a].pc = "takeover" /\ lease.expires > at[a].now
                   /\ Moves(a, "lost")
                   /\ UNCHANGED <<clock, lease, ledger, sup, cancelled, wins>>

\* rowcount 0: the winner's fresh lease is read, and is ours or makes us give up
ReadWinner(a) ==
    /\ at[a].pc = "lost"
    /\ IF lease.owner = OwnerOf[a] /\ lease.expires > at[a].now
       THEN Holds(a, lease.epoch)
       ELSE Ends(a)
    /\ UNCHANGED <<clock, lease, ledger, sup, cancelled, wins>>

\* after the commit the row is read back: its epoch is the one the attempt will use
Refresh(a) ==
    /\ at[a].pc = "refresh"
    /\ Holds(a, lease.epoch)
    /\ UNCHANGED <<clock, lease, ledger, sup, cancelled, wins>>

-----------------------------------------------------------------------------
(* heartbeat *)

StartBeat(a) == /\ at[a].pc = "hold"
                /\ at' = [at EXCEPT ![a] = Local("beat", clock, at[a].epoch, 0)]
                /\ UNCHANGED <<clock, lease, ledger, sup, cancelled, wins>>

Owns(a, now) == lease.owner = OwnerOf[a] /\ lease.epoch = at[a].epoch /\ lease.expires > now

Beat(a) == /\ at[a].pc = "beat" /\ Owns(a, at[a].now)
           /\ lease' = [lease EXCEPT !.expires = at[a].now + TTL]
           /\ Holds(a, at[a].epoch)
           /\ UNCHANGED <<clock, ledger, sup, cancelled, wins>>

\* StaleEpoch: the attempt is fenced and abandons the run, unless the heartbeat is the
\* task of protocol 2, which leaves the attempt to its next check of the lease
BeatFenced(a) == /\ at[a].pc = "beat" /\ ~Owns(a, at[a].now)
                 /\ Ends(a) \/ (Protocol = 2 /\ Holds(a, at[a].epoch))
                 /\ UNCHANGED <<clock, lease, ledger, sup, cancelled, wins>>

\* that task also renews the lease while the attempt is between two statements of _emit
BeatBeside(a) == /\ Protocol = 2 /\ at[a].pc \in {"seq", "checked"} /\ Owns(a, clock)
                 /\ lease' = [lease EXCEPT !.expires = clock + TTL]
                 /\ UNCHANGED <<clock, at, ledger, sup, cancelled, wins>>

-----------------------------------------------------------------------------
(* The ledger.  (run_id, seq) is unique: an insert of a taken seq changes nothing. *)

Top == CHOOSE n \in Seqs : /\ \A r \in ledger : r.seq <= n
                           /\ n = 0 \/ \E r \in ledger : r.seq = n

Event(seq, epoch, by, write) == [seq |-> seq, epoch |-> epoch, by |-> by, write |-> write]
Free(seq) == \A r \in ledger : r.seq # seq

\* Mutant: the caller passes no expected_epoch, so the event is not fenced
MutAssertEpoch(a) ==
    /\ at[a].pc = "seq"
    /\ Moves(a, "checked")
    /\ UNCHANGED <<clock, lease, ledger, sup, cancelled, wins>>

\* _emit: next_seq ...
ReadSeq(a) ==
    /\ at[a].pc = "hold" /\ Top < MaxEvents
    /\ at' = [at EXCEPT ![a] = Local("seq", 0, at[a].epoch, Top + 1)]
    /\ UNCHANGED <<clock, lease, ledger, sup, cancelled, wins>>

\* ... then append_event's assert_epoch (a missing lease is epoch 0) ...
AssertEpoch(a) ==
    /\ at[a].pc = "seq"
    /\ IF lease.epoch = at[a].epoch THEN Moves(a, "checked") ELSE Ends(a)
    /\ UNCHANGED <<clock, lease, ledger, sup, cancelled, wins>>

\* ... then the insert, with nothing locked in between
Append(a) ==
    /\ at[a].pc = "checked" /\ Free(at[a].seq)
    /\ ledger' = ledger \cup {Event(at[a].seq, at[a].epoch, a, "plain")}
    /\ Holds(a, at[a].epoch)
    /\ UNCHANGED <<clock, lease, sup, cancelled, wins>>

\* SequenceConflict ends the attempt, which may still append its run.failed
Conflict(a) == /\ at[a].pc = "checked" /\ ~Free(at[a].seq)
               /\ Ends(a) \/ Holds(a, at[a].epoch)
               /\ UNCHANGED <<clock, lease, ledger, sup, cancelled, wins>>

\* protocol 2: the lease row is locked and checked, owner and expiry included,
\* and stays locked until the event commits
AppendLocked(a) ==
    /\ Protocol = 2 /\ at[a].pc \in {"hold", "beat"} /\ Top < MaxEvents
    /\ Owns(a, clock)
    /\ ledger' = ledger \cup {Event(Top + 1, at[a].epoch, a, "locked")}
    /\ UNCHANGED <<clock, lease, at, sup, cancelled, wins>>

\* the attempt ends, or its process dies, wherever it is
Stop(a) == /\ at[a].pc \in Acquiring \cup Holding
           /\ Ends(a)
           /\ UNCHANGED <<clock, lease, ledger, sup, cancelled, wins>>

-----------------------------------------------------------------------------
(* Cancelling the run from outside *)

BumpEpoch == lease' = IF Row THEN [lease EXCEPT !.epoch = @ + 1] ELSE lease

\* a refund finalizes: the epoch goes up and the run is cancelled in one transaction
RefundFences == /\ ~cancelled /\ cancelled' = TRUE
                /\ BumpEpoch
                /\ UNCHANGED <<clock, at, ledger, sup, wins>>

\* the supervisor does the same, then owes the ledger a run.failed
SupervisorFences == /\ ~cancelled /\ cancelled' = TRUE
                    /\ BumpEpoch
                    /\ sup' = [sup EXCEPT !.pc = "epoch"]
                    /\ UNCHANGED <<clock, at, ledger, wins>>

\* _emit_terminal: the epoch is read before the sequence number, and not checked again
SupEpoch == /\ sup.pc = "epoch"
            /\ sup' = [sup EXCEPT !.pc = "seq", !.epoch = lease.epoch]
            /\ UNCHANGED <<clock, lease, at, ledger, cancelled, wins>>

SupSeq == /\ sup.pc = "seq" /\ Top < MaxEvents
          /\ sup' = [sup EXCEPT !.pc = "append", !.seq = Top + 1]
          /\ UNCHANGED <<clock, lease, at, ledger, cancelled, wins>>

SupAppend == /\ sup.pc = "append" /\ Free(sup.seq)
             /\ ledger' = ledger \cup {Event(sup.seq, sup.epoch, Supervisor, "plain")}
             /\ sup' = Over
             /\ UNCHANGED <<clock, lease, at, cancelled, wins>>

\* a lost race for the seq: read everything again, or give up
SupRetry == /\ sup.pc = "append" /\ ~Free(sup.seq)
            /\ \E pc \in {"epoch", "done"} : sup' = Local(pc, 0, 0, 0)
            /\ UNCHANGED <<clock, lease, at, ledger, cancelled, wins>>

-----------------------------------------------------------------------------
AttemptNext(a) ==
    \/ Pick(a) \/ ReadLease(a) \/ Create(a) \/ CreateLost(a) \/ Reread(a) \/ Renew(a)
    \/ TakeOver(a) \/ TakeOverLost(a) \/ ReadWinner(a) \/ Refresh(a)
    \/ StartBeat(a) \/ Beat(a) \/ BeatFenced(a) \/ BeatBeside(a)
    \/ ReadSeq(a) \/ AssertEpoch(a) \/ Append(a) \/ Conflict(a) \/ AppendLocked(a)
    \/ Stop(a)

SupervisorNext == RefundFences \/ SupervisorFences \/ SupEpoch \/ SupSeq \/ SupAppend \/ SupRetry

Next == Tick \/ SupervisorNext \/ \E a \in Attempts : AttemptNext(a)

Spec == Init /\ [][Next]_vars

-----------------------------------------------------------------------------
(* Types: every column holds what its model declares, lab/leases.py and ledger.py. *)
PCs == {"idle", "done"} \cup Acquiring \cup Holding
AttemptType == [pc : PCs, now : 0..MaxClock, epoch : Nat, seq : Seqs]
SupType == [pc : {"idle", "epoch", "seq", "append", "done"}, now : {0}, epoch : Nat, seq : Seqs]
EventType == [seq : Seqs, epoch : Nat, by : Attempts \cup {Supervisor}, write : {"plain", "locked"}]
LeaseType == [owner : Owners \cup {NoOwner}, epoch : Nat, expires : Times]
WinType == [epoch : Nat, by : Attempts]

TypeOK == /\ clock \in 0..MaxClock
          /\ lease \in LeaseType
          /\ at \in [Attempts -> AttemptType]
          /\ ledger \subseteq EventType
          /\ sup \in SupType
          /\ cancelled \in BOOLEAN
          /\ wins \subseteq WinType

(* The ledger of a run is gap-free and has no two events with one sequence number,
   however many writers race for the next one (ledger.py, "append-only, gap-free"). *)
GapFree == /\ \A r \in ledger : \A n \in 1..r.seq : \E q \in ledger : q.seq = n
           /\ \A q, r \in ledger : q.seq = r.seq => q = r

(* Read in sequence order, an attempt's event never carries an epoch below that of
   an event before it: an event of a fenced owner can slip in after the takeover
   (assert_epoch is not atomic with the insert) but never behind an event of the new
   owner.  This rests on next_seq being read before assert_epoch in _emit. *)
EpochsInOrder ==
    \A q, r \in ledger : (r.by # Supervisor /\ q.seq < r.seq) => q.epoch <= r.epoch

(* Two acquirers are never given the same epoch: the test-and-bump of a takeover is
   one statement (leases.py, "they cannot both land the same epoch"). *)
EpochWonOnce == \A v, w \in wins : v.epoch = w.epoch => v = w

(* An owner whose lease has not run out is never displaced, and the epoch never goes
   down: all that acquire_lease, heartbeat and the fences may do to the row. *)
LiveOwnerKept ==
    [][/\ lease'.epoch >= lease.epoch
       /\ (Row /\ lease'.owner # lease.owner) => lease.expires <= clock]_vars

(* An event appended under the locked lease row (protocol 2, _lock_current_authority)
   is appended while its attempt's owner owns the lease at the event's epoch. *)
LockedWriterOwns ==
    [][\A r \in ledger' \ ledger :
          r.write = "locked" => OwnerOf[r.by] = lease.owner /\ r.epoch = lease.epoch]_vars

(* "Exactly one live owner_id may hold a run's lease" (leases.py:3): attempts that
   both believe they hold the lease at one epoch present one owner_id. *)
OneHolderPerEpoch ==
    \A a, b \in Attempts :
        (at[a].pc \in Holding /\ at[b].pc \in Holding /\ at[a].epoch = at[b].epoch)
            => OwnerOf[a] = OwnerOf[b]
=============================================================================
