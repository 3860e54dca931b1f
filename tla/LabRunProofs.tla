---------------------------- MODULE LabRunProofs ----------------------------
(* What the two halves of a Lab run's delivery guarantee: LabLease, for any attempts,
   owners, clock, TTL and either protocol, and at the end LabQueue, for any runs,
   runners, caps and faults.

   LabLease.  Invariant is inductive; beside the stated properties it says that an
   epoch an attempt (or the supervisor) holds, and every epoch in the ledger and
   among the wins, is at most the lease's; that a sequence number read is one past a
   row that exists; and that an attempt whose epoch was checked has it at least as
   high as every event before the number it read. *)
EXTENDS LabLease, LabQueue, FiniteSetTheorems, TLAPS

\* n is one past a row of the ledger, or the first number: what next_seq returns
Reached(n) == n = 1 \/ \E r \in ledger : r.seq = n - 1
IsTop(n) == /\ \A r \in ledger : r.seq <= n
            /\ n = 0 \/ \E r \in ledger : r.seq = n

AttemptOK(a) ==
    /\ at[a].now <= clock
    /\ at[a].pc \in Holding => at[a].epoch <= lease.epoch
    /\ at[a].pc \in {"seq", "checked"} => at[a].seq >= 1 /\ Reached(at[a].seq)
    /\ at[a].pc = "checked" => \A r \in ledger : r.seq < at[a].seq => r.epoch <= at[a].epoch

SupOK == /\ sup.pc \in {"seq", "append"} => sup.epoch <= lease.epoch
         /\ sup.pc = "append" => sup.seq >= 1 /\ Reached(sup.seq)

LeaseOK == /\ ~Row => lease.epoch = 0 /\ lease.expires = 0
           /\ \A w \in wins : Row /\ w.epoch <= lease.epoch

LedgerOK == /\ \A r \in ledger : r.seq >= 1 /\ r.epoch <= lease.epoch
            /\ \E n \in Seqs : IsTop(n)

Invariant == /\ TypeOK
             /\ GapFree
             /\ EpochsInOrder
             /\ EpochWonOnce
             /\ LeaseOK
             /\ LedgerOK
             /\ SupOK
             /\ \A a \in Attempts : AttemptOK(a)

-----------------------------------------------------------------------------
(* A fresh number: a number that was reached and is not taken is past every row. *)
LEMMA FreshIsLast ==
    ASSUME Invariant, NEW n \in Seqs, n >= 1, Reached(n), Free(n)
    PROVE  \A r \in ledger : r.seq < n
<1> SUFFICES ASSUME NEW r \in ledger, r.seq >= n PROVE FALSE
  BY DEF Invariant, TypeOK, EventType, Seqs
<1>1. r.seq \in Seqs /\ n \in 1..r.seq
  BY NumberAssumption DEF Invariant, TypeOK, EventType, Seqs
<1>2. \E q \in ledger : q.seq = n
  BY <1>1 DEF Invariant, GapFree
<1> QED  BY <1>2 DEF Free

(* What Top is, from the existence of a last row. *)
LEMMA TopIsLast ==
    ASSUME Invariant
    PROVE  Top \in Seqs /\ IsTop(Top) /\ Reached(Top + 1)
<1>1. PICK n \in Seqs : IsTop(n)
  BY DEF Invariant, LedgerOK
<1>2. Top \in Seqs /\ IsTop(Top)
  BY <1>1 DEF Top, IsTop
<1>3. Reached(Top + 1)
  BY <1>2, NumberAssumption DEF IsTop, Reached, Seqs
<1> QED  BY <1>2, <1>3

(* A step that leaves the ledger alone keeps the invariant when the lease's epoch
   does not fall and what attempts and supervisor hold stays justified. *)
LEMMA QuietStep ==
    ASSUME Invariant, TypeOK', UNCHANGED ledger, lease'.epoch >= lease.epoch,
           LeaseOK', EpochWonOnce', SupOK',
           \A a \in Attempts : AttemptOK(a)'
    PROVE  Invariant'
<1>1. GapFree' /\ EpochsInOrder'
  BY DEF Invariant, GapFree, EpochsInOrder
<1>2. \A r \in ledger : r.seq \in Int /\ r.epoch \in Nat
  BY NumberAssumption DEF Invariant, TypeOK, EventType, Seqs
<1>3. \A r \in ledger' : r.seq >= 1 /\ r.epoch <= lease'.epoch
  BY <1>2 DEF Invariant, LedgerOK, TypeOK, LeaseType
<1>4. \E n \in Seqs : IsTop(n)'
  BY DEF Invariant, LedgerOK, IsTop
<1> QED  BY <1>1, <1>3, <1>4 DEF Invariant, LedgerOK, IsTop

(* An attempt the step does not touch. *)
LEMMA Untouched ==
    ASSUME Invariant, NEW a \in Attempts, at'[a] = at[a], UNCHANGED ledger,
           lease' \in LeaseType, lease'.epoch >= lease.epoch,
           clock' \in Int, clock' >= clock
    PROVE  AttemptOK(a)'
<1>1. at[a] \in AttemptType /\ clock \in Int /\ lease \in LeaseType
  BY DEF Invariant, TypeOK
<1>2. AttemptOK(a)
  BY DEF Invariant
<1>3. at'[a].now <= clock'
  BY <1>1, <1>2 DEF AttemptOK, AttemptType
<1>4. at'[a].pc \in Holding => at'[a].epoch <= lease'.epoch
  BY <1>1, <1>2 DEF AttemptOK, AttemptType, LeaseType
<1>5. at'[a].pc \in {"seq", "checked"} => at'[a].seq >= 1 /\ Reached(at[a].seq)'
  BY <1>2 DEF AttemptOK, Reached
<1>6. at'[a].pc = "checked" => \A r \in ledger' : r.seq < at'[a].seq => r.epoch <= at'[a].epoch
  BY <1>2 DEF AttemptOK
<1> QED  BY <1>3, <1>4, <1>5, <1>6 DEF AttemptOK, Reached

(* A step of one attempt that writes neither the lease nor the ledger. *)
LEMMA LocalStep ==
    ASSUME Invariant, NEW a \in Attempts, NEW x \in AttemptType,
           at' = [at EXCEPT ![a] = x],
           UNCHANGED <<clock, lease, ledger, sup, cancelled, wins>>,
           x.now <= clock,
           x.pc \in Holding => x.epoch <= lease.epoch,
           x.pc \in {"seq", "checked"} => x.seq >= 1 /\ Reached(x.seq),
           x.pc = "checked" => \A r \in ledger : r.seq < x.seq => r.epoch <= x.epoch
    PROVE  Invariant'
<1>1. /\ at' \in [Attempts -> AttemptType] /\ at'[a] = x
      /\ \A b \in Attempts : b # a => at'[b] = at[b]
      /\ lease \in LeaseType /\ clock \in Int
  BY DEF Invariant, TypeOK
<1>2. TypeOK'
  BY <1>1 DEF Invariant, TypeOK
<1>3. AttemptOK(a)'
  BY <1>1 DEF AttemptOK, Reached
<1>4. ASSUME NEW b \in Attempts, b # a PROVE AttemptOK(b)'
  BY <1>1, <1>4, Untouched DEF LeaseType
<1>5. LeaseOK' /\ EpochWonOnce' /\ SupOK'
  BY DEF Invariant, LeaseOK, EpochWonOnce, SupOK, Row, Reached
<1>6. lease'.epoch >= lease.epoch
  BY <1>1 DEF LeaseType
<1> QED  BY <1>2, <1>3, <1>4, <1>5, <1>6, QuietStep

-----------------------------------------------------------------------------
(* Steps that only an attempt's own state records. *)

\* ending or losing never needs justifying
LEMMA Ending ==
    ASSUME Invariant, NEW a \in Attempts, Ends(a),
           UNCHANGED <<clock, lease, ledger, sup, cancelled, wins>>
    PROVE  Invariant'
<1>1. Over \in AttemptType /\ Over.now <= clock /\ Over.pc \notin Holding
  BY NumberAssumption DEF Over, Local, AttemptType, PCs, Holding, Seqs, Invariant, TypeOK
<1> QED  BY <1>1, LocalStep DEF Ends, Over, Local

\* the attempt stays among the acquirers
LEMMA Acquirer ==
    ASSUME Invariant, NEW a \in Attempts, NEW x \in AttemptType,
           at' = [at EXCEPT ![a] = x], x.now <= clock, x.pc \in Acquiring,
           UNCHANGED <<clock, lease, ledger, sup, cancelled, wins>>
    PROVE  Invariant'
<1>1. x.pc \notin Holding
  BY DEF Acquiring, Holding
<1> QED  BY <1>1, LocalStep DEF Holding

LEMMA MovesTo ==
    ASSUME Invariant, NEW a \in Attempts, NEW pc \in PCs, Moves(a, pc)
    PROVE  /\ Local(pc, at[a].now, at[a].epoch, at[a].seq) \in AttemptType
           /\ at' = [at EXCEPT ![a] = Local(pc, at[a].now, at[a].epoch, at[a].seq)]
           /\ at[a].now <= clock
<1>1. at[a] \in AttemptType /\ at[a].now <= clock /\ at \in [Attempts -> AttemptType]
  BY DEF Invariant, TypeOK, AttemptOK
<1>2. [at[a] EXCEPT !.pc = pc] = Local(pc, at[a].now, at[a].epoch, at[a].seq)
  BY <1>1 DEF AttemptType, Local
<1>3. at' = [at EXCEPT ![a] = Local(pc, at[a].now, at[a].epoch, at[a].seq)]
  BY <1>2 DEF Moves
<1> QED  BY <1>1, <1>3 DEF AttemptType, Local

LEMMA AcquirerMoves ==
    ASSUME Invariant, NEW a \in Attempts, NEW pc \in Acquiring, Moves(a, pc),
           UNCHANGED <<clock, lease, ledger, sup, cancelled, wins>>
    PROVE  Invariant'
<1>1. pc \in PCs
  BY DEF PCs
<1> DEFINE x == Local(pc, at[a].now, at[a].epoch, at[a].seq)
<1>2. x \in AttemptType /\ at' = [at EXCEPT ![a] = x] /\ at[a].now <= clock
  BY <1>1, MovesTo
<1>3. x.now <= clock /\ x.pc \in Acquiring
  BY <1>2 DEF Local
<1> HIDE DEF x
<1> QED  BY <1>2, <1>3, Acquirer

\* a hold begins with the epoch the lease has now, or goes on with the one it had
LEMMA Hold ==
    ASSUME Invariant, NEW a \in Attempts, NEW epoch \in Nat, epoch <= lease.epoch,
           Holds(a, epoch), UNCHANGED <<clock, lease, ledger, sup, cancelled, wins>>
    PROVE  Invariant'
<1> DEFINE x == Local("hold", 0, epoch, 0)
<1>1. x \in AttemptType /\ x.now <= clock /\ x.epoch <= lease.epoch /\ x.pc = "hold"
  BY NumberAssumption DEF Local, AttemptType, PCs, Holding, Seqs, Invariant, TypeOK
<1>2. at' = [at EXCEPT ![a] = x]
  BY DEF Holds
<1> HIDE DEF x
<1> QED  BY <1>1, <1>2, LocalStep

LEMMA LeaseTyped ==
    ASSUME Invariant
    PROVE  /\ clock \in 0..MaxClock /\ clock \in Int
           /\ lease \in LeaseType /\ lease.epoch \in Nat /\ lease.epoch \in Int
           /\ \A a \in Attempts : at[a] \in AttemptType /\ at[a].now <= clock
BY NumberAssumption DEF Invariant, TypeOK, LeaseType, AttemptOK

LEMMA PickStep ==
    ASSUME Invariant, NEW a \in Attempts, Pick(a)
    PROVE  Invariant'
BY AcquirerMoves DEF Pick, Acquiring

\* the row an attempt branches on, at the time it captured
LEMMA BranchStep ==
    ASSUME Invariant, NEW a \in Attempts, NEW now \in 0..MaxClock, now <= clock,
           at' = [at EXCEPT ![a] = IF Branch(a, now) = "done" THEN Over
                                   ELSE Local(Branch(a, now), now, lease.epoch, 0)],
           UNCHANGED <<clock, lease, ledger, sup, cancelled, wins>>
    PROVE  Invariant'
<1>1. CASE Branch(a, now) = "done"
  BY <1>1, Ending DEF Ends
<1>2. CASE Branch(a, now) # "done"
  <2> DEFINE x == Local(Branch(a, now), now, lease.epoch, 0)
  <2>1. Branch(a, now) \in Acquiring
    BY <1>2 DEF Branch, Acquiring
  <2>2. x \in AttemptType /\ x.now <= clock /\ x.pc \in Acquiring
    BY <2>1, LeaseTyped, NumberAssumption DEF Local, AttemptType, PCs, Seqs
  <2>3. at' = [at EXCEPT ![a] = x]
    BY <1>2
  <2> HIDE DEF x
  <2> QED  BY <2>2, <2>3, Acquirer
<1> QED  BY <1>1, <1>2

LEMMA ReadLeaseStep ==
    ASSUME Invariant, NEW a \in Attempts, ReadLease(a)
    PROVE  Invariant'
<1>1. clock \in 0..MaxClock /\ clock <= clock
  BY LeaseTyped
<1>2. at' = [at EXCEPT ![a] = IF Branch(a, clock) = "done" THEN Over
                              ELSE Local(Branch(a, clock), clock, lease.epoch, 0)]
  BY DEF ReadLease
<1> QED  BY <1>1, <1>2, BranchStep DEF ReadLease

LEMMA RereadStep ==
    ASSUME Invariant, NEW a \in Attempts, Reread(a)
    PROVE  Invariant'
BY LeaseTyped, BranchStep DEF Reread, AttemptType

LEMMA CreateLostStep ==
    ASSUME Invariant, NEW a \in Attempts, CreateLost(a)
    PROVE  Invariant'
BY AcquirerMoves DEF CreateLost, Acquiring

LEMMA TakeOverLostStep ==
    ASSUME Invariant, NEW a \in Attempts, TakeOverLost(a)
    PROVE  Invariant'
BY AcquirerMoves DEF TakeOverLost, Acquiring

LEMMA ReadWinnerStep ==
    ASSUME Invariant, NEW a \in Attempts, ReadWinner(a)
    PROVE  Invariant'
BY LeaseTyped, Hold, Ending DEF ReadWinner

LEMMA RefreshStep ==
    ASSUME Invariant, NEW a \in Attempts, Refresh(a)
    PROVE  Invariant'
BY LeaseTyped, Hold DEF Refresh

LEMMA StopStep ==
    ASSUME Invariant, NEW a \in Attempts, Stop(a) \/ BeatFenced(a) \/ Conflict(a)
    PROVE  Invariant'
<1>1. UNCHANGED <<clock, lease, ledger, sup, cancelled, wins>>
  BY DEF Stop, BeatFenced, Conflict
<1>2. CASE Ends(a)
  BY <1>1, <1>2, Ending
<1>3. CASE Holds(a, at[a].epoch) /\ at[a].pc \in Holding
  <2>1. at[a].epoch \in Nat /\ at[a].epoch <= lease.epoch
    BY <1>3, LeaseTyped DEF Invariant, AttemptOK, AttemptType
  <2> QED  BY <1>1, <1>3, <2>1, Hold
<1>4. Ends(a) \/ (Holds(a, at[a].epoch) /\ at[a].pc \in Holding)
  BY DEF Stop, BeatFenced, Conflict, Holding
<1> QED  BY <1>2, <1>3, <1>4

LEMMA StartBeatStep ==
    ASSUME Invariant, NEW a \in Attempts, StartBeat(a)
    PROVE  Invariant'
<1> DEFINE x == Local("beat", clock, at[a].epoch, 0)
<1>1. at[a] \in AttemptType /\ at \in [Attempts -> AttemptType] /\ AttemptOK(a)
  BY DEF Invariant, TypeOK
<1>2. at' = [at EXCEPT ![a] = x]
  BY <1>1 DEF StartBeat, Local, AttemptType
<1>3. x \in AttemptType /\ x.now <= clock /\ x.pc = "beat" /\ x.epoch <= lease.epoch
  BY <1>1, LeaseTyped, NumberAssumption DEF StartBeat, Local, AttemptType, PCs, Holding, AttemptOK, Seqs
<1> HIDE DEF x
<1> QED  BY <1>2, <1>3, LocalStep DEF StartBeat

LEMMA ReadSeqStep ==
    ASSUME Invariant, NEW a \in Attempts, ReadSeq(a)
    PROVE  Invariant'
<1> DEFINE x == Local("seq", 0, at[a].epoch, Top + 1)
<1>1. at[a] \in AttemptType /\ at \in [Attempts -> AttemptType] /\ AttemptOK(a)
  BY DEF Invariant, TypeOK
<1>2. Top \in Seqs /\ Reached(Top + 1)
  BY TopIsLast
<1>3. at' = [at EXCEPT ![a] = x]
  BY <1>1 DEF ReadSeq, Local, AttemptType
<1>4. Top + 1 \in Seqs /\ Top + 1 >= 1
  BY <1>2, NumberAssumption DEF ReadSeq, Seqs
<1>5. x \in AttemptType /\ x.now <= clock /\ x.pc = "seq" /\ x.seq = Top + 1
  BY <1>1, <1>4, LeaseTyped, NumberAssumption DEF Local, AttemptType, PCs, Holding
<1>6. x.epoch <= lease.epoch
  BY <1>1 DEF ReadSeq, Local, Holding, AttemptOK
<1> HIDE DEF x
<1> QED  BY <1>2, <1>3, <1>4, <1>5, <1>6, LocalStep DEF ReadSeq

LEMMA AssertEpochStep ==
    ASSUME Invariant, NEW a \in Attempts, AssertEpoch(a)
    PROVE  Invariant'
<1>1. CASE lease.epoch = at[a].epoch
  <2> DEFINE x == Local("checked", at[a].now, at[a].epoch, at[a].seq)
  <2>1. x \in AttemptType /\ at' = [at EXCEPT ![a] = x] /\ at[a].now <= clock
    BY <1>1, MovesTo DEF AssertEpoch, PCs, Holding
  <2>2. AttemptOK(a) /\ at[a].pc = "seq" /\ LedgerOK
    BY DEF Invariant, AssertEpoch
  <2>3. x.pc = "checked" /\ x.now <= clock /\ x.epoch <= lease.epoch /\ x.seq >= 1 /\ Reached(x.seq)
    BY <1>1, <2>1, <2>2, LeaseTyped DEF Local, AttemptOK, AttemptType
  <2>4. \A r \in ledger : r.epoch <= x.epoch
    BY <1>1, <2>2 DEF LedgerOK, Local
  <2> HIDE DEF x
  <2> QED  BY <2>1, <2>3, <2>4, LocalStep DEF AssertEpoch
<1>2. CASE lease.epoch # at[a].epoch
  BY <1>2, Ending DEF AssertEpoch
<1> QED  BY <1>1, <1>2

-----------------------------------------------------------------------------
(* Steps that write the lease. *)

\* one attempt moves while the lease changes; its next state holds nothing new
LEMMA LeaseStep ==
    ASSUME Invariant, NEW a \in Attempts, NEW x \in AttemptType,
           at' = [at EXCEPT ![a] = x], x.now <= clock, x.pc \notin {"seq", "checked"},
           x.pc \in Holding => x.epoch <= lease'.epoch,
           UNCHANGED <<clock, ledger, sup, cancelled>>,
           lease' \in LeaseType, lease'.epoch >= lease.epoch, lease'.owner # NoOwner,
           wins' \subseteq WinType, EpochWonOnce',
           \A w \in wins' : w.epoch <= lease'.epoch
    PROVE  Invariant'
<1>1. /\ at' \in [Attempts -> AttemptType] /\ at'[a] = x
      /\ \A b \in Attempts : b # a => at'[b] = at[b]
      /\ lease \in LeaseType /\ clock \in Int
  BY LeaseTyped DEF Invariant, TypeOK
<1>2. TypeOK'
  BY <1>1 DEF Invariant, TypeOK
<1>3. AttemptOK(a)'
  BY <1>1 DEF AttemptOK
<1>4. ASSUME NEW b \in Attempts, b # a PROVE AttemptOK(b)'
  BY <1>1, <1>4, Untouched
<1>5. LeaseOK'
  BY DEF LeaseOK, Row
<1>6. SupOK'
  BY <1>1 DEF Invariant, TypeOK, SupOK, SupType, LeaseType, Reached
<1> QED  BY <1>2, <1>3, <1>4, <1>5, <1>6, QuietStep

\* a create or a takeover: nobody was given this epoch before
LEMMA GrantStep ==
    ASSUME Invariant, NEW a \in Attempts, NEW epoch \in Nat, Grant(a, epoch),
           epoch >= lease.epoch, \A w \in wins : w.epoch < epoch
    PROVE  Invariant'
<1> DEFINE x == Local("refresh", at[a].now, at[a].epoch, at[a].seq)
<1>1. x \in AttemptType /\ at' = [at EXCEPT ![a] = x] /\ at[a].now <= clock
  BY MovesTo DEF Grant, PCs, Acquiring
<1>2. x.now <= clock /\ x.pc \notin {"seq", "checked"} /\ x.pc \notin Holding
  BY <1>1 DEF Local, Holding
<1>3. lease' \in LeaseType /\ lease'.epoch = epoch /\ lease'.owner # NoOwner
  BY LeaseTyped, OwnerAssumption, NumberAssumption DEF Grant, LeaseType, Times, AttemptType
<1>4. wins' = wins \cup {[epoch |-> epoch, by |-> a]} /\ wins \subseteq WinType
  BY DEF Grant, Invariant, TypeOK
<1>5. wins' \subseteq WinType /\ \A w \in wins' : w.epoch <= epoch
  BY <1>4 DEF WinType
<1>6. EpochWonOnce'
  BY <1>4 DEF EpochWonOnce, Invariant, WinType
<1> HIDE DEF x
<1> QED  BY <1>1, <1>2, <1>3, <1>5, <1>6, LeaseStep DEF Grant

LEMMA CreateStep ==
    ASSUME Invariant, NEW a \in Attempts, Create(a)
    PROVE  Invariant'
<1>1. Grant(a, 0) /\ lease.epoch = 0 /\ wins = {}
  BY DEF Create, Invariant, LeaseOK
<1> QED  BY <1>1, GrantStep

LEMMA TakeOverStep ==
    ASSUME Invariant, NEW a \in Attempts, TakeOver(a)
    PROVE  Invariant'
<1>1. Grant(a, lease.epoch + 1) /\ lease.epoch \in Nat
  BY LeaseTyped DEF TakeOver
<1>2. \A w \in wins : w.epoch < lease.epoch + 1
  BY <1>1 DEF Invariant, LeaseOK, TypeOK, WinType
<1> QED  BY <1>1, <1>2, GrantStep

\* a later expiry, by an attempt that owns the row
LEMMA Extends ==
    ASSUME Invariant, NEW now \in 0..MaxClock, Row
    PROVE  /\ [lease EXCEPT !.expires = now + TTL] \in LeaseType
           /\ [lease EXCEPT !.expires = now + TTL].epoch = lease.epoch
           /\ [lease EXCEPT !.expires = now + TTL].owner = lease.owner
           /\ \A w \in wins : w.epoch <= lease.epoch
BY LeaseTyped, NumberAssumption DEF LeaseType, Times, Row, Invariant, LeaseOK

LEMMA RenewStep ==
    ASSUME Invariant, NEW a \in Attempts, Renew(a)
    PROVE  Invariant'
<1>1. CASE lease.owner = OwnerOf[a]
  <2> DEFINE x == Local("refresh", at[a].now, at[a].epoch, at[a].seq)
  <2>1. x \in AttemptType /\ at' = [at EXCEPT ![a] = x] /\ at[a].now <= clock
    BY MovesTo DEF Renew, PCs, Acquiring
  <2>2. x.now <= clock /\ x.pc \notin {"seq", "checked"} /\ x.pc \notin Holding
    BY <2>1 DEF Local, Holding
  <2>3. Row /\ at[a].now \in 0..MaxClock
    BY <1>1, OwnerAssumption, LeaseTyped DEF Row, AttemptType
  <2>4. /\ lease' \in LeaseType /\ lease'.epoch = lease.epoch /\ lease'.owner # NoOwner
        /\ \A w \in wins : w.epoch <= lease'.epoch
    BY <1>1, <2>3, Extends DEF Renew, Row
  <2>5. wins' \subseteq WinType /\ EpochWonOnce' /\ \A w \in wins' : w.epoch <= lease'.epoch
    BY <2>4 DEF Renew, Invariant, TypeOK, EpochWonOnce
  <2>6. lease'.epoch >= lease.epoch /\ UNCHANGED <<clock, ledger, sup, cancelled>>
    BY <2>4, LeaseTyped DEF Renew
  <2> HIDE DEF x
  <2> QED  BY <2>1, <2>2, <2>4, <2>5, <2>6, LeaseStep
<1>2. CASE lease.owner # OwnerOf[a]
  BY <1>2, AcquirerMoves DEF Renew, Acquiring
<1> QED  BY <1>1, <1>2

LEMMA BeatStep ==
    ASSUME Invariant, NEW a \in Attempts, Beat(a)
    PROVE  Invariant'
<1> DEFINE x == Local("hold", 0, at[a].epoch, 0)
<1>1. x \in AttemptType /\ x.now <= clock /\ x.pc = "hold" /\ x.epoch = lease.epoch
  BY LeaseTyped, NumberAssumption DEF Beat, Owns, Local, AttemptType, PCs, Holding, Seqs
<1>2. at' = [at EXCEPT ![a] = x]
  BY DEF Beat, Holds
<1>3. Row /\ at[a].now \in 0..MaxClock
  BY OwnerAssumption, LeaseTyped DEF Beat, Owns, Row, AttemptType
<1>4. /\ lease' \in LeaseType /\ lease'.epoch = lease.epoch /\ lease'.owner # NoOwner
      /\ \A w \in wins : w.epoch <= lease'.epoch
  BY <1>3, Extends DEF Beat, Row
<1>5. wins' \subseteq WinType /\ EpochWonOnce' /\ \A w \in wins' : w.epoch <= lease'.epoch
  BY <1>4 DEF Beat, Invariant, TypeOK, EpochWonOnce
<1>6. lease'.epoch >= lease.epoch /\ UNCHANGED <<clock, ledger, sup, cancelled>>
  BY <1>4, LeaseTyped DEF Beat
<1>7. x.pc \notin {"seq", "checked"} /\ x.epoch <= lease'.epoch
  BY <1>1, <1>4, LeaseTyped
<1> HIDE DEF x
<1> QED  BY <1>1, <1>2, <1>4, <1>5, <1>6, <1>7, LeaseStep

-----------------------------------------------------------------------------
(* Steps of the world around the attempts. *)

\* no attempt moves and no event is written
LEMMA WorldStep ==
    ASSUME Invariant, UNCHANGED <<at, ledger, wins>>,
           clock' \in 0..MaxClock, clock' >= clock, cancelled' \in BOOLEAN,
           lease' \in LeaseType, lease'.epoch >= lease.epoch, Row => Row', LeaseOK',
           sup' \in SupType, SupOK'
    PROVE  Invariant'
<1>1. TypeOK' /\ EpochWonOnce'
  BY DEF Invariant, TypeOK, EpochWonOnce
<1>2. clock' \in Int
  BY NumberAssumption
<1>3. ASSUME NEW a \in Attempts PROVE AttemptOK(a)'
  BY <1>2, Untouched
<1> QED  BY <1>1, <1>3, QuietStep

LEMMA BeatBesideStep ==
    ASSUME Invariant, NEW a \in Attempts, BeatBeside(a)
    PROVE  Invariant'
<1>1. Row /\ clock \in 0..MaxClock
  BY OwnerAssumption, LeaseTyped DEF BeatBeside, Owns, Row
<1>2. /\ lease' \in LeaseType /\ lease'.epoch = lease.epoch /\ lease'.owner = lease.owner
      /\ \A w \in wins : w.epoch <= lease.epoch
  BY <1>1, Extends DEF BeatBeside
<1>3. UNCHANGED <<clock, at, ledger, sup, cancelled, wins>>
  BY DEF BeatBeside
<1>4. (Row => Row') /\ LeaseOK' /\ SupOK'
  BY <1>1, <1>2, <1>3 DEF Invariant, LeaseOK, SupOK, Row, Reached
<1>5. sup' \in SupType /\ cancelled' \in BOOLEAN /\ clock' >= clock /\ lease'.epoch >= lease.epoch
  BY <1>2, <1>3, LeaseTyped DEF Invariant, TypeOK
<1> QED  BY <1>1, <1>2, <1>3, <1>4, <1>5, WorldStep

LEMMA TickStep ==
    ASSUME Invariant, Tick
    PROVE  Invariant'
<1>1. clock' \in 0..MaxClock /\ clock' >= clock
  BY LeaseTyped, NumberAssumption DEF Tick
<1>2. cancelled' \in BOOLEAN /\ lease' \in LeaseType /\ lease'.epoch >= lease.epoch /\ sup' \in SupType
  BY LeaseTyped DEF Tick, Invariant, TypeOK
<1>3. (Row => Row') /\ LeaseOK' /\ SupOK'
  BY DEF Tick, Invariant, LeaseOK, SupOK, Row, Reached
<1> QED  BY <1>1, <1>2, <1>3, WorldStep DEF Tick

LEMMA BumpKeeps ==
    ASSUME Invariant, BumpEpoch, UNCHANGED wins
    PROVE  lease' \in LeaseType /\ lease'.epoch >= lease.epoch /\ (Row => Row') /\ LeaseOK'
<1>1. CASE Row
  <2>1. lease' = [owner |-> lease.owner, epoch |-> lease.epoch + 1, expires |-> lease.expires]
    BY <1>1, LeaseTyped DEF BumpEpoch, LeaseType
  <2>2. lease.epoch \in Nat /\ \A w \in wins : w.epoch \in Nat /\ w.epoch <= lease.epoch
    BY LeaseTyped DEF Invariant, TypeOK, WinType, LeaseOK
  <2> QED  BY <1>1, <2>1, <2>2, LeaseTyped DEF LeaseType, LeaseOK, Row
<1>2. CASE ~Row
  BY <1>2, LeaseTyped DEF BumpEpoch, Invariant, LeaseOK, Row
<1> QED  BY <1>1, <1>2

LEMMA FenceStep ==
    ASSUME Invariant, RefundFences \/ SupervisorFences
    PROVE  Invariant'
<1>1. BumpEpoch /\ UNCHANGED <<clock, at, ledger, wins>> /\ cancelled' \in BOOLEAN
  BY DEF RefundFences, SupervisorFences
<1>2. lease' \in LeaseType /\ lease'.epoch >= lease.epoch /\ (Row => Row') /\ LeaseOK'
  BY <1>1, BumpKeeps
<1>3. sup \in SupType /\ SupOK /\ lease.epoch \in Nat /\ lease'.epoch \in Nat
  BY <1>2, LeaseTyped DEF Invariant, TypeOK, LeaseType
<1>4. CASE SupervisorFences
  <2>1. sup' = [pc |-> "epoch", now |-> sup.now, epoch |-> sup.epoch, seq |-> sup.seq]
    BY <1>3, <1>4 DEF SupervisorFences, SupType
  <2>2. sup' \in SupType /\ SupOK'
    BY <1>3, <2>1 DEF SupType, SupOK
  <2> QED  BY <1>1, <1>2, <2>2, LeaseTyped, WorldStep
<1>5. CASE RefundFences
  <2>1. sup' \in SupType /\ SupOK'
    BY <1>1, <1>2, <1>3, <1>5 DEF RefundFences, SupOK, SupType, Reached
  <2> QED  BY <1>1, <1>2, <2>1, LeaseTyped, WorldStep
<1> QED  BY <1>4, <1>5

\* the supervisor's own reads
LEMMA SupervisorReads ==
    ASSUME Invariant, SupEpoch \/ SupSeq \/ SupRetry
    PROVE  Invariant'
<1>1. sup \in SupType /\ SupOK /\ LeaseOK /\ cancelled \in BOOLEAN
  BY DEF Invariant, TypeOK
<1>2. UNCHANGED <<clock, lease, at, ledger, cancelled, wins>>
  BY DEF SupEpoch, SupSeq, SupRetry
<1>3. sup' \in SupType /\ SupOK'
  <2>1. CASE SupEpoch
    <3>1. sup' = [pc |-> "seq", now |-> sup.now, epoch |-> lease.epoch, seq |-> sup.seq]
      BY <1>1, <2>1 DEF SupEpoch, SupType
    <3> QED  BY <1>1, <1>2, <3>1, LeaseTyped DEF SupType, SupOK
  <2>2. CASE SupSeq
    <3>1. sup' = [pc |-> "append", now |-> sup.now, epoch |-> sup.epoch, seq |-> Top + 1]
      BY <1>1, <2>2 DEF SupSeq, SupType
    <3>2. Top + 1 \in Seqs /\ Top + 1 >= 1 /\ Reached(Top + 1) /\ sup.pc = "seq"
      BY <2>2, TopIsLast, NumberAssumption DEF Seqs, SupSeq
    <3> QED  BY <1>1, <1>2, <3>1, <3>2 DEF SupType, SupOK, Reached
  <2>3. CASE SupRetry
    BY <2>3, NumberAssumption DEF SupRetry, Local, SupType, SupOK, Seqs
  <2> QED  BY <2>1, <2>2, <2>3
<1>4. (Row => Row') /\ LeaseOK'
  BY <1>1, <1>2 DEF Row, LeaseOK
<1> QED  BY <1>1, <1>2, <1>3, <1>4, LeaseTyped, WorldStep

-----------------------------------------------------------------------------
(* Steps that write the ledger: the row is the new last one. *)

\* r is the row a writer inserts at a number it reached and found free
LEMMA NewRow ==
    ASSUME Invariant, NEW row \in EventType, row.seq >= 1, Reached(row.seq), Free(row.seq),
           row.epoch <= lease.epoch,
           row.by # Supervisor => \A r \in ledger : r.epoch <= row.epoch,
           ledger' = ledger \cup {row}, UNCHANGED lease
    PROVE  GapFree' /\ EpochsInOrder' /\ LedgerOK'
<1>1. row.seq \in Seqs /\ ledger \subseteq EventType /\ GapFree /\ EpochsInOrder /\ LedgerOK
  BY DEF Invariant, TypeOK, EventType
<1>2. \A r \in ledger : r.seq < row.seq
  BY <1>1, FreshIsLast
<1>3. \A r \in ledger' : r.seq \in Int /\ r.seq <= row.seq
  BY <1>1, <1>2, NumberAssumption DEF EventType, Seqs
<1>4. GapFree'
  <2>1. ASSUME NEW r \in ledger', NEW n \in 1..r.seq PROVE \E q \in ledger' : q.seq = n
    <3>1. CASE r \in ledger
      BY <1>1, <3>1 DEF GapFree
    <3>2. CASE r = row /\ n = row.seq
      BY <3>2
    <3>3. CASE r = row /\ n # row.seq
      <4>1. n \in Int /\ 1 <= n /\ n <= row.seq - 1 /\ row.seq # 1
        BY <1>3, <3>3
      <4>2. PICK s \in ledger : s.seq = row.seq - 1
        BY <4>1 DEF Reached
      <4>3. n \in 1..s.seq
        BY <1>3, <4>1, <4>2
      <4> QED  BY <1>1, <4>2, <4>3 DEF GapFree
    <3> QED  BY <3>1, <3>2, <3>3
  <2>2. \A q, r \in ledger' : q.seq = r.seq => q = r
    BY <1>1, <1>2, <1>3 DEF GapFree
  <2> QED  BY <2>1, <2>2 DEF GapFree
<1>5. EpochsInOrder'
  BY <1>1, <1>2, <1>3 DEF EpochsInOrder
<1>6. LedgerOK'
  <2>1. IsTop(row.seq)'
    BY <1>3 DEF IsTop
  <2>2. \A r \in ledger' : r.seq >= 1 /\ r.epoch <= lease'.epoch
    BY <1>1 DEF LedgerOK
  <2> QED  BY <1>1, <2>1, <2>2 DEF LedgerOK
<1> QED  BY <1>4, <1>5, <1>6

\* an attempt with a number it reached does not see the new row before it
LEMMA OthersAppend ==
    ASSUME Invariant, NEW a \in Attempts, at'[a] = at[a], UNCHANGED <<clock, lease>>,
           NEW row \in EventType, row.seq >= 1, Free(row.seq), Reached(row.seq),
           ledger' = ledger \cup {row}
    PROVE  AttemptOK(a)'
<1>1. /\ AttemptOK(a) /\ at[a] \in AttemptType /\ row.seq \in Seqs /\ ledger \subseteq EventType
      /\ GapFree
  BY DEF Invariant, TypeOK, EventType
<1>2. \A r \in ledger : r.seq < row.seq
  BY <1>1, FreshIsLast
<1>3. at'[a].pc \in {"seq", "checked"} => at'[a].seq >= 1 /\ Reached(at[a].seq)'
  BY <1>1 DEF AttemptOK, Reached
<1>4. at[a].pc = "checked" => at[a].seq <= row.seq
  <2>1. CASE at[a].pc = "checked" /\ at[a].seq # 1
    <3>1. PICK r \in ledger : r.seq = at[a].seq - 1
      BY <1>1, <2>1 DEF AttemptOK, Reached
    <3>2. r.seq \in Int /\ row.seq \in Int /\ at[a].seq \in Int
      BY <1>1, NumberAssumption DEF EventType, AttemptType, Seqs
    <3> QED  BY <1>2, <3>1, <3>2
  <2>2. CASE at[a].seq = 1
    BY <2>2
  <2> QED  BY <2>1, <2>2
<1>5. at'[a].pc = "checked" => \A r \in ledger' : r.seq < at'[a].seq => r.epoch <= at'[a].epoch
  <2> SUFFICES ASSUME at[a].pc = "checked", NEW r \in ledger', r.seq < at[a].seq
               PROVE  r.epoch <= at[a].epoch
    OBVIOUS
  <2>1. row.seq \in Int /\ at[a].seq \in Int
    BY <1>1, NumberAssumption DEF AttemptType, Seqs
  <2>2. r \in ledger
    BY <1>4, <2>1
  <2> QED  BY <1>1, <2>2 DEF AttemptOK
<1> QED  BY <1>1, <1>3, <1>5 DEF AttemptOK

LEMMA EventTyped ==
    ASSUME NEW seq \in Seqs, NEW epoch \in Nat, NEW by \in Attempts \cup {Supervisor}, NEW write \in {"plain", "locked"}
    PROVE  /\ Event(seq, epoch, by, write) \in EventType
           /\ Event(seq, epoch, by, write).seq = seq
           /\ Event(seq, epoch, by, write).epoch = epoch
           /\ Event(seq, epoch, by, write).by = by
BY DEF Event, EventType

LEMMA AppendStep ==
    ASSUME Invariant, NEW a \in Attempts, Append(a)
    PROVE  Invariant'
<1> DEFINE row == Event(at[a].seq, at[a].epoch, a, "plain")
           x == Local("hold", 0, at[a].epoch, 0)
<1>1. /\ at[a] \in AttemptType /\ AttemptOK(a) /\ at \in [Attempts -> AttemptType]
      /\ at[a].pc = "checked" /\ at[a].pc \in Holding /\ ledger \subseteq EventType
      /\ \A r \in ledger : r.epoch \in Nat
  BY DEF Invariant, TypeOK, Append, Holding, EventType
<1>2. row \in EventType /\ row.seq = at[a].seq /\ row.epoch = at[a].epoch /\ row.by = a
  BY <1>1 DEF Event, EventType, AttemptType
<1>3. row.seq >= 1 /\ Reached(row.seq) /\ Free(row.seq) /\ row.epoch <= lease.epoch
  BY <1>1, <1>2 DEF AttemptOK, Append
<1>4. row.seq \in Seqs
  BY <1>2 DEF EventType
<1>5. \A r \in ledger : r.seq < row.seq
  BY <1>3, <1>4, FreshIsLast
<1>6. \A r \in ledger : r.epoch <= row.epoch
  BY <1>1, <1>2, <1>5 DEF AttemptOK
<1>7. /\ ledger' = ledger \cup {row} /\ at' = [at EXCEPT ![a] = x]
      /\ UNCHANGED <<clock, lease, sup, cancelled, wins>>
  BY DEF Append, Holds
<1>8. x \in AttemptType /\ x.pc = "hold" /\ x.now = 0 /\ x.epoch = at[a].epoch
  BY <1>1, NumberAssumption, LeaseTyped DEF Local, AttemptType, PCs, Holding, Seqs
<1> HIDE DEF row, x
<1>9. GapFree' /\ EpochsInOrder' /\ LedgerOK'
  BY <1>2, <1>3, <1>6, <1>7, NewRow
<1>10. AttemptOK(a)'
  <2>1. at'[a] = x /\ 0 <= clock /\ at[a].epoch <= lease.epoch
    BY <1>1, <1>7, LeaseTyped, NumberAssumption DEF AttemptOK
  <2> QED  BY <1>7, <1>8, <2>1 DEF AttemptOK
<1>11. ASSUME NEW b \in Attempts, b # a PROVE AttemptOK(b)'
  <2>1. at'[b] = at[b]
    BY <1>1, <1>7, <1>11
  <2> QED  BY <1>2, <1>3, <1>7, <2>1, OthersAppend
<1>12. TypeOK'
  BY <1>1, <1>2, <1>7, <1>8 DEF Invariant, TypeOK
<1>13. LeaseOK' /\ EpochWonOnce' /\ SupOK'
  BY <1>7 DEF Invariant, LeaseOK, EpochWonOnce, SupOK, Row, Reached
<1> QED  BY <1>9, <1>10, <1>11, <1>12, <1>13 DEF Invariant

LEMMA AppendLockedStep ==
    ASSUME Invariant, NEW a \in Attempts, AppendLocked(a)
    PROVE  Invariant'
<1> DEFINE row == Event(Top + 1, at[a].epoch, a, "locked")
<1>1. at[a] \in AttemptType /\ ledger \subseteq EventType /\ lease.epoch = at[a].epoch /\ LedgerOK
  BY DEF Invariant, TypeOK, AppendLocked, Owns
<1>2. Top \in Seqs /\ IsTop(Top) /\ Reached(Top + 1)
  BY TopIsLast
<1>3. Top + 1 \in Seqs /\ Top + 1 >= 1 /\ Top \in Int
  BY <1>2, NumberAssumption DEF AppendLocked, Seqs
<1>4. Free(Top + 1)
  <2>1. \A r \in ledger : r.seq \in Int /\ r.seq <= Top
    BY <1>1, <1>2, NumberAssumption DEF IsTop, EventType, Seqs
  <2> QED  BY <1>3, <2>1 DEF Free
<1>5. row \in EventType /\ row.seq = Top + 1 /\ row.epoch = at[a].epoch /\ row.by = a
  <2>1. at[a].epoch \in Nat /\ a \in Attempts \cup {Supervisor} 
    BY <1>1 DEF AttemptType
  <2> QED  BY <1>3, <2>1, EventTyped
<1>6. row.epoch <= lease.epoch /\ \A r \in ledger : r.epoch <= row.epoch
  BY <1>1, <1>5, LeaseTyped DEF LedgerOK
<1>7. ledger' = ledger \cup {row} /\ UNCHANGED <<clock, lease, at, sup, cancelled, wins>>
  BY DEF AppendLocked
<1> HIDE DEF row
<1>8. row.seq >= 1 /\ Reached(row.seq) /\ Free(row.seq)
  BY <1>2, <1>3, <1>4, <1>5
<1>9. GapFree' /\ EpochsInOrder' /\ LedgerOK'
  BY <1>5, <1>6, <1>7, <1>8, NewRow
<1>10. ASSUME NEW b \in Attempts PROVE AttemptOK(b)'
  <2>1. at'[b] = at[b]
    BY <1>7
  <2> QED  BY <1>5, <1>7, <1>8, <2>1, OthersAppend
<1>11. TypeOK'
  BY <1>1, <1>5, <1>7 DEF Invariant, TypeOK
<1>12. LeaseOK' /\ EpochWonOnce' /\ SupOK'
  BY <1>7 DEF Invariant, LeaseOK, EpochWonOnce, SupOK, Row, Reached
<1> QED  BY <1>9, <1>10, <1>11, <1>12 DEF Invariant

LEMMA SupAppendStep ==
    ASSUME Invariant, SupAppend
    PROVE  Invariant'
<1> DEFINE row == Event(sup.seq, sup.epoch, Supervisor, "plain")
<1>1. sup \in SupType /\ SupOK /\ sup.pc = "append" /\ ledger \subseteq EventType
  BY DEF Invariant, TypeOK, SupAppend
<1>2. row \in EventType /\ row.seq = sup.seq /\ row.epoch = sup.epoch /\ row.by = Supervisor
  BY <1>1 DEF Event, EventType, SupType
<1>3. row.seq >= 1 /\ Reached(row.seq) /\ Free(row.seq) /\ row.epoch <= lease.epoch
  BY <1>1, <1>2 DEF SupOK, SupAppend
<1>4. ledger' = ledger \cup {row} /\ UNCHANGED <<clock, lease, at, cancelled, wins>>
  BY DEF SupAppend
<1>5. sup' \in SupType /\ SupOK'
  BY NumberAssumption DEF SupAppend, Over, Local, SupType, SupOK, Seqs
<1> HIDE DEF row
<1>6. GapFree' /\ EpochsInOrder' /\ LedgerOK'
  BY <1>2, <1>3, <1>4, NewRow
<1>7. ASSUME NEW b \in Attempts PROVE AttemptOK(b)'
  <2>1. at'[b] = at[b]
    BY <1>4
  <2> QED  BY <1>2, <1>3, <1>4, <2>1, OthersAppend
<1>8. TypeOK'
  BY <1>1, <1>2, <1>4, <1>5 DEF Invariant, TypeOK
<1>9. LeaseOK' /\ EpochWonOnce'
  BY <1>4 DEF Invariant, LeaseOK, EpochWonOnce, Row
<1> QED  BY <1>5, <1>6, <1>7, <1>8, <1>9 DEF Invariant

-----------------------------------------------------------------------------
LEMMA Initially == Init => Invariant
<1> SUFFICES ASSUME Init PROVE Invariant
  OBVIOUS
<1>1. 0 \in 0..MaxClock /\ 0 \in Times /\ 0 \in Seqs /\ 0 \in Nat
  BY NumberAssumption DEF Times, Seqs
<1>2. lease \in LeaseType /\ sup \in SupType /\ at \in [Attempts -> AttemptType]
  BY <1>1 DEF Init, LeaseType, SupType, AttemptType, Idle, Local, PCs
<1>3. TypeOK
  BY <1>1, <1>2 DEF Init, TypeOK, EventType, WinType
<1>4. GapFree /\ EpochsInOrder /\ EpochWonOnce
  BY DEF Init, GapFree, EpochsInOrder, EpochWonOnce
<1>5. LeaseOK /\ SupOK
  BY DEF Init, LeaseOK, SupOK, Row, Idle, Local
<1>6. IsTop(0)
  BY DEF Init, IsTop
<1>7. LedgerOK
  BY <1>1, <1>6 DEF Init, LedgerOK
<1>8. \A a \in Attempts : AttemptOK(a)
  BY DEF Init, AttemptOK, Idle, Local, Holding
<1> QED  BY <1>3, <1>4, <1>5, <1>7, <1>8 DEF Invariant

LEMMA Inductive == Invariant /\ [Next]_vars => Invariant'
<1> SUFFICES ASSUME Invariant, [Next]_vars PROVE Invariant'
  OBVIOUS
<1>1. CASE Tick
  BY <1>1, TickStep
<1>2. CASE SupervisorNext
  BY <1>2, FenceStep, SupervisorReads, SupAppendStep DEF SupervisorNext
<1>3. ASSUME NEW a \in Attempts, AttemptNext(a) PROVE Invariant'
  <2>1. CASE Pick(a) \/ ReadLease(a) \/ Create(a) \/ CreateLost(a) \/ Reread(a) \/ Renew(a)
    BY <2>1, PickStep, ReadLeaseStep, CreateStep, CreateLostStep, RereadStep, RenewStep
  <2>2. CASE TakeOver(a) \/ TakeOverLost(a) \/ ReadWinner(a) \/ Refresh(a)
    BY <2>2, TakeOverStep, TakeOverLostStep, ReadWinnerStep, RefreshStep
  <2>3. CASE StartBeat(a) \/ Beat(a) \/ BeatFenced(a) \/ BeatBeside(a) \/ Stop(a)
    BY <2>3, StartBeatStep, BeatStep, BeatBesideStep, StopStep
  <2>4. CASE ReadSeq(a) \/ AssertEpoch(a) \/ Append(a) \/ Conflict(a) \/ AppendLocked(a)
    BY <2>4, ReadSeqStep, AssertEpochStep, AppendStep, StopStep, AppendLockedStep
  <2> QED  BY <1>3, <2>1, <2>2, <2>3, <2>4 DEF AttemptNext
<1>4. CASE UNCHANGED vars
  <2>1. /\ UNCHANGED <<at, ledger, wins>>
        /\ clock' \in 0..MaxClock /\ clock' >= clock /\ cancelled' \in BOOLEAN
        /\ lease' \in LeaseType /\ lease'.epoch >= lease.epoch /\ sup' \in SupType
    BY <1>4, LeaseTyped DEF vars, Invariant, TypeOK
  <2>2. (Row => Row') /\ LeaseOK' /\ SupOK'
    BY <1>4 DEF vars, Invariant, LeaseOK, SupOK, Row, Reached
  <2> QED  BY <2>1, <2>2, WorldStep
<1> QED  BY <1>1, <1>2, <1>3, <1>4 DEF Next

LEMMA Always == Spec => []Invariant
BY Initially, Inductive, PTL DEF Spec

(* Every column keeps the values its model declares, for any TTL, clock and ledger. *)
THEOREM LeaseTyping == Spec => []TypeOK
<1>1. Invariant => TypeOK
  BY DEF Invariant
<1> QED  BY <1>1, Always, PTL

(* The ledger has every sequence number up to its last and none twice, and an attempt's
   event is never behind an event of a later epoch: append_event's unique constraint,
   next_seq and the order next_seq, assert_epoch give both. *)
THEOREM LedgerOrdered == Spec => [](GapFree /\ EpochsInOrder)
<1>1. Invariant => GapFree /\ EpochsInOrder
  BY DEF Invariant
<1> QED  BY <1>1, Always, PTL

(* acquire_lease never gives one epoch to two acquirers. *)
THEOREM EpochsWonOnce == Spec => []EpochWonOnce
<1>1. Invariant => EpochWonOnce
  BY DEF Invariant
<1> QED  BY <1>1, Always, PTL

-----------------------------------------------------------------------------
\* what one step does to the lease row
LEMMA RowStep ==
    ASSUME Invariant, Next
    PROVE  lease'.epoch >= lease.epoch /\ ((Row /\ lease'.owner # lease.owner) => lease.expires <= clock)
<1> USE LeaseTyped
<1>1. CASE UNCHANGED lease
  BY <1>1
<1>2. CASE BumpEpoch
  <2>1. CASE Row
    <3>1. lease' = [owner |-> lease.owner, epoch |-> lease.epoch + 1, expires |-> lease.expires]
      BY <1>2, <2>1 DEF BumpEpoch, LeaseType
    <3> QED  BY <3>1
  <2>2. CASE ~Row
    BY <1>2, <2>2 DEF BumpEpoch
  <2> QED  BY <2>1, <2>2
<1>3. ASSUME NEW a \in Attempts, Create(a) PROVE lease.epoch = 0 /\ lease'.epoch = 0 /\ ~Row
  BY <1>3 DEF Create, Grant, Invariant, LeaseOK
<1>4. ASSUME NEW a \in Attempts, TakeOver(a)
      PROVE  lease'.epoch >= lease.epoch /\ lease.expires <= clock
  <2>1. lease'.epoch = lease.epoch + 1 /\ lease.expires <= at[a].now /\ at[a].now <= clock
    BY <1>4 DEF TakeOver, Grant
  <2>2. lease.expires \in Int /\ at[a].now \in Int
    BY NumberAssumption DEF LeaseType, Times, AttemptType
  <2> QED  BY <2>1, <2>2
<1>5. ASSUME NEW a \in Attempts, Renew(a) \/ Beat(a) \/ BeatBeside(a)
      PROVE  lease'.epoch = lease.epoch /\ lease'.owner = lease.owner
  BY <1>5 DEF Renew, Beat, BeatBeside, LeaseType
<1>6. CASE Tick \/ SupervisorNext
  BY <1>1, <1>2, <1>6 DEF Tick, SupervisorNext, RefundFences, SupervisorFences, SupEpoch, SupSeq,
                          SupAppend, SupRetry
<1>7. ASSUME NEW a \in Attempts, AttemptNext(a)
      PROVE  UNCHANGED lease \/ Create(a) \/ TakeOver(a) \/ Renew(a) \/ Beat(a) \/ BeatBeside(a)
  BY <1>7 DEF AttemptNext, Pick, ReadLease, CreateLost, Reread, TakeOverLost, ReadWinner, Refresh,
              StartBeat, BeatFenced, ReadSeq, AssertEpoch, Append, Conflict, AppendLocked, Stop
<1> QED  BY <1>1, <1>3, <1>4, <1>5, <1>6, <1>7 DEF Next

(* A live owner is never displaced and the fencing epoch never goes down, whatever
   acquire_lease, heartbeat, a refund and the supervisor do: takeovers alone change
   the owner, on the time they captured, which is never ahead of the clock. *)
THEOREM LiveOwnersKept == Spec => LiveOwnerKept
<1>1. Invariant /\ [Next]_vars
        => [/\ lease'.epoch >= lease.epoch
            /\ (Row /\ lease'.owner # lease.owner) => lease.expires <= clock]_vars
  BY RowStep
<1> QED  BY <1>1, Always, PTL DEF Spec, LiveOwnerKept

-----------------------------------------------------------------------------
(* A protocol-2 event written under the lease row's lock is its owner's: the lock is
   held from the check of owner, epoch and expiry to the commit. *)
THEOREM LockedWritersOwn == Spec => LockedWriterOwns
<1>1. ASSUME Next, NEW r \in ledger' \ ledger, r.write = "locked"
      PROVE  OwnerOf[r.by] = lease.owner /\ r.epoch = lease.epoch
  <2>1. ASSUME NEW a \in Attempts, AppendLocked(a)
        PROVE  OwnerOf[r.by] = lease.owner /\ r.epoch = lease.epoch
    BY <1>1, <2>1 DEF AppendLocked, Owns, Event
  <2>2. ASSUME NEW a \in Attempts, Append(a) PROVE FALSE
    BY <1>1, <2>2 DEF Append, Event
  <2>3. CASE SupAppend
    BY <1>1, <2>3 DEF SupAppend, Event
  <2>4. ASSUME NEW a \in Attempts, AttemptNext(a)
        PROVE  UNCHANGED ledger \/ AppendLocked(a) \/ Append(a)
    BY <2>4 DEF AttemptNext, Pick, ReadLease, Create, CreateLost, Reread, Renew, TakeOver, Grant,
                TakeOverLost, ReadWinner, Refresh, StartBeat, Beat, BeatFenced, BeatBeside, ReadSeq,
                AssertEpoch, Conflict, Stop
  <2>5. Tick \/ SupervisorNext => UNCHANGED ledger \/ SupAppend
    BY DEF Tick, SupervisorNext, RefundFences, SupervisorFences, SupEpoch, SupSeq, SupRetry
  <2> QED  BY <1>1, <2>1, <2>2, <2>3, <2>4, <2>5 DEF Next
<1>2. [Next]_vars => [\A r \in ledger' \ ledger :
                        r.write = "locked" => OwnerOf[r.by] = lease.owner /\ r.epoch = lease.epoch]_vars
  <2> SUFFICES ASSUME Next
               PROVE  \A r \in ledger' \ ledger :
                        r.write = "locked" => OwnerOf[r.by] = lease.owner /\ r.epoch = lease.epoch
    OBVIOUS
  <2> QED  BY <1>1
<1> QED  BY <1>2, PTL DEF Spec, LockedWriterOwns

-----------------------------------------------------------------------------
(* LabQueue.  Served is inductive.  That a run is still owed needs one more fact: a loop
   that is about to acknowledge its run knows it ended (Carries).  The semaphore is
   stated in the places of the loops: whoever is inside or on its way out is counted, and
   a turn moves one loop in or out as the counter does (Turns). *)

\* a loop with a run in hand; admitted; holding a slot
Carrying == {"claiming", "claimed", "reserving", "refused", "acquiring", "opening", "writing",
             "working", "failing", "ran", "error", "returning", "acking", "settling", "expiring",
             "recovering"}
Counted == Inside \cup {"refused"}
Places == Carrying \cup {"idle", "counting", "setting", "checking"}

\* a run's row is terminal, or its run has gone astray: for ever one of the two
Ended(r) == run[r] = "done" \/ r \in astray

\* What a runner's place says of the run it carries: it acknowledges an ended one only.
Carries(x) ==
    /\ x.pc \in Carrying => x.run \in Runs
    /\ x.pc \in {"ran", "acking"} => Ended(x.run)

\* entries of r in Redis
Copies(r) == pending[r] + processing[r]

QueueTypes ==
    /\ cap \in Nat \ {0} /\ slots \in Int /\ forgot \in BOOLEAN
    /\ run \in [Runs -> {"queued", "running", "done"}]
    /\ outbox \in [Runs -> [status : {"pending", "sent", "published", "dead"}, tries : Nat]]
    /\ pending \in [Runs -> Nat] /\ processing \in [Runs -> Nat]
    /\ runner \in [Runners -> RunnerType]

\* the semaphore, in the places of the loops
Amid(pcs) == {w \in Runners : runner[w].pc \in pcs}
Semaphore == forgot \/ (Cardinality(Amid(Inside)) <= cap /\ Cardinality(Amid(Counted)) <= slots)

\* the run of a task that is over has ended
Closed == \A r \in Runs : r \in over => Ended(r)

Served == /\ QueueTypes /\ (\A w \in Runners : Carries(runner[w])) /\ NothingLost /\ Closed
          /\ Semaphore

-----------------------------------------------------------------------------
(* The semaphore. *)

\* There are finitely many runners anywhere.
LEMMA AmidFinite ==
    ASSUME NEW pcs
    PROVE  IsFiniteSet(Amid(pcs)) /\ Cardinality(Amid(pcs)) \in Nat
<1>1. Amid(pcs) \subseteq Runners
  BY DEF Amid
<1> QED  BY <1>1, FS_Subset, FS_CardinalityType, QueueAssumption

\* One runner moves: the sets of runners gain or lose it.
LEMMA OneMoves ==
    ASSUME QueueTypes, NEW w \in Runners, NEW x \in RunnerType,
           runner' = [runner EXCEPT ![w] = x], NEW pcs
    PROVE  Amid(pcs)' = IF x.pc \in pcs THEN Amid(pcs) \cup {w} ELSE Amid(pcs) \ {w}
BY DEF QueueTypes, Amid

\* ... and their number changes by one at most.
LEMMA Sizes ==
    ASSUME QueueTypes, NEW w \in Runners, NEW x \in RunnerType,
           runner' = [runner EXCEPT ![w] = x], NEW pcs
    PROVE  LET n == Cardinality(Amid(pcs)) IN
           /\ runner[w].pc \in pcs /\ x.pc \in pcs => n' = n
           /\ runner[w].pc \notin pcs /\ x.pc \notin pcs => n' = n
           /\ runner[w].pc \notin pcs /\ x.pc \in pcs => n' = n + 1
           /\ runner[w].pc \in pcs /\ x.pc \notin pcs => n' = n - 1
<1>1. Amid(pcs)' = IF x.pc \in pcs THEN Amid(pcs) \cup {w} ELSE Amid(pcs) \ {w}
  BY OneMoves
<1>2. w \in Amid(pcs) <=> runner[w].pc \in pcs
  BY DEF Amid
<1>3. IsFiniteSet(Amid(pcs))
  BY AmidFinite
<1>4. CASE runner[w].pc \in pcs /\ x.pc \in pcs
  <2>1. Amid(pcs)' = Amid(pcs)
    BY <1>1, <1>2, <1>4
  <2> QED  BY <1>4, <2>1
<1>5. CASE runner[w].pc \notin pcs /\ x.pc \notin pcs
  <2>1. Amid(pcs)' = Amid(pcs)
    BY <1>1, <1>2, <1>5
  <2> QED  BY <1>5, <2>1
<1>6. CASE runner[w].pc \notin pcs /\ x.pc \in pcs
  BY <1>1, <1>2, <1>3, <1>6, FS_AddElement
<1>7. CASE runner[w].pc \in pcs /\ x.pc \notin pcs
  BY <1>1, <1>2, <1>3, <1>7, FS_RemoveElement
<1> QED  BY <1>4, <1>5, <1>6, <1>7

\* A runner goes to x: what it carries is told of x, and the counter follows it in and out.
Still(w, x) == /\ slots' = slots /\ forgot' = forgot
               /\ x.pc \in Counted => runner[w].pc \in Counted
               /\ x.pc \in Inside => runner[w].pc \in Inside
Enters(w, x) == /\ runner[w].pc \notin Counted /\ slots' = slots + 1 /\ forgot' = forgot
                /\ x.pc = IF slots' > cap THEN "refused" ELSE "acquiring"
Exits(w, x) == /\ runner[w].pc \in Counted /\ x.pc \notin Counted
               /\ slots' = slots - 1 /\ forgot' = forgot
Sets(w, x) == /\ runner[w].pc \notin Counted /\ x.pc \notin Counted /\ slots' \in Int
              /\ forgot' = (forgot \/ slots' < Cardinality(Amid(Counted)))

Turns(w, x) == /\ runner' = [runner EXCEPT ![w] = x] /\ cap' = cap
               /\ Still(w, x) \/ Enters(w, x) \/ Exits(w, x) \/ Sets(w, x)

\* A turn keeps the semaphore honest.
LEMMA Admits ==
    ASSUME QueueTypes, Semaphore, NEW w \in Runners, NEW x \in RunnerType, Turns(w, x)
    PROVE  Semaphore' /\ slots' \in Int /\ forgot' \in BOOLEAN
<1> DEFINE i == Cardinality(Amid(Inside))  c == Cardinality(Amid(Counted))
<1>1. /\ runner[w].pc \in Inside /\ x.pc \in Inside => i' = i
      /\ runner[w].pc \notin Inside /\ x.pc \notin Inside => i' = i
      /\ runner[w].pc \notin Inside /\ x.pc \in Inside => i' = i + 1
      /\ runner[w].pc \in Inside /\ x.pc \notin Inside => i' = i - 1
  BY Sizes DEF Turns
<1>2. /\ runner[w].pc \in Counted /\ x.pc \in Counted => c' = c
      /\ runner[w].pc \notin Counted /\ x.pc \notin Counted => c' = c
      /\ runner[w].pc \notin Counted /\ x.pc \in Counted => c' = c + 1
      /\ runner[w].pc \in Counted /\ x.pc \notin Counted => c' = c - 1
  BY Sizes DEF Turns
<1>3. i \in Nat /\ c \in Nat /\ i <= c
  <2>1. Amid(Inside) \subseteq Amid(Counted)
    BY DEF Amid, Counted
  <2> QED  BY <2>1, AmidFinite, FS_Subset
<1>4. Semaphore <=> forgot \/ (i <= cap /\ c <= slots)
  BY DEF Semaphore
<1>5. Semaphore' <=> forgot' \/ (i' <= cap' /\ c' <= slots')
  BY DEF Semaphore
<1>6. cap \in Nat /\ slots \in Int /\ cap' = cap
  BY DEF QueueTypes, Turns
<1>7. Inside \subseteq Counted
  BY DEF Counted
<1> HIDE DEF i, c
<1>8. CASE Still(w, x)
  BY <1>1, <1>2, <1>3, <1>4, <1>5, <1>6, <1>8 DEF Still, QueueTypes
<1>9. CASE Enters(w, x)
  <2>1. x.pc \in Counted /\ (x.pc \in Inside <=> slots' <= cap)
    BY <1>6, <1>9 DEF Enters, Counted, Inside
  <2>2. runner[w].pc \notin Inside
    BY <1>7, <1>9 DEF Enters
  <2>3. c' = c + 1 /\ i' = (IF slots' <= cap THEN i + 1 ELSE i)
    BY <1>1, <1>2, <1>9, <2>1, <2>2 DEF Enters
  <2> QED  BY <1>3, <1>4, <1>5, <1>6, <1>9, <2>3 DEF Enters, QueueTypes
<1>10. CASE Exits(w, x)
  BY <1>1, <1>2, <1>3, <1>4, <1>5, <1>6, <1>7, <1>10 DEF Exits, QueueTypes
<1>11. CASE Sets(w, x)
  <2>1. i' = i /\ c' = c
    BY <1>1, <1>2, <1>7, <1>11 DEF Sets
  <2>2. forgot' = (forgot \/ slots' < c)
    BY <1>11 DEF Sets, c
  <2>0. slots' \in Int /\ forgot \in BOOLEAN
    BY <1>11 DEF Sets, QueueTypes
  <2>3. ~forgot' => ~forgot /\ c <= slots'
    <3>1. ~forgot' => ~forgot /\ ~(slots' < c)
      BY <2>2, Zenon
    <3>2. ~(slots' < c) => c <= slots'
      BY <1>3, <2>0
    <3> QED  BY <3>1, <3>2
  <2>4. Semaphore'
    BY <1>4, <1>5, <1>6, <2>1, <2>3
  <2>5. forgot' \in BOOLEAN
    BY <2>2
  <2> QED  BY <1>11, <2>4, <2>5 DEF Sets
<1> QED  BY <1>8, <1>9, <1>10, <1>11 DEF Turns


-----------------------------------------------------------------------------
(* What each action does to the runner that takes it. *)

\* w goes to x: the same run in hand, another place.
Walked(w, x, pc) == /\ runner' = [runner EXCEPT ![w] = x]
                    /\ x \in RunnerType /\ x.pc = pc /\ x.run = runner[w].run

\* What the model's way to move a loop comes to.
LEMMA Walking ==
    ASSUME QueueTypes, NEW w \in Runners, NEW pc \in Places, Walks(w, pc)
    PROVE  \E x : Walked(w, x, pc)
<1>1. RunnerType = [pc : Places, run : Runs \cup {NoRun}, todo : SUBSET Runs, seen : Nat]
  <2>1. Places = {"idle", "claiming", "claimed", "reserving", "refused", "acquiring", "opening",
                  "writing", "working", "failing", "ran", "error", "returning", "acking", "settling",
                  "counting", "setting", "checking", "expiring", "recovering"}
    BY DEF Places, Carrying
  <2> QED  BY <2>1 DEF RunnerType
<1>2. PICK h \in RunnerType : h = runner[w]
  BY DEF QueueTypes
<1>3. /\ [h EXCEPT !.pc = pc] \in RunnerType /\ [h EXCEPT !.pc = pc].pc = pc
      /\ [h EXCEPT !.pc = pc].run = h.run
  BY <1>1
<1> QED  BY <1>2, <1>3 DEF Walked, Walks, Goes

\* A turn of w that its new place agrees with.
Turn(w) == \E x \in RunnerType : Turns(w, x) /\ Carries(x)'

\* A loop that carries nothing afterwards has no claim to check.
LEMMA Empty ==
    ASSUME QueueTypes, NEW w \in Runners, NEW x \in RunnerType, x.pc \notin Carrying,
           runner' = [runner EXCEPT ![w] = x], UNCHANGED <<cap, slots, forgot>>
    PROVE  Turn(w)
<1>1. x.pc \notin Counted /\ x.pc \notin {"ran", "acking"}
  BY DEF Carrying, Counted, Inside
<1> QED  BY <1>1 DEF Turn, Turns, Still, Counted, Carries

\* The records of loops that begin something.
LEMMA Blank ==
    ASSUME NEW pc \in Places, NEW r \in Runs \cup {NoRun}, NEW todo \in SUBSET Runs,
           NEW n \in Nat
    PROVE  /\ At(pc, r, todo, n) \in RunnerType
           /\ At(pc, r, todo, n).pc = pc /\ At(pc, r, todo, n).run = r
BY DEF At, RunnerType, Places, Carrying

\* ... and of those that rest or start up.
LEMMA Resting ==
    /\ Waiting \in RunnerType /\ Waiting.pc = "idle"
    /\ Startup \in RunnerType /\ Startup.pc = "counting"
BY DEF At, Waiting, Startup, RunnerType

\* The list read, the reconciler goes on or is done.
LEMMA Looking ==
    ASSUME QueueTypes, NEW w \in Runners, NEW rs \in SUBSET Runs, Checks(w, rs)
    PROVE  \E x \in RunnerType : runner' = [runner EXCEPT ![w] = x] /\ x.pc \in {"idle", "checking"}
<1>1. \A n \in Nat : /\ At("checking", NoRun, rs, n) \in RunnerType
                     /\ At("checking", NoRun, rs, n).pc = "checking"
  <2>1. TAKE n \in Nat
  <2>2. "checking" \in Places /\ NoRun \in Runs \cup {NoRun}
    BY DEF Places
  <2> QED  BY <2>1, <2>2, Blank
<1>2. Waiting \in RunnerType /\ Waiting.pc = "idle"
  BY Resting
<1>3. \/ runner' = [runner EXCEPT ![w] = Waiting]
      \/ runner' = [runner EXCEPT ![w] = At("checking", NoRun, rs, 0)]
  BY DEF Checks, Goes
<1> QED  BY <1>1, <1>2, <1>3

\* Steps after which the runner carries nothing.
LEMMA Unburdened ==
    ASSUME QueueTypes, NEW w \in Runners, Carries(runner[w]),
           \/ ClaimRefused(w) \/ Settle(w, Waiting) \/ Settle(w, Startup) \/ Count(w) \/ LookIdle(w)
           \/ (\E r \in Runs : Removed(w, r) \/ Retained(w, r))
           \/ Recover(w) \/ Crash(w) \/ LoopError(w)
    PROVE  Turn(w)
<1> DEFINE n == Cardinality({r \in Runs : run[r] = "running"})
<1>1. UNCHANGED <<cap, slots, forgot>>
  BY DEF ClaimRefused, Settle, Count, LookIdle, Removed, Retained, Recover, Crash,
         LoopError, InHand
<1>2. \A rs \in SUBSET Runs : Checks(w, rs) =>
        \E x \in RunnerType : runner' = [runner EXCEPT ![w] = x] /\ x.pc \in {"idle", "checking"}
  BY Looking
<1>3. n \in Nat
  BY FS_Subset, FS_CardinalityType, QueueAssumption
<1>4. \E x \in RunnerType : runner' = [runner EXCEPT ![w] = x] /\ x.pc \notin Carrying
  <2>1. CASE ClaimRefused(w) \/ Settle(w, Waiting) \/ Settle(w, Startup) \/ Crash(w) \/ LoopError(w)
    <3>1. runner' = [runner EXCEPT ![w] = Waiting] \/ runner' = [runner EXCEPT ![w] = Startup]
      BY <2>1 DEF ClaimRefused, Settle, Crash, LoopError, Goes
    <3>2. /\ Waiting \in RunnerType /\ Waiting.pc = "idle"
          /\ Startup \in RunnerType /\ Startup.pc = "counting"
      BY Resting
    <3> QED  BY <3>1, <3>2 DEF Carrying
  <2>2. CASE Count(w)
    <3>1. runner' = [runner EXCEPT ![w] = At("setting", NoRun, {}, n)]
      BY <2>2 DEF Count, Goes
    <3>2. /\ At("setting", NoRun, {}, n) \in RunnerType
          /\ At("setting", NoRun, {}, n).pc = "setting"
      <4>1. PICK k \in Nat : k = n
        BY <1>3
      <4>2. "setting" \in Places /\ {} \in SUBSET Runs
        BY DEF Places
      <4>3. /\ At("setting", NoRun, {}, k) \in RunnerType
            /\ At("setting", NoRun, {}, k).pc = "setting"
        BY <4>2, Blank
      <4> QED  BY <4>1, <4>3
    <3> QED  BY <3>1, <3>2 DEF Carrying
  <2>3. CASE LookIdle(w)
    <3>1. Checks(w, Listed) /\ Listed \in SUBSET Runs
      BY <2>3 DEF LookIdle, Listed
    <3> QED  BY <1>2, <3>1 DEF Carrying
  <2>4. CASE \E r \in Runs : Removed(w, r) \/ Retained(w, r)
    <3>1. PICK r \in Runs : Checks(w, Left(w, r))
      BY <2>4 DEF Removed, Retained
    <3>2. Left(w, r) \in SUBSET Runs
      BY DEF Left, QueueTypes, RunnerType, Places, Carrying
    <3> QED  BY <1>2, <3>1, <3>2 DEF Carrying
  <2>5. CASE Recover(w)
    <3>1. Checks(w, runner[w].todo) /\ runner[w].todo \in SUBSET Runs
      BY <2>5 DEF Recover, QueueTypes, RunnerType, Places, Carrying
    <3> QED  BY <1>2, <3>1 DEF Carrying
  <2> QED  BY <2>1, <2>2, <2>3, <2>4, <2>5
<1> QED  BY <1>1, <1>4, Empty

\* The counter written anew, and whom it forgets.
LEMMA SetSlotsTurn ==
    ASSUME QueueTypes, NEW w \in Runners, SetSlots(w)
    PROVE  Turn(w)
<1>1. /\ runner[w].pc = "setting" /\ slots' = runner[w].seen /\ cap' = cap
      /\ forgot' = (forgot \/ runner[w].seen < Cardinality(Outstanding))
      /\ Checks(w, Listed) /\ Listed \in SUBSET Runs
  BY DEF SetSlots, In, Listed
<1>2. PICK x \in RunnerType : runner' = [runner EXCEPT ![w] = x] /\ x.pc \in {"idle", "checking"}
  BY <1>1, Looking
<1>3. Outstanding = Amid(Counted)
  BY DEF Outstanding, Holders, In, Amid, Counted, Inside
<1>4. forgot' = (forgot \/ slots' < Cardinality(Amid(Counted)))
  BY <1>1, <1>3
<1>5. runner[w].seen \in Int
  BY DEF QueueTypes, RunnerType, Places, Carrying
<1> QED  BY <1>1, <1>2, <1>4, <1>5 DEF Turn, Turns, Sets, Carries, Carrying, Counted, Inside

\* Steps in which a runner takes a run up and carries it on.
LEMMA CarriedOn ==
    ASSUME QueueTypes, NEW w \in Runners, Carries(runner[w]),
           \/ (\E r \in Runs : Dequeue(w, r) \/ Abandoned(w, r))
           \/ Claim(w) \/ Paused(w) \/ Peek(w) \/ Skipped(w) \/ Requeue(w) \/ Ack(w) \/ Expire(w)
    PROVE  Turn(w)
<1>1. UNCHANGED <<cap, slots, forgot, run, astray>>
  BY DEF Dequeue, Abandoned, Claim, Paused, Peek, Skipped, Requeue, Ack, Expire, InHand,
         rows, lists, aside
<1>2. ASSUME NEW x \in RunnerType, runner' = [runner EXCEPT ![w] = x], x.pc \notin Counted, Carries(x)
      PROVE  Turn(w)
  <2>1. Still(w, x) /\ Turns(w, x)
    BY <1>1, <1>2 DEF Turns, Still, Counted
  <2>2. Carries(x)'
    BY <1>1, <1>2 DEF Carries, Ended
  <2> QED  BY <2>1, <2>2 DEF Turn
<1>3. ASSUME NEW r \in Runs, NEW pc \in {"claiming", "expiring", "recovering"}, NEW todo \in SUBSET Runs,
             runner' = [runner EXCEPT ![w] = At(pc, r, todo, 0)]
      PROVE  Turn(w)
  <2>1. pc \in Places
    BY DEF Places, Carrying
  <2>2. /\ At(pc, r, todo, 0) \in RunnerType
        /\ At(pc, r, todo, 0).pc = pc /\ At(pc, r, todo, 0).run = r
    BY <2>1, Blank
  <2> QED  BY <1>2, <1>3, <2>2 DEF Carries, Counted, Inside
<1>4. CASE \E r \in Runs : Dequeue(w, r)
  <2>1. PICK r \in Runs : runner' = [runner EXCEPT ![w] = At("claiming", r, {}, 0)]
    BY <1>4 DEF Dequeue, Goes
  <2>2. {} \in SUBSET Runs /\ "claiming" \in {"claiming", "expiring", "recovering"}
    OBVIOUS
  <2> QED  BY <1>3, <2>1, <2>2
<1>5. CASE \E r \in Runs : Abandoned(w, r)
  <2>1. PICK r \in Runs, pc \in {"expiring", "recovering"} :
            runner' = [runner EXCEPT ![w] = At(pc, r, Left(w, r), 0)]
    BY <1>5 DEF Abandoned, Goes
  <2>2. Left(w, r) \in SUBSET Runs
    BY DEF Left, QueueTypes, RunnerType, Places, Carrying
  <2> QED  BY <1>3, <2>1, <2>2
<1>6. CASE Claim(w) \/ Peek(w)
  <2>1. PICK pc \in {"claimed", "reserving"} : Walks(w, pc) /\ runner[w].pc \in Carrying
    BY <1>6 DEF Claim, Peek, In, Carrying
  <2>2. pc \in Places
    BY DEF Places, Carrying
  <2>3. PICK x : Walked(w, x, pc)
    BY <2>1, <2>2, Walking
  <2> QED  BY <1>2, <2>1, <2>3 DEF Walked, Carries, Carrying, Counted, Inside
<1>7. CASE Paused(w) \/ Skipped(w)
  <2>1. PICK pc \in {"returning", "acking"} :
            /\ Walks(w, pc) /\ runner[w].pc = "claimed"
            /\ pc = "acking" => Ended(runner[w].run)
    BY <1>7 DEF Paused, Skipped, In, Mine, Ended
  <2>2. pc \in Places
    BY DEF Places, Carrying
  <2>3. PICK x : Walked(w, x, pc)
    BY <2>1, <2>2, Walking
  <2> QED  BY <1>2, <2>1, <2>3 DEF Walked, Carries, Carrying, Counted, Inside
<1>8. CASE Requeue(w) \/ Ack(w)
  <2>1. Walks(w, "settling") /\ runner[w].pc \in {"returning", "acking"}
    BY <1>8 DEF Requeue, Ack, In
  <2>2. "settling" \in Places
    BY DEF Places, Carrying
  <2>3. PICK x : Walked(w, x, "settling")
    BY <2>1, <2>2, Walking
  <2> QED  BY <1>2, <2>1, <2>3 DEF Walked, Carries, Carrying, Counted, Inside
<1>9. CASE Expire(w)
  <2>1. Walks(w, "recovering") /\ runner[w].pc = "expiring"
    BY <1>9 DEF Expire, In
  <2>2. "recovering" \in Places
    BY DEF Places, Carrying
  <2>3. PICK x : Walked(w, x, "recovering")
    BY <2>1, <2>2, Walking
  <2> QED  BY <1>2, <2>1, <2>3 DEF Walked, Carries, Carrying, Counted, Inside
<1> QED  BY <1>4, <1>5, <1>6, <1>7, <1>8, <1>9

\* The steps of the semaphore.
LEMMA SlotTurn ==
    ASSUME QueueTypes, NEW w \in Runners, Carries(runner[w]),
           Reserve(w) \/ Refused(w) \/ Release(w)
    PROVE  Turn(w)
<1>1. UNCHANGED <<cap, forgot, run, astray>>
  BY DEF Reserve, Refused, Release, InHand, rows, aside
<1>2. CASE Reserve(w)
  <2>1. PICK pc \in {"refused", "acquiring"} :
           /\ Walks(w, pc) /\ runner[w].pc = "reserving" /\ slots' = slots + 1
           /\ pc = IF slots' > cap THEN "refused" ELSE "acquiring"
    BY <1>2 DEF Reserve, In
  <2>2. pc \in Places
    BY DEF Places, Carrying
  <2>3. PICK x : Walked(w, x, pc)
    BY <2>1, <2>2, Walking
  <2>4. Turns(w, x)
    BY <1>1, <2>1, <2>3 DEF Walked, Turns, Enters, Counted, Inside
  <2>5. Carries(x)'
    BY <1>1, <2>1, <2>3 DEF Walked, Carries, Carrying
  <2> QED  BY <2>3, <2>4, <2>5 DEF Turn, Walked
<1>3. CASE Refused(w) \/ Release(w)
  <2>1. PICK pc \in {"returning", "acking"} :
           /\ Walks(w, pc) /\ runner[w].pc \in {"refused", "ran", "error"} /\ slots' = slots - 1
           /\ pc = "acking" => runner[w].pc = "ran"
    BY <1>3 DEF Refused, Release, In
  <2>2. pc \in Places
    BY DEF Places, Carrying
  <2>3. PICK x : Walked(w, x, pc)
    BY <2>1, <2>2, Walking
  <2>4. Turns(w, x)
    BY <1>1, <2>1, <2>3 DEF Walked, Turns, Exits, Counted, Inside
  <2>5. Carries(x)'
    BY <1>1, <2>1, <2>3 DEF Walked, Carries, Carrying, Ended
  <2> QED  BY <2>3, <2>4, <2>5 DEF Turn, Walked
<1> QED  BY <1>2, <1>3

\* The steps of the execution, inside the semaphore.
LEMMA ExecutionTurn ==
    ASSUME QueueTypes, Closed, NEW w \in Runners, Carries(runner[w]),
           \/ Acquire(w) \/ Open(w) \/ Begin(w) \/ Approved(w) \/ Finish(w) \/ Fails(w)
           \/ WriteFailed(w) \/ Swallowed(w) \/ Fenced(w) \/ Breaks(w)
    PROVE  Turn(w)
<1>1. /\ UNCHANGED <<cap, slots, forgot>>
      /\ runner[w].pc \in {"acquiring", "opening", "writing", "working", "failing"}
  BY DEF Acquire, Open, Begin, Approved, WritesRunning, Finish, Fails, WriteFailed, Swallowed,
         Fenced, Breaks, InHand, In
<1>2. PICK r \in Runs : r = runner[w].run
  BY <1>1 DEF Carries, Carrying
<1> DEFINE Inner == {"opening", "writing", "working", "failing", "error"}
<1>3. (\E pc \in Inner : Walks(w, pc)) \/ (Walks(w, "ran") /\ Ended(r)')
  <2>1. CASE Acquire(w) \/ Open(w)
    <3>1. run' = run /\ astray' = astray
      BY <2>1 DEF Acquire, Open, InHand, rows, aside
    <3>2. (\E pc \in Inner : Walks(w, pc)) \/ (Walks(w, "ran") /\ (run[r] = "done" \/ r \in over))
      <4>1. CASE Acquire(w)
        BY <1>2, <4>1 DEF Acquire, Mine
      <4>2. CASE Open(w)
        BY <1>2, <4>2 DEF Open, Mine
      <4> QED  BY <2>1, <4>1, <4>2
    <3>3. run[r] = "done" \/ r \in over => Ended(r)'
      BY <3>1 DEF Closed, Ended
    <3> QED  BY <3>2, <3>3
  <2>2. CASE Begin(w) \/ Approved(w)
    BY <2>2 DEF Begin, Approved, WritesRunning
  <2>3. CASE Finish(w) \/ WriteFailed(w)
    <3>1. Walks(w, "ran") /\ run' = [run EXCEPT ![r] = "done"]
      BY <1>2, <2>3 DEF Finish, WriteFailed, Mine
    <3> QED  BY <3>1 DEF Ended, QueueTypes
  <2>4. CASE Fails(w) \/ Fenced(w) \/ Breaks(w)
    BY <2>4 DEF Fails, Fenced, Breaks
  <2>5. CASE Swallowed(w)
    <3>1. /\ Walks(w, "ran") /\ run' = run
          /\ astray' = IF run[r] = "done" THEN astray ELSE astray \cup {r}
      BY <1>2, <2>5 DEF Swallowed, Mine, rows
    <3> QED  BY <3>1 DEF Ended
  <2> QED  BY <2>1, <2>2, <2>3, <2>4, <2>5
<1>4. ASSUME NEW pc \in Inner \cup {"ran"}, Walks(w, pc), pc = "ran" => Ended(r)'
      PROVE  Turn(w)
  <2>1. pc \in Places /\ pc \in Inside /\ pc \in Carrying /\ pc # "acking"
    BY DEF Places, Carrying, Inside
  <2>2. PICK x : Walked(w, x, pc)
    BY <1>4, <2>1, Walking
  <2>3. Turns(w, x)
    BY <1>1, <2>1, <2>2 DEF Walked, Turns, Still, Counted, Inside
  <2>4. Carries(x)'
    BY <1>2, <1>4, <2>1, <2>2 DEF Walked, Carries, Ended
  <2> QED  BY <2>2, <2>3, <2>4 DEF Turn, Walked
<1> QED  BY <1>3, <1>4


-----------------------------------------------------------------------------
(* What each action does to the rows and the lists. *)

\* NothingLost of one run
Owed(r) == \/ Ended(r)
           \/ outbox[r].status \in {"pending", "dead"}
           \/ Copies(r) > 0

RowTypes == /\ run \in [Runs -> {"queued", "running", "done"}]
            /\ outbox \in [Runs -> [status : {"pending", "sent", "published", "dead"}, tries : Nat]]
            /\ pending \in [Runs -> Nat] /\ processing \in [Runs -> Nat]

\* Whoever acts, an ended run stays ended and every other one is still owed; and the task
\* of a run is over only with the run.
Keeps == /\ RowTypes' /\ \A r \in Runs : (Ended(r) => Ended(r)') /\ (Owed(r) => Owed(r)')
         /\ \A r \in Runs : r \in over' => r \in over \/ Ended(r)'

\* The creator and the outbox.
LEMMA SendingKeeps ==
    ASSUME QueueTypes, NEW r \in Runs, Sends(r) PROVE Keeps
<1>1. RowTypes
  BY DEF QueueTypes, RowTypes
<1>2. CASE Enqueue(r)
  BY <1>1, <1>2 DEF Enqueue, rows, aside, Keeps, RowTypes, Ended, Owed, Copies
<1>3. CASE Publish(r)
  BY <1>1, <1>3 DEF Publish, OutboxRow, rows, aside, Keeps, RowTypes, Ended, Owed, Copies
<1>4. CASE PublishFails(r)
  BY <1>1, <1>4 DEF PublishFails, OutboxRow, rows, lists, aside, Keeps, RowTypes, Ended, Owed, Copies
<1>5. CASE Mark(r)
  BY <1>1, <1>5 DEF Mark, OutboxRow, rows, lists, aside, Keeps, RowTypes, Ended, Owed, Copies
<1>6. CASE MarkFails(r)
  BY <1>1, <1>6 DEF MarkFails, OutboxRow, rows, lists, aside, Keeps, RowTypes, Ended, Owed, Copies
<1> QED  BY <1>2, <1>3, <1>4, <1>5, <1>6 DEF Sends

\* The lists: a copy changes lists, one is put back, or those of an ended run go.
LEMMA ListsKeep ==
    ASSUME QueueTypes, UNCHANGED <<run, outbox, over, astray>>,
           \/ UNCHANGED <<pending, processing>>
           \/ (\E w \in Runners, r \in Runs : Dequeue(w, r))
           \/ (\E r \in Runs : PutBack(r))
           \/ (\E r \in Runs : /\ Ended(r) /\ pending' = pending
                              /\ processing' = [processing EXCEPT ![r] = 0])
    PROVE  Keeps
<1>1. RowTypes /\ UNCHANGED <<run, outbox, over, astray>>
  BY DEF QueueTypes, RowTypes
<1>2. CASE UNCHANGED <<pending, processing>>
  BY <1>1, <1>2 DEF Keeps, RowTypes, Ended, Owed, Copies
<1>3. ASSUME NEW w \in Runners, NEW r \in Runs, Dequeue(w, r) PROVE Keeps
  <2>1. /\ pending[r] > 0 /\ pending' = [pending EXCEPT ![r] = @ - 1]
        /\ processing' = [processing EXCEPT ![r] = @ + 1]
    BY <1>3 DEF Dequeue
  <2> QED  BY <1>1, <2>1 DEF Keeps, RowTypes, Ended, Owed, Copies
<1>4. ASSUME NEW r \in Runs, PutBack(r) PROVE Keeps
  BY <1>1, <1>4 DEF PutBack, Keeps, RowTypes, Ended, Owed, Copies
<1>5. ASSUME NEW r \in Runs, Ended(r), pending' = pending, processing' = [processing EXCEPT ![r] = 0]
      PROVE  Keeps
  BY <1>1, <1>5 DEF Keeps, RowTypes, Ended, Owed, Copies
<1> QED  BY <1>2, <1>3, <1>4, <1>5

\* the run is set running, astray if it had ended
Opened(r) == run' = [run EXCEPT ![r] = "running"] /\ (run[r] = "done" => r \in astray')

\* The row of a run: it is set running, astray if it had ended, or it ends.
LEMMA RunKeeps ==
    ASSUME QueueTypes, UNCHANGED <<outbox, pending, processing>>, astray \subseteq astray',
           \A r \in Runs : r \in over' => r \in over \/ Ended(r)',
           \/ run' = run
           \/ (\E r \in Runs : Opened(r))
           \/ (\E r \in Runs : run' = [run EXCEPT ![r] = "done"])
    PROVE  Keeps
<1>1. ASSUME NEW r \in Runs, NEW s \in {"running", "done"}, run' = [run EXCEPT ![r] = s],
             run[r] = "done" /\ s # "done" => r \in astray'
      PROVE  RowTypes' /\ \A q \in Runs : Ended(q) => Ended(q)'
  BY <1>1 DEF QueueTypes, RowTypes, Ended
<1>2. ASSUME run' = run
      PROVE  RowTypes' /\ \A q \in Runs : Ended(q) => Ended(q)'
  BY <1>2 DEF QueueTypes, RowTypes, Ended
<1>3. RowTypes' /\ \A q \in Runs : Ended(q) => Ended(q)'
  <2>1. CASE run' = run
    BY <1>2, <2>1
  <2>2. ASSUME NEW r \in Runs, Opened(r)
        PROVE  RowTypes' /\ \A q \in Runs : Ended(q) => Ended(q)'
    BY <1>1, <2>2 DEF Opened
  <2>3. CASE \E r \in Runs : run' = [run EXCEPT ![r] = "done"]
    BY <1>1, <2>3
  <2> QED  BY <2>1, <2>2, <2>3
<1> QED  BY <1>3 DEF Keeps, Owed, Copies

\* what happens to a run and is no step of a runner or of the sending
Outside(r) == \/ ClaimLapses(r) \/ LeaseLapses(r) \/ ControlFences(r) \/ ControlCancels(r)
              \/ SupervisorCancels(r) \/ TaskEnds(r)

\* Every step keeps what is owed.
LEMMA RowsKept ==
    ASSUME QueueTypes, \A w \in Runners : Carries(runner[w]), QueueNext PROVE Keeps
<1>1. ASSUME NEW w \in Runners,
             \/ Claim(w) \/ ClaimRefused(w) \/ Peek(w) \/ Skipped(w) \/ Reserve(w) \/ Refused(w)
             \/ Acquire(w) \/ Open(w) \/ Fails(w) \/ Fenced(w) \/ Release(w)
             \/ Settle(w, Waiting) \/ Settle(w, Startup)
             \/ Count(w) \/ SetSlots(w) \/ LookIdle(w)
             \/ (\E r \in Runs : Retained(w, r) \/ Abandoned(w, r))
             \/ Expire(w) \/ Paused(w) \/ Heartbeat(w) \/ Breaks(w) \/ Crash(w) \/ LoopError(w)
             \/ Late(w)
      PROVE  Keeps
  <2>1. UNCHANGED <<run, outbox, pending, processing, over, astray>>
    BY <1>1 DEF Claim, ClaimRefused, Peek, Skipped, Reserve, Refused, Acquire, Open, Fails, Fenced,
                Release, Settle, Count, SetSlots, LookIdle, Retained, Abandoned, Expire,
                Paused, Heartbeat, Breaks, Crash, LoopError, Late, InHand, rows, lists, sending,
                aside
  <2> QED  BY <2>1, ListsKeep
<1>2. ASSUME NEW w \in Runners, NEW r \in Runs, Dequeue(w, r) PROVE Keeps
  <2>1. UNCHANGED <<run, outbox, over, astray>>
    BY <1>2 DEF Dequeue, InHand, rows, sending, aside
  <2> QED  BY <1>2, <2>1, ListsKeep
<1>3. ASSUME NEW w \in Runners,
             Begin(w) \/ Approved(w) \/ Finish(w) \/ WriteFailed(w) \/ Swallowed(w)
      PROVE  Keeps
  <2>1. UNCHANGED <<outbox, pending, processing>>
    BY <1>3 DEF Begin, Approved, WritesRunning, Finish, WriteFailed, Swallowed, InHand, lists, sending
  <2>2. runner[w].run \in Runs
    BY <1>3 DEF Begin, Approved, WritesRunning, Finish, WriteFailed, Swallowed, In, Carries, Carrying
  <2>3. \/ run' = run
        \/ Opened(runner[w].run)
        \/ run' = [run EXCEPT ![runner[w].run] = "done"]
    BY <1>3 DEF Begin, Approved, WritesRunning, Strays, Opened, Finish, WriteFailed, Swallowed, Mine,
                rows
  <2>4. astray \subseteq astray'
    BY <1>3 DEF Begin, Approved, WritesRunning, Strays, Finish, WriteFailed, Swallowed, InHand, aside
  <2>5. \A r \in Runs : r \in over' => r \in over \/ Ended(r)'
    <3>1. CASE Finish(w)
      <4>1. over' = over \cup {runner[w].run} /\ run' = [run EXCEPT ![runner[w].run] = "done"]
        BY <3>1 DEF Finish, Mine
      <4>2. run'[runner[w].run] = "done"
        BY <2>2, <4>1 DEF QueueTypes
      <4> QED  BY <4>1, <4>2 DEF Ended
    <3>2. CASE ~Finish(w)
      BY <1>3, <3>2 DEF Begin, Approved, WritesRunning, WriteFailed, Swallowed, InHand, aside
    <3> QED  BY <3>1, <3>2
  <2> QED  BY <2>1, <2>2, <2>3, <2>4, <2>5, RunKeeps
<1>4. ASSUME NEW w \in Runners, Requeue(w) \/ Recover(w) PROVE Keeps
  <2>1. /\ UNCHANGED <<run, outbox, over, astray>> /\ PutBack(runner[w].run)
        /\ runner[w].run \in Runs
    BY <1>4 DEF Requeue, Recover, InHand, rows, sending, aside, Mine, In, Carries, Carrying
  <2> QED  BY <2>1, ListsKeep
<1>5. ASSUME NEW w \in Runners, Ack(w) PROVE Keeps
  <2>1. /\ UNCHANGED <<run, outbox, pending, over, astray>>
        /\ processing' = [processing EXCEPT ![runner[w].run] = 0] /\ runner[w].pc = "acking"
    BY <1>5 DEF Ack, InHand, rows, sending, aside, Mine, In
  <2>2. runner[w].run \in Runs /\ Ended(runner[w].run)
    BY <2>1 DEF Carries, Carrying
  <2> QED  BY <2>1, <2>2, ListsKeep
<1>6. ASSUME NEW w \in Runners, NEW r \in Runs, Removed(w, r) PROVE Keeps
  <2>1. /\ UNCHANGED <<run, outbox, pending, over, astray>>
        /\ processing' = [processing EXCEPT ![r] = 0] /\ Ended(r)
    BY <1>6 DEF Removed, InHand, sending, aside, Ended
  <2> QED  BY <2>1, ListsKeep
<1>7. ASSUME NEW r \in Runs, Outside(r) PROVE Keeps
  <2>1. /\ UNCHANGED <<outbox, pending, processing, astray>>
        /\ run' = run \/ run' = [run EXCEPT ![r] = "done"]
    BY <1>7 DEF Outside, ClaimLapses, LeaseLapses, ControlFences, ControlCancels, SupervisorCancels,
                TaskEnds, lists, sending, aside
  <2>2. over' = over \/ TaskEnds(r)
    BY <1>7 DEF Outside, ClaimLapses, LeaseLapses, ControlFences, ControlCancels, SupervisorCancels,
                aside
  <2>3. TaskEnds(r) => over' = over \cup {r} /\ run'[r] = "done"
    BY DEF TaskEnds, QueueTypes
  <2> QED  BY <2>1, <2>2, <2>3, RunKeeps DEF Ended
<1> QED  BY <1>1, <1>2, <1>3, <1>4, <1>5, <1>6, <1>7, SendingKeeps
  DEF QueueNext, Loop, Outside

-----------------------------------------------------------------------------
\* Every step of the system is a turn of one runner, or leaves runners and semaphore alone.
LEMMA OneTurns ==
    ASSUME QueueTypes, Closed, \A w \in Runners : Carries(runner[w]), QueueNext
    PROVE  (\E w \in Runners : Turn(w)) \/ UNCHANGED <<cap, slots, forgot, runner>>
<1>1. \A w \in Runners : Heartbeat(w) \/ Late(w) => UNCHANGED <<cap, slots, forgot, runner>>
  BY DEF Heartbeat, Late, InHand
<1>2. \A r \in Runs : Sends(r) \/ Outside(r) => UNCHANGED <<cap, slots, forgot, runner>>
  BY DEF Sends, Enqueue, Publish, PublishFails, Mark, MarkFails, Outside, ClaimLapses, LeaseLapses,
         ControlFences, ControlCancels, SupervisorCancels, TaskEnds
<1>3. ASSUME NEW w \in Runners,
             Loop(w) \/ Paused(w) \/ Approved(w) \/ Breaks(w) \/ Crash(w) \/ LoopError(w)
      PROVE  Turn(w)
  BY <1>3, Unburdened, SetSlotsTurn, CarriedOn, SlotTurn, ExecutionTurn DEF Loop
<1> QED  BY <1>1, <1>2, <1>3 DEF QueueNext, Outside

\* Served is inductive: the step, ...
LEMMA ServedStep == Served /\ [QueueNext]_queueVars => Served'
<1> SUFFICES ASSUME Served, [QueueNext]_queueVars PROVE Served'
  OBVIOUS
<1>1. /\ QueueTypes /\ (\A w \in Runners : Carries(runner[w])) /\ Semaphore /\ Closed
      /\ \A r \in Runs : Owed(r)
  BY DEF Served, NothingLost, Owed, Ended, Copies
<1>2. CASE UNCHANGED queueVars
  <2>1. UNCHANGED <<cap, run, outbox, pending, processing, slots, runner, over, astray, forgot>>
    BY <1>2 DEF queueVars, rows, lists, sending, aside
  <2>2. QueueTypes'
    BY <1>1, <2>1 DEF QueueTypes
  <2>3. \A w \in Runners : Carries(runner[w])'
    BY <1>1, <2>1 DEF Carries, Ended
  <2>4. Semaphore'
    BY <1>1, <2>1 DEF Semaphore, Amid
  <2>5. NothingLost'
    BY <2>1 DEF Served, NothingLost
  <2>6. Closed'
    BY <1>1, <2>1 DEF Closed, Ended
  <2> QED  BY <2>2, <2>3, <2>4, <2>5, <2>6 DEF Served
<1>3. CASE QueueNext
  <2>1. Keeps
    BY <1>1, <1>3, RowsKept
  <2>2. NothingLost'
    BY <1>1, <2>1 DEF Keeps, Owed, Ended, Copies, NothingLost
  <2>3. \A r \in Runs : Ended(r) => Ended(r)'
    BY <2>1 DEF Keeps
  <2>6. Closed'
    BY <1>1, <2>1, <2>3 DEF Keeps, Closed
  <2>4. ASSUME UNCHANGED <<cap, slots, forgot, runner>> PROVE Served'
    <3>1. QueueTypes'
      BY <1>1, <2>1, <2>4 DEF QueueTypes, Keeps, RowTypes
    <3>2. \A w \in Runners : Carries(runner[w])'
      BY <1>1, <2>3, <2>4 DEF Carries, Ended, Carrying
    <3>3. Semaphore'
      BY <1>1, <2>4 DEF Semaphore, Amid
    <3> QED  BY <2>2, <2>6, <3>1, <3>2, <3>3 DEF Served
  <2>5. ASSUME NEW w \in Runners, Turn(w) PROVE Served'
    <3>1. PICK x \in RunnerType : Turns(w, x) /\ Carries(x)'
      BY <2>5 DEF Turn
    <3>2. Semaphore' /\ slots' \in Int /\ forgot' \in BOOLEAN
      BY <1>1, <3>1, Admits
    <3>3. cap' = cap /\ runner' = [runner EXCEPT ![w] = x]
      BY <3>1 DEF Turns
    <3>4. QueueTypes'
      BY <1>1, <2>1, <3>2, <3>3 DEF QueueTypes, Keeps, RowTypes
    <3>5. \A v \in Runners : Carries(runner[v])'
      <4>1. TAKE v \in Runners
      <4>2. CASE v = w
        <5>1. runner'[v] = x
          BY <1>1, <3>3, <4>2 DEF QueueTypes
        <5> QED  BY <3>1, <5>1 DEF Carries, Ended
      <4>3. CASE v # w
        <5>1. runner'[v] = runner[v]
          BY <1>1, <3>3, <4>3 DEF QueueTypes
        <5> QED  BY <1>1, <2>3, <5>1 DEF Carries, Ended, Carrying
      <4> QED  BY <4>2, <4>3
    <3> QED  BY <2>2, <2>6, <3>2, <3>4, <3>5 DEF Served
  <2> QED  BY <1>1, <1>3, <2>4, <2>5, OneTurns
<1> QED  BY <1>2, <1>3

\* ... and the beginning.
LEMMA ServedInit == QueueInit => Served
<1> SUFFICES ASSUME QueueInit PROVE Served
  OBVIOUS
<1>1. Startup \in RunnerType /\ Startup.pc = "counting"
  BY Resting
<1>2. QueueTypes
  <2>0. cap \in Nat \ {0}
    BY QueueAssumption DEF QueueInit
  <2>1. slots \in Int /\ forgot \in BOOLEAN
    <3>1. slots = 0 /\ forgot = FALSE
      BY DEF QueueInit
    <3>2. slots \in Int
      BY <3>1
    <3>3. forgot \in BOOLEAN
      BY <3>1, Zenon
    <3> QED  BY <3>2, <3>3
  <2>2. RowTypes
    BY DEF QueueInit, RowTypes
  <2>3. runner \in [Runners -> RunnerType]
    BY <1>1 DEF QueueInit
  <2> QED  BY <2>0, <2>1, <2>2, <2>3 DEF QueueTypes, RowTypes
<1>3. \A w \in Runners : Carries(runner[w])
  BY <1>1 DEF QueueInit, Carries, Carrying
<1>4. NothingLost
  BY DEF QueueInit, NothingLost
<1>5. Amid(Inside) = {} /\ Amid(Counted) = {}
  BY <1>1 DEF QueueInit, Amid, Inside, Counted
<1>6. Semaphore
  BY <1>2, <1>5, FS_EmptySet DEF Semaphore, QueueInit, QueueTypes
<1>7. Closed
  BY DEF QueueInit, Closed
<1> QED  BY <1>2, <1>3, <1>4, <1>6, <1>7 DEF Served

\* So it always holds.
LEMMA AlwaysServed == QueueSpec => []Served
<1>1. QueueInit => Served
  BY ServedInit
<1>2. Served /\ [QueueNext]_queueVars => Served'
  BY ServedStep
<1> QED  BY <1>1, <1>2, PTL DEF QueueSpec

(* Whoever dies between whichever steps of queue.py, runner.py, control_plane.py and the
   outbox, however many runners and runs there are: a run that has not ended is still to
   be sent or has an entry in Redis, unless the outbox gave it up or it went astray:
   acknowledged for an owner whose StaleEpoch _fail swallowed, or written running again
   after it had ended. *)
THEOREM RunsOwed == QueueSpec => []NothingLost
<1>1. Served => NothingLost
  BY DEF Served
<1> QED  BY <1>1, AlwaysServed, PTL

(* concurrency.py admits no more runners than its cap and counts every one inside, for
   any cap, runners and faults, as long as no reconcile overwrote a reservation. *)
THEOREM CapKept == QueueSpec => []NeverOverAdmits
<1>1. Served => NeverOverAdmits
  <2>1. Holders = Amid(Inside) /\ Outstanding = Amid(Counted)
    BY DEF Holders, Outstanding, In, Amid, Inside, Counted
  <2> QED  BY <2>1 DEF Served, Semaphore, NeverOverAdmits
<1> QED  BY <1>1, AlwaysServed, PTL
-----------------------------------------------------------------------------
(* The types, with the bounds: what is added to a list had room, and a row is published
   or retried only while tries are left. *)

Claims == [status : {"settled", "processing"}, owner : Runners \cup {NoOne}, live : BOOLEAN]
Leased == [owner : Runners \cup {NoOne}, live : BOOLEAN, current : BOOLEAN]
Affords(status, tries) ==
    tries <= MaxAttempts /\ (status \in {"pending", "sent"} => tries < MaxAttempts)
Fits == /\ \A r \in Runs : pending[r] + processing[r] <= MaxCopies
        /\ \A r \in Runs : Affords(outbox[r].status, outbox[r].tries)
Rest == /\ starting \subseteq Runs /\ spare \in [Events -> Nat]
        /\ over \subseteq Runs /\ stopped \subseteq Runs /\ astray \subseteq Runs
        /\ claim \in [Runs -> Claims] /\ leases \in [Runs -> Leased]

Loops(w) == \/ Loop(w) \/ Paused(w) \/ Heartbeat(w) \/ Approved(w) \/ Breaks(w) \/ Crash(w)
            \/ LoopError(w) \/ Late(w)

\* The budget is spent one by one.
LEMMA Spent ==
    ASSUME spare \in [Events -> Nat], spare' = spare \/ \E e \in Events : Spend(e)
    PROVE  spare' \in [Events -> Nat]
BY DEF Spend

\* A loop adds no entry that it does not remove.
LEMMA ListsFit ==
    ASSUME QueueTypes, Fits, NEW w \in Runners, Carries(runner[w]), Loops(w) PROVE Fits'
<1>1. outbox' = outbox
  BY DEF Loops, Loop, Dequeue, Claim, ClaimRefused, Peek, Skipped, Reserve, Refused, Acquire,
         Open, Begin, Approved, WritesRunning, Finish,
         Fails, WriteFailed, Swallowed, Fenced, Release, Requeue, Ack, Settle,
         Count, SetSlots, LookIdle, Removed, Retained, Abandoned, Expire, Recover, Paused,
         Heartbeat, Breaks, Crash, LoopError, Late, InHand, sending
<1>2. \/ UNCHANGED <<pending, processing>>
      \/ \E r \in Runs : Dequeue(w, r) \/ Removed(w, r)
      \/ Requeue(w) \/ Recover(w) \/ Ack(w)
  BY DEF Loops, Loop, Claim, ClaimRefused, Peek, Skipped, Reserve, Refused, Acquire,
         Open, Begin, Approved, WritesRunning, Finish,
         Fails, WriteFailed, Swallowed, Fenced, Release, Settle,
         Count, SetSlots, LookIdle, Retained, Abandoned, Expire, Paused,
         Heartbeat, Breaks, Crash, LoopError, Late, InHand, lists
<1>3. pending \in [Runs -> Nat] /\ processing \in [Runs -> Nat] /\ MaxCopies \in Nat \ {0}
  BY QueueAssumption DEF QueueTypes
<1>4. CASE UNCHANGED <<pending, processing>>
  BY <1>1, <1>4 DEF Fits
<1>5. ASSUME NEW r \in Runs, Dequeue(w, r) PROVE Fits'
  <2>1. pending' = [pending EXCEPT ![r] = @ - 1] /\ processing' = [processing EXCEPT ![r] = @ + 1]
    BY <1>5 DEF Dequeue
  <2> QED  BY <1>1, <1>3, <2>1 DEF Fits
<1>6. ASSUME NEW r \in Runs, Removed(w, r) PROVE Fits'
  <2>1. pending' = pending /\ processing' = [processing EXCEPT ![r] = 0]
    BY <1>6 DEF Removed
  <2> QED  BY <1>1, <1>3, <2>1 DEF Fits
<1>7. CASE Requeue(w) \/ Recover(w)
  <2>1. runner[w].run \in Runs /\ PutBack(runner[w].run)
    BY <1>7 DEF Requeue, Recover, Mine, In, Carries, Carrying
  <2> QED  BY <1>1, <1>3, <2>1 DEF Fits, PutBack
<1>8. CASE Ack(w)
  <2>1. pending' = pending /\ processing' = [processing EXCEPT ![runner[w].run] = 0]
    BY <1>8 DEF Ack, Mine
  <2>2. runner[w].run \in Runs
    BY <1>8 DEF Ack, In, Carries, Carrying
  <2> QED  BY <1>1, <1>3, <2>1, <2>2 DEF Fits
<1> QED  BY <1>2, <1>4, <1>5, <1>6, <1>7, <1>8

\* The creator and the outbox add one where there is room.
LEMMA SendingFits ==
    ASSUME QueueTypes, Fits, Rest, NEW r \in Runs, Sends(r) PROVE Fits' /\ Rest'
<1>1. /\ pending \in [Runs -> Nat] /\ processing \in [Runs -> Nat]
      /\ outbox \in [Runs -> [status : {"pending", "sent", "published", "dead"}, tries : Nat]]
      /\ MaxAttempts \in Nat \ {0} /\ MaxCopies \in Nat
  BY QueueAssumption DEF QueueTypes, Rest
<1>2. UNCHANGED <<claim, leases, over, stopped, astray>>
  BY DEF Sends, Enqueue, Publish, PublishFails, Mark, MarkFails, rows, aside
<1>3. starting' \subseteq starting
  BY DEF Sends, Enqueue, Publish, PublishFails, Mark, MarkFails
<1>4. spare' \in [Events -> Nat]
  <2>1. spare' = spare \/ \E e \in Events : Spend(e)
    BY DEF Sends, Enqueue, Publish, PublishFails, Mark, MarkFails, Events
  <2> QED  BY <2>1, Spent DEF Rest
<1>5. \A q \in Runs : (pending[q] + processing[q])' <= MaxCopies
  <2>1. /\ processing' = processing
        /\ \/ pending' = pending
           \/ pending' = [pending EXCEPT ![r] = @ + 1] /\ pending[r] + processing[r] < MaxCopies
    BY DEF Sends, Enqueue, Publish, PublishFails, Mark, MarkFails, lists, Room
  <2> QED  BY <1>1, <2>1 DEF Fits
<1>6. \A q \in Runs : Affords(outbox'[q].status, outbox'[q].tries)
  <2>1. \A q \in Runs : outbox[q].tries \in Nat /\ Affords(outbox[q].status, outbox[q].tries)
    BY <1>1 DEF Fits
  <2>2. \/ outbox' = outbox
        \/ \E status, tries : OutboxRow(r, status, tries) /\ Affords(status, tries)
    <3>1. CASE Enqueue(r)
      BY <3>1 DEF Enqueue
    <3>2. CASE Publish(r) \/ Mark(r) \/ MarkFails(r)
      <4>1. PICK status : /\ OutboxRow(r, status, outbox[r].tries)
                          /\ outbox[r].status \in {"pending", "sent"}
        BY <3>2 DEF Publish, Mark, MarkFails
      <4>2. Affords(status, outbox[r].tries)
        BY <2>1, <4>1 DEF Affords
      <4> QED  BY <4>1, <4>2
    <3>3. CASE PublishFails(r)
      <4> DEFINE n == outbox[r].tries + 1
                 status == IF n >= MaxAttempts THEN "dead" ELSE "pending"
      <4>1. OutboxRow(r, status, n) /\ outbox[r].status = "pending"
        BY <3>3 DEF PublishFails
      <4>2. n <= MaxAttempts /\ n \in Nat
        BY <1>1, <2>1, <4>1 DEF Affords
      <4>3. Affords(status, n)
        <5> HIDE DEF n
        <5> QED  BY <1>1, <4>2 DEF Affords
      <4> QED  BY <4>1, <4>3
    <3> QED  BY <3>1, <3>2, <3>3 DEF Sends
  <2>3. ASSUME NEW status, NEW tries, OutboxRow(r, status, tries), Affords(status, tries),
               NEW q \in Runs
        PROVE  Affords(outbox'[q].status, outbox'[q].tries)
    <3>1. outbox'[q] = IF q = r THEN [status |-> status, tries |-> tries] ELSE outbox[q]
      BY <1>1, <2>3 DEF OutboxRow
    <3> QED  BY <2>1, <2>3, <3>1
  <2> QED  BY <2>1, <2>2, <2>3
<1>7. Fits'
  BY <1>5, <1>6 DEF Fits
<1>8. Rest'
  BY <1>2, <1>3, <1>4 DEF Rest
<1> QED  BY <1>7, <1>8

\* Of a dead process only its name goes.
LEMMA Orphaned ==
    ASSUME NEW w \in Runners, Rest
    PROVE  Orphan(claim, w) \in [Runs -> Claims] /\ Orphan(leases, w) \in [Runs -> Leased]
BY DEF Rest, Orphan, Claims, Leased

\* What an owner that is too late holds is live no longer.
LEMMA Expired ==
    ASSUME NEW w \in Runners, Rest
    PROVE  Lapsed(claim, w) \in [Runs -> Claims] /\ Lapsed(leases, w) \in [Runs -> Leased]
<1>1. claim \in [Runs -> Claims] /\ leases \in [Runs -> Leased]
  BY DEF Rest
<1>2. \A c \in Claims, b \in BOOLEAN : [c EXCEPT !.live = b] \in Claims
  BY DEF Claims
<1>3. \A l \in Leased, b \in BOOLEAN : [l EXCEPT !.live = b] \in Leased
  BY DEF Leased
<1>8. PICK q : q = runner[w].run
  OBVIOUS
<1> DEFINE c == claim[q]  l == leases[q]
<1>4. Lapsed(claim, w) = [claim EXCEPT ![q] = [c EXCEPT !.live = c.live /\ c.owner # w]]
  BY <1>1, <1>8 DEF Lapsed, Mine
<1>5. Lapsed(leases, w) = [leases EXCEPT ![q] = [l EXCEPT !.live = l.live /\ l.owner # w]]
  BY <1>1, <1>8 DEF Lapsed, Mine
<1>6. CASE q \in Runs
  <2>1. c \in Claims /\ l \in Leased
    BY <1>1, <1>6
  <2>2. (c.live /\ c.owner # w) \in BOOLEAN /\ (l.live /\ l.owner # w) \in BOOLEAN
    OBVIOUS
  <2>3. [c EXCEPT !.live = c.live /\ c.owner # w] \in Claims
    BY <1>2, <2>1, <2>2
  <2>4. [l EXCEPT !.live = l.live /\ l.owner # w] \in Leased
    BY <1>3, <2>1, <2>2
  <2>5. \A x \in Claims : [claim EXCEPT ![q] = x] \in [Runs -> Claims]
    BY <1>1
  <2>6. \A x \in Leased : [leases EXCEPT ![q] = x] \in [Runs -> Leased]
    BY <1>1
  <2> HIDE DEF c, l
  <2> QED  BY <1>4, <1>5, <2>3, <2>4, <2>5, <2>6
<1>7. CASE q \notin Runs
  BY <1>1, <1>4, <1>5, <1>7
<1> QED  BY <1>6, <1>7

\* A loop writes claims and leases of its own.
LEMMA LoopRests ==
    ASSUME QueueTypes, Rest, NEW w \in Runners, Carries(runner[w]), Loops(w) PROVE Rest'
<1>1. starting' = starting /\ stopped' = stopped
  BY DEF Loops, Loop, Dequeue, Claim, ClaimRefused, Peek, Skipped, Reserve, Refused, Acquire,
         Open, Begin, Approved, WritesRunning, Finish,
         Fails, WriteFailed, Swallowed, Fenced, Release, Requeue, Ack, Settle,
         Count, SetSlots, LookIdle, Removed, Retained, Abandoned, Expire, Recover, Paused,
         Heartbeat, Breaks, Crash, LoopError, Late,
         InHand, sending, aside
<1>2. spare' \in [Events -> Nat]
  <2>1. spare' = spare \/ \E e \in Events : Spend(e)
    BY DEF Loops, Loop, Dequeue, Claim, ClaimRefused, Peek, Skipped, Reserve, Refused, Acquire,
           Open, Begin, Approved, WritesRunning, Finish,
           Fails, WriteFailed, Swallowed, Fenced, Release, Requeue, Ack, Settle,
           Count, SetSlots, LookIdle, Removed, Retained, Abandoned, Expire, Recover, Paused,
           Heartbeat, Breaks, Crash, LoopError, Late,
           InHand, Events
  <2> QED  BY <2>1, Spent DEF Rest
<1>3. over' \subseteq over \cup {runner[w].run} /\ astray' \subseteq astray \cup {runner[w].run}
  BY DEF Loops, Loop, Dequeue, Claim, ClaimRefused, Peek, Skipped, Reserve, Refused, Acquire,
         Open, Begin, Approved, WritesRunning, Finish,
         Fails, WriteFailed, Swallowed, Fenced, Release, Requeue, Ack, Settle,
         Count, SetSlots, LookIdle, Removed, Retained, Abandoned, Expire, Recover, Paused,
         Heartbeat, Breaks, Crash, LoopError, Late,
         Strays, Mine, InHand, aside
<1>4. /\ over' = over /\ astray' = astray
      \/ runner[w].run \in Runs
  BY DEF Loops, Loop, Dequeue, Claim, ClaimRefused, Peek, Skipped, Reserve, Refused, Acquire,
         Open, Begin, Approved, WritesRunning, Finish,
         Fails, WriteFailed, Swallowed, Fenced, Release, Requeue, Ack, Settle,
         Count, SetSlots, LookIdle, Removed, Retained, Abandoned, Expire, Recover, Paused,
         Heartbeat, Breaks, Crash, LoopError, Late,
         InHand, aside, In, Carries, Carrying
<1>5. over' \subseteq Runs /\ astray' \subseteq Runs
  BY <1>3, <1>4 DEF Rest
<1>7. leases' = leases \/ Acquire(w) \/ leases' = Orphan(leases, w) \/ leases' = Lapsed(leases, w)
  BY DEF Loops, Loop, Dequeue, Claim, ClaimRefused, Peek, Skipped, Reserve, Refused,
         Open, Begin, Approved, WritesRunning, Finish,
         Fails, WriteFailed, Swallowed, Fenced, Release, Requeue, Ack, Settle,
         Count, SetSlots, LookIdle, Removed, Retained, Abandoned, Expire, Recover, Paused,
         Heartbeat, Breaks, Crash, LoopError, Late,
         InHand, rows
<1>8. leases' \in [Runs -> Leased]
  <2>1. ASSUME Acquire(w) PROVE leases' \in [Runs -> Leased]
    <3>1. \/ leases' = leases
          \/ leases' = [leases EXCEPT ![Mine(w)] = [owner |-> w, live |-> TRUE, current |-> TRUE]]
      BY <2>1 DEF Acquire
    <3>2. [owner |-> w, live |-> TRUE, current |-> TRUE] \in Leased
      BY DEF Leased
    <3> QED  BY <3>1, <3>2 DEF Rest
  <2> QED  BY <1>7, <2>1, Orphaned, Expired DEF Rest
<1>9. \/ claim' = claim
      \/ Claim(w) \/ Heartbeat(w)
      \/ \E r : claim' = [claim EXCEPT ![r] = Unclaimed]
      \/ claim' = Orphan(claim, w) \/ claim' = Lapsed(claim, w)
  BY DEF Loops, Loop, Dequeue, ClaimRefused, Peek, Skipped, Reserve, Refused, Acquire,
         Open, Begin, Approved, WritesRunning, Finish,
         Fails, WriteFailed, Swallowed, Fenced, Release, Requeue, Ack, Settle,
         Count, SetSlots, LookIdle, Removed, Retained, Abandoned, Expire, Recover, Paused,
         Breaks, Crash, LoopError, Late,
         InHand, rows
<1>6. claim' \in [Runs -> Claims]
  <2>0. claim \in [Runs -> Claims]
    BY DEF Rest
  <2>1. ASSUME Claim(w) PROVE claim' \in [Runs -> Claims]
    <3>1. [status |-> "processing", owner |-> w, live |-> TRUE] \in Claims
      BY DEF Claims
    <3>2. claim' = [claim EXCEPT ![Mine(w)] = [status |-> "processing", owner |-> w, live |-> TRUE]]
      BY <2>1 DEF Claim
    <3> QED  BY <2>0, <3>1, <3>2
  <2>2. Heartbeat(w) => claim' \in [Runs -> Claims]
    <3>1. \A c \in Claims : [c EXCEPT !.live = TRUE] \in Claims
      BY DEF Claims
    <3> QED  BY <2>0, <3>1 DEF Heartbeat
  <2>3. ASSUME NEW r, claim' = [claim EXCEPT ![r] = Unclaimed] PROVE claim' \in [Runs -> Claims]
    <3>1. Unclaimed \in Claims
      BY DEF Unclaimed, Claims
    <3> QED  BY <2>0, <2>3, <3>1
  <2> QED  BY <1>9, <2>0, <2>1, <2>2, <2>3, Orphaned, Expired
<1> QED  BY <1>1, <1>2, <1>5, <1>6, <1>8 DEF Rest

\* What happens to a run.
LEMMA OthersRest ==
    ASSUME Fits, Rest, NEW r \in Runs, Outside(r)
    PROVE  Fits' /\ Rest'
<1>1. /\ UNCHANGED <<starting, outbox, pending, processing, astray>>
      /\ over' \subseteq over \cup {r} /\ stopped' \subseteq stopped \cup {r}
  BY DEF Outside, ClaimLapses, LeaseLapses, ControlFences, ControlCancels, SupervisorCancels,
         TaskEnds, sending, lists, aside
<1>2. spare' \in [Events -> Nat]
  <2>1. spare' = spare \/ \E e \in Events : Spend(e)
    BY DEF Outside, ClaimLapses, LeaseLapses, ControlFences, ControlCancels, SupervisorCancels,
           TaskEnds, Events
  <2> QED  BY <2>1, Spent DEF Rest
<1>3. claim \in [Runs -> Claims] /\ leases \in [Runs -> Leased]
  BY DEF Rest
<1>4. claim' \in [Runs -> Claims]
  <2>1. claim' = claim \/ claim' = [claim EXCEPT ![r].live = FALSE]
    BY DEF Outside, ClaimLapses, LeaseLapses, ControlFences, ControlCancels, SupervisorCancels,
           TaskEnds
  <2>2. \A c \in Claims : [c EXCEPT !.live = FALSE] \in Claims
    BY DEF Claims
  <2> QED  BY <1>3, <2>1, <2>2
<1>5. leases' \in [Runs -> Leased]
  <2>1. leases' = leases \/ leases' = [leases EXCEPT ![r] = Unleased] \/ Fence(r, TRUE) \/ Fence(r, FALSE)
    BY DEF Outside, ClaimLapses, LeaseLapses, ControlFences, ControlCancels, SupervisorCancels,
           TaskEnds
  <2>2. Unleased \in Leased
    BY DEF Unleased, Leased
  <2>3. \A l \in Leased, b \in BOOLEAN : [l EXCEPT !.current = FALSE, !.live = b] \in Leased
    BY DEF Leased
  <2>4. ASSUME NEW b \in BOOLEAN, Fence(r, b) PROVE leases' \in [Runs -> Leased]
    <3>1. PICK l \in Leased : l = leases[r]
      BY <1>3
    <3>2. leases' = [leases EXCEPT ![r] = [l EXCEPT !.current = FALSE, !.live = l.live /\ b]]
      BY <1>3, <2>4, <3>1 DEF Fence
    <3>3. (l.live /\ b) \in BOOLEAN
      OBVIOUS
    <3> QED  BY <1>3, <2>3, <3>2, <3>3
  <2> QED  BY <1>3, <2>1, <2>2, <2>4
<1>6. Fits'
  BY <1>1 DEF Fits
<1> QED  BY <1>1, <1>2, <1>4, <1>5, <1>6 DEF Rest

\* Together they are inductive.
LEMMA TypedStep ==
    Served /\ Fits /\ Rest /\ [QueueNext]_queueVars => Fits' /\ Rest'
<1> SUFFICES ASSUME Served, Fits, Rest, [QueueNext]_queueVars PROVE Fits' /\ Rest'
  OBVIOUS
<1>1. QueueTypes /\ (\A w \in Runners : Carries(runner[w]))
  BY DEF Served
<1>2. CASE UNCHANGED queueVars
  BY <1>2 DEF queueVars, rows, lists, sending, aside, Fits, Rest
<1>3. ASSUME NEW w \in Runners, Loops(w) PROVE Fits' /\ Rest'
  BY <1>1, <1>3, ListsFit, LoopRests
<1>4. ASSUME NEW r \in Runs, Sends(r) \/ Outside(r) PROVE Fits' /\ Rest'
  BY <1>1, <1>4, SendingFits, OthersRest
<1> QED  BY <1>2, <1>3, <1>4 DEF QueueNext, Loops, Outside

\* They hold at the beginning.
LEMMA TypedInit == QueueInit => Fits /\ Rest
<1> SUFFICES ASSUME QueueInit PROVE Fits /\ Rest
  OBVIOUS
<1>1. MaxCopies \in Nat /\ MaxAttempts \in Nat \ {0}
  BY QueueAssumption
<1>2. Fits
  BY <1>1 DEF QueueInit, Fits, Affords
<1>3. /\ starting \subseteq Runs /\ spare \in [Events -> Nat]
      /\ over \subseteq Runs /\ stopped \subseteq Runs /\ astray \subseteq Runs
  BY QueueAssumption DEF QueueInit
<1>4. claim \in [Runs -> Claims] /\ leases \in [Runs -> Leased]
  <2>1. claim = [r \in Runs |-> Unclaimed] /\ leases = [r \in Runs |-> Unleased]
    BY DEF QueueInit
  <2>2. Unclaimed \in Claims /\ Unleased \in Leased
    BY DEF Unclaimed, Unleased, Claims, Leased
  <2> QED  BY <2>1, <2>2
<1> QED  BY <1>2, <1>3, <1>4 DEF Rest

(* Rows, lists and loops keep their types, no run has more than MaxCopies entries and no
   outbox row more than MaxAttempts tries. *)
THEOREM QueueTyping == QueueSpec => []QueueTypeOK
<1>1. QueueInit => Fits /\ Rest
  BY TypedInit
<1>2. Served /\ Fits /\ Rest /\ [QueueNext]_queueVars => Fits' /\ Rest'
  BY TypedStep
<1>3. Served /\ Fits /\ Rest => QueueTypeOK
  <2> SUFFICES ASSUME Served, Fits, Rest PROVE QueueTypeOK
    OBVIOUS
  <2>1. QueueTypes /\ MaxCopies \in Nat /\ MaxAttempts \in Nat
    BY QueueAssumption DEF Served
  <2>2. \A r \in Runs : pending[r] \in 0..MaxCopies /\ processing[r] \in 0..MaxCopies
    BY <2>1 DEF QueueTypes, Fits
  <2>3. pending \in [Runs -> 0..MaxCopies] /\ processing \in [Runs -> 0..MaxCopies]
    BY <2>1, <2>2 DEF QueueTypes
  <2>4. outbox \in [Runs -> [status : {"pending", "sent", "published", "dead"},
                            tries : 0..MaxAttempts]]
    BY <2>1 DEF QueueTypes, Fits, Affords
  <2> QED  BY <2>1, <2>3, <2>4 DEF QueueTypes, Rest, Claims, Leased, QueueTypeOK
<1> QED  BY <1>1, <1>2, <1>3, AlwaysServed, PTL DEF QueueSpec
=============================================================================
