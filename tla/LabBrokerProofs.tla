-------------------------- MODULE LabBrokerProofs ---------------------------
(* What LabBroker guarantees of the tool calls of a run, for any intents, budget, takeovers
   and troubles: an effect is started once and only under a consumed approval, the counters
   add up, and what the runtime is told is what happened.

   Two kinds of knowledge carry the argument.  What every owner knows of the action it is
   executing, even one that was taken over (Bound): it was begun under the epoch it has,
   and nobody gives that back.  And what the owner that leads knows of the action it asks
   for (Sure): whoever else writes an existing row has been taken over, and is in
   hist.overtaken from then on. *)
EXTENDS LabBroker, FiniteSetTheorems, TLAPS

Asked(i) == i \in Asks => appr[i].used
Begun(i) == act[i].status \in Underway \cup Ended /\ Asked(i)

\* the truth of an outcome, by the job of the action's own epoch
Backed(i, e, outcome) ==
    /\ outcome = "succeeded" => job[i][e] = "succeeded"
    /\ outcome = "failed" => job[i][e] \in {"failed", "succeeded"}

\* what an owner that executes knows of its action, fenced or not
Bound(e) ==
    LET i == My(e) IN
    /\ owner[e].pc \in {"running", "settling", "parking"} => Begun(i) /\ act[i].epoch = e
    /\ At(e, "reconciling") => Begun(i)
    /\ owner[e].pc \in {"running", "settling", "parking", "reconciling"}
          => i \in hist.overtaken \/ act[i].status # "denied"
    /\ At(e, "settling") => owner[e].copy \in {"succeeded", "failed"} /\ Backed(i, e, owner[e].copy)

\* what the owner that leads knows, unless a fenced one wrote
Sure(e) ==
    LET i == My(e) IN
    Leads(e) /\ i \notin hist.overtaken =>
       /\ owner[e].pc \in {"ready", "denying", "claiming"}
             => act[i].status = "approved" /\ act[i].epoch = e
       /\ owner[e].pc \in {"waiting", "resolving"}
             => act[i].status \in {"waiting", "approved", "denied"} /\ act[i].epoch = e
       /\ owner[e].pc \in {"running", "settling", "parking"} => act[i].status = "executing"
       /\ At(e, "reconciling") => act[i].status \in Underway
       /\ At(e, "answering") /\ owner[e].copy \in Ended => act[i].status = owner[e].copy

\* an approval that was used stays so, and a job belongs to the epoch of its action
Licensed(i) ==
    /\ appr[i].used => /\ appr[i].decision \in {"approved", "expired"}
                       /\ act[i].status \in Underway \cup Ended
    /\ act[i].status \in Underway => Asked(i)
    /\ \A e \in Owners : job[i][e] # "none" => act[i].epoch = e /\ Begun(i)

\* what the row of the action says, and what the runtime was told, is so
Told(i) ==
    i \notin hist.overtaken =>
       /\ act[i].status = "denied" => \A e \in Owners : job[i][e] = "none"
       /\ Backed(i, act[i].epoch, act[i].status)
       /\ answer[i] # "none" => act[i].status = answer[i]

\* reserved until settled, settled once
Entry(i) ==
    /\ act[i].status = "none" => i \notin hist.held /\ hist.settled[i] = 0
    /\ act[i].status \in {"waiting", "approved"} \cup Underway => i \in hist.held /\ hist.settled[i] = 0
    /\ act[i].status \in {"succeeded", "failed"} => i \in hist.held /\ hist.settled[i] = 1
    /\ act[i].status = "denied" => hist.settled[i] = IF i \in hist.held THEN 1 ELSE 0

Unsettled == {i \in hist.held : hist.settled[i] = 0}
Succeeded == {i \in Intents : act[i].status = "succeeded"}
Books == hist.overtaken = {} => /\ \A i \in Intents : Entry(i)
                                /\ budget.reserved = Cardinality(Unsettled)
                                /\ budget.used = Cardinality(Succeeded)

Inductive == /\ TypeOK
             /\ \A e \in Owners : Bound(e) /\ Sure(e)
             /\ \A i \in Intents : Licensed(i) /\ Told(i)
             /\ Books

-----------------------------------------------------------------------------
(* The records *)

(* An owner that goes on keeps its intent and its copy. *)
LEMMA GoesOwner ==
    ASSUME TypeOK, NEW e \in Owners, NEW pc \in Places, Goes(e, pc)
    PROVE  /\ owner' \in [Owners -> OwnerType]
           /\ owner'[e].pc = pc /\ owner'[e].i = owner[e].i /\ owner'[e].copy = owner[e].copy
           /\ \A f \in Owners \ {e} : owner'[f] = owner[f]
  BY DEF TypeOK, Goes, OwnerType

(* ... or takes another copy with it. *)
LEMMA KeepsOwner ==
    ASSUME TypeOK, NEW e \in Owners, NEW pc \in Places, NEW c \in Statuses \cup {"late"}, Keeps(e, pc, c)
    PROVE  /\ owner' \in [Owners -> OwnerType]
           /\ owner'[e].pc = pc /\ owner'[e].i = owner[e].i /\ owner'[e].copy = c
           /\ \A f \in Owners \ {e} : owner'[f] = owner[f]
  BY DEF TypeOK, Keeps, OwnerType

(* What an owner reads in its columns. *)
LEMMA Rows ==
    ASSUME TypeOK, NEW e \in Owners
    PROVE  /\ owner[e].pc \in Places /\ My(e) \in Intents /\ owner[e].copy \in Statuses \cup {"late"}
           /\ act[My(e)] \in ActType /\ act[My(e)].status \in Statuses /\ act[My(e)].epoch \in Owners
           /\ appr[My(e)] \in ApprType
  BY DEF TypeOK, My, OwnerType, ActType

(* An action that exists is taken up where its status says. *)
LEMMA ThenPlace ==
    ASSUME NEW e \in Owners, NEW status \in Statuses \ {"none"}, NEW at \in Owners
    PROVE  LET pc == Then(e, status, at) IN
           \/ pc = "reconciling" /\ status \in Underway
           \/ pc = "recovering"
           \/ pc = "waiting" /\ status = "waiting" /\ at = e
           \/ pc = "ready" /\ status = "approved" /\ at = e
           \/ pc = "answering"
<1>1. CASE status \in Underway
  BY <1>1 DEF Then, Underway, Ended
<1>2. CASE status \notin Underway /\ at # e
  BY <1>2 DEF Then, Underway, Ended
<1>3. CASE status = "waiting" /\ at = e
  BY <1>3 DEF Then, Underway, Ended
<1>4. CASE status = "approved" /\ at = e
  BY <1>4 DEF Then, Underway, Ended
<1>5. CASE status \in Ended /\ at = e
  BY <1>5 DEF Then, Underway, Ended
<1> QED  BY <1>1, <1>2, <1>3, <1>4, <1>5 DEF Statuses

(* What EXCEPT makes of an approval, of the history and of the counters. *)
LEMMA Asking ==
    ASSUME NEW a \in ApprType, NEW e \in Owners
    PROVE  /\ [a EXCEPT !.decision = "pending", !.epoch = e] \in ApprType
           /\ [a EXCEPT !.decision = "pending", !.epoch = e].used = a.used
  BY DEF ApprType

LEMMA Reserved ==
    ASSUME NEW h \in HistType, NEW i \in Intents, NEW b \in [used : Nat, reserved : Nat]
    PROVE  /\ [h EXCEPT !.held = @ \cup {i}] \in HistType
           /\ [h EXCEPT !.held = @ \cup {i}].overtaken = h.overtaken
           /\ [b EXCEPT !.reserved = @ + 1] \in [used : Nat, reserved : Nat]
  BY DEF HistType

-----------------------------------------------------------------------------
(* Steps that write no row *)

Careless == {"away", "entering", "bound", "issuing", "idle", "asked", "refusing", "persisting",
             "recovering", "failing", "failed", "breaking", "left", "gone"}

\* the rows the invariant is about
rows == <<epoch, act, appr, budget, job, answer, hist>>

(* When no row changes, only the owner that moves must know where it is. *)
LEMMA Quiet ==
    ASSUME Inductive, NEW e \in Owners, UNCHANGED rows, owner' \in [Owners -> OwnerType],
           \A f \in Owners \ {e} : owner'[f] = owner[f],
           grants' \subseteq Owners, run' \in {"open", "failed"}, left' \in 0..MaxFaults,
           Bound(e)', Sure(e)'
    PROVE  Inductive'
<1>1. TypeOK'
  BY DEF Inductive, TypeOK, rows
<1>2. ASSUME NEW f \in Owners PROVE Bound(f)' /\ Sure(f)'
  <2>1. CASE f = e
    BY <2>1
  <2>2. CASE f # e
    BY <2>2 DEF Inductive, rows, Bound, Sure, At, My, Begun, Asked, Backed, Leads
  <2> QED  BY <2>1, <2>2
<1>3. ASSUME NEW i \in Intents PROVE Licensed(i)' /\ Told(i)'
  BY DEF Inductive, rows, Licensed, Told, Begun, Asked, Backed
<1>4. Books'
  BY DEF Inductive, rows, Books, Entry, Unsettled, Succeeded
<1> QED  BY <1>1, <1>2, <1>3, <1>4 DEF Inductive

(* Nothing is expected of an owner in most places. *)
LEMMA Leaving ==
    ASSUME Inductive, NEW e \in Owners, NEW pc \in Careless, UNCHANGED rows, Goes(e, pc),
           grants' \subseteq Owners, run' \in {"open", "failed"}, left' \in 0..MaxFaults
    PROVE  Inductive'
<1>1. TypeOK /\ pc \in Places
  BY DEF Inductive, Careless, Places
<1>2. /\ owner' \in [Owners -> OwnerType] /\ owner'[e].pc = pc
      /\ \A f \in Owners \ {e} : owner'[f] = owner[f]
  BY <1>1, GoesOwner
<1>3. Bound(e)' /\ Sure(e)'
  BY <1>2 DEF Bound, Sure, At, Careless
<1> QED  BY <1>2, <1>3, Quiet

(* An action that exists is taken up knowing what its row says. *)
LEMMA Holding ==
    ASSUME Inductive, NEW e \in Owners, act[My(e)].status # "none", Holds(e, My(e)), UNCHANGED rows,
           UNCHANGED <<grants, run, left>>
    PROVE  Inductive'
<1> DEFINE i == My(e)
           pc == Then(e, act[i].status, act[i].epoch)
<1>1. TypeOK /\ i \in Intents /\ act[i].status \in Statuses \ {"none"} /\ act[i].epoch \in Owners
  BY Rows DEF Inductive
<1>2. \/ pc = "reconciling" /\ act[i].status \in Underway
      \/ pc = "recovering"
      \/ pc = "waiting" /\ act[i].status = "waiting" /\ act[i].epoch = e
      \/ pc = "ready" /\ act[i].status = "approved" /\ act[i].epoch = e
      \/ pc = "answering"
  BY <1>1, ThenPlace
<1>3. pc \in Places
  BY <1>2 DEF Places
<1>4. /\ owner' \in [Owners -> OwnerType]
      /\ owner'[e].pc = pc /\ owner'[e].i = i /\ owner'[e].copy = act[i].status
      /\ \A f \in Owners \ {e} : owner'[f] = owner[f]
  <2>1. Keeps(e, pc, act[i].status)
    BY DEF Holds
  <2> QED  BY <1>1, <1>3, <2>1, KeepsOwner DEF My
<1>5. Licensed(i)
  BY <1>1 DEF Inductive
<1>6. Bound(e)'
  BY <1>2, <1>4, <1>5 DEF Bound, At, My, Begun, Asked, Licensed, rows, Underway
<1>7. Sure(e)'
  BY <1>2, <1>4 DEF Sure, At, My, Leads, rows
<1>8. grants' \subseteq Owners /\ run' \in {"open", "failed"} /\ left' \in 0..MaxFaults
  BY <1>1 DEF TypeOK
<1> QED  BY <1>4, <1>6, <1>7, <1>8, Quiet

-----------------------------------------------------------------------------
(* Steps that write the row of one action *)

\* What the writer of i's row, its approval and its job may do to the others' knowledge: a
\* begun action stays begun under its epoch, a job that ended stays as it ended, and the
\* other rows are left alone.
Careful(i) ==
    /\ \A k \in Intents \ {i} : act'[k] = act[k] /\ appr'[k] = appr[k] /\ job'[k] = job[k]
    /\ appr[i].used => appr'[i].used
    /\ Begun(i) => /\ act'[i].status \in Underway \cup Ended /\ act'[i].epoch = act[i].epoch
                   /\ act'[i].status = "denied" => act[i].status = "denied" \/ i \in hist'.overtaken
    /\ \A e \in Owners : job[i][e] \in {"succeeded", "failed"} => job'[i][e] = job[i][e]
    /\ hist.overtaken \subseteq hist'.overtaken /\ hist'.overtaken \subseteq hist.overtaken \cup {i}
    /\ epoch' = epoch

\* What it may do to the knowledge of the owner that leads: nothing, unless it decides
\* about the approval or is noted as overtaken.
Deferent(i) ==
    \/ i \in hist'.overtaken
    \/ act[i].status = "none"
    \/ act'[i] = act[i]
    \/ /\ act[i].status = "waiting" /\ act'[i].epoch = act[i].epoch
       /\ act'[i].status \in {"approved", "denied"}

(* Nobody else's knowledge is disturbed. *)
LEMMA OthersKnow ==
    ASSUME Inductive, NEW i \in Intents, Careful(i), NEW f \in Owners, owner'[f] = owner[f],
           Leads(f) => Deferent(i)
    PROVE  Bound(f)' /\ Sure(f)'
<1>1. Bound(f) /\ Sure(f) /\ My(f) \in Intents
  BY Rows DEF Inductive
<1>2. CASE My(f) # i
  BY <1>1, <1>2 DEF Careful, Bound, Sure, At, My, Begun, Asked, Backed, Leads
<1>3. CASE My(f) = i
  <2>1. Bound(f)'
    BY <1>1, <1>3 DEF Careful, Bound, At, My, Begun, Asked, Backed
  <2>2. Sure(f)'
    <3>1. CASE ~Leads(f) \/ i \in hist'.overtaken
      BY <1>3, <3>1 DEF Careful, Sure, My, Leads
    <3>2. CASE Leads(f) /\ i \notin hist'.overtaken
      BY <1>1, <1>3, <3>2 DEF Careful, Deferent, Sure, At, My, Leads, Underway, Ended
    <3> QED  BY <3>1, <3>2
  <2> QED  BY <2>1, <2>2
<1> QED  BY <1>2, <1>3

(* What is true of the other actions stays so. *)
LEMMA OtherRows ==
    ASSUME Inductive, NEW i \in Intents, Careful(i), \A k \in Intents \ {i} : answer'[k] = answer[k],
           NEW k \in Intents \ {i}
    PROVE  Licensed(k)' /\ Told(k)'
  BY DEF Inductive, Careful, Licensed, Told, Begun, Asked, Backed

(* An owner writes the row of one action. *)
LEMMA Writing ==
    ASSUME Inductive, NEW e \in Owners, NEW i \in Intents, Careful(i), UNCHANGED answer,
           Leads(e) \/ Deferent(i),
           \A f \in Owners \ {e} : owner'[f] = owner[f],
           TypeOK', Bound(e)', Sure(e)', Licensed(i)', Told(i)', Books'
    PROVE  Inductive'
<1>2. ASSUME NEW f \in Owners PROVE Bound(f)' /\ Sure(f)'
  <2>1. CASE f = e
    BY <2>1
  <2>2. CASE f # e
    <3>1. Leads(f) => Deferent(i)
      BY <2>2 DEF Leads
    <3> QED  BY <2>2, <3>1, OthersKnow
  <2> QED  BY <2>1, <2>2
<1>3. ASSUME NEW k \in Intents PROVE Licensed(k)' /\ Told(k)'
  <2>1. CASE k = i
    BY <2>1
  <2>2. CASE k # i
    BY <2>2, OtherRows
  <2> QED  BY <2>1, <2>2
<1> QED  BY <1>2, <1>3 DEF Inductive

(* What a decision, the clock or the executor writes. *)
LEMMA Happening ==
    ASSUME Inductive, NEW i \in Intents, Careful(i), UNCHANGED <<answer, owner>>, Deferent(i),
           TypeOK', Licensed(i)', Told(i)', Books'
    PROVE  Inductive'
<1>1. ASSUME NEW f \in Owners PROVE Bound(f)' /\ Sure(f)'
  BY OthersKnow
<1>2. ASSUME NEW k \in Intents PROVE Licensed(k)' /\ Told(k)'
  <2>1. CASE k = i
    BY <2>1
  <2>2. CASE k # i
    BY <2>2, OtherRows
  <2> QED  BY <2>1, <2>2
<1> QED  BY <1>1, <1>2 DEF Inductive

-----------------------------------------------------------------------------
(* The books *)

LEMMA SmallSets == ASSUME TypeOK PROVE IsFiniteSet(Unsettled) /\ IsFiniteSet(Succeeded)
<1>1. IsFiniteSet(Intents)
  BY BrokerAssumption, FS_Interval DEF Intents
<1>2. Unsettled \subseteq Intents /\ Succeeded \subseteq Intents
  BY DEF TypeOK, HistType, Unsettled, Succeeded
<1> QED  BY <1>1, <1>2, FS_Subset

(* A row that is written without a reservation or a settlement. *)
LEMMA BooksKept ==
    ASSUME Inductive, NEW i \in Intents, UNCHANGED budget, hist'.held = hist.held, hist'.settled = hist.settled,
           hist.overtaken \subseteq hist'.overtaken, act' \in [Intents -> ActType],
           \A k \in Intents \ {i} : act'[k] = act[k],
           hist'.overtaken = {} =>
              /\ act'[i].status = "succeeded" <=> act[i].status = "succeeded"
              /\ Entry(i)'
    PROVE  Books'
<1> SUFFICES ASSUME hist'.overtaken = {}
             PROVE  /\ \A k \in Intents : Entry(k)'
                    /\ Unsettled' = Unsettled /\ Succeeded' = Succeeded /\ Books
  BY DEF Books
<1>1. Books
  BY DEF Inductive
<1>2. ASSUME NEW k \in Intents PROVE Entry(k)'
  <2>1. CASE k = i
    BY <2>1
  <2>2. CASE k # i
    BY <1>1, <2>2 DEF Books, Entry
  <2> QED  BY <2>1, <2>2
<1>3. Unsettled' = Unsettled
  BY DEF Unsettled
<1>4. Succeeded' = Succeeded
  BY DEF Succeeded
<1> QED  BY <1>1, <1>2, <1>3, <1>4

(* A reservation for an action there was none of. *)
LEMMA BooksReserve ==
    ASSUME Inductive, NEW i \in Intents, act[i].status = "none",
           budget' = [budget EXCEPT !.reserved = @ + 1],
           hist' = [hist EXCEPT !.held = @ \cup {i}],
           \A k \in Intents \ {i} : act'[k] = act[k],
           act'[i].status \in {"waiting", "approved"}
    PROVE  Books'
<1>1. /\ hist'.held = hist.held \cup {i} /\ hist'.settled = hist.settled /\ hist'.overtaken = hist.overtaken
      /\ budget'.reserved = budget.reserved + 1 /\ budget'.used = budget.used
  BY DEF Inductive, TypeOK, HistType
<1> SUFFICES ASSUME hist.overtaken = {}
             PROVE  /\ \A k \in Intents : Entry(k)'
                    /\ budget'.reserved = Cardinality(Unsettled')
                    /\ budget'.used = Cardinality(Succeeded')
  BY <1>1 DEF Books
<1>2. /\ \A k \in Intents : Entry(k)
      /\ budget.reserved = Cardinality(Unsettled) /\ budget.used = Cardinality(Succeeded)
  BY DEF Inductive, Books
<1>3. \A k \in Intents : Entry(k)'
  BY <1>1, <1>2 DEF Entry, Underway, Ended
<1>4. i \notin Unsettled /\ Unsettled' = Unsettled \cup {i}
  BY <1>1, <1>2 DEF Entry, Unsettled
<1>5. Succeeded' = Succeeded
  BY DEF Succeeded
<1>6. Cardinality(Unsettled') = Cardinality(Unsettled) + 1
  BY <1>4, SmallSets, FS_AddElement DEF Inductive
<1> QED  BY <1>1, <1>2, <1>3, <1>5, <1>6

(* A settlement of an action that has a reservation: the clamp does nothing. *)
LEMMA BooksSettle ==
    ASSUME Inductive, NEW i \in Intents, NEW status \in Ended, NEW won \in BOOLEAN,
           NEW overtaken \in SUBSET Intents, Settle(i, won, overtaken), hist.overtaken \subseteq overtaken,
           overtaken = {} => act[i].status \in {"waiting", "approved"} \cup Underway,
           act' = [act EXCEPT ![i].status = status], won <=> status = "succeeded"
    PROVE  Books'
<1>1. /\ hist'.held = hist.held /\ hist'.settled = [hist.settled EXCEPT ![i] = @ + 1]
      /\ hist'.overtaken = overtaken /\ hist.settled \in [Intents -> Nat] /\ act \in [Intents -> ActType]
      /\ budget \in [used : Nat, reserved : Nat]
  BY DEF Settle, Inductive, TypeOK, HistType
<1> SUFFICES ASSUME overtaken = {}
             PROVE  /\ \A k \in Intents : Entry(k)'
                    /\ budget'.reserved = Cardinality(Unsettled')
                    /\ budget'.used = Cardinality(Succeeded')
  BY <1>1 DEF Books
<1>2. /\ \A k \in Intents : Entry(k)
      /\ budget.reserved = Cardinality(Unsettled) /\ budget.used = Cardinality(Succeeded)
  BY DEF Inductive, Books
<1>3. act[i].status \in {"waiting", "approved"} \cup Underway
  OBVIOUS
<1>4. act'[i].status = status /\ \A k \in Intents \ {i} : act'[k] = act[k]
  BY <1>1 DEF ActType
<1>5. ASSUME NEW k \in Intents PROVE Entry(k)'
  <2>1. CASE k = i
    BY <1>1, <1>2, <1>3, <1>4, <2>1 DEF Entry, Underway, Ended
  <2>2. CASE k # i
    BY <1>1, <1>2, <1>4, <2>2 DEF Entry
  <2> QED  BY <2>1, <2>2
<1>6. i \in Unsettled /\ Unsettled' = Unsettled \ {i}
  <2>1. i \in Unsettled
    BY <1>2, <1>3 DEF Entry, Unsettled
  <2>2. Unsettled' = Unsettled \ {i}
    BY <1>1, <2>1 DEF Unsettled, Inductive, TypeOK, HistType
  <2> QED  BY <2>1, <2>2
<1>7. Cardinality(Unsettled') = Cardinality(Unsettled) - 1 /\ budget.reserved > 0
  <2>1. Cardinality(Unsettled) \in Nat /\ Cardinality(Unsettled') \in Nat
        /\ Cardinality(Unsettled') = Cardinality(Unsettled) - 1
    BY <1>6, SmallSets, FS_RemoveElement, FS_CardinalityType, FS_Subset DEF Inductive
  <2> QED  BY <1>2, <2>1
<1>8. Cardinality(Succeeded') = Cardinality(Succeeded) + IF won THEN 1 ELSE 0
  <2>1. i \notin Succeeded
    BY <1>3 DEF Succeeded, Underway
  <2>2. Cardinality(Succeeded) \in Nat
    BY SmallSets, FS_CardinalityType DEF Inductive
  <2>3. CASE won
    <3>1. Succeeded' = Succeeded \cup {i}
      BY <1>4, <2>3 DEF Succeeded
    <3> QED  BY <2>1, <2>3, <3>1, SmallSets, FS_AddElement DEF Inductive
  <2>4. CASE ~won
    <3>1. Succeeded' = Succeeded
      BY <1>4, <2>1, <2>4 DEF Succeeded
    <3> QED  BY <2>2, <2>4, <3>1
  <2> QED  BY <2>3, <2>4
<1> QED  BY <1>1, <1>2, <1>5, <1>7, <1>8 DEF Settle

-----------------------------------------------------------------------------
(* Every step keeps the invariant. *)

LEMMA KeepsTakeOver == ASSUME Inductive, NEW e \in Owners, TakeOver(e) PROVE Inductive'
<1>1. /\ owner' \in [Owners -> OwnerType] /\ owner'[e].pc = "entering"
      /\ \A f \in Owners \ {e} : owner'[f] = owner[f]
  BY GoesOwner DEF TakeOver, Inductive, Places
<1>2. ASSUME NEW f \in Owners PROVE Bound(f)' /\ Sure(f)'
  <2>1. CASE f = e
    BY <1>1, <2>1 DEF Bound, Sure, At
  <2>2. CASE f # e
    <3>1. Bound(f) /\ owner'[f] = owner[f]
      BY <1>1, <2>2 DEF Inductive
    <3>2. Bound(f)'
      BY <3>1 DEF TakeOver, Bound, At, My, Begun, Asked, Backed
    <3>3. ~Leads(f)'
      BY <2>2 DEF TakeOver, Leads
    <3> QED  BY <3>2, <3>3 DEF Sure
  <2> QED  BY <2>1, <2>2
<1>3. ASSUME NEW i \in Intents PROVE Licensed(i)' /\ Told(i)'
  BY DEF Inductive, TakeOver, Licensed, Told, Begun, Asked, Backed
<1>4. Books'
  BY DEF Inductive, TakeOver, Books, Entry, Unsettled, Succeeded
<1>5. TypeOK'
  BY <1>1 DEF Inductive, TypeOK, TakeOver
<1> QED  BY <1>2, <1>3, <1>4, <1>5 DEF Inductive

(* From the lease to the next intent, and the end of an owner. *)
LEMMA KeepsComing ==
    ASSUME Inductive, NEW e \in Owners, Binds(e) \/ Revokes(e) \/ Issues(e) \/ Commits(e)
    PROVE  Inductive'
<1>0. TypeOK
  BY DEF Inductive
<1>1. CASE Binds(e)
  BY <1>0, <1>1, Leaving DEF Binds, rows, Careless, TypeOK
<1>2. CASE Revokes(e)
  BY <1>0, <1>2, Leaving DEF Revokes, rows, Careless, TypeOK
<1>3. CASE Issues(e)
  BY <1>0, <1>3, Leaving DEF Issues, rows, Careless, TypeOK
<1>4. CASE Commits(e)
  <2>1. PICK i \in Intents :
          owner' = [owner EXCEPT ![e] = [pc |-> IF Leads(e) THEN "asked" ELSE "gone", i |-> i, copy |-> "none"]]
    BY <1>4 DEF Commits
  <2>2. /\ owner' \in [Owners -> OwnerType] /\ owner'[e].pc \in {"asked", "gone"}
        /\ \A f \in Owners \ {e} : owner'[f] = owner[f]
    BY <1>0, <2>1 DEF TypeOK, OwnerType, Places, Statuses
  <2>3. Bound(e)' /\ Sure(e)'
    BY <2>2 DEF Bound, Sure, At
  <2> QED  BY <1>0, <1>4, <2>2, <2>3, Quiet DEF Commits, rows, TypeOK
<1> QED  BY <1>1, <1>2, <1>3, <1>4

LEMMA KeepsEnding ==
    ASSUME Inductive, NEW e \in Owners,
           \/ Fails(e) \/ FailsRun(e) \/ Breaks(e) \/ Reenters(e) \/ RunsOut(e)
           \/ Errs(e) \/ TimesOut(e) \/ Dies(e)
    PROVE  Inductive'
<1>0. TypeOK
  BY DEF Inductive
<1>1. CASE Fails(e)
  BY <1>0, <1>1, Leaving DEF Fails, rows, Careless, TypeOK
<1>2. CASE FailsRun(e)
  BY <1>0, <1>2, Leaving DEF FailsRun, rows, Careless, TypeOK
<1>3. CASE Breaks(e)
  BY <1>0, <1>3, Leaving DEF Breaks, rows, Careless, TypeOK
<1>4. CASE Reenters(e) \/ RunsOut(e)
  BY <1>0, <1>4, Leaving DEF Reenters, RunsOut, rows, Careless, TypeOK
<1>5. CASE Errs(e) \/ TimesOut(e) \/ Dies(e)
  <2>1. PICK pc \in {"breaking", "failing", "gone"} : Faulted(e, pc)
    BY <1>5 DEF Errs, TimesOut, Dies
  <2>2. left' \in 0..MaxFaults
    BY <1>0, <2>1, BrokerAssumption DEF Faulted, TypeOK
  <2> QED  BY <1>0, <2>1, <2>2, Leaving DEF Faulted, rows, Careless, TypeOK
<1> QED  BY <1>1, <1>2, <1>3, <1>4, <1>5

(* Asking. *)
LEMMA KeepsLooks == ASSUME Inductive, NEW e \in Owners, Looks(e) PROVE Inductive'
<1>0. TypeOK
  BY DEF Inductive
<1>1. CASE act[My(e)].status # "none"
  BY <1>1, Holding DEF Looks, rows
<1>2. CASE act[My(e)].status = "none"
  BY <1>0, <1>2, Leaving DEF Looks, rows, Careless, TypeOK
<1> QED  BY <1>1, <1>2

(* A row where there was none. *)
LEMMA Fresh ==
    ASSUME Inductive, NEW e \in Owners, NEW i \in Intents, act[i].status = "none",
           NEW status \in {"denied", "waiting", "approved"},
           act' = [act EXCEPT ![i] = [status |-> status, epoch |-> e]],
           \A k \in Intents \ {i} : appr'[k] = appr[k], appr'[i].used = appr[i].used,
           UNCHANGED <<epoch, job, answer>>, hist'.overtaken = hist.overtaken
    PROVE  /\ act' \in [Intents -> ActType] /\ act'[i].status = status /\ act'[i].epoch = e
           /\ \A k \in Intents \ {i} : act'[k] = act[k]
           /\ Careful(i) /\ Deferent(i)
           /\ Licensed(i)' /\ Told(i)'
<1>1. /\ act' \in [Intents -> ActType] /\ act'[i].status = status /\ act'[i].epoch = e
      /\ \A k \in Intents \ {i} : act'[k] = act[k]
  BY DEF Inductive, TypeOK, ActType, Statuses, Ended
<1>2. ~Begun(i) /\ Licensed(i) /\ Told(i)
  BY DEF Inductive, Begun, Underway, Ended
<1>3. ~appr[i].used /\ \A f \in Owners : job[i][f] = "none"
  BY <1>2 DEF Licensed, Underway, Ended
<1>4. Careful(i) /\ Deferent(i)
  BY <1>1, <1>2, <1>3 DEF Careful, Deferent
<1>5. Licensed(i)' /\ Told(i)'
  BY <1>1, <1>2, <1>3 DEF Licensed, Told, Backed, Asked, Underway, Ended, Inductive, TypeOK
<1> QED  BY <1>1, <1>4, <1>5

LEMMA KeepsRefuses == ASSUME Inductive, NEW e \in Owners, Refuses(e) PROVE Inductive'
<1>i. PICK i \in Intents : i = My(e)
  BY Rows DEF Inductive
<1>0. TypeOK
  BY DEF Inductive
<1>1. CASE act[i].status # "none"
  BY <1>i, <1>1, Holding DEF Refuses, rows
<1>2. CASE act[i].status = "none"
  <2>1. /\ act' = [act EXCEPT ![i] = [status |-> "denied", epoch |-> e]]
        /\ Keeps(e, "answering", "denied")
        /\ UNCHANGED <<epoch, grants, appr, budget, job, answer, run, hist, left>>
    BY <1>i, <1>2 DEF Refuses
  <2>2. /\ act' \in [Intents -> ActType] /\ act'[i].status = "denied"
        /\ \A k \in Intents \ {i} : act'[k] = act[k]
        /\ Careful(i) /\ Deferent(i) /\ Licensed(i)' /\ Told(i)'
    BY <1>0, <1>2, <2>1, Fresh
  <2>3. /\ owner' \in [Owners -> OwnerType]
        /\ owner'[e].pc = "answering" /\ owner'[e].i = i /\ owner'[e].copy = "denied"
        /\ \A f \in Owners \ {e} : owner'[f] = owner[f]
    BY <1>i, <1>0, <2>1, KeepsOwner DEF My, Places, Statuses, Ended
  <2>4. TypeOK'
    BY <1>0, <2>1, <2>2, <2>3 DEF TypeOK
  <2>5. Bound(e)' /\ Sure(e)'
    BY <2>2, <2>3 DEF Bound, Sure, At, My
  <2>6. Books'
    <3>1. hist.overtaken = {} => Entry(i)
      BY <1>0 DEF Inductive, Books
    <3> QED  BY <1>0, <1>2, <2>1, <2>2, <3>1, BooksKept DEF Entry, Underway, Ended
  <2> QED  BY <1>0, <2>1, <2>2, <2>3, <2>4, <2>5, <2>6, Writing
<1> QED  BY <1>1, <1>2

LEMMA KeepsExhausts == ASSUME Inductive, NEW e \in Owners, Exhausts(e) PROVE Inductive'
<1>i. PICK i \in Intents : i = My(e)
  BY Rows DEF Inductive
<1>0. TypeOK
  BY DEF Inductive
<1>1. /\ act[i].status = "none" /\ act' = [act EXCEPT ![i] = [status |-> "denied", epoch |-> e]]
      /\ Goes(e, "failing") /\ grants' = {}
      /\ UNCHANGED <<epoch, appr, budget, job, answer, run, hist, left>>
  BY <1>i DEF Exhausts
<1>2. /\ act' \in [Intents -> ActType] /\ act'[i].status = "denied"
      /\ \A k \in Intents \ {i} : act'[k] = act[k]
      /\ Careful(i) /\ Deferent(i) /\ Licensed(i)' /\ Told(i)'
  BY <1>0, <1>1, Fresh
<1>3. /\ owner' \in [Owners -> OwnerType] /\ owner'[e].pc = "failing"
      /\ \A f \in Owners \ {e} : owner'[f] = owner[f]
  BY <1>0, <1>1, GoesOwner DEF Places
<1>4. TypeOK'
  BY <1>0, <1>1, <1>2, <1>3 DEF TypeOK
<1>5. Bound(e)' /\ Sure(e)'
  BY <1>3 DEF Bound, Sure, At
<1>6. Books'
  <2>1. hist.overtaken = {} => Entry(i)
    BY <1>0 DEF Inductive, Books
  <2> QED  BY <1>0, <1>1, <1>2, <2>1, BooksKept DEF Entry, Underway, Ended
<1> QED  BY <1>0, <1>1, <1>2, <1>3, <1>4, <1>5, <1>6, Writing

LEMMA KeepsPersists == ASSUME Inductive, NEW e \in Owners, Persists(e) PROVE Inductive'
<1>i. PICK i \in Intents : i = My(e)
  BY Rows DEF Inductive
<1> DEFINE status == IF i \in Asks THEN "waiting" ELSE "approved"
<1>0. TypeOK
  BY DEF Inductive
<1>1. CASE act[i].status # "none"
  BY <1>i, <1>1, Holding DEF Persists, rows
<1>2. CASE act[i].status = "none"
  <2>1. /\ budget' = [budget EXCEPT !.reserved = @ + 1]
        /\ act' = [act EXCEPT ![i] = [status |-> status, epoch |-> e]]
        /\ appr' = IF i \in Asks THEN [appr EXCEPT ![i].decision = "pending", ![i].epoch = e] ELSE appr
        /\ Keeps(e, Then(e, status, e), status)
        /\ hist' = [hist EXCEPT !.held = @ \cup {i}]
        /\ UNCHANGED <<epoch, grants, job, answer, run, left>>
    BY <1>i, <1>2 DEF Persists
  <2>2. /\ hist' \in HistType /\ hist'.overtaken = hist.overtaken
        /\ budget' \in [used : Nat, reserved : Nat]
    BY <1>0, <2>1, Reserved DEF TypeOK
  <2>3. /\ appr' \in [Intents -> ApprType] /\ appr'[i].used = appr[i].used
        /\ \A k \in Intents \ {i} : appr'[k] = appr[k]
    <3>1. appr \in [Intents -> ApprType]
      BY <1>0 DEF TypeOK
    <3>2. [appr EXCEPT ![i].decision = "pending", ![i].epoch = e]
             = [appr EXCEPT ![i] = [appr[i] EXCEPT !.decision = "pending", !.epoch = e]]
      BY <3>1
    <3> QED  BY <2>1, <3>1, <3>2, Asking
  <2>4. /\ act' \in [Intents -> ActType] /\ act'[i].status = status /\ act'[i].epoch = e
        /\ \A k \in Intents \ {i} : act'[k] = act[k]
        /\ Careful(i) /\ Deferent(i) /\ Licensed(i)' /\ Told(i)'
    BY <1>0, <1>2, <2>1, <2>2, <2>3, Fresh, ZenonT(40)
  <2>5. Then(e, status, e) = IF i \in Asks THEN "waiting" ELSE "ready"
    BY DEF Then, Underway, Ended
  <2>6. /\ owner' \in [Owners -> OwnerType]
        /\ owner'[e].pc = (IF i \in Asks THEN "waiting" ELSE "ready") /\ owner'[e].i = i
        /\ \A f \in Owners \ {e} : owner'[f] = owner[f]
    BY <1>i, <1>0, <2>1, <2>5, KeepsOwner DEF My, Places, Statuses
  <2>7. TypeOK'
    BY <1>0, <2>1, <2>2, <2>3, <2>4, <2>6 DEF TypeOK
  <2>8. Bound(e)' /\ Sure(e)'
    BY <2>4, <2>6 DEF Bound, Sure, At, My
  <2>9. Books'
    BY <1>0, <1>2, <2>1, <2>4, BooksReserve
  <2> QED  BY <1>0, <2>1, <2>4, <2>6, <2>7, <2>8, <2>9, Writing
<1> QED  BY <1>1, <1>2

(* Waiting, checking and learning write no row. *)
LEMMA KeepsKnowing ==
    ASSUME Inductive, NEW e \in Owners, Awaits(e) \/ Checks(e) \/ Doubts(e) \/ Learns(e)
    PROVE  Inductive'
<1>i. PICK i \in Intents : i = My(e)
  BY Rows DEF Inductive
<1>0. TypeOK /\ Bound(e) /\ Sure(e)
  BY DEF Inductive
<1>1. CASE Awaits(e)
  <2>1. CASE Leads(e)
    <3>1. Goes(e, "resolving") /\ UNCHANGED <<epoch, grants, act, appr, budget, job, answer, run, hist, left>>
      BY <1>1, <2>1 DEF Awaits
    <3>2. /\ owner' \in [Owners -> OwnerType] /\ owner'[e].pc = "resolving" /\ owner'[e].i = i
          /\ \A f \in Owners \ {e} : owner'[f] = owner[f]
      BY <1>i, <1>0, <3>1, GoesOwner DEF My, Places
    <3>3. Bound(e)' /\ Sure(e)'
      BY <1>i, <1>0, <1>1, <3>1, <3>2 DEF Awaits, Bound, Sure, At, My, Leads
    <3> QED  BY <1>0, <3>1, <3>2, <3>3, Quiet DEF rows, TypeOK
  <2>2. CASE ~Leads(e)
    BY <1>0, <1>1, <2>2, Leaving DEF Awaits, rows, Careless, TypeOK
  <2> QED  BY <2>1, <2>2
<1>2. CASE Checks(e)
  <2>1. /\ owner' \in [Owners -> OwnerType] /\ owner'[e].pc \in {"claiming", "denying"} /\ owner'[e].i = i
        /\ \A f \in Owners \ {e} : owner'[f] = owner[f]
    <3>1. CASE Active(e)
      BY <1>i, <1>0, <1>2, <3>1, KeepsOwner DEF Checks, My, Places, Statuses
    <3>2. CASE ~Active(e)
      BY <1>i, <1>0, <1>2, <3>2, GoesOwner DEF Checks, My, Places
    <3> QED  BY <3>1, <3>2
  <2>2. Bound(e)' /\ Sure(e)'
    BY <1>i, <1>0, <1>2, <2>1 DEF Checks, Bound, Sure, At, My, Leads
  <2> QED  BY <1>0, <1>2, <2>1, <2>2, Quiet DEF Checks, rows, TypeOK
<1>3. CASE Doubts(e)
  <2>1. CASE act[i].status \in Underway
    <3>1. Goes(e, "parking") /\ UNCHANGED <<epoch, grants, act, appr, budget, job, answer, run, hist, left>>
      BY <1>i, <1>3, <2>1 DEF Doubts
    <3>2. /\ owner' \in [Owners -> OwnerType] /\ owner'[e].pc = "parking" /\ owner'[e].i = i
          /\ \A f \in Owners \ {e} : owner'[f] = owner[f]
      BY <1>i, <1>0, <3>1, GoesOwner DEF My, Places
    <3>3. Bound(e)' /\ Sure(e)'
      BY <1>i, <1>0, <1>3, <3>1, <3>2 DEF Doubts, Bound, Sure, At, My, Leads, Begun, Asked
    <3> QED  BY <1>0, <3>1, <3>2, <3>3, Quiet DEF rows, TypeOK
  <2>2. CASE act[i].status \notin Underway
    BY <1>i, <1>0, <1>3, <2>2, Leaving DEF Doubts, rows, Careless, TypeOK
  <2> QED  BY <2>1, <2>2
<1>4. CASE Learns(e)
  <2>1. PICK outcome \in Outcomes(e, i, e) : Keeps(e, "settling", outcome)
    BY <1>i, <1>4 DEF Learns
  <2>2. outcome \in {"succeeded", "failed"} /\ Backed(i, e, outcome)
    BY <2>1 DEF Outcomes, Backed
  <2>3. /\ owner' \in [Owners -> OwnerType] /\ owner'[e].pc = "settling" /\ owner'[e].i = i
        /\ owner'[e].copy = outcome /\ \A f \in Owners \ {e} : owner'[f] = owner[f]
    BY <1>i, <1>0, <2>1, <2>2, KeepsOwner DEF My, Places, Statuses, Ended
  <2>4. Bound(e)' /\ Sure(e)'
    BY <1>i, <1>0, <1>4, <2>2, <2>3 DEF Learns, Bound, Sure, At, My, Leads, Begun, Asked, Backed
  <2> QED  BY <1>0, <1>4, <2>3, <2>4, Quiet DEF Learns, rows, TypeOK
<1> QED  BY <1>1, <1>2, <1>3, <1>4

LEMMA KeepsNotClaimed == ASSUME Inductive, NEW e \in Owners, NotClaimed(e) PROVE Inductive'
<1>i. PICK i \in Intents : i = My(e)
  BY Rows DEF Inductive
<1>0. TypeOK /\ Bound(e) /\ Sure(e) /\ act[i].status \in Statuses
  BY <1>i, Rows DEF Inductive
<1>1. UNCHANGED <<epoch, grants, act, appr, budget, job, answer, run, hist, left>> /\ At(e, "claiming")
  BY DEF NotClaimed
<1>2. \/ Goes(e, "denying") \/ Goes(e, "failing") \/ Goes(e, "gone")
      \/ Keeps(e, "answering", act[i].status)
  BY <1>i DEF NotClaimed
<1>3. CASE Goes(e, "failing") \/ Goes(e, "gone")
  BY <1>0, <1>1, <1>3, Leaving DEF rows, Careless, TypeOK
<1>4. CASE Goes(e, "denying")
  <2>1. /\ owner' \in [Owners -> OwnerType] /\ owner'[e].pc = "denying" /\ owner'[e].i = i
        /\ \A f \in Owners \ {e} : owner'[f] = owner[f]
    BY <1>i, <1>0, <1>4, GoesOwner DEF My, Places
  <2>2. Bound(e)' /\ Sure(e)'
    BY <1>i, <1>0, <1>1, <2>1 DEF Bound, Sure, At, My, Leads
  <2> QED  BY <1>0, <1>1, <2>1, <2>2, Quiet DEF rows, TypeOK
<1>5. CASE Keeps(e, "answering", act[i].status)
  <2>1. /\ owner' \in [Owners -> OwnerType] /\ owner'[e].pc = "answering" /\ owner'[e].i = i
        /\ owner'[e].copy = act[i].status /\ \A f \in Owners \ {e} : owner'[f] = owner[f]
    BY <1>i, <1>0, <1>5, KeepsOwner DEF My, Places
  <2>2. Bound(e)' /\ Sure(e)'
    BY <1>1, <2>1 DEF Bound, Sure, At, My, Leads
  <2> QED  BY <1>0, <1>1, <2>1, <2>2, Quiet DEF rows, TypeOK
<1> QED  BY <1>2, <1>3, <1>4, <1>5

(* A new owner adopts an action that has had no effect. *)
LEMMA KeepsRecovers == ASSUME Inductive, NEW e \in Owners, Recovers(e) PROVE Inductive'
<1>i. PICK i \in Intents : i = My(e)
  BY Rows DEF Inductive
<1>0. TypeOK /\ act[i].status \in Statuses /\ act[i] \in ActType
  BY <1>i, Rows DEF Inductive
<1>1. At(e, "recovering") /\ UNCHANGED <<epoch, grants, budget, job, answer, run, hist, left>>
  BY DEF Recovers
<1>2. \/ /\ Goes(e, "gone") \/ Goes(e, "breaking") \/ Goes(e, "failing")
         /\ UNCHANGED <<act, appr>>
      \/ Keeps(e, "answering", act[i].status) /\ UNCHANGED <<act, appr>>
      \/ /\ Active(e) /\ act[i].status \in {"waiting", "approved"}
         /\ act' = [act EXCEPT ![i].epoch = e]
         /\ appr' = IF i \in Asks THEN [appr EXCEPT ![i].epoch = e] ELSE appr
         /\ Keeps(e, Then(e, act[i].status, e), act[i].status)
  BY <1>i, Zenon DEF Recovers
<1>3. CASE /\ Goes(e, "gone") \/ Goes(e, "breaking") \/ Goes(e, "failing")
           /\ UNCHANGED <<act, appr>>
  BY <1>0, <1>1, <1>3, Leaving DEF rows, Careless, TypeOK
<1>4. CASE Keeps(e, "answering", act[i].status) /\ UNCHANGED <<act, appr>>
  <2>1. /\ owner' \in [Owners -> OwnerType] /\ owner'[e].pc = "answering" /\ owner'[e].i = i
        /\ owner'[e].copy = act[i].status /\ \A f \in Owners \ {e} : owner'[f] = owner[f]
    BY <1>i, <1>0, <1>4, KeepsOwner DEF My, Places
  <2>2. Bound(e)' /\ Sure(e)'
    BY <1>1, <1>4, <2>1 DEF Bound, Sure, At, My, Leads
  <2> QED  BY <1>0, <1>1, <1>4, <2>1, <2>2, Quiet DEF rows, TypeOK
<1>5. CASE /\ Active(e) /\ act[i].status \in {"waiting", "approved"}
           /\ act' = [act EXCEPT ![i].epoch = e]
           /\ appr' = IF i \in Asks THEN [appr EXCEPT ![i].epoch = e] ELSE appr
           /\ Keeps(e, Then(e, act[i].status, e), act[i].status)
  <2>1. /\ act' \in [Intents -> ActType] /\ act'[i].status = act[i].status /\ act'[i].epoch = e
        /\ \A k \in Intents \ {i} : act'[k] = act[k]
    BY <1>0, <1>5 DEF TypeOK, ActType
  <2>2. /\ appr' \in [Intents -> ApprType] /\ appr'[i].used = appr[i].used
        /\ appr'[i].decision = appr[i].decision /\ \A k \in Intents \ {i} : appr'[k] = appr[k]
    <3>1. appr \in [Intents -> ApprType]
      BY <1>0 DEF TypeOK
    <3> QED  BY <1>5, <3>1 DEF ApprType
  <2>3. Then(e, act[i].status, e) = IF act[i].status = "waiting" THEN "waiting" ELSE "ready"
    BY <1>5 DEF Then, Underway, Ended
  <2>4. /\ owner' \in [Owners -> OwnerType] /\ owner'[e].i = i
        /\ owner'[e].pc = (IF act[i].status = "waiting" THEN "waiting" ELSE "ready")
        /\ \A f \in Owners \ {e} : owner'[f] = owner[f]
    BY <1>i, <1>0, <1>5, <2>3, KeepsOwner DEF My, Places
  <2>5. TypeOK'
    BY <1>0, <1>1, <2>1, <2>2, <2>4 DEF TypeOK
  <2>6. Licensed(i) /\ Told(i) /\ ~Begun(i) /\ Leads(e)
    BY <1>5 DEF Inductive, Begun, Active, Underway, Ended
  <2>7. Careful(i)
    BY <1>1, <2>1, <2>2, <2>6 DEF Careful
  <2>8. Bound(e)' /\ Sure(e)'
    BY <1>5, <2>1, <2>4 DEF Bound, Sure, At, My
  <2>9. Licensed(i)' /\ Told(i)'
    BY <1>1, <1>5, <2>1, <2>2, <2>6 DEF Licensed, Told, Backed, Asked, Underway, Ended
  <2>10. Books'
    <3>1. hist.overtaken = {} => Entry(i)
      BY DEF Inductive, Books
    <3>2. hist.overtaken = {} => Entry(i)'
      BY <1>1, <2>1, <3>1 DEF Entry
    <3> QED  BY <1>1, <2>1, <3>2, BooksKept
  <2> QED  BY <1>1, <2>4, <2>5, <2>6, <2>7, <2>8, <2>9, <2>10, Writing
<1> QED  BY <1>2, <1>3, <1>4, <1>5

(* A settlement, by whoever may make it: the action was not over, unless a fenced owner
   wrote, and the outcome is backed by its job. *)
LEMMA Settling ==
    ASSUME Inductive, NEW i \in Intents, NEW status \in Ended, NEW won \in BOOLEAN,
           NEW overtaken \in SUBSET Intents, Settle(i, won, overtaken),
           hist.overtaken \subseteq overtaken, overtaken \subseteq hist.overtaken \cup {i},
           act' = [act EXCEPT ![i].status = status], won <=> status = "succeeded",
           UNCHANGED <<epoch, job, answer>>, appr' \in [Intents -> ApprType],
           \A k \in Intents \ {i} : appr'[k] = appr[k], appr'[i].used = appr[i].used,
           appr[i].used => appr'[i].decision \in {"approved", "expired"},
           i \notin overtaken =>
              /\ act[i].status \in {"waiting", "approved"} \cup Underway
              /\ status = "denied" => act[i].status \in {"waiting", "approved"}
              /\ Backed(i, act[i].epoch, status)
    PROVE  /\ act' \in [Intents -> ActType] /\ act'[i].status = status /\ act'[i].epoch = act[i].epoch
           /\ budget' \in [used : Nat, reserved : Nat] /\ hist' \in HistType /\ hist'.overtaken = overtaken
           /\ Careful(i) /\ Licensed(i)' /\ Told(i)' /\ Books'
<1>1. TypeOK /\ Licensed(i) /\ Told(i)
  BY DEF Inductive
<1>2. /\ act' \in [Intents -> ActType] /\ act'[i].status = status /\ act'[i].epoch = act[i].epoch
      /\ \A k \in Intents \ {i} : act'[k] = act[k]
  BY <1>1 DEF TypeOK, ActType, Statuses
<1>3. budget' \in [used : Nat, reserved : Nat]
  BY <1>1 DEF Settle, TypeOK
<1>4. hist' \in HistType /\ hist'.overtaken = overtaken
  BY <1>1 DEF Settle, TypeOK, HistType
<1>5. Careful(i)
  BY <1>2, <1>4 DEF Careful, Begun, Underway, Ended
<1>6. Licensed(i)'
  BY <1>1, <1>2 DEF Licensed, Begun, Asked, Underway, Ended
<1>7. Told(i)'
  <2> SUFFICES ASSUME i \notin overtaken
               PROVE  /\ status = "denied" => \A e \in Owners : job[i][e] = "none"
                      /\ Backed(i, act[i].epoch, status)
                      /\ answer[i] = "none"
    BY <1>2, <1>4 DEF Told, Backed
  <2>1. answer[i] = "none"
    BY <1>1 DEF Told, TypeOK, Underway, Ended
  <2>2. status = "denied" => \A e \in Owners : job[i][e] = "none"
    BY <1>1 DEF Licensed, Begun, Underway, Ended
  <2> QED  BY <2>1, <2>2
<1>8. Books'
  BY BooksSettle
<1> QED  BY <1>2, <1>3, <1>4, <1>5, <1>6, <1>7, <1>8

(* A fenced owner that writes is noted. *)
LEMMA Noted ==
    ASSUME TypeOK, NEW e \in Owners, NEW i \in Intents
    PROVE  /\ Wrote(e, i) \in SUBSET Intents
           /\ hist.overtaken \subseteq Wrote(e, i) /\ Wrote(e, i) \subseteq hist.overtaken \cup {i}
           /\ i \notin Wrote(e, i) => Leads(e) /\ i \notin hist.overtaken
  BY DEF TypeOK, HistType, Wrote

LEMMA KeepsDenies == ASSUME Inductive, NEW e \in Owners, Denies(e) PROVE Inductive'
<1>i. PICK i \in Intents : i = My(e)
  BY Rows DEF Inductive
<1>0. TypeOK /\ Sure(e)
  BY DEF Inductive
<1>1. /\ At(e, "denying") /\ act' = [act EXCEPT ![i].status = "denied"]
      /\ appr' = IF i \in Asks /\ ~appr[i].used THEN [appr EXCEPT ![i].decision = "denied"] ELSE appr
      /\ Settle(i, FALSE, Wrote(e, i)) /\ Keeps(e, "answering", "denied")
      /\ UNCHANGED <<epoch, grants, job, answer, run, left>>
  BY <1>i DEF Denies, Denying
<1>2. /\ owner' \in [Owners -> OwnerType] /\ owner'[e].pc = "answering" /\ owner'[e].i = i
      /\ owner'[e].copy = "denied" /\ \A f \in Owners \ {e} : owner'[f] = owner[f]
  BY <1>i, <1>0, <1>1, KeepsOwner DEF My, Places, Statuses, Ended
<1>3. /\ appr' \in [Intents -> ApprType] /\ appr'[i].used = appr[i].used
      /\ appr[i].used => appr'[i].decision = appr[i].decision
      /\ \A k \in Intents \ {i} : appr'[k] = appr[k]
  <2>1. appr \in [Intents -> ApprType]
    BY <1>0 DEF TypeOK
  <2> QED  BY <1>1, <2>1 DEF ApprType
<1>4. appr[i].used => appr'[i].decision \in {"approved", "expired"}
  BY <1>3 DEF Inductive, Licensed
<1>5. i \notin Wrote(e, i) => act[i].status = "approved"
  BY <1>i, <1>0, <1>1, Noted DEF Sure, At
<1>6. Backed(i, act[i].epoch, "denied")
  BY DEF Backed
<1>7. /\ act' \in [Intents -> ActType] /\ act'[i].status = "denied" /\ act'[i].epoch = act[i].epoch
      /\ budget' \in [used : Nat, reserved : Nat] /\ hist' \in HistType /\ hist'.overtaken = Wrote(e, i)
      /\ Careful(i) /\ Licensed(i)' /\ Told(i)' /\ Books'
  <2>1. "denied" \in Ended /\ FALSE \in BOOLEAN
    BY DEF Ended
  <2> QED  BY <1>0, <1>1, <1>3, <1>4, <1>5, <1>6, <2>1, Noted, Settling
<1>8. TypeOK'
  BY <1>0, <1>1, <1>2, <1>3, <1>7 DEF TypeOK
<1>9. Bound(e)' /\ Sure(e)'
  BY <1>2, <1>7 DEF Bound, Sure, At, My
<1>10. Leads(e) \/ Deferent(i)
  BY <1>0, <1>7, Noted DEF Deferent
<1> QED  BY <1>1, <1>2, <1>7, <1>8, <1>9, <1>10, Writing

LEMMA KeepsExpires == ASSUME Inductive, NEW e \in Owners, Expires(e) PROVE Inductive'
<1>i. PICK i \in Intents : i = My(e)
  BY Rows DEF Inductive
<1>0. TypeOK /\ Sure(e)
  BY DEF Inductive
<1>1. /\ At(e, "claiming") /\ act' = [act EXCEPT ![i].status = "denied"]
      /\ appr' = [appr EXCEPT ![i].decision = "expired"]
      /\ Settle(i, FALSE, Wrote(e, i)) /\ Goes(e, "failing")
      /\ UNCHANGED <<epoch, grants, job, answer, run, left>>
  BY <1>i DEF Expires, Denying
<1>2. /\ owner' \in [Owners -> OwnerType] /\ owner'[e].pc = "failing"
      /\ \A f \in Owners \ {e} : owner'[f] = owner[f]
  BY <1>0, <1>1, GoesOwner DEF Places
<1>3. /\ appr' \in [Intents -> ApprType] /\ appr'[i].used = appr[i].used
      /\ appr'[i].decision = "expired" /\ \A k \in Intents \ {i} : appr'[k] = appr[k]
  <2>1. appr \in [Intents -> ApprType]
    BY <1>0 DEF TypeOK
  <2> QED  BY <1>1, <2>1 DEF ApprType
<1>4. i \notin Wrote(e, i) => act[i].status = "approved"
  BY <1>i, <1>0, <1>1, Noted DEF Sure, At
<1>5. Backed(i, act[i].epoch, "denied")
  BY DEF Backed
<1>6. /\ act' \in [Intents -> ActType] /\ act'[i].status = "denied" /\ act'[i].epoch = act[i].epoch
      /\ budget' \in [used : Nat, reserved : Nat] /\ hist' \in HistType /\ hist'.overtaken = Wrote(e, i)
      /\ Careful(i) /\ Licensed(i)' /\ Told(i)' /\ Books'
  <2>1. "denied" \in Ended /\ FALSE \in BOOLEAN
    BY DEF Ended
  <2>2. appr[i].used => appr'[i].decision \in {"approved", "expired"}
    BY <1>3
  <2> QED  BY <1>0, <1>1, <1>3, <1>4, <1>5, <2>1, <2>2, Noted, Settling
<1>7. TypeOK'
  BY <1>0, <1>1, <1>2, <1>3, <1>6 DEF TypeOK
<1>8. Bound(e)' /\ Sure(e)'
  BY <1>2 DEF Bound, Sure, At
<1>9. Leads(e) \/ Deferent(i)
  BY <1>0, <1>6, Noted DEF Deferent
<1> QED  BY <1>1, <1>2, <1>6, <1>7, <1>8, <1>9, Writing

LEMMA KeepsResolves == ASSUME Inductive, NEW e \in Owners, Resolves(e) PROVE Inductive'
<1>i. PICK i \in Intents : i = My(e)
  BY Rows DEF Inductive
<1>0. TypeOK /\ Sure(e) /\ act[i].status \in Statuses
  BY <1>i, Rows DEF Inductive
<1>1. CASE ~Pending(i)
  <2>1. /\ Keeps(e, IF act[i].status = "approved" THEN "ready" ELSE "answering", act[i].status)
        /\ At(e, "resolving") /\ UNCHANGED <<epoch, grants, act, appr, budget, job, answer, run, hist, left>>
    BY <1>i, <1>1 DEF Resolves
  <2>2. /\ owner' \in [Owners -> OwnerType] /\ owner'[e].i = i /\ owner'[e].copy = act[i].status
        /\ owner'[e].pc = (IF act[i].status = "approved" THEN "ready" ELSE "answering")
        /\ \A f \in Owners \ {e} : owner'[f] = owner[f]
    BY <1>i, <1>0, <2>1, KeepsOwner DEF My, Places
  <2>3. Bound(e)' /\ Sure(e)'
    BY <1>i, <1>0, <2>1, <2>2 DEF Bound, Sure, At, My, Leads
  <2> QED  BY <1>0, <2>1, <2>2, <2>3, Quiet DEF rows, TypeOK
<1>2. CASE Pending(i) /\ act[i].epoch # e
  BY <1>i, <1>0, <1>2, Leaving DEF Resolves, rows, Careless, TypeOK
<1>3. CASE Pending(i) /\ act[i].epoch = e
  <2>1. /\ act' = [act EXCEPT ![i].status = "denied"]
        /\ appr' = [appr EXCEPT ![i].decision = "expired"]
        /\ Settle(i, FALSE, Wrote(e, i)) /\ Keeps(e, "answering", "denied")
        /\ UNCHANGED <<epoch, grants, job, answer, run, left>>
    BY <1>i, <1>3 DEF Resolves, Denying
  <2>2. /\ owner' \in [Owners -> OwnerType] /\ owner'[e].pc = "answering" /\ owner'[e].i = i
        /\ owner'[e].copy = "denied" /\ \A f \in Owners \ {e} : owner'[f] = owner[f]
    BY <1>i, <1>0, <2>1, KeepsOwner DEF My, Places, Statuses, Ended
  <2>3. /\ appr' \in [Intents -> ApprType] /\ appr'[i].used = appr[i].used
        /\ appr'[i].decision = "expired" /\ \A k \in Intents \ {i} : appr'[k] = appr[k]
    <3>1. appr \in [Intents -> ApprType]
      BY <1>0 DEF TypeOK
    <3> QED  BY <2>1, <3>1 DEF ApprType
  <2>4. Backed(i, act[i].epoch, "denied")
    BY DEF Backed
  <2>5. /\ act' \in [Intents -> ActType] /\ act'[i].status = "denied" /\ act'[i].epoch = act[i].epoch
        /\ budget' \in [used : Nat, reserved : Nat] /\ hist' \in HistType /\ hist'.overtaken = Wrote(e, i)
        /\ Careful(i) /\ Licensed(i)' /\ Told(i)' /\ Books'
    <3>1. "denied" \in Ended /\ FALSE \in BOOLEAN /\ act[i].status = "waiting"
      BY <1>3 DEF Ended, Pending
    <3> QED  BY <1>0, <2>1, <2>3, <2>4, <3>1, Noted, Settling
  <2>6. TypeOK'
    BY <1>0, <2>1, <2>2, <2>3, <2>5 DEF TypeOK
  <2>7. Bound(e)' /\ Sure(e)'
    BY <2>2, <2>5 DEF Bound, Sure, At, My
  <2>8. Leads(e) \/ Deferent(i)
    BY <1>0, <2>5, Noted DEF Deferent
  <2> QED  BY <2>1, <2>2, <2>5, <2>6, <2>7, <2>8, Writing
<1> QED  BY <1>1, <1>2, <1>3

LEMMA KeepsSettles == ASSUME Inductive, NEW e \in Owners, Settles(e) PROVE Inductive'
<1>i. PICK i \in Intents : i = My(e)
  BY Rows DEF Inductive
<1>0. TypeOK /\ Sure(e) /\ Bound(e)
  BY DEF Inductive
<1>s. PICK status \in Statuses \cup {"late"} : status = owner[e].copy
  BY Rows DEF Inductive
<1>1. /\ At(e, "settling") /\ act' = [act EXCEPT ![i].status = status]
      /\ Settle(i, status = "succeeded", Wrote(e, i)) /\ Goes(e, "answering")
      /\ UNCHANGED <<epoch, grants, appr, job, answer, run, left>>
  BY <1>i, <1>s DEF Settles
<1>2. status \in {"succeeded", "failed"} /\ Backed(i, e, status) /\ act[i].epoch = e
  BY <1>i, <1>s, <1>0, <1>1 DEF Bound, At
<1>3. /\ owner' \in [Owners -> OwnerType] /\ owner'[e].pc = "answering" /\ owner'[e].i = i
      /\ owner'[e].copy = status /\ \A f \in Owners \ {e} : owner'[f] = owner[f]
  BY <1>i, <1>s, <1>0, <1>1, GoesOwner DEF My, Places
<1>4. i \notin Wrote(e, i) => act[i].status = "executing"
  BY <1>i, <1>0, <1>1, Noted DEF Sure, At
<1>5. /\ act' \in [Intents -> ActType] /\ act'[i].status = status /\ act'[i].epoch = act[i].epoch
      /\ budget' \in [used : Nat, reserved : Nat] /\ hist' \in HistType /\ hist'.overtaken = Wrote(e, i)
      /\ Careful(i) /\ Licensed(i)' /\ Told(i)' /\ Books'
  <2>1. status \in Ended /\ status # "denied"
    BY <1>2 DEF Ended
  <2>2. appr' = appr /\ appr \in [Intents -> ApprType]
    BY <1>0, <1>1 DEF TypeOK
  <2>3. appr[i].used => appr'[i].decision \in {"approved", "expired"}
    BY <2>2 DEF Inductive, Licensed
  <2>4. i \notin Wrote(e, i) => act[i].status \in {"waiting", "approved"} \cup Underway
    BY <1>4 DEF Underway
  <2>5. /\ Wrote(e, i) \in SUBSET Intents /\ hist.overtaken \subseteq Wrote(e, i)
        /\ Wrote(e, i) \subseteq hist.overtaken \cup {i}
    BY <1>0, Noted
  <2>6. PICK overtaken \in SUBSET Intents : overtaken = Wrote(e, i)
    BY <2>5
  <2>7. PICK won \in BOOLEAN : won <=> status = "succeeded"
    OBVIOUS
  <2>8. Settle(i, won, overtaken)
    <3>1. CASE status = "succeeded"
      BY <1>1, <2>6, <2>7, <3>1 DEF Settle
    <3>2. CASE status # "succeeded"
      BY <1>1, <2>6, <2>7, <3>2 DEF Settle
    <3> QED  BY <3>1, <3>2
  <2>9. /\ act' = [act EXCEPT ![i].status = status] /\ UNCHANGED <<epoch, job, answer>>
        /\ appr' \in [Intents -> ApprType] /\ \A k \in Intents \ {i} : appr'[k] = appr[k]
        /\ appr'[i].used = appr[i].used
    BY <1>1, <2>2
  <2>10. i \notin overtaken => /\ act[i].status \in {"waiting", "approved"} \cup Underway
                               /\ status = "denied" => act[i].status \in {"waiting", "approved"}
                               /\ Backed(i, act[i].epoch, status)
    BY <1>2, <2>1, <2>4, <2>6
  <2>11. hist.overtaken \subseteq overtaken /\ overtaken \subseteq hist.overtaken \cup {i}
    BY <2>5, <2>6
  <2>12. /\ act' \in [Intents -> ActType] /\ act'[i].status = status /\ act'[i].epoch = act[i].epoch
         /\ budget' \in [used : Nat, reserved : Nat] /\ hist' \in HistType /\ hist'.overtaken = overtaken
         /\ Careful(i) /\ Licensed(i)' /\ Told(i)' /\ Books'
    BY <2>1, <2>3, <2>7, <2>8, <2>9, <2>10, <2>11, Settling
  <2> QED  BY <2>6, <2>12
<1>6. TypeOK'
  BY <1>0, <1>1, <1>3, <1>5 DEF TypeOK
<1>7. Bound(e)' /\ Sure(e)'
  BY <1>3, <1>5 DEF Bound, Sure, At, My
<1>8. Leads(e) \/ Deferent(i)
  BY <1>0, <1>5, Noted DEF Deferent
<1> QED  BY <1>1, <1>3, <1>5, <1>6, <1>7, <1>8, Writing

(* The claim: only the owner that leads makes it, of an action that nobody had begun. *)
LEMMA KeepsClaims == ASSUME Inductive, NEW e \in Owners, Claims(e) PROVE Inductive'
<1>i. PICK i \in Intents : i = My(e)
  BY Rows DEF Inductive
<1>0. TypeOK /\ Licensed(i) /\ Told(i)
  BY DEF Inductive
<1>1. /\ At(e, "claiming")
      /\ i \in Asks => Consumable(e, i)
      /\ act[i].status = "approved" /\ act[i].epoch = e /\ Leads(e)
      /\ act' = [act EXCEPT ![i].status = "executing"]
      /\ appr' = IF i \in Asks THEN [appr EXCEPT ![i].used = TRUE] ELSE appr
      /\ Goes(e, "running")
      /\ UNCHANGED <<epoch, grants, budget, job, answer, run, hist, left>>
  BY <1>i DEF Claims, Claimable
<1>2. /\ owner' \in [Owners -> OwnerType] /\ owner'[e].pc = "running" /\ owner'[e].i = i
      /\ \A f \in Owners \ {e} : owner'[f] = owner[f]
  BY <1>i, <1>0, <1>1, GoesOwner DEF My, Places
<1>3. /\ act' \in [Intents -> ActType] /\ act'[i].status = "executing" /\ act'[i].epoch = e
      /\ \A k \in Intents \ {i} : act'[k] = act[k]
  BY <1>0, <1>1 DEF TypeOK, ActType, Statuses, Underway
<1>4. /\ appr' \in [Intents -> ApprType]
      /\ i \in Asks => appr'[i].used
      /\ i \notin Asks => appr'[i].used = appr[i].used
      /\ appr'[i].decision = appr[i].decision /\ \A k \in Intents \ {i} : appr'[k] = appr[k]
  <2>1. appr \in [Intents -> ApprType]
    BY <1>0 DEF TypeOK
  <2> QED  BY <1>1, <2>1 DEF ApprType
<1>5. ~Begun(i) /\ ~appr[i].used /\ \A f \in Owners : job[i][f] = "none"
  BY <1>0, <1>1 DEF Begun, Licensed, Underway, Ended
<1>6. TypeOK'
  BY <1>0, <1>1, <1>2, <1>3, <1>4 DEF TypeOK
<1>7. Careful(i)
  BY <1>1, <1>3, <1>4, <1>5 DEF Careful
<1>8. Begun(i)'
  BY <1>3, <1>4 DEF Begun, Asked, Underway
<1>9. Bound(e)' /\ Sure(e)'
  BY <1>2, <1>3, <1>8 DEF Bound, Sure, At, My
<1>10. Licensed(i)'
  <2>1. i \in Asks => appr'[i].decision = "approved"
    BY <1>1, <1>4 DEF Consumable, Approved
  <2> QED  BY <1>1, <1>3, <1>4, <1>5, <1>8, <2>1 DEF Licensed, Begun
<1>11. Told(i)'
  BY <1>0, <1>1, <1>3 DEF Told, Backed, TypeOK, Ended
<1>12. Books'
  <2>1. hist.overtaken = {} => Entry(i)
    BY DEF Inductive, Books
  <2>2. hist.overtaken = {} => Entry(i)'
    BY <1>1, <1>3, <2>1 DEF Entry, Underway
  <2> QED  BY <1>1, <1>3, <2>2, BooksKept
<1> QED  BY <1>1, <1>2, <1>6, <1>7, <1>9, <1>10, <1>11, <1>12, Writing

(* A begun action is parked: by a fenced owner, or while it was under way. *)
LEMMA Parked ==
    ASSUME Inductive, NEW i \in Intents, Begun(i),
           act' = [act EXCEPT ![i].status = "parked"],
           UNCHANGED <<epoch, appr, budget, job, answer>>,
           NEW overtaken \in SUBSET Intents, hist' = [hist EXCEPT !.overtaken = overtaken],
           hist.overtaken \subseteq overtaken, overtaken \subseteq hist.overtaken \cup {i},
           i \notin overtaken => act[i].status \in Underway
    PROVE  /\ act' \in [Intents -> ActType] /\ act'[i].status = "parked" /\ act'[i].epoch = act[i].epoch
           /\ hist' \in HistType /\ hist'.overtaken = overtaken
           /\ Begun(i)' /\ Careful(i) /\ Licensed(i)' /\ Told(i)' /\ Books'
<1>0. TypeOK /\ Licensed(i) /\ Told(i)
  BY DEF Inductive
<1>1. /\ act' \in [Intents -> ActType] /\ act'[i].status = "parked" /\ act'[i].epoch = act[i].epoch
      /\ \A k \in Intents \ {i} : act'[k] = act[k]
  BY <1>0 DEF TypeOK, ActType, Statuses, Underway
<1>2. /\ hist' \in HistType /\ hist'.overtaken = overtaken
      /\ hist'.held = hist.held /\ hist'.settled = hist.settled
  BY <1>0 DEF TypeOK, HistType
<1>3. Begun(i)'
  BY <1>1 DEF Begun, Asked, Underway
<1>4. Careful(i)
  BY <1>1, <1>2 DEF Careful, Underway
<1>5. Licensed(i)'
  BY <1>0, <1>1, <1>3 DEF Licensed, Begun
<1>6. Told(i)'
  BY <1>0, <1>1, <1>2 DEF Told, Backed, TypeOK, Underway, Ended
<1>7. Books'
  <2>1. hist.overtaken = {} => Entry(i)
    BY DEF Inductive, Books
  <2>2. hist'.overtaken = {} => Entry(i)' /\ act[i].status # "succeeded"
    BY <1>1, <1>2, <2>1 DEF Entry, Underway
  <2> QED  BY <1>1, <1>2, <2>2, BooksKept
<1> QED  BY <1>1, <1>2, <1>3, <1>4, <1>5, <1>6, <1>7

LEMMA KeepsParks == ASSUME Inductive, NEW e \in Owners, Parks(e) PROVE Inductive'
<1>i. PICK i \in Intents : i = My(e)
  BY Rows DEF Inductive
<1>0. TypeOK /\ Bound(e) /\ Sure(e)
  BY DEF Inductive
<1>1. /\ At(e, "parking") /\ act' = [act EXCEPT ![i].status = "parked"]
      /\ hist' = [hist EXCEPT !.overtaken = Wrote(e, i)] /\ Keeps(e, "answering", "parked")
      /\ UNCHANGED <<epoch, grants, appr, budget, job, answer, run, left>>
  BY <1>i DEF Parks
<1>2. /\ owner' \in [Owners -> OwnerType] /\ owner'[e].pc = "answering" /\ owner'[e].i = i
      /\ owner'[e].copy = "parked" /\ \A f \in Owners \ {e} : owner'[f] = owner[f]
  BY <1>i, <1>0, <1>1, KeepsOwner DEF My, Places, Statuses, Underway
<1>3. Begun(i) /\ (i \notin Wrote(e, i) => act[i].status \in Underway)
  BY <1>i, <1>0, <1>1, Noted DEF Bound, Sure, At, Underway
<1>4. /\ act' \in [Intents -> ActType] /\ act'[i].status = "parked" /\ act'[i].epoch = act[i].epoch
      /\ hist' \in HistType /\ hist'.overtaken = Wrote(e, i)
      /\ Begun(i)' /\ Careful(i) /\ Licensed(i)' /\ Told(i)' /\ Books'
  BY <1>0, <1>1, <1>3, Noted, Parked
<1>5. TypeOK'
  BY <1>0, <1>1, <1>2, <1>4 DEF TypeOK
<1>6. Bound(e)' /\ Sure(e)'
  BY <1>2, <1>4 DEF Bound, Sure, At, My, Ended
<1>7. Leads(e) \/ Deferent(i)
  BY <1>0, <1>4, Noted DEF Deferent
<1> QED  BY <1>1, <1>2, <1>4, <1>5, <1>6, <1>7, Writing

LEMMA KeepsParksAgain == ASSUME Inductive, NEW e \in Owners, ParksAgain(e) PROVE Inductive'
<1>i. PICK i \in Intents : i = My(e)
  BY Rows DEF Inductive
<1>0. TypeOK /\ Bound(e) /\ Sure(e)
  BY DEF Inductive
<1>1. CASE act[i].status # "executing"
  BY <1>i, <1>0, <1>1, Leaving DEF ParksAgain, rows, Careless, TypeOK
<1>2. CASE act[i].status = "executing"
  <2>1. /\ At(e, "reconciling") /\ act' = [act EXCEPT ![i].status = "parked"]
        /\ hist' = [hist EXCEPT !.overtaken = Wrote(e, i)]
        /\ UNCHANGED <<epoch, grants, appr, budget, job, answer, owner, run, left>>
    BY <1>i, <1>2 DEF ParksAgain
  <2>2. Begun(i) /\ act[i].status \in Underway
    BY <1>i, <1>0, <1>2, <2>1 DEF Bound, At, Underway
  <2>3. /\ act' \in [Intents -> ActType] /\ act'[i].status = "parked" /\ act'[i].epoch = act[i].epoch
        /\ hist' \in HistType /\ hist'.overtaken = Wrote(e, i)
        /\ Begun(i)' /\ Careful(i) /\ Licensed(i)' /\ Told(i)' /\ Books'
    BY <1>0, <2>1, <2>2, Noted, Parked
  <2>4. TypeOK'
    BY <1>0, <2>1, <2>3 DEF TypeOK
  <2>5. Bound(e)' /\ Sure(e)'
    BY <1>i, <2>1, <2>3 DEF Bound, Sure, At, My, Underway
  <2>6. Leads(e) \/ Deferent(i)
    BY <1>0, <2>3, Noted DEF Deferent
  <2> QED  BY <2>1, <2>3, <2>4, <2>5, <2>6, Writing
<1> QED  BY <1>1, <1>2

(* What the executor says of a job is what it is. *)
LEMMA OutcomesBacked ==
    ASSUME NEW e \in Owners, NEW i \in Intents, NEW of \in Owners, NEW outcome \in Outcomes(e, i, of)
    PROVE  outcome \in {"succeeded", "failed"} /\ Backed(i, of, outcome)
  BY DEF Outcomes, Backed

LEMMA KeepsReconciles == ASSUME Inductive, NEW e \in Owners, Reconciles(e) PROVE Inductive'
<1>i. PICK i \in Intents : i = My(e)
  BY Rows DEF Inductive
<1>0. TypeOK /\ act[i].epoch \in Owners
  BY <1>i, Rows DEF Inductive
<1>1. At(e, "reconciling") /\ UNCHANGED <<epoch, grants, appr, job, answer, run, left>>
  BY DEF Reconciles
<1>2. PICK outcome \in Outcomes(e, i, act[i].epoch) :
         \/ /\ act[i].status \in Underway
            /\ act' = [act EXCEPT ![i].status = outcome]
            /\ Settle(i, outcome = "succeeded", Wrote(e, i))
            /\ Keeps(e, Then(e, outcome, act[i].epoch), outcome)
         \/ /\ act[i].status = outcome
            /\ Keeps(e, Then(e, outcome, act[i].epoch), outcome)
            /\ UNCHANGED <<act, budget, hist>>
         \/ Goes(e, "failing") /\ UNCHANGED <<act, budget, hist>>
  BY <1>i DEF Reconciles, JobEpoch
<1>3. outcome \in {"succeeded", "failed"} /\ Backed(i, act[i].epoch, outcome)
  BY <1>0, OutcomesBacked
<1>4. Then(e, outcome, act[i].epoch) \in {"recovering", "answering"}
  BY <1>3 DEF Then, Underway, Ended
<1>5. CASE Goes(e, "failing") /\ UNCHANGED <<act, budget, hist>>
  BY <1>0, <1>1, <1>5, Leaving DEF rows, Careless, TypeOK
<1>6. CASE Keeps(e, Then(e, outcome, act[i].epoch), outcome)
  <2>1. /\ owner' \in [Owners -> OwnerType] /\ owner'[e].pc \in {"recovering", "answering"}
        /\ owner'[e].i = i /\ owner'[e].copy = outcome
        /\ \A f \in Owners \ {e} : owner'[f] = owner[f]
    BY <1>i, <1>0, <1>3, <1>4, <1>6, KeepsOwner DEF My, Places, Statuses, Ended
  <2>2. act'[i].status = outcome => Bound(e)' /\ Sure(e)'
    BY <2>1 DEF Bound, Sure, At, My
  <2>3. CASE act[i].status = outcome /\ UNCHANGED <<act, budget, hist>>
    BY <1>0, <1>1, <2>1, <2>2, <2>3, Quiet DEF rows, TypeOK
  <2>4. CASE /\ act[i].status \in Underway /\ act' = [act EXCEPT ![i].status = outcome]
             /\ Settle(i, outcome = "succeeded", Wrote(e, i))
    <3>1. PICK overtaken \in SUBSET Intents : overtaken = Wrote(e, i)
      BY <1>0, Noted
    <3>2. PICK won \in BOOLEAN : won <=> outcome = "succeeded"
      OBVIOUS
    <3>3. Settle(i, won, overtaken)
      <4>1. CASE outcome = "succeeded"
        BY <2>4, <3>1, <3>2, <4>1 DEF Settle
      <4>2. CASE outcome # "succeeded"
        BY <2>4, <3>1, <3>2, <4>2 DEF Settle
      <4> QED  BY <4>1, <4>2
    <3>4. hist.overtaken \subseteq overtaken /\ overtaken \subseteq hist.overtaken \cup {i}
      BY <1>0, <3>1, Noted
    <3>5. appr[i].used => appr'[i].decision \in {"approved", "expired"}
      BY <1>1 DEF Inductive, Licensed
    <3>6. outcome \in Ended /\ outcome # "denied" /\ act[i].status \in {"waiting", "approved"} \cup Underway
      BY <1>3, <2>4 DEF Ended
    <3>7. appr' \in [Intents -> ApprType] /\ appr' = appr
      BY <1>0, <1>1 DEF TypeOK
    <3>8. /\ act' \in [Intents -> ActType] /\ act'[i].status = outcome /\ act'[i].epoch = act[i].epoch
          /\ budget' \in [used : Nat, reserved : Nat] /\ hist' \in HistType /\ hist'.overtaken = overtaken
          /\ Careful(i) /\ Licensed(i)' /\ Told(i)' /\ Books'
      BY <1>1, <1>3, <2>4, <3>2, <3>3, <3>4, <3>5, <3>6, <3>7, Settling
    <3>9. TypeOK'
      BY <1>0, <1>1, <2>1, <3>8 DEF TypeOK
    <3>10. Leads(e) \/ Deferent(i)
      BY <1>0, <3>1, <3>8, Noted DEF Deferent
    <3> QED  BY <1>1, <2>1, <2>2, <3>8, <3>9, <3>10, Writing
  <2> QED  BY <1>2, <1>5, <2>3, <2>4
<1> QED  BY <1>2, <1>5, <1>6

(* A job is submitted under the epoch of an action that nobody has denied. *)
LEMMA KeepsSubmits == ASSUME Inductive, NEW e \in Owners, Submits(e) PROVE Inductive'
<1>i. PICK i \in Intents : i = My(e)
  BY Rows DEF Inductive
<1>0. TypeOK /\ Bound(e) /\ Sure(e) /\ Licensed(i) /\ Told(i) /\ act[i].epoch \in Owners
  BY <1>i, Rows DEF Inductive
<1> DEFINE of == act[i].epoch
<1>1. /\ At(e, "running") \/ At(e, "reconciling")
      /\ job[i][of] = "none" /\ job' = [job EXCEPT ![i][of] = "running"]
      /\ UNCHANGED <<epoch, grants, act, appr, budget, answer, run, owner, hist, left>>
  BY <1>i, <1>0 DEF Submits, JobEpoch, Bound, At
<1>2. Begun(i) /\ (i \in hist.overtaken \/ act[i].status # "denied")
  BY <1>i, <1>0, <1>1 DEF Bound, At
<1>3. /\ job' \in [Intents -> [Owners -> {"none", "running", "succeeded", "failed", "unknown"}]]
      /\ \A k \in Intents \ {i} : job'[k] = job[k]
      /\ \A f \in Owners \ {of} : job'[i][f] = job[i][f]
  BY <1>0, <1>1 DEF TypeOK
<1>4. TypeOK'
  BY <1>0, <1>1, <1>3 DEF TypeOK
<1>5. Careful(i) /\ Deferent(i)
  BY <1>1, <1>3 DEF Careful, Deferent, Begun, Asked
<1>6. Bound(e)' /\ Sure(e)'
  BY <1>0, <1>1 DEF Bound, Sure, At, My, Begun, Asked, Leads
<1>7. Licensed(i)'
  BY <1>0, <1>1, <1>2, <1>3 DEF Licensed, Begun, Asked
<1>8. Told(i)'
  BY <1>0, <1>1, <1>2, <1>3 DEF Told, Backed
<1>9. Books'
  BY <1>1 DEF Inductive, Books, Entry, Unsettled, Succeeded
<1> QED  BY <1>1, <1>4, <1>5, <1>6, <1>7, <1>8, <1>9, Writing

LEMMA KeepsJobEnds ==
    ASSUME Inductive, NEW i \in Intents, NEW e \in Owners, JobEnds(i, e)
    PROVE  Inductive'
<1>0. TypeOK /\ Licensed(i) /\ Told(i)
  BY DEF Inductive
<1>1. PICK end \in {"succeeded", "failed", "unknown"} :
         /\ job[i][e] = "running" /\ job' = [job EXCEPT ![i][e] = end]
         /\ UNCHANGED <<epoch, grants, act, appr, budget, answer, run, owner, hist, left>>
  BY DEF JobEnds
<1>2. /\ job' \in [Intents -> [Owners -> {"none", "running", "succeeded", "failed", "unknown"}]]
      /\ \A k \in Intents \ {i} : job'[k] = job[k]
      /\ \A f \in Owners \ {e} : job'[i][f] = job[i][f]
  BY <1>0, <1>1 DEF TypeOK
<1>3. TypeOK'
  BY <1>0, <1>1, <1>2 DEF TypeOK
<1>4. Careful(i) /\ Deferent(i)
  BY <1>1, <1>2 DEF Careful, Deferent, Begun, Asked
<1>5. Licensed(i)'
  BY <1>0, <1>1, <1>2 DEF Licensed, Begun, Asked
<1>6. Told(i)'
  BY <1>0, <1>1, <1>2 DEF Told, Backed, Licensed
<1>7. Books'
  BY <1>1 DEF Inductive, Books, Entry, Unsettled, Succeeded
<1> QED  BY <1>1, <1>3, <1>4, <1>5, <1>6, <1>7, Happening

(* The runtime is told what the row says. *)
LEMMA KeepsAnswers == ASSUME Inductive, NEW e \in Owners, Answers(e) PROVE Inductive'
<1>i. PICK i \in Intents : i = My(e)
  BY Rows DEF Inductive
<1>0. TypeOK /\ Sure(e) /\ Told(i)
  BY DEF Inductive
<1>1. CASE ~(Leads(e) /\ owner[e].copy \in Ended)
  BY <1>0, <1>1, Leaving DEF Answers, rows, Careless, TypeOK
<1>2. CASE Leads(e) /\ owner[e].copy \in Ended
  <2>1. /\ At(e, "answering") /\ answer' = [answer EXCEPT ![i] = owner[e].copy] /\ Goes(e, "idle")
        /\ UNCHANGED <<epoch, grants, act, appr, budget, job, run, hist, left>>
    BY <1>i, <1>2 DEF Answers
  <2>2. /\ owner' \in [Owners -> OwnerType] /\ owner'[e].pc = "idle"
        /\ \A f \in Owners \ {e} : owner'[f] = owner[f]
    BY <1>0, <2>1, GoesOwner DEF Places
  <2>3. answer' \in [Intents -> {"none"} \cup Ended]
    BY <1>0, <1>2, <2>1 DEF TypeOK
  <2>4. ASSUME NEW f \in Owners PROVE Bound(f)' /\ Sure(f)'
    <3>1. CASE f = e
      BY <2>2, <3>1 DEF Bound, Sure, At
    <3>2. CASE f # e
      BY <2>1, <2>2, <3>2 DEF Inductive, Bound, Sure, At, My, Begun, Asked, Backed, Leads
    <3> QED  BY <3>1, <3>2
  <2>5. ASSUME NEW k \in Intents PROVE Licensed(k)' /\ Told(k)'
    <3>1. Licensed(k)'
      BY <2>1 DEF Inductive, Licensed, Begun, Asked
    <3>2. CASE k = i
      <4>1. i \notin hist.overtaken => act[i].status = owner[e].copy
        BY <1>i, <1>0, <1>2, <2>1 DEF Sure, At
      <4> QED  BY <1>0, <2>1, <3>1, <3>2, <4>1 DEF Told, Backed, TypeOK
    <3>3. CASE k # i
      BY <1>0, <2>1, <3>1, <3>3 DEF Inductive, Told, Backed, TypeOK
    <3> QED  BY <3>2, <3>3
  <2>6. Books'
    BY <2>1 DEF Inductive, Books, Entry, Unsettled, Succeeded
  <2>7. TypeOK'
    BY <1>0, <2>1, <2>2, <2>3 DEF TypeOK
  <2> QED  BY <2>4, <2>5, <2>6, <2>7 DEF Inductive
<1> QED  BY <1>1, <1>2

(* A human decides, or it is too late. *)
LEMMA KeepsDecides == ASSUME Inductive, NEW i \in Intents, Decides(i) PROVE Inductive'
<1>0. TypeOK /\ Licensed(i) /\ Told(i) /\ appr \in [Intents -> ApprType]
  BY DEF Inductive, TypeOK
<1>1. PICK says \in {"approved", "denied"} :
         LET decision == IF appr[i].late THEN "expired" ELSE says IN
         /\ appr' = [appr EXCEPT ![i].decision = decision]
         /\ IF decision = "approved"
            THEN act' = [act EXCEPT ![i].status = "approved"] /\ UNCHANGED <<budget, hist>>
            ELSE Denying(i) /\ Settle(i, FALSE, hist.overtaken)
  BY DEF Decides
<1>2. /\ appr[i].decision = "pending" /\ act[i].status = "waiting"
      /\ UNCHANGED <<epoch, grants, job, answer, run, owner, left>>
  BY DEF Decides
<1>3. ~appr[i].used
  BY <1>0, <1>2 DEF Licensed
<1>4. PICK decision \in {"approved", "denied", "expired"} :
         /\ appr' = [appr EXCEPT ![i].decision = decision]
         /\ \/ /\ act' = [act EXCEPT ![i].status = "approved"] /\ UNCHANGED <<budget, hist>>
            \/ Denying(i) /\ Settle(i, FALSE, hist.overtaken)
  BY <1>1
<1>5. /\ appr' \in [Intents -> ApprType] /\ appr'[i].used = appr[i].used
      /\ \A k \in Intents \ {i} : appr'[k] = appr[k]
  BY <1>0, <1>4 DEF ApprType
<1>6. CASE act' = [act EXCEPT ![i].status = "approved"] /\ UNCHANGED <<budget, hist>>
  <2>1. /\ act' \in [Intents -> ActType] /\ act'[i].status = "approved" /\ act'[i].epoch = act[i].epoch
        /\ \A k \in Intents \ {i} : act'[k] = act[k]
    BY <1>0, <1>6 DEF TypeOK, ActType, Statuses
  <2>2. TypeOK'
    BY <1>0, <1>2, <1>5, <1>6, <2>1 DEF TypeOK
  <2>3. ~Begun(i) /\ \A f \in Owners : job[i][f] = "none"
    BY <1>0, <1>2 DEF Licensed, Begun, Underway, Ended
  <2>4. Careful(i) /\ Deferent(i)
    BY <1>2, <1>5, <1>6, <2>1, <2>3 DEF Careful, Deferent
  <2>5. Licensed(i)' /\ Told(i)'
    BY <1>0, <1>2, <1>3, <1>5, <1>6, <2>1, <2>3 DEF Licensed, Told, Backed, TypeOK, Underway, Ended
  <2>6. Books'
    <3>1. hist.overtaken = {} => Entry(i)
      BY DEF Inductive, Books
    <3>2. hist.overtaken = {} => Entry(i)'
      BY <1>2, <1>6, <2>1, <3>1 DEF Entry, Underway
    <3> QED  BY <1>2, <1>6, <2>1, <3>2, BooksKept
  <2> QED  BY <1>2, <2>2, <2>4, <2>5, <2>6, Happening
<1>7. CASE Denying(i) /\ Settle(i, FALSE, hist.overtaken)
  <2>1. /\ "denied" \in Ended /\ FALSE \in BOOLEAN /\ hist.overtaken \in SUBSET Intents
        /\ act' = [act EXCEPT ![i].status = "denied"] /\ Backed(i, act[i].epoch, "denied")
        /\ hist.overtaken \subseteq hist.overtaken \cup {i}
    BY <1>0, <1>7 DEF Ended, TypeOK, HistType, Denying, Backed
  <2>2. /\ act' \in [Intents -> ActType] /\ act'[i].status = "denied" /\ act'[i].epoch = act[i].epoch
        /\ budget' \in [used : Nat, reserved : Nat] /\ hist' \in HistType /\ hist'.overtaken = hist.overtaken
        /\ Careful(i) /\ Licensed(i)' /\ Told(i)' /\ Books'
    BY <1>2, <1>3, <1>5, <1>7, <2>1, Settling
  <2>3. TypeOK'
    BY <1>0, <1>2, <1>5, <2>2 DEF TypeOK
  <2>4. Deferent(i)
    BY <1>2, <2>2 DEF Deferent
  <2> QED  BY <1>2, <2>2, <2>3, <2>4, Happening
<1> QED  BY <1>4, <1>6, <1>7

LEMMA KeepsElapses == ASSUME Inductive, NEW i \in Intents, Elapses(i) PROVE Inductive'
<1>0. TypeOK /\ Licensed(i) /\ Told(i) /\ appr \in [Intents -> ApprType]
  BY DEF Inductive, TypeOK
<1>1. /\ appr' = [appr EXCEPT ![i].late = TRUE]
      /\ UNCHANGED <<epoch, grants, act, budget, job, answer, run, owner, hist, left>>
  BY DEF Elapses
<1>2. /\ appr' \in [Intents -> ApprType] /\ appr'[i].used = appr[i].used
      /\ appr'[i].decision = appr[i].decision /\ \A k \in Intents \ {i} : appr'[k] = appr[k]
  BY <1>0, <1>1 DEF ApprType
<1>3. TypeOK'
  BY <1>0, <1>1, <1>2 DEF TypeOK
<1>4. Careful(i) /\ Deferent(i)
  BY <1>1, <1>2 DEF Careful, Deferent, Begun, Asked
<1>5. Licensed(i)' /\ Told(i)'
  BY <1>0, <1>1, <1>2 DEF Licensed, Told, Backed, Begun, Asked
<1>6. Books'
  BY <1>1 DEF Inductive, Books, Entry, Unsettled, Succeeded
<1> QED  BY <1>1, <1>3, <1>4, <1>5, <1>6, Happening

-----------------------------------------------------------------------------

LEMMA Initially == Init => Inductive
<1> SUFFICES ASSUME Init PROVE Inductive
  OBVIOUS
<1>1. TypeOK
  BY BrokerAssumption DEF Init, TypeOK, Owners, Intents, ActType, ApprType, OwnerType, HistType, Places, Statuses
<1>2. ASSUME NEW e \in Owners PROVE Bound(e) /\ Sure(e)
  BY DEF Init, Bound, Sure, At
<1>3. ASSUME NEW i \in Intents PROVE Licensed(i) /\ Told(i) /\ Entry(i)
  BY DEF Init, Licensed, Told, Backed, Entry, Begun, Underway, Ended
<1>4. Unsettled = {} /\ Succeeded = {}
  BY DEF Init, Unsettled, Succeeded
<1>5. Books
  BY <1>3, <1>4, FS_EmptySet DEF Books, Init
<1> QED  BY <1>1, <1>2, <1>3, <1>5 DEF Inductive

LEMMA Preserved == Inductive /\ [Next]_vars => Inductive'
<1> SUFFICES ASSUME Inductive, [Next]_vars PROVE Inductive'
  OBVIOUS
<1>1. ASSUME NEW e \in Owners, OwnerNext(e) PROVE Inductive'
  BY <1>1, KeepsComing, KeepsEnding, KeepsLooks, KeepsRefuses, KeepsPersists, KeepsExhausts,
     KeepsRecovers, KeepsKnowing, KeepsResolves, KeepsDenies, KeepsClaims, KeepsExpires,
     KeepsNotClaimed, KeepsSubmits, KeepsSettles, KeepsParks, KeepsReconciles, KeepsParksAgain,
     KeepsAnswers DEF OwnerNext
<1>2. ASSUME NEW e \in Owners, TakeOver(e) \/ RunsOut(e) \/ Errs(e) \/ TimesOut(e) \/ Dies(e)
      PROVE  Inductive'
  BY <1>2, KeepsTakeOver, KeepsEnding
<1>3. ASSUME NEW i \in Intents, Decides(i) \/ Elapses(i) PROVE Inductive'
  BY <1>3, KeepsDecides, KeepsElapses
<1>4. ASSUME NEW i \in Intents, NEW e \in Owners, JobEnds(i, e) PROVE Inductive'
  BY <1>4, KeepsJobEnds
<1>5. CASE UNCHANGED vars
  BY <1>5 DEF vars, Inductive, TypeOK, Bound, Sure, Licensed, Told, Books, Entry, Unsettled, Succeeded,
              Begun, Asked, Backed, At, My, Leads
<1> QED  BY <1>1, <1>2, <1>3, <1>4, <1>5 DEF Next

(* The rows and the owners keep the values the code gives them, however many intents,
   owners and troubles there are. *)
THEOREM BrokerTyping == Spec => []TypeOK
<1>1. Inductive => TypeOK
  BY DEF Inductive
<1> QED  BY <1>1, Initially, Preserved, PTL DEF Spec

(* execute_action's promise: whoever takes over, submits again or reconciles, an effect is
   started at most once, and one a human is asked about only under a consumed approval. *)
THEOREM EffectsApprovedOnce == Spec => []OneApprovedEffect
<1>1. ASSUME Inductive, NEW i \in Intents
      PROVE  /\ Cardinality(Started(i)) <= 1
             /\ i \in Asks /\ Started(i) # {} => appr[i].used /\ appr[i].decision \notin {"pending", "denied"}
  <2>1. Licensed(i)
    BY <1>1 DEF Inductive
  <2>2. Started(i) \subseteq {act[i].epoch}
    BY <2>1 DEF Licensed, Started
  <2>3. Cardinality(Started(i)) <= 1
    <3>1. IsFiniteSet({act[i].epoch}) /\ Cardinality({act[i].epoch}) = 1
      BY FS_Singleton
    <3> QED  BY <2>2, <3>1, FS_Subset
  <2> QED  BY <2>1, <2>3 DEF Licensed, Started, Begun, Asked
<1>2. Inductive => OneApprovedEffect
  BY <1>1 DEF OneApprovedEffect
<1> QED  BY <1>2, Initially, Preserved, PTL DEF Spec

(* The budget's counters are exact, although a settlement clamps at zero, until a fenced
   owner settles: no two of those who decide, expire, deny, settle and reconcile meet. *)
THEOREM BooksBalance == Spec => []BooksAddUp
<1>1. Inductive => BooksAddUp
  <2> SUFFICES ASSUME Inductive, hist.overtaken = {}
               PROVE  /\ \A i \in Intents : hist.settled[i] <= 1
                      /\ budget.reserved = Cardinality(Unsettled)
                      /\ budget.used = Cardinality(Succeeded)
    BY DEF BooksAddUp, Unsettled, Succeeded
  <2>1. ASSUME NEW i \in Intents PROVE hist.settled[i] <= 1
    <3>1. Entry(i) /\ act[i].status \in Statuses
      BY DEF Inductive, Books, TypeOK, ActType
    <3> QED  BY <3>1 DEF Entry, Statuses, Ended
  <2> QED  BY <2>1 DEF Inductive, Books
<1> QED  BY <1>1, Initially, Preserved, PTL DEF Spec

(* The runtime is never told of an action what did not happen, nor is the row changed
   after it was told, unless a fenced owner wrote it. *)
THEOREM AnswersStayTrue == Spec => []AnswersTrue
<1>1. ASSUME Inductive, NEW i \in Intents \ hist.overtaken
      PROVE  /\ answer[i] = "denied" => Started(i) = {}
             /\ answer[i] = "succeeded" => \E e \in Started(i) : job[i][e] = "succeeded"
             /\ answer[i] = "failed" => \E e \in Started(i) : job[i][e] \in {"failed", "succeeded"}
             /\ answer[i] # "none" => act[i].status = answer[i]
  <2>1. Told(i) /\ act[i].epoch \in Owners
    BY <1>1 DEF Inductive, TypeOK, ActType
  <2> QED  BY <2>1 DEF Told, Backed, Started
<1>2. Inductive => AnswersTrue
  BY <1>1 DEF AnswersTrue
<1> QED  BY <1>2, Initially, Preserved, PTL DEF Spec
=============================================================================
