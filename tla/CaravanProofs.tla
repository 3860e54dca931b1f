--------------------------- MODULE CaravanProofs ---------------------------
(* For any visits, drivers and bounds: one caravan is in the world, each pays at most
   once, and the shelves of a caravan that is gone are empty unless it went on after its
   withdrawal.

   Visibility needs no lease: the unique slot alone carries OneCaravan.  The shelves do:
   a driver that still owns its visit knows the phase its plan was made for (Planned),
   and what the owner of a visit has withdrawn nobody stocks again (Emptied). *)
EXTENDS Caravan, TLAPS

Settling == {"fee", "buy", "stock", "finish"}

\* What the plan of a driver says of its visit, while it owns it
Planned(d) ==
    LET v == at[d].visit
    IN /\ at[d].pc \in Settling => visit[v].phase = "trading" /\ at[d].to.phase = "trading"
       /\ at[d].pc = "withdraw" => at[d].to.phase = "outbound"
       /\ at[d].pc \in Settling \cup {"move"} /\ visit[v].withdrawn /\ at[d].to.phase = "trading"
             => v \in resumed
       /\ at[d].pc = "move" /\ visit[v].phase = "trading" =>
             \/ at[d].to.phase = "trading"
             \/ at[d].to.phase = "outbound" /\ visit[v].withdrawn

\* The goods on sale are a visit's that trades and has not withdrawn them
Emptied == shelf.active => /\ shelf.of \in Visits
                           /\ shelf.of \in resumed \/ /\ visit[shelf.of].phase = "trading"
                                                      /\ ~visit[shelf.of].withdrawn

Invariant == /\ TypeOK
             /\ OneCaravan
             /\ Emptied
             /\ \A d \in Drivers : Owns(d) => Planned(d)

-----------------------------------------------------------------------------
(* What a plan says is what it was made with. *)
LEMMA ToTypes ==
    \A phase \in Active \cup Ended, wake \in Wake, pending \in BOOLEAN :
        To(phase, wake, pending) \in PlanType /\ To(phase, wake, pending).phase = phase
  BY DEF To, PlanType

LEMMA SameTypes ==
    ASSUME TypeOK, NEW v \in Visits
    PROVE  \A phase \in Active \cup Ended, wake \in Wake :
               Same(v, phase, wake) \in PlanType /\ Same(v, phase, wake).phase = phase
<1>1. visit[v].pending \in BOOLEAN
  BY DEF TypeOK, VisitType
<1> QED  BY <1>1, ToTypes DEF Same

(* Every plan is well typed; a caravan that must leave goes outbound, a trading one stays
   trading otherwise, and only one that arrives or trades is to trade. *)
LEMMA PlanTypes ==
    ASSUME TypeOK, NEW v \in Visits, NEW to \in Plans(v), visit[v].phase \in Active
    PROVE  /\ to \in PlanType
           /\ MustLeave(v) => to.phase = "outbound"
           /\ visit[v].phase = "trading" /\ ~MustLeave(v) => to.phase = "trading"
           /\ to.phase = "trading" => visit[v].phase \in {"inbound", "trading"} /\ ~MustLeave(v)
<1>1. \A p \in {"scheduled", "cancelled", "waiting", "inbound", "trading", "outbound", "departed"} :
         p \in Active \cup Ended
  BY DEF Active, Visible, Ended
<1>5. \A w \in {"now", "opens", "closes", "arrival", "motion"} : w \in Wake
  BY DEF Wake
<1>6. /\ To("scheduled", "opens", TRUE) \in PlanType /\ To("scheduled", "opens", TRUE).phase = "scheduled"
      /\ To("scheduled", "closes", TRUE) \in PlanType /\ To("scheduled", "closes", TRUE).phase = "scheduled"
      /\ To("waiting", "closes", TRUE) \in PlanType /\ To("waiting", "closes", TRUE).phase = "waiting"
      /\ To("waiting", "opens", FALSE) \in PlanType /\ To("waiting", "opens", FALSE).phase = "waiting"
      /\ To("inbound", "arrival", FALSE) \in PlanType /\ To("inbound", "arrival", FALSE).phase = "inbound"
  BY <1>1, <1>5, ToTypes
<1>7. /\ Same(v, "cancelled", "now") \in PlanType /\ Same(v, "cancelled", "now").phase = "cancelled"
      /\ Same(v, "scheduled", "opens") \in PlanType /\ Same(v, "scheduled", "opens").phase = "scheduled"
  BY <1>1, <1>5, SameTypes
<1>2. CASE visit[v].phase = "scheduled"
  <2>1. to \in FromScheduled(v)
    BY <1>2 DEF Plans
  <2>2. to \in PlanType /\ to.phase # "trading"
    <3>1. \/ to = Same(v, "cancelled", "now") \/ to = Same(v, "scheduled", "opens")
          \/ to = To("scheduled", "opens", TRUE) \/ to = To("scheduled", "closes", TRUE)
          \/ to = To("inbound", "arrival", FALSE) \/ to = To("waiting", "opens", FALSE)
      BY <2>1 DEF FromScheduled, Inbound
    <3> QED  BY <1>6, <1>7, <3>1
  <2> QED  BY <1>2, <2>2 DEF MustLeave
<1>3. CASE visit[v].phase = "waiting"
  <2>1. to \in FromWaiting(v)
    BY <1>3 DEF Plans
  <2>2. to \in PlanType /\ to.phase # "trading"
    <3>1. \/ to = Same(v, "cancelled", "now")
          \/ to = To("waiting", "closes", TRUE) \/ to = To("waiting", "opens", FALSE)
          \/ to = To("inbound", "arrival", FALSE)
      BY <2>1 DEF FromWaiting, Inbound
    <3> QED  BY <1>6, <1>7, <3>1
  <2> QED  BY <1>3, <2>2 DEF MustLeave
<1>4. CASE visit[v].phase \in {"inbound", "trading", "outbound"}
  <2>1. CASE MustLeave(v)
    <3>1. to = Leave(v)
      BY <1>4, <2>1 DEF Plans
    <3> QED  BY <1>1, <1>5, <2>1, <3>1, SameTypes DEF Leave
  <2>2. CASE ~MustLeave(v) /\ visit[v].phase = "trading"
    <3>1. to = Same(v, "trading", "closes")
      BY <2>2 DEF Plans
    <3> QED  BY <1>1, <1>5, <2>2, <3>1, SameTypes
  <2>3. CASE ~MustLeave(v) /\ visit[v].phase \in {"inbound", "outbound"}
    <3>1. to \in Moving(v)
      BY <2>3 DEF Plans
    <3>2. to \in PlanType /\ (to.phase = "trading" => visit[v].phase = "inbound")
      <4>1. \/ to = Same(v, "trading", "now") /\ visit[v].phase = "inbound"
            \/ to = Same(v, "departed", "now") \/ to = Same(v, visit[v].phase, "motion")
        BY <3>1 DEF Moving
      <4> QED  BY <1>1, <1>5, <2>3, <4>1, SameTypes
    <3> QED  BY <2>3, <3>2
  <2> QED  BY <1>4, <2>1, <2>2, <2>3
<1> QED  BY <1>2, <1>3, <1>4 DEF Active, Visible
-----------------------------------------------------------------------------
(* What a driver's step must leave right: its own visit and what it has in mind.  The
   other drivers' visits are other rows. *)
LEMMA DriverStep ==
    ASSUME Invariant, NEW d \in Drivers, NEW v \in Visits, NEW row \in VisitType, NEW mind \in AtType,
           visit' = [visit EXCEPT ![v] = row], at' = [at EXCEPT ![d] = mind],
           UNCHANGED <<clock, admitted>>,
           resumed \subseteq resumed', resumed' \subseteq Visits,
           shelf' \in [of : Visits \cup {NoOne}, active : BOOLEAN],
           \A e \in Drivers \ {d} : row.owner # e,
           row.phase \in Visible => visit[v].phase \in Visible \/ ~OtherVisible(v),
           Emptied', Owns(d)' => Planned(d)'
    PROVE  Invariant'
<1>1. TypeOK'
  BY DEF Invariant, TypeOK
<1>2. OneCaravan'
  <2>1. \A w \in Visits : visit'[w] = IF w = v THEN row ELSE visit[w]
    BY DEF Invariant, TypeOK
  <2> QED  BY <2>1 DEF Invariant, OneCaravan, OtherVisible
<1>3. ASSUME NEW e \in Drivers, e # d, Owns(e)'  PROVE Planned(e)'
  <2>1. at'[e] = at[e]
    BY <1>3 DEF Invariant, TypeOK
  <2>2. at[e].visit \in Visits
    BY <1>3, <2>1, CaravanAssumption DEF Owns, Mine, Invariant, TypeOK, AtType
  <2>3. at[e].visit # v
    BY <1>3, <2>1 DEF Owns, Mine, Invariant, TypeOK
  <2>4. visit'[at[e].visit] = visit[at[e].visit]
    BY <2>2, <2>3 DEF Invariant, TypeOK
  <2>5. Owns(e) /\ Planned(e)
    BY <1>3, <2>1, <2>4 DEF Owns, Mine, Invariant
  <2> QED  BY <2>1, <2>4, <2>5 DEF Planned
<1> QED  BY <1>1, <1>2, <1>3 DEF Invariant

(* A step of the world: it moves no visit, and takes none from its driver. *)
LEMMA WorldStep ==
    ASSUME Invariant, visit' \in [Visits -> VisitType],
           \A v \in Visits : /\ visit'[v].phase = visit[v].phase /\ visit'[v].owner = visit[v].owner
                             /\ visit'[v].withdrawn = visit[v].withdrawn,
           clock' \in [Visits -> {"before", "open", "closed"}], admitted' \in BOOLEAN,
           UNCHANGED <<shelf, at, resumed>>
    PROVE  Invariant'
<1>1. TypeOK'
  BY DEF Invariant, TypeOK
<1>2. OneCaravan' /\ Emptied'
  BY DEF Invariant, TypeOK, OneCaravan, Emptied
<1>3. ASSUME NEW e \in Drivers, Owns(e)'  PROVE Planned(e)'
  <2>1. at[e].visit \in Visits
    BY <1>3, CaravanAssumption DEF Owns, Mine, Invariant, TypeOK, AtType
  <2>2. Owns(e) /\ Planned(e)
    BY <1>3, <2>1 DEF Owns, Mine, Invariant
  <2> QED  BY <2>1, <2>2 DEF Planned
<1> QED  BY <1>1, <1>2, <1>3 DEF Invariant

(* Nor does a driver that gives up disturb anything. *)
LEMMA QuitStep ==
    ASSUME Invariant, NEW d \in Drivers, Quits(d), UNCHANGED <<visit, clock, admitted, shelf, resumed>>
    PROVE  Invariant'
<1>1. Idle \in AtType
  BY DEF Idle, Stay, AtType, PlanType, Active, Visible, Ended, Wake
<1>2. TypeOK'
  BY <1>1 DEF Invariant, TypeOK, Quits
<1>3. OneCaravan' /\ Emptied'
  BY DEF Invariant, OneCaravan, Emptied
<1>4. ASSUME NEW e \in Drivers, Owns(e)'  PROVE Planned(e)'
  <2>1. e # d
    BY <1>4 DEF Owns, Mine, Quits, Idle, Invariant, TypeOK
  <2>2. at'[e] = at[e]
    BY <2>1 DEF Quits, Invariant, TypeOK
  <2>3. Owns(e) /\ Planned(e)
    BY <1>4, <2>2 DEF Owns, Mine, Invariant
  <2> QED  BY <2>2, <2>3 DEF Planned
<1> QED  BY <1>2, <1>3, <1>4 DEF Invariant

-----------------------------------------------------------------------------
(* The driver's actions. *)

\* What a driver that owns its visit may rely on
LEMMA Owned ==
    ASSUME Invariant, NEW d \in Drivers, Owns(d)
    PROVE  /\ Mine(d) \in Visits /\ visit[Mine(d)] \in VisitType /\ at[d] \in AtType
           /\ visit[Mine(d)].owner = d /\ Planned(d)
  BY CaravanAssumption DEF Owns, Mine, Invariant, TypeOK, AtType

LEMMA ClaimKeeps ==
    ASSUME Invariant, NEW d \in Drivers, NEW v \in Visits, Claim(d, v)
    PROVE  Invariant'
<1> DEFINE row == [visit[v] EXCEPT !.owner = d, !.live = TRUE]
           pc == IF MustLeave(v) THEN "withdraw" ELSE IF MustSettle(v) THEN "fee" ELSE "move"
<1>1. PICK to \in Plans(v) : at' = [at EXCEPT ![d] = [pc |-> pc, visit |-> v, to |-> to]]
  BY DEF Claim
<1>2. visit[v] \in VisitType /\ visit[v].phase \in Active /\ TypeOK
  BY DEF Claim, Claimable, Invariant, TypeOK
<1>3. /\ to \in PlanType
      /\ MustLeave(v) => to.phase = "outbound"
      /\ visit[v].phase = "trading" /\ ~MustLeave(v) => to.phase = "trading"
      /\ to.phase = "trading" => visit[v].phase \in {"inbound", "trading"} /\ ~MustLeave(v)
  BY <1>2, PlanTypes
<1>4. row \in VisitType /\ row.phase = visit[v].phase /\ row.owner = d /\ row.withdrawn = visit[v].withdrawn
  BY <1>2 DEF VisitType
<1>5. visit' = [visit EXCEPT ![v] = row]
  BY DEF Claim
<1> DEFINE mind == [pc |-> pc, visit |-> v, to |-> to]
<1>6. mind \in AtType
  BY <1>3 DEF AtType
<1>7. resumed \subseteq resumed' /\ resumed' \subseteq Visits
  BY DEF Claim, Invariant, TypeOK
<1>8. Emptied'
  BY <1>4, <1>5, <1>7 DEF Claim, Emptied, Invariant, TypeOK
<1>9. visit'[v] = row /\ at'[d] = mind
  BY <1>1, <1>5 DEF Invariant, TypeOK
<1>10. Planned(d)'
  <2>1. row.withdrawn /\ to.phase = "trading" => v \in resumed'
    BY <1>3, <1>4 DEF Claim
  <2>2. /\ pc = "withdraw" => to.phase = "outbound"
        /\ pc = "fee" => visit[v].phase = "trading" /\ to.phase = "trading"
        /\ pc = "move" /\ visit[v].phase = "trading" => to.phase = "trading"
        /\ pc \in {"withdraw", "fee", "move"}
    BY <1>3 DEF MustSettle
  <2>3. /\ at'[d].pc = pc /\ at'[d].visit = v /\ at'[d].to = to
        /\ visit'[v].phase = visit[v].phase /\ visit'[v].withdrawn = row.withdrawn
    BY <1>4, <1>9
  <2> HIDE DEF pc, row
  <2> QED  BY <2>1, <2>2, <2>3 DEF Planned, Settling
<1>11. shelf' \in [of : Visits \cup {NoOne}, active : BOOLEAN] /\ UNCHANGED <<clock, admitted>>
  BY DEF Claim, Invariant, TypeOK
<1> QED  BY <1>1, <1>4, <1>5, <1>6, <1>7, <1>8, <1>10, <1>11, DriverStep

LEMMA MoveKeeps ==
    ASSUME Invariant, NEW d \in Drivers, Move(d)
    PROVE  Invariant'
<1> DEFINE v == Mine(d)
           to == at[d].to
           starts == to.phase # visit[v].phase /\ to.phase \in {"inbound", "outbound"}
           row == [visit[v] EXCEPT !.phase = to.phase, !.wake = to.wake, !.pending = to.pending,
                                   !.owner = NoOne, !.live = FALSE, !.arrived = @ /\ ~starts]
<1>1. v \in Visits /\ visit[v] \in VisitType /\ at[d] \in AtType /\ Planned(d)
  BY Owned DEF Move
<1>2. visit' = [visit EXCEPT ![v] = row]
  BY DEF Move
<1>3. to \in PlanType
  BY <1>1 DEF AtType
<1>4. /\ row \in VisitType /\ row.phase = to.phase /\ row.owner = NoOne
      /\ row.withdrawn = visit[v].withdrawn
  <2>1. \A arrived \in BOOLEAN, pending \in BOOLEAN :
           LET r == [visit[v] EXCEPT !.phase = to.phase, !.wake = to.wake, !.pending = pending,
                                     !.owner = NoOne, !.live = FALSE, !.arrived = arrived]
           IN  /\ r \in VisitType /\ r.phase = to.phase /\ r.owner = NoOne
               /\ r.withdrawn = visit[v].withdrawn
    BY <1>1, <1>3, ZenonT(40) DEF PlanType, VisitType
  <2>2. (visit[v].arrived /\ ~starts) \in BOOLEAN
    OBVIOUS
  <2>3. to.pending \in BOOLEAN
    BY <1>3 DEF PlanType
  <2> HIDE DEF starts, to
  <2> QED  BY <2>1, <2>2, <2>3
<1>6. Idle \in AtType
  BY DEF Idle, Stay, AtType, PlanType, Active, Visible, Ended, Wake
<1>7. ~Owns(d)'
  BY DEF Move, Quits, Idle, Owns, Mine, Invariant, TypeOK
<1>8. row.phase \in Visible => ~OtherVisible(v)
  BY <1>4 DEF Move, SlotFree
<1>9. Emptied'
  <2>1. visit'[v] = row /\ \A w \in Visits \ {v} : visit'[w] = visit[w]
    BY <1>1, <1>2 DEF Invariant, TypeOK
  <2>2. visit[v].phase = "trading" => to.phase = "trading" \/ visit[v].withdrawn
    BY <1>1 DEF Planned, Move, At, Mine
  <2> QED  BY <1>4, <2>1, <2>2 DEF Move, Emptied, Invariant
<1>10. \A e \in Drivers : row.owner # e
  BY <1>4, CaravanAssumption
<1>11. shelf' \in [of : Visits \cup {NoOne}, active : BOOLEAN] /\ UNCHANGED <<clock, admitted>>
       /\ resumed \subseteq resumed' /\ resumed' \subseteq Visits /\ at' = [at EXCEPT ![d] = Idle]
  BY DEF Move, Quits, Invariant, TypeOK
<1> QED  BY <1>1, <1>2, <1>4, <1>6, <1>7, <1>8, <1>9, <1>10, <1>11, DriverStep

LEMMA WithdrawKeeps ==
    ASSUME Invariant, NEW d \in Drivers, Withdraw(d)
    PROVE  Invariant'
<1> DEFINE v == Mine(d)
           row == [[visit[v] EXCEPT !.withdrawn = TRUE] EXCEPT !.live = TRUE]
           mind == [at[d] EXCEPT !.pc = "move"]
<1>1. /\ v \in Visits /\ visit[v] \in VisitType /\ at[d] \in AtType /\ Planned(d)
      /\ visit[v].owner = d
  BY Owned DEF Withdraw
<1>2. visit' = [visit EXCEPT ![v] = row] /\ at' = [at EXCEPT ![d] = mind]
  BY DEF Withdraw, Writes, Goes
<1>3. /\ row \in VisitType /\ row.phase = visit[v].phase /\ row.owner = d /\ row.withdrawn
      /\ mind \in AtType /\ mind.pc = "move" /\ mind.visit = v /\ mind.to = at[d].to
  BY <1>1 DEF VisitType, AtType, Mine
<1>4. /\ visit'[v] = row /\ \A w \in Visits \ {v} : visit'[w] = visit[w]
      /\ at'[d] = mind
  BY <1>1, <1>2 DEF Invariant, TypeOK
<1>5. at[d].to.phase = "outbound"
  BY <1>1 DEF Planned, Withdraw, At
<1>6. Planned(d)'
  <2>1. /\ at'[d].pc = "move" /\ at'[d].visit = v /\ at'[d].to.phase = "outbound"
        /\ visit'[v].withdrawn
    BY <1>3, <1>4, <1>5
  <2> QED  BY <2>1 DEF Planned, Settling
<1>7. Emptied' /\ shelf' \in [of : Visits \cup {NoOne}, active : BOOLEAN]
  <2>1. CASE visit[v].withdrawn \/ shelf.of # v
    <3>1. shelf' = shelf
      BY <2>1 DEF Withdraw
    <3> QED  BY <1>3, <1>4, <2>1, <3>1 DEF Withdraw, Emptied, Invariant, TypeOK
  <2>2. CASE ~visit[v].withdrawn /\ shelf.of = v
    <3>1. shelf' = [shelf EXCEPT !.active = FALSE]
      BY <2>2 DEF Withdraw
    <3> QED  BY <3>1 DEF Emptied, Invariant, TypeOK
  <2> QED  BY <2>1, <2>2
<1>8. /\ UNCHANGED <<clock, admitted>> /\ resumed \subseteq resumed' /\ resumed' \subseteq Visits
  BY DEF Withdraw, Invariant, TypeOK
<1>9. /\ \A e \in Drivers \ {d} : row.owner # e
      /\ row.phase \in Visible => visit[v].phase \in Visible \/ ~OtherVisible(v)
  BY <1>3
<1> HIDE DEF row, mind
<1> QED  BY <1>1, <1>2, <1>3, <1>6, <1>7, <1>8, <1>9, DriverStep

(* The settlement: a step of it keeps the phase and the withdrawal of its visit. *)
LEMMA SettleStep ==
    ASSUME Invariant, NEW d \in Drivers, NEW row \in VisitType, NEW pc \in Settling \cup {"move"},
           Owns(d), at[d].pc \in Settling, Writes(d, row), Goes(d, pc),
           row.phase = visit[Mine(d)].phase, row.owner = d,
           row.withdrawn = visit[Mine(d)].withdrawn,
           shelf' = shelf \/ shelf' = Goods(Mine(d)), UNCHANGED <<clock, admitted, resumed>>
    PROVE  Invariant'
<1> DEFINE v == Mine(d)
           new == [row EXCEPT !.live = TRUE]
           mind == [at[d] EXCEPT !.pc = pc]
<1>1. /\ v \in Visits /\ visit[v] \in VisitType /\ at[d] \in AtType /\ Planned(d)
      /\ visit[v].owner = d
  BY Owned
<1>2. visit' = [visit EXCEPT ![v] = new] /\ at' = [at EXCEPT ![d] = mind]
  BY DEF Writes, Goes
<1>3. /\ new \in VisitType /\ new.phase = visit[v].phase /\ new.owner = d
      /\ new.withdrawn = visit[v].withdrawn
      /\ mind \in AtType /\ mind.pc = pc /\ mind.visit = v /\ mind.to = at[d].to
  BY <1>1 DEF VisitType, AtType, Mine, Settling
<1>4. /\ visit'[v] = new /\ \A w \in Visits \ {v} : visit'[w] = visit[w]
      /\ at'[d] = mind
  BY <1>1, <1>2 DEF Invariant, TypeOK
<1>5. /\ visit[v].phase = "trading" /\ at[d].to.phase = "trading"
      /\ visit[v].withdrawn => v \in resumed
  BY <1>1 DEF Planned, Mine
<1>6. Planned(d)'
  <2>1. /\ at'[d].visit = v /\ at'[d].to.phase = "trading"
        /\ visit'[v].phase = "trading" /\ (visit'[v].withdrawn => v \in resumed')
    BY <1>3, <1>4, <1>5
  <2>2. at'[d].pc # "withdraw"
    BY <1>3, <1>4 DEF Settling
  <2> QED  BY <2>1, <2>2 DEF Planned
<1>7. Emptied' /\ shelf' \in [of : Visits \cup {NoOne}, active : BOOLEAN]
  <2>1. CASE shelf' = shelf
    <3>1. \A w \in Visits : /\ visit'[w].phase = visit[w].phase
                             /\ visit'[w].withdrawn = visit[w].withdrawn
      BY <1>3, <1>4
    <3> QED  BY <2>1, <3>1 DEF Emptied, Invariant, TypeOK
  <2>2. CASE shelf' = Goods(v)
    BY <1>1, <1>3, <1>4, <1>5, <2>2 DEF Emptied, Goods
  <2> QED  BY <2>1, <2>2
<1>8. resumed \subseteq resumed' /\ resumed' \subseteq Visits
  BY DEF Invariant, TypeOK
<1>9. /\ \A e \in Drivers \ {d} : new.owner # e
      /\ new.phase \in Visible => visit[v].phase \in Visible \/ ~OtherVisible(v)
  BY <1>3
<1> HIDE DEF new, mind, v
<1> QED  BY <1>1, <1>2, <1>3, <1>6, <1>7, <1>8, <1>9, DriverStep

LEMMA SettlesKeep ==
    ASSUME Invariant, NEW d \in Drivers, Fee(d) \/ Buy(d) \/ Stock(d) \/ Finish(d)
    PROVE  Invariant'
<1> DEFINE v == Mine(d)
<1>1. /\ v \in Visits /\ visit[v] \in VisitType /\ visit[v].owner = d /\ Owns(d)
  BY Owned DEF Fee, Buy, Stock, Finish
<1>2. /\ [visit[v] EXCEPT !.stocked = TRUE] \in VisitType
      /\ [visit[v] EXCEPT !.stocked = TRUE].phase = visit[v].phase
      /\ [visit[v] EXCEPT !.stocked = TRUE].owner = d
      /\ [visit[v] EXCEPT !.stocked = TRUE].withdrawn = visit[v].withdrawn
      /\ [visit[v] EXCEPT !.settled = TRUE] \in VisitType
      /\ [visit[v] EXCEPT !.settled = TRUE].phase = visit[v].phase
      /\ [visit[v] EXCEPT !.settled = TRUE].owner = d
      /\ [visit[v] EXCEPT !.settled = TRUE].withdrawn = visit[v].withdrawn
  BY <1>1 DEF VisitType
<1>3. CASE Fee(d)
  <2> DEFINE row == IF FeeDue(v) THEN [visit[v] EXCEPT !.fees = @ + 1] ELSE visit[v]
  <2>1. /\ row \in VisitType /\ row.phase = visit[v].phase /\ row.owner = d
        /\ row.withdrawn = visit[v].withdrawn
    BY <1>1 DEF VisitType, FeeDue
  <2>2. Writes(d, row) /\ Goes(d, "buy") /\ at[d].pc = "fee" /\ UNCHANGED <<clock, admitted, shelf, resumed>>
    BY <1>3 DEF Fee, At
  <2> QED  BY <1>1, <2>1, <2>2, SettleStep DEF Settling
<1>4. CASE Buy(d)
  <2> DEFINE row == [visit[v] EXCEPT !.buys = @ + 1]
  <2>1. Unclaimed(v) => /\ row \in VisitType /\ row.phase = visit[v].phase /\ row.owner = d
                        /\ row.withdrawn = visit[v].withdrawn
    BY <1>1 DEF VisitType, Unclaimed
  <2>2. /\ (Unclaimed(v) /\ Writes(d, row)) \/ Writes(d, visit[v])
        /\ Goes(d, "stock") /\ at[d].pc = "buy" /\ UNCHANGED <<clock, admitted, shelf, resumed>>
    BY <1>4 DEF Buy, At
  <2> QED  BY <1>1, <2>1, <2>2, SettleStep DEF Settling
<1>5. CASE Stock(d)
  <2>1. /\ Writes(d, [visit[v] EXCEPT !.stocked = TRUE]) /\ Goes(d, "finish") /\ at[d].pc = "stock"
        /\ shelf' = shelf \/ shelf' = Goods(v)
        /\ UNCHANGED <<clock, admitted, resumed>>
    BY <1>5 DEF Stock, At
  <2> QED  BY <1>1, <1>2, <2>1, SettleStep DEF Settling
<1>6. CASE Finish(d)
  <2>1. /\ Writes(d, [visit[v] EXCEPT !.settled = TRUE]) /\ Goes(d, "move") /\ at[d].pc = "finish"
        /\ UNCHANGED <<clock, admitted, shelf, resumed>>
    BY <1>6 DEF Finish, At
  <2> QED  BY <1>1, <1>2, <2>1, SettleStep DEF Settling
<1> QED  BY <1>3, <1>4, <1>5, <1>6

-----------------------------------------------------------------------------
(* The world's actions. *)
LEMMA WakesKeep ==
    ASSUME Invariant, NEW vs, Wakes(vs), UNCHANGED <<clock, admitted, shelf, at, resumed>>
    PROVE  Invariant'
<1>1. \A v \in Visits : [visit[v] EXCEPT !.wake = "now"] \in VisitType
  BY DEF Invariant, TypeOK, VisitType, Wake
<1>2. visit' \in [Visits -> VisitType]
  BY <1>1 DEF Wakes, Invariant, TypeOK
<1>3. \A v \in Visits : /\ visit'[v].phase = visit[v].phase /\ visit'[v].owner = visit[v].owner
                        /\ visit'[v].withdrawn = visit[v].withdrawn
  BY DEF Wakes, Invariant, TypeOK, VisitType
<1>4. clock' \in [Visits -> {"before", "open", "closed"}] /\ admitted' \in BOOLEAN
  BY DEF Invariant, TypeOK
<1> QED  BY <1>2, <1>3, <1>4, WorldStep

LEMMA ClocksKeep ==
    ASSUME Invariant,
           \/ \E v \in Visits : Arrives(v) \/ Lapses(v) \/ OrphanLapses(v) \/ Opens(v) \/ Closes(v)
           \/ Amend
    PROVE  Invariant'
<1>1. UNCHANGED <<shelf, at, resumed>>
  BY DEF Arrives, Lapses, OrphanLapses, Expires, Opens, Closes, Turns, Amend
<1>2. clock' \in [Visits -> {"before", "open", "closed"}] /\ admitted' \in BOOLEAN
  BY DEF Arrives, Lapses, OrphanLapses, Expires, Opens, Closes, Turns, Amend, Invariant, TypeOK
<1>3. /\ visit' \in [Visits -> VisitType]
      /\ \A v \in Visits : /\ visit'[v].phase = visit[v].phase /\ visit'[v].owner = visit[v].owner
                           /\ visit'[v].withdrawn = visit[v].withdrawn
  <2>1. CASE UNCHANGED visit
    BY <2>1 DEF Invariant, TypeOK
  <2>2. ASSUME NEW v \in Visits, \/ visit' = [visit EXCEPT ![v].arrived = TRUE]
                                 \/ visit' = [visit EXCEPT ![v].live = FALSE]
        PROVE  <1>3
    <3>1. \A w \in Visits : visit[w] \in VisitType
      BY DEF Invariant, TypeOK
    <3>2. /\ [visit[v] EXCEPT !.arrived = TRUE] \in VisitType
          /\ [visit[v] EXCEPT !.live = FALSE] \in VisitType
      BY <3>1 DEF VisitType
    <3>3. \/ visit' = [visit EXCEPT ![v] = [visit[v] EXCEPT !.arrived = TRUE]]
          \/ visit' = [visit EXCEPT ![v] = [visit[v] EXCEPT !.live = FALSE]]
      BY <2>2
    <3>4. visit \in [Visits -> VisitType]
      BY DEF Invariant, TypeOK
    <3>5. visit' \in [Visits -> VisitType]
      BY <3>2, <3>3, <3>4
    <3>6. \A w \in Visits : /\ visit'[w].phase = visit[w].phase /\ visit'[w].owner = visit[w].owner
                            /\ visit'[w].withdrawn = visit[w].withdrawn
      BY <3>1, <3>3, <3>4 DEF VisitType
    <3> QED  BY <3>5, <3>6
  <2>3. UNCHANGED visit \/ \E v \in Visits : \/ visit' = [visit EXCEPT ![v].arrived = TRUE]
                                             \/ visit' = [visit EXCEPT ![v].live = FALSE]
    BY DEF Arrives, Lapses, OrphanLapses, Expires, Opens, Closes, Turns, Amend
  <2> QED  BY <2>1, <2>2, <2>3
<1> QED  BY <1>1, <1>2, <1>3, WorldStep

-----------------------------------------------------------------------------
LEMMA Starts == Init => Invariant
<1> SUFFICES ASSUME Init  PROVE Invariant
  OBVIOUS
<1>1. /\ NewVisit \in VisitType
      /\ [NewVisit EXCEPT !.phase = "cancelled", !.wake = "now"] \in VisitType
  <2>1. NewVisit \in VisitType
    BY DEF NewVisit, VisitType, Active, Visible, Ended, Wake
  <2> QED  BY <2>1 DEF VisitType, Active, Visible, Ended, Wake
<1>2. Idle \in AtType
  BY DEF Idle, Stay, AtType, PlanType, Active, Visible, Ended, Wake
<1>3. TypeOK
  BY <1>1, <1>2 DEF Init, TypeOK
<1>4. \A v \in Visits : visit[v].phase \notin Visible
  BY DEF Init, NewVisit, Visible
<1>5. OneCaravan /\ Emptied
  BY <1>4 DEF OneCaravan, Emptied, Init
<1>6. \A d \in Drivers : ~Owns(d)
  BY DEF Init, Owns, Mine, Idle
<1> QED  BY <1>3, <1>5, <1>6 DEF Invariant

LEMMA Keeps == Invariant /\ [Next]_vars => Invariant'
<1> SUFFICES ASSUME Invariant, [Next]_vars  PROVE Invariant'
  OBVIOUS
<1>1. ASSUME NEW d \in Drivers, Drives(d)  PROVE Invariant'
  <2>1. CASE \E v \in Visits : Claim(d, v)
    BY <2>1, ClaimKeeps
  <2>2. CASE Move(d)
    BY <2>2, MoveKeeps
  <2>3. CASE MoveRefused(d) \/ LoseLease(d)
    BY <2>3, QuitStep DEF MoveRefused, LoseLease
  <2>4. CASE Withdraw(d)
    BY <2>4, WithdrawKeeps
  <2>5. CASE Fee(d) \/ Buy(d) \/ Stock(d) \/ Finish(d)
    BY <2>5, SettlesKeep
  <2> QED  BY <1>1, <2>1, <2>2, <2>3, <2>4, <2>5 DEF Drives
<1>2. ASSUME NEW d \in Drivers, Fails(d)  PROVE Invariant'
  BY <1>2, QuitStep DEF Fails
<1>3. ASSUME Reconcile \/ \E v \in Visits : WakeForEvent(v) \/ LeadPasses(v)  PROVE Invariant'
  BY <1>3, WakesKeep DEF Reconcile, WakeForEvent, LeadPasses
<1>4. CASE UNCHANGED vars
  BY <1>4, WorldStep DEF vars, Invariant, TypeOK
<1> QED  BY <1>1, <1>2, <1>3, <1>4, ClocksKeep DEF Next

THEOREM Invariance == Spec => []Invariant
BY Starts, Keeps, PTL DEF Spec

(* Every row keeps its type: in particular no visit pays a second stall fee or buys its
   work a second time, however often its settlement is begun again by another driver. *)
THEOREM CaravanTyping == Spec => []TypeOK
<1>1. Invariant => TypeOK
  BY DEF Invariant
<1> QED  BY <1>1, Invariance, PTL

(* Two caravans are never in the world, whatever the drivers read before they wrote. *)
THEOREM OneCaravanEver == Spec => []OneCaravan
<1>1. Invariant => OneCaravan
  BY DEF Invariant
<1> QED  BY <1>1, Invariance, PTL

(* No goods stay on sale of a caravan that is gone, unless it went on after it had already
   withdrawn them. *)
THEOREM ShelvesEmptiedBehind == Spec => []ShelvesEmptied
<1>1. Invariant => ShelvesEmptied
  BY DEF Invariant, Emptied, ShelvesEmptied, ShelvesWithdrawn
<1> QED  BY <1>1, Invariance, PTL

=============================================================================
