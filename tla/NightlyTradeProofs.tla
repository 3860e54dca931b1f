------------------------- MODULE NightlyTradeProofs -------------------------
(* What the commission board and the town's trade guarantee together, for any number of
   residents, players, errands, requests and sessions.

   The board (Errands): an errand has one row, and whoever writes it by primary key has read
   it as its own.  As long as the requests of one player follow each other, the player's
   column says which request that can be.

   The trade (Purchases): a row that a session has written is locked until it commits, so
   what a guarded statement found is still there then, whoever else buys meanwhile. *)
EXTENDS NightlyTrade, Sequences, FiniteSetTheorems, TLAPS

-----------------------------------------------------------------------------
(* The board. *)

\* a row as every transaction leaves it
ErrandRow(c) ==
    /\ user[c] = NoOne \/ npc[c] = NoOne
    /\ status[c] \in {"none", "open"} => user[c] = NoOne /\ npc[c] = NoOne
    /\ status[c] # "completed" => paid[c] = 0
    /\ paid[c] <= 1
    /\ status[c] = "expired" /\ npc[c] # NoOne => c \in missed

\* an errand about to be posted is not there yet
Posting(r) == post[r] # NoOne => Issuer[post[r]] = r /\ status[post[r]] = "none"

\* what a request knows of the rows it has read: they are its player's
Reads(q) ==
    /\ \A c \in req[q].seen : user[c] = env.of[q] /\ status[c] \in {"accepted", "expired"}
    /\ req[q].paying # NoOne => LET c == req[q].paying IN
          user[c] = env.of[q] /\ status[c] = "completed" /\ paid[c] = 0

\* the settle pass leaves no errand of a resident accepted that it has not tried
Swept == night.pass = "settle" =>
    \A c \in Commissions : status[c] = "accepted" /\ npc[c] # NoOne => c \in night.todo \cup missed

Errands == /\ \A c \in Commissions : ErrandRow(c)
           /\ \A r \in Residents : Posting(r)
           /\ \A q \in Requests : Reads(q)
           /\ Swept

LEMMA Asking ==
    ASSUME NEW q \in Requests, NEW op \in {"idle", "abandon", "complete"},
           NEW rows \in SUBSET Commissions, NEW c \in Commissions \cup {NoOne},
           req \in [Requests -> ReqType], Does(q, op, rows, c)
    PROVE  /\ req' \in [Requests -> ReqType]
           /\ req'[q] = [op |-> op, seen |-> rows, paying |-> c]
           /\ \A p \in Requests \ {q} : req'[p] = req[p]
BY DEF Does, ReqType

LEMMA Skipping ==
    ASSUME NEW rows \in SUBSET Commissions, night \in NightType, Skip(rows)
    PROVE  /\ night' \in NightType
           /\ night'.pass = night.pass /\ night'.todo = night.todo \ rows
BY DEF Skip, NightType

LEMMA Passing ==
    ASSUME NEW name \in {"settle", "expired", "accept"}, NEW rows \in SUBSET Commissions,
           night' = Pass(name, rows)
    PROVE  night' \in NightType /\ night'.pass = name /\ night'.todo = rows
BY DEF Pass, NightType

LEMMA DayTime == Day \in NightType /\ Day.pass = "day"
BY DEF Day, NightType

LEMMA Reopening ==
    ASSUME TypeOK, NEW c \in Commissions, Reopen(c)
    PROVE  /\ status' \in [Commissions -> Statuses]
           /\ user' = user
           /\ npc' \in [Commissions -> Residents \cup {NoOne}]
           /\ \A d \in Commissions \ {c} : status'[d] = status[d] /\ npc'[d] = npc[d]
           /\ \/ /\ status[c] = "accepted" /\ user[c] = NoOne
                 /\ status'[c] = "open" /\ npc'[c] = NoOne
              \/ /\ ~(status[c] = "accepted" /\ user[c] = NoOne)
                 /\ status'[c] = status[c] /\ npc'[c] = npc[c]
BY DEF TypeOK, Statuses, Reopen, board
-----------------------------------------------------------------------------
(* Typing. *)

LEMMA PostTyping ==
    ASSUME TypeOK, NEW r \in Residents,
           Purge(r) \/ Insert(r) \/ \E c \in Commissions : CheckBoard(r, c) \/ Expires(c)
    PROVE  TypeOK'
<1>1. CASE Purge(r)
  BY <1>1 DEF Purge, TypeOK, board
<1>2. CASE Insert(r)
  BY <1>2 DEF Insert, TypeOK, Statuses
<1>3. ASSUME NEW c \in Commissions, CheckBoard(r, c)
      PROVE  TypeOK'
  BY <1>3 DEF CheckBoard, TypeOK, board
<1>4. ASSUME NEW c \in Commissions, Expires(c)
      PROVE  TypeOK'
  BY <1>4 DEF Expires, TypeOK, board
<1> QED  BY <1>1, <1>2, <1>3, <1>4

LEMMA RequestTyping ==
    ASSUME TypeOK, NEW q \in Requests, Request(q)
    PROVE  TypeOK'
<1> USE DEF TypeOK
<1>1. env.of[q] \in Players
  BY ShapeAssumption
<1>2. ASSUME NEW c \in Commissions, Accept(q, c)
      PROVE  TypeOK'
  BY <1>1, <1>2 DEF Accept, Statuses
<1>3. ASSUME NEW c \in Commissions, AbandonRead(q, c)
      PROVE  TypeOK'
  BY <1>3, Asking DEF AbandonRead, board
<1>4. ASSUME NEW c \in Commissions, Complete(q, c)
      PROVE  TypeOK'
  <2>1. req[q].seen \ {c} \in SUBSET Commissions
    BY DEF ReqType
  <2>2. PICK rows \in SUBSET Commissions : rows = req[q].seen \ {c}
    BY <2>1
  <2>3. req' \in [Requests -> ReqType]
    BY <1>4, <2>2, Asking DEF Complete
  <2> QED  BY <1>4, <2>3 DEF Complete, Statuses
<1>5. CASE AbandonWrite(q)
  <2>1. req' \in [Requests -> ReqType]
    BY <1>5, Asking DEF AbandonWrite
  <2>2. PICK c \in req[q].seen : /\ status' = [status EXCEPT ![c] = "open"]
                                 /\ user' = [user EXCEPT ![c] = NoOne]
    BY <1>5 DEF AbandonWrite
  <2> QED  BY <1>5, <2>1, <2>2 DEF AbandonWrite, Statuses
<1>6. CASE Fulfil(q)
  <2>1. PICK rows \in SUBSET HeldBy(env.of[q]) : Does(q, "complete", rows, NoOne)
    BY <1>6 DEF Fulfil
  <2>2. rows \in SUBSET Commissions
    BY <2>1 DEF HeldBy
  <2>3. req' \in [Requests -> ReqType]
    BY <2>1, <2>2, Asking
  <2> QED  BY <1>6, <2>3 DEF Fulfil, board
<1>7. CASE PayPlayer(q)
  <2>1. PICK rows \in SUBSET Commissions : rows = req[q].seen
    BY DEF ReqType
  <2>2. req' \in [Requests -> ReqType]
    BY <1>7, <2>1, Asking DEF PayPlayer
  <2>3. paid' \in [Commissions -> Nat]
    BY <1>7 DEF PayPlayer, ReqType
  <2> QED  BY <1>7, <2>2, <2>3 DEF PayPlayer, board
<1>8. CASE RequestFails(q)
  BY <1>8, Asking DEF RequestFails, board
<1> QED  BY <1>2, <1>3, <1>4, <1>5, <1>6, <1>7, <1>8 DEF Request

LEMMA SettleTyping ==
    ASSUME TypeOK, NEW c \in Commissions,
           \/ SettleGone(c) \/ Settle(c) \/ SettleLost(c) \/ SettleBroke(c) \/ ReopenBroke \/ SettleFails(c)
    PROVE  TypeOK'
<1> USE DEF Nightly
<1>1. CASE SettleGone(c)
  BY <1>1, Reopening, Skipping DEF SettleGone, TypeOK
<1>2. CASE Settle(c)
  <2>1. wallet' \in [Residents -> Nat] /\ paid' \in [Commissions -> Nat]
    BY <1>2, NumberAssumption, ShapeAssumption DEF Settle, TypeOK
  <2>2. status' \in [Commissions -> Statuses]
    BY <1>2 DEF Settle, TypeOK, Statuses
  <2>3. night' \in NightType
    BY <1>2, Skipping DEF Settle, TypeOK
  <2> QED  BY <1>2, <2>1, <2>2, <2>3 DEF Settle, TypeOK
<1>3. CASE SettleLost(c)
  BY <1>3, Skipping DEF SettleLost, TypeOK, board
<1>4. CASE SettleBroke(c)
  <2>1. night' \in NightType
    BY <1>4 DEF SettleBroke, TypeOK, NightType
  <2> QED  BY <1>4, <2>1 DEF SettleBroke, TypeOK, board
<1>5. CASE ReopenBroke
  <2>1. PICK b \in Commissions : b = night.broke
    BY <1>5 DEF ReopenBroke, TypeOK, NightType
  <2>2. Reopen(b) /\ Skip({b})
    BY <1>5, <2>1 DEF ReopenBroke
  <2>3. night' \in NightType
    BY <2>2, Skipping DEF TypeOK
  <2> QED  BY <1>5, <2>2, <2>3, Reopening DEF ReopenBroke, TypeOK
<1>6. CASE SettleFails(c)
  BY <1>6, Skipping DEF SettleFails, TypeOK, board
<1> QED  BY <1>1, <1>2, <1>3, <1>4, <1>5, <1>6

LEMMA PassTyping ==
    ASSUME TypeOK,
           \/ StartSettle \/ ExpirePass \/ ExpireFails \/ StartAccept \/ NightEnds \/ NightCrashes
    PROVE  TypeOK'
<1> USE DEF Nightly
<1>1. CASE StartSettle
  <2>1. PICK rows \in SUBSET Commissions : night' = Pass("settle", rows)
    BY <1>1 DEF StartSettle
  <2>2. night' \in NightType
    BY <2>1, Passing
  <2> QED  BY <1>1, <2>2 DEF StartSettle, TypeOK, board
<1>2. CASE ExpirePass
  <2>1. night' \in NightType
    BY <1>2, Passing DEF ExpirePass
  <2>2. status' \in [Commissions -> Statuses]
    BY <1>2 DEF ExpirePass, TypeOK, Statuses
  <2> QED  BY <1>2, <2>1, <2>2 DEF ExpirePass, TypeOK
<1>3. CASE ExpireFails
  BY <1>3, Passing DEF ExpireFails, TypeOK, board
<1>4. CASE StartAccept
  <2>1. PICK rows \in SUBSET Commissions : night' = Pass("accept", rows)
    BY <1>4 DEF StartAccept, Open
  <2>2. night' \in NightType
    BY <2>1, Passing
  <2> QED  BY <1>4, <2>2 DEF StartAccept, TypeOK, board
<1>5. CASE NightEnds \/ NightCrashes
  BY <1>5, DayTime DEF NightEnds, NightCrashes, TypeOK, board
<1> QED  BY <1>1, <1>2, <1>3, <1>4, <1>5

LEMMA TakeTyping ==
    ASSUME TypeOK, NEW c \in Commissions, NEW r \in Residents, Take(c, r) \/ TakeNot(c)
    PROVE  TypeOK'
<1> USE DEF Nightly
<1>1. CASE Take(c, r)
  <2>1. night' \in NightType
    BY <1>1 DEF Take, TypeOK, NightType
  <2> QED  BY <1>1, <2>1 DEF Take, TypeOK, Statuses
<1>2. CASE TakeNot(c)
  BY <1>2, Skipping DEF TakeNot, TypeOK, board
<1> QED  BY <1>1, <1>2

-----------------------------------------------------------------------------
(* Who writes an errand has read it as its own. *)

\* A request of another player does not know the rows of this one.
LEMMA HisOwn ==
    ASSUME TypeOK, OneAtATime, Errands, NEW p \in Requests, NEW q \in Requests, p # q,
           NEW c \in Commissions, user[c] = env.of[q]
    PROVE  c \notin req[p].seen /\ req[p].paying # c
BY ShapeAssumption DEF TypeOK, OneAtATime, Errands, Reads, ReqType

\* Nor does anybody know a row that no player holds.
LEMMA Nobodys ==
    ASSUME TypeOK, Errands, NEW q \in Requests, NEW c \in Commissions,
           user[c] = NoOne \/ status[c] \in {"none", "open"}
    PROVE  c \notin req[q].seen /\ req[q].paying # c
<1>1. env.of[q] \in Players /\ NoOne \notin Players
  BY ShapeAssumption DEF TypeOK
<1>2. user[c] = NoOne
  BY DEF Errands, ErrandRow
<1>3. user[c] # env.of[q]
  BY <1>1, <1>2
<1> QED  BY <1>3, ShapeAssumption DEF TypeOK, Errands, Reads, ReqType

(* Posting. *)
LEMMA PostKeeping ==
    ASSUME TypeOK, OneAtATime, Errands, NEW r \in Residents,
           Purge(r) \/ Insert(r) \/ \E c \in Commissions : CheckBoard(r, c) \/ Expires(c)
    PROVE  Errands'
<1>1. CASE Purge(r) \/ \E c \in Commissions : Expires(c)
  BY <1>1 DEF Purge, Expires, board, Errands, ErrandRow, Posting, Reads, Swept
<1>2. CASE Insert(r)
  <2>1. PICK d \in Commissions : d = post[r] /\ Issuer[d] = r /\ status[d] = "none"
    BY <1>2 DEF Insert, Errands, Posting, TypeOK
  <2>2. /\ status' = [status EXCEPT ![d] = "open"]
        /\ post' = [post EXCEPT ![r] = NoOne]
        /\ UNCHANGED <<env, user, npc, req, night, paid, missed>>
    BY <1>2, <2>1 DEF Insert
  <2>3. \A x \in Commissions : ErrandRow(x)'
    BY <2>1, <2>2 DEF Errands, ErrandRow, TypeOK
  <2>4. \A x \in Residents : Posting(x)'
    BY <2>1, <2>2 DEF Errands, Posting, TypeOK
  <2>5. ASSUME NEW q \in Requests
        PROVE  Reads(q)'
    <3>1. d \notin req[q].seen /\ req[q].paying # d
      BY <2>1, Nobodys
    <3> QED  BY <2>2, <3>1 DEF Errands, Reads, TypeOK, ReqType
  <2>6. Swept'
    BY <2>1, <2>2 DEF Errands, Swept, TypeOK
  <2> QED  BY <2>3, <2>4, <2>5, <2>6 DEF Errands
<1>3. ASSUME NEW c \in Commissions, CheckBoard(r, c)
      PROVE  Errands'
  BY <1>3 DEF CheckBoard, board, Errands, ErrandRow, Posting, Reads, Swept, TypeOK
<1> QED  BY <1>1, <1>2, <1>3

(* The requests.  A request that rewrites a row it has read: nobody else knows the row. *)
LEMMA RequestKeeping ==
    ASSUME TypeOK, OneAtATime, Errands, NEW q \in Requests, Request(q)
    PROVE  Errands'
<1>1. env.of[q] \in Players /\ env.of[q] # NoOne /\ req[q] \in ReqType
  BY ShapeAssumption DEF TypeOK
<1>2. ASSUME NEW c \in Commissions, Accept(q, c)
      PROVE  Errands'
  <2>1. /\ status[c] = "open" /\ status' = [status EXCEPT ![c] = "accepted"]
        /\ user' = [user EXCEPT ![c] = env.of[q]]
        /\ UNCHANGED <<env, npc, post, req, night, paid, missed>>
    BY <1>2 DEF Accept
  <2>2. npc[c] = NoOne
    BY <2>1 DEF Errands, ErrandRow
  <2>3. \A x \in Commissions : ErrandRow(x)'
    BY <2>1, <2>2 DEF Errands, ErrandRow, TypeOK
  <2>4. \A x \in Residents : Posting(x)'
    BY <2>1 DEF Errands, Posting, TypeOK
  <2>5. ASSUME NEW p \in Requests
        PROVE  Reads(p)'
    <3>1. c \notin req[p].seen /\ req[p].paying # c
      BY <2>1, Nobodys
    <3> QED  BY <2>1, <3>1 DEF Errands, Reads, TypeOK, ReqType
  <2>6. Swept'
    BY <2>1, <2>2 DEF Errands, Swept, TypeOK
  <2> QED  BY <2>3, <2>4, <2>5, <2>6 DEF Errands
<1>3. CASE (\E c \in Commissions : AbandonRead(q, c)) \/ Fulfil(q) \/ RequestFails(q)
  <2>1. PICK op \in {"idle", "abandon", "complete"}, rows \in SUBSET HeldBy(env.of[q]) :
          Does(q, op, rows, NoOne)
    BY <1>3 DEF AbandonRead, Fulfil, RequestFails
  <2>2. rows \in SUBSET Commissions
    BY <2>1 DEF HeldBy
  <2>3. /\ req'[q] = [op |-> op, seen |-> rows, paying |-> NoOne]
        /\ \A p \in Requests \ {q} : req'[p] = req[p]
    BY <2>1, <2>2, Asking DEF TypeOK
  <2>4. UNCHANGED <<env, status, user, npc, post, night, paid, missed>>
    BY <1>3 DEF AbandonRead, Fulfil, RequestFails, board
  <2>5. Reads(q)'
    BY <2>1, <2>3, <2>4 DEF Reads, HeldBy
  <2>6. ASSUME NEW p \in Requests \ {q}
        PROVE  Reads(p)'
    BY <2>3, <2>4 DEF Errands, Reads
  <2> QED  BY <2>4, <2>5, <2>6 DEF Errands, ErrandRow, Posting, Swept
<1>4. CASE AbandonWrite(q)
  <2>1. PICK c \in req[q].seen : /\ status' = [status EXCEPT ![c] = "open"]
                                 /\ user' = [user EXCEPT ![c] = NoOne]
    BY <1>4 DEF AbandonWrite
  <2>2. c \in Commissions /\ user[c] = env.of[q] /\ status[c] \in {"accepted", "expired"}
    BY <1>1, <2>1 DEF Errands, Reads, ReqType
  <2>3. UNCHANGED <<env, npc, post, night, paid, missed>>
    BY <1>4 DEF AbandonWrite
  <2>4. /\ req'[q] = [op |-> "idle", seen |-> {}, paying |-> NoOne]
        /\ \A p \in Requests \ {q} : req'[p] = req[p]
    <3>1. PICK op \in {"idle", "abandon", "complete"}, rows \in SUBSET Commissions,
               c0 \in Commissions \cup {NoOne} : op = "idle" /\ rows = {} /\ c0 = NoOne
      OBVIOUS
    <3>2. Does(q, op, rows, c0)
      BY <1>4, <3>1 DEF AbandonWrite
    <3>3. /\ req'[q] = [op |-> op, seen |-> rows, paying |-> c0]
          /\ \A p \in Requests \ {q} : req'[p] = req[p]
      BY <3>2, Asking DEF TypeOK
    <3> QED  BY <3>1, <3>3
  <2>5. npc[c] = NoOne
    BY <1>1, <2>2 DEF Errands, ErrandRow
  <2>6. \A x \in Commissions : ErrandRow(x)'
    BY <2>1, <2>2, <2>3, <2>5 DEF Errands, ErrandRow, TypeOK
  <2>7. \A x \in Residents : Posting(x)'
    BY <2>1, <2>2, <2>3 DEF Errands, Posting, TypeOK
  <2>8. ASSUME NEW p \in Requests \ {q}
        PROVE  Reads(p)'
    <3>1. c \notin req[p].seen /\ req[p].paying # c
      BY <2>2, HisOwn
    <3> QED  BY <2>1, <2>2, <2>3, <2>4, <3>1 DEF Errands, Reads, TypeOK, ReqType
  <2>9. Reads(q)'
    BY <2>4 DEF Reads
  <2>10. Swept'
    BY <2>1, <2>2, <2>3 DEF Errands, Swept, TypeOK
  <2> QED  BY <2>6, <2>7, <2>8, <2>9, <2>10 DEF Errands
<1>5. ASSUME NEW c \in Commissions, Complete(q, c)
      PROVE  Errands'
  <2>1. PICK rows \in SUBSET Commissions : rows = req[q].seen \ {c}
    BY <1>1 DEF ReqType
  <2>2. /\ c \in req[q].seen /\ status' = [status EXCEPT ![c] = "completed"]
        /\ Does(q, "complete", rows, c)
        /\ UNCHANGED <<env, user, npc, post, night, paid, missed>>
    BY <1>5, <2>1 DEF Complete
  <2>3. user[c] = env.of[q] /\ status[c] \in {"accepted", "expired"}
    BY <2>2 DEF Errands, Reads
  <2>4. paid[c] = 0
    BY <2>3 DEF Errands, ErrandRow
  <2>5. /\ req'[q] = [op |-> "complete", seen |-> rows, paying |-> c]
        /\ \A p \in Requests \ {q} : req'[p] = req[p]
    BY <2>2, Asking DEF TypeOK
  <2>6. \A x \in Commissions : ErrandRow(x)'
    BY <2>2, <2>3 DEF Errands, ErrandRow, TypeOK
  <2>7. \A x \in Residents : Posting(x)'
    BY <2>2, <2>3 DEF Errands, Posting, TypeOK
  <2>8. ASSUME NEW p \in Requests \ {q}
        PROVE  Reads(p)'
    <3>1. c \notin req[p].seen /\ req[p].paying # c
      BY <2>3, HisOwn
    <3> QED  BY <2>2, <2>3, <2>5, <3>1 DEF Errands, Reads, TypeOK, ReqType
  <2>9. Reads(q)'
    BY <2>1, <2>2, <2>3, <2>4, <2>5 DEF Errands, Reads, TypeOK
  <2>10. Swept'
    BY <2>2, <2>3 DEF Errands, Swept, TypeOK
  <2> QED  BY <2>6, <2>7, <2>8, <2>9, <2>10 DEF Errands
<1>6. CASE PayPlayer(q)
  <2>1. PICK c \in Commissions : c = req[q].paying
    BY <1>1, <1>6 DEF PayPlayer, ReqType
  <2>2. user[c] = env.of[q] /\ status[c] = "completed" /\ paid[c] = 0
    BY <1>6, <2>1 DEF PayPlayer, Errands, Reads
  <2>3. paid' = [paid EXCEPT ![c] = @ + 1] /\ UNCHANGED <<env, status, user, npc, post, night, missed>>
    BY <1>6, <2>1 DEF PayPlayer, board
  <2>4. PICK rows \in SUBSET Commissions : rows = req[q].seen
    BY <1>1 DEF ReqType
  <2>5. PICK op \in {"idle", "complete"} : Does(q, op, rows, NoOne)
    BY <1>6, <2>4 DEF PayPlayer
  <2>6. /\ req'[q] = [op |-> op, seen |-> rows, paying |-> NoOne]
        /\ \A p \in Requests \ {q} : req'[p] = req[p]
    BY <2>5, Asking, SMTT(30) DEF TypeOK
  <2>7. \A x \in Commissions : ErrandRow(x)'
    BY <2>2, <2>3 DEF Errands, ErrandRow, TypeOK
  <2>8. ASSUME NEW p \in Requests \ {q}
        PROVE  Reads(p)'
    <3>1. req[p].paying # c
      BY <2>2, HisOwn
    <3> QED  BY <2>3, <2>6, <3>1 DEF Errands, Reads, TypeOK, ReqType
  <2>9. Reads(q)'
    BY <2>3, <2>4, <2>6 DEF Errands, Reads
  <2> QED  BY <2>3, <2>7, <2>8, <2>9 DEF Errands, Posting, Swept
<1> QED  BY <1>2, <1>3, <1>4, <1>5, <1>6 DEF Request

(* The settle pass.  It touches rows that no player holds, and what it leaves accepted
   it has not tried. *)
LEMMA Reopened ==
    ASSUME TypeOK, Errands, NEW c \in Commissions, Reopen(c), Skip({c}),
           UNCHANGED <<env, post, req, paid, missed>>
    PROVE  Errands'
<1>1. /\ user' = user
      /\ \A d \in Commissions \ {c} : status'[d] = status[d] /\ npc'[d] = npc[d]
      /\ \/ /\ status[c] = "accepted" /\ user[c] = NoOne
            /\ status'[c] = "open" /\ npc'[c] = NoOne
         \/ /\ ~(status[c] = "accepted" /\ user[c] = NoOne)
            /\ status'[c] = status[c] /\ npc'[c] = npc[c]
  BY Reopening
<1>2. night'.pass = night.pass /\ night'.todo = night.todo \ {c}
  BY Skipping DEF TypeOK
<1>3. \A x \in Commissions : ErrandRow(x)'
  BY <1>1 DEF Errands, ErrandRow
<1>4. \A x \in Residents : Posting(x)'
  BY <1>1 DEF Errands, Posting, TypeOK
<1>5. ASSUME NEW q \in Requests
      PROVE  Reads(q)'
  <2>1. CASE status[c] = "accepted" /\ user[c] = NoOne
    <3>1. c \notin req[q].seen /\ req[q].paying # c
      BY <2>1, Nobodys
    <3> QED  BY <1>1, <3>1 DEF Errands, Reads, TypeOK, ReqType
  <2>2. CASE ~(status[c] = "accepted" /\ user[c] = NoOne)
    BY <1>1, <2>2 DEF Errands, Reads, TypeOK, ReqType
  <2> QED  BY <2>1, <2>2
<1>6. Swept'
  BY <1>1, <1>2 DEF Errands, ErrandRow, Swept
<1> QED  BY <1>3, <1>4, <1>5, <1>6 DEF Errands

LEMMA SettleKeeping ==
    ASSUME TypeOK, OneAtATime, Errands, NEW c \in Commissions,
           \/ SettleGone(c) \/ Settle(c) \/ SettleLost(c) \/ SettleBroke(c) \/ ReopenBroke \/ SettleFails(c)
    PROVE  Errands'
<1>1. CASE SettleGone(c)
  BY <1>1, Reopened DEF SettleGone, Nightly
<1>2. CASE Settle(c)
  <2>1. /\ status[c] = "accepted" /\ user[c] = NoOne
        /\ status' = [status EXCEPT ![c] = "completed"]
        /\ paid' = [paid EXCEPT ![c] = @ + 1]
        /\ Skip({c}) /\ UNCHANGED <<env, user, npc, post, req, missed>>
    BY <1>2 DEF Settle, Claimable, Nightly
  <2>2. paid[c] = 0
    BY <2>1 DEF Errands, ErrandRow
  <2>3. night'.pass = night.pass /\ night'.todo = night.todo \ {c}
    BY <2>1, Skipping DEF TypeOK
  <2>4. \A x \in Commissions : ErrandRow(x)'
    BY <2>1, <2>2 DEF Errands, ErrandRow, TypeOK
  <2>5. \A x \in Residents : Posting(x)'
    BY <2>1 DEF Errands, Posting, TypeOK
  <2>6. ASSUME NEW q \in Requests
        PROVE  Reads(q)'
    <3>1. c \notin req[q].seen /\ req[q].paying # c
      BY <2>1, Nobodys
    <3> QED  BY <2>1, <3>1 DEF Errands, Reads, TypeOK, ReqType
  <2>7. Swept'
    BY <2>1, <2>3 DEF Errands, Swept, TypeOK
  <2> QED  BY <2>4, <2>5, <2>6, <2>7 DEF Errands
<1>3. CASE SettleLost(c)
  <2>1. ~(status[c] = "accepted" /\ user[c] = NoOne) /\ Skip({c}) /\ UNCHANGED <<env, status, user, npc, post, req, paid, missed>>
    BY <1>3 DEF SettleLost, Claimable, Nightly, board
  <2>2. night'.pass = night.pass /\ night'.todo = night.todo \ {c}
    BY <2>1, Skipping DEF TypeOK
  <2>3. Swept'
    BY <2>1, <2>2 DEF Errands, ErrandRow, Swept
  <2> QED  BY <2>1, <2>3 DEF Errands, ErrandRow, Posting, Reads
<1>4. CASE SettleBroke(c)
  <2>1. night'.pass = night.pass /\ night'.todo = night.todo /\ UNCHANGED <<env, status, user, npc, post, req, paid, missed>>
    BY <1>4 DEF SettleBroke, Nightly, board, TypeOK, NightType
  <2> QED  BY <2>1 DEF Errands, ErrandRow, Posting, Reads, Swept
<1>5. CASE ReopenBroke
  <2>1. PICK b \in Commissions : b = night.broke
    BY <1>5 DEF ReopenBroke, TypeOK, NightType
  <2> QED  BY <1>5, <2>1, Reopened DEF ReopenBroke, Nightly
<1>6. CASE SettleFails(c)
  <2>1. missed' = missed \cup {c} /\ Skip({c}) /\ UNCHANGED <<env, status, user, npc, post, req, paid>>
    BY <1>6 DEF SettleFails, Nightly, board
  <2>2. night'.pass = night.pass /\ night'.todo = night.todo \ {c}
    BY <2>1, Skipping DEF TypeOK
  <2>3. Swept'
    BY <2>1, <2>2 DEF Errands, Swept
  <2> QED  BY <2>1, <2>3 DEF Errands, ErrandRow, Posting, Reads
<1> QED  BY <1>1, <1>2, <1>3, <1>4, <1>5, <1>6

(* The passes.  When the expiry comes every errand of a resident has been tried. *)
LEMMA PassKeeping ==
    ASSUME TypeOK, OneAtATime, Errands,
           \/ StartSettle \/ ExpirePass \/ ExpireFails \/ StartAccept \/ NightEnds \/ NightCrashes
    PROVE  Errands'
<1>1. CASE StartSettle
  <2>1. PICK rows \in SUBSET Commissions :
          /\ rows = {c \in Commissions : status[c] = "accepted" /\ npc[c] # NoOne /\ user[c] = NoOne}
          /\ night' = Pass("settle", rows)
    BY <1>1 DEF StartSettle
  <2>2. night'.todo = rows
    BY <2>1, Passing
  <2>3. UNCHANGED <<env, status, user, npc, post, req, paid, missed>>
    BY <1>1 DEF StartSettle, Nightly, board
  <2>4. Swept'
    BY <2>1, <2>2, <2>3 DEF Swept, Errands, ErrandRow
  <2> QED  BY <2>3, <2>4 DEF Errands, ErrandRow, Posting, Reads
<1>2. CASE ExpirePass
  <2>1. /\ status' = [c \in Commissions |-> IF status[c] \in {"open", "accepted"} /\ c \in late
                                             THEN "expired" ELSE status[c]]
        /\ UNCHANGED <<env, user, npc, post, req, paid, missed>>
    BY <1>2 DEF ExpirePass, Nightly
  <2>2. night'.pass # "settle"
    BY <1>2, Passing DEF ExpirePass
  <2>3. \A c \in Commissions : status[c] = "accepted" /\ npc[c] # NoOne => c \in missed
    BY <1>2 DEF ExpirePass, SettleDone, Errands, Swept
  <2>4. \A c \in Commissions : ErrandRow(c)'
    BY <2>1, <2>3 DEF Errands, ErrandRow
  <2>5. \A r \in Residents : Posting(r)'
    BY <2>1 DEF Errands, Posting, TypeOK
  <2>6. \A q \in Requests : Reads(q)'
    BY <2>1 DEF Errands, Reads, TypeOK, ReqType
  <2> QED  BY <2>2, <2>4, <2>5, <2>6 DEF Errands, Swept
<1>3. CASE ExpireFails \/ StartAccept
  <2>1. PICK name \in {"expired", "accept"}, rows \in SUBSET Commissions : night' = Pass(name, rows)
    BY <1>3 DEF ExpireFails, StartAccept, Open
  <2>2. night'.pass # "settle"
    BY <2>1, Passing
  <2> QED  BY <1>3, <2>2 DEF ExpireFails, StartAccept, Nightly, board, Errands, ErrandRow, Posting, Reads, Swept
<1>4. CASE NightEnds \/ NightCrashes
  <2>1. night'.pass # "settle"
    BY <1>4, DayTime DEF NightEnds, NightCrashes
  <2> QED  BY <1>4, <2>1 DEF NightEnds, NightCrashes, Nightly, board, Errands, ErrandRow, Posting, Reads, Swept
<1> QED  BY <1>1, <1>2, <1>3, <1>4

LEMMA TakeKeeping ==
    ASSUME TypeOK, OneAtATime, Errands, NEW c \in Commissions, NEW r \in Residents,
           Take(c, r) \/ TakeNot(c)
    PROVE  Errands'
<1>1. CASE Take(c, r)
  <2>1. /\ status[c] = "open" /\ status' = [status EXCEPT ![c] = "accepted"]
        /\ npc' = [npc EXCEPT ![c] = r]
        /\ UNCHANGED <<env, user, post, req, paid, missed>>
    BY <1>1 DEF Take, Takeable, Nightly
  <2>2. night'.pass # "settle"
    BY <1>1 DEF Take, TypeOK, NightType
  <2>3. \A x \in Commissions : ErrandRow(x)'
    BY <2>1 DEF Errands, ErrandRow, TypeOK
  <2>4. \A x \in Residents : Posting(x)'
    BY <2>1 DEF Errands, Posting, TypeOK
  <2>5. ASSUME NEW q \in Requests
        PROVE  Reads(q)'
    <3>1. c \notin req[q].seen /\ req[q].paying # c
      BY <2>1, Nobodys
    <3> QED  BY <2>1, <3>1 DEF Errands, Reads, TypeOK, ReqType
  <2> QED  BY <2>2, <2>3, <2>4, <2>5 DEF Errands, Swept
<1>2. CASE TakeNot(c)
  <2>1. night'.pass # "settle"
    BY <1>2, Skipping DEF TakeNot, TypeOK
  <2> QED  BY <1>2, <2>1 DEF TakeNot, Nightly, board, Errands, ErrandRow, Posting, Reads, Swept
<1> QED  BY <1>1, <1>2

(* Whatever happens on the board keeps it. *)
LEMMA BoardTyping == ASSUME TypeOK, Next PROVE TypeOK'
<1> Author \in Residents
  BY SceneShape
<1>1. CASE \/ \E r \in Residents : Purge(r) \/ Insert(r) \/ \E c \in Commissions : CheckBoard(r, c)
           \/ \E c \in Commissions : Expires(c)
  BY <1>1, PostTyping
<1>2. CASE \E q \in Requests : Request(q)
  BY <1>2, RequestTyping
<1>3. CASE NightStep \/ NightTrouble
  <2>1. CASE ReopenBroke
    <3>1. night.broke \in Commissions
      BY <2>1 DEF ReopenBroke, TypeOK, NightType
    <3> QED  BY <2>1, <3>1, SettleTyping
  <2>2. CASE ~ReopenBroke
    BY <1>3, <2>2, SettleTyping, PassTyping, TakeTyping DEF NightStep, NightTrouble
  <2> QED  BY <2>1, <2>2
<1> QED  BY <1>1, <1>2, <1>3 DEF Next

LEMMA BoardKeeping == ASSUME TypeOK, OneAtATime, Errands, Next PROVE Errands'
<1> Author \in Residents
  BY SceneShape
<1>1. CASE \/ \E r \in Residents : Purge(r) \/ Insert(r) \/ \E c \in Commissions : CheckBoard(r, c)
           \/ \E c \in Commissions : Expires(c)
  BY <1>1, PostKeeping
<1>2. CASE \E q \in Requests : Request(q)
  BY <1>2, RequestKeeping
<1>3. CASE NightStep \/ NightTrouble
  <2>1. CASE ReopenBroke
    <3>1. night.broke \in Commissions
      BY <2>1 DEF ReopenBroke, TypeOK, NightType
    <3> QED  BY <2>1, <3>1, SettleKeeping
  <2>2. CASE ~ReopenBroke
    BY <1>3, <2>2, SettleKeeping, PassKeeping, TakeKeeping DEF NightStep, NightTrouble
  <2> QED  BY <2>1, <2>2
<1> QED  BY <1>1, <1>2, <1>3 DEF Next

-----------------------------------------------------------------------------
(* The trade.  What a session has executed, and what that tells of the rows. *)

Running == {"goods", "earn", "caravan", "npc", "wage", "meal"}
Over == {"idle", "paid", "sold", "refused", "refund", "refunded", "lost", "unpaid", "failed"}
SessionType == [tx : Running \cup Over, done : Nat, cut : 0 .. Price]

Ran(s) == {Town!Todo(s)[i] : i \in 1 .. at[s].done}

\* a session runs its own script, and has not reached its end
Session(s) ==
    /\ Town!Busy(s) => at[s].done < Len(Town!Todo(s))
    /\ at[s].tx \in {"caravan", "npc", "wage", "meal"} => Town!Op(s) = at[s].tx

\* what its guarded statements found is still there
Found(s) == Town!Busy(s) =>
    /\ "take" \in Ran(s) => stock > 0
    /\ "debit" \in Ran(s) => wallet[Town!Who(s)] >= Town!Cost(s)
    /\ "fund" \in Ran(s) => town >= Wage + Floor

Shut == \A s, t \in Sessions : s # t => Town!Held(s) \cap Town!Held(t) = {}

\* Shut: two sessions never hold one row
TradeTypes == /\ cast \in Casts /\ stock \in Int /\ carry \in 0 .. Scale - 1 /\ town \in Int
              /\ at \in [Sessions -> SessionType]

LEMMA Scripts ==
    /\ DOMAIN Town!Script = Running
    /\ Town!Script["goods"] = <<"take", "accrue", "levy">>
    /\ Town!Script["earn"] = <<"credit">>
    /\ Town!Script["caravan"] = <<"take", "accrue", "levy", "credit">>
    /\ Town!Script["npc"] = <<"accrue", "levy", "debit", "take", "credit">>
    /\ Town!Script["wage"] = <<"fund", "credit">>
    /\ Town!Script["meal"] = <<"debit", "tax">>
BY DEF Town!Script, Running

LEMMA Lengths == ASSUME NEW tx \in Running PROVE Len(Town!Script[tx]) \in Nat \ {0}
<1>1. CASE tx = "goods"
  BY <1>1, Scripts
<1>2. CASE tx = "earn"
  BY <1>2, Scripts
<1>3. CASE tx = "caravan"
  BY <1>3, Scripts
<1>4. CASE tx = "npc"
  BY <1>4, Scripts
<1>5. CASE tx = "wage"
  BY <1>5, Scripts
<1>6. CASE tx = "meal"
  BY <1>6, Scripts
<1> QED  BY <1>1, <1>2, <1>3, <1>4, <1>5, <1>6 DEF Running

Statements == {"take", "accrue", "levy", "debit", "credit", "fund", "tax"}

\* Where a statement stands in its script.
LEMMA Places ==
    ASSUME NEW tx \in Running, NEW i \in 1 .. Len(Town!Script[tx])
    PROVE  /\ Len(Town!Script[tx]) \in Nat
           /\ Town!Script[tx][i] \in Statements
           /\ Town!Script[tx][i] = "take" => tx \in {"goods", "caravan", "npc"}
           /\ Town!Script[tx][i] = "levy" => i > 1 /\ Town!Script[tx][i - 1] = "accrue"
           /\ Town!Script[tx][i] = "debit" => tx \in {"npc", "meal"}
           /\ Town!Script[tx][i] = "fund" => tx = "wage"
           /\ Town!Script[tx][i] = "tax" => tx = "meal"
           /\ tx \in {"goods", "caravan", "npc"} /\ i = Len(Town!Script[tx])
                => \A st \in {"take", "accrue", "levy"} : \E j \in 1 .. i : Town!Script[tx][j] = st
<1>1. CASE tx = "goods"
  BY <1>1, Scripts DEF Statements
<1>2. CASE tx = "earn"
  BY <1>2, Scripts DEF Statements
<1>3. CASE tx = "caravan"
  BY <1>3, Scripts DEF Statements
<1>4. CASE tx = "npc"
  BY <1>4, Scripts DEF Statements
<1>5. CASE tx = "wage"
  BY <1>5, Scripts DEF Statements
<1>6. CASE tx = "meal"
  BY <1>6, Scripts DEF Statements
<1> QED  BY <1>1, <1>2, <1>3, <1>4, <1>5, <1>6 DEF Running

LEMMA Quotients ==
    ASSUME NEW a \in Nat, NEW k \in Nat \ {0}
    PROVE  a \div k \in Nat /\ a - (a \div k) * k \in 0 .. k - 1
OBVIOUS

LEMMA Bounded ==
    ASSUME NEW a \in Nat, NEW k \in Nat \ {0}, NEW p \in Nat, NEW q \in Nat,
           a <= k * p + k - 1, a - q * k \in 0 .. k - 1
    PROVE  q <= p
<1>1. SUFFICES ASSUME q >= p + 1 PROVE FALSE
  OBVIOUS
<1>2. q * k >= (p + 1) * k
  BY <1>1
<1>3. (p + 1) * k = k * p + k
  OBVIOUS
<1> QED  BY <1>2, <1>3

\* The price is never too small for the whole coins that are due.
LEMMA WholeCoins ==
    ASSUME carry \in 0 .. Scale - 1
    PROVE  Town!Cut \in Nat /\ carry + Levy - Town!Cut * Scale \in 0 .. Scale - 1
<1>1. Scale \in Nat \ {0} /\ Levy \in Nat /\ Price \in Nat /\ Levy <= Scale * Price
  BY TradeNumbers
<1>2. PICK a \in Nat : a = carry + Levy
  BY <1>1
<1>3. PICK q \in Nat : q = a \div Scale /\ a - q * Scale \in 0 .. Scale - 1
  BY <1>1, Quotients
<1>4. q <= Price
  <2>1. a <= Scale * Price + Scale - 1
    BY <1>1, <1>2
  <2> QED  BY <1>1, <1>3, <2>1, Bounded
<1>5. Town!Cut = q
  BY <1>1, <1>2, <1>3, <1>4 DEF Town!Cut
<1> QED  BY <1>1, <1>2, <1>3, <1>5

LEMMA Script ==
    ASSUME TradeTypes, NEW s \in Sessions, Session(s), Town!Busy(s)
    PROVE  /\ at[s].tx \in Running /\ at[s].done \in Nat
           /\ Town!Todo(s) = Town!Script[at[s].tx]
           /\ at[s].done + 1 \in 1 .. Len(Town!Script[at[s].tx])
           /\ Town!Statement(s) = Town!Script[at[s].tx][at[s].done + 1]
           /\ Len(Town!Script[at[s].tx]) \in Nat
<1>1. at[s].tx \in Running /\ at[s].done \in Nat
  BY Scripts DEF TradeTypes, SessionType, Town!Busy, Town!In
<1>2. Len(Town!Script[at[s].tx]) \in Nat
  BY <1>1, Scripts DEF Running
<1> QED  BY <1>1, <1>2 DEF Session, Town!Todo, Town!Statement

LEMMA HeldRows ==
    ASSUME NEW s \in Sessions
    PROVE  Town!Held(s) = IF Town!Busy(s) THEN {Town!Row(s, st) : st \in Ran(s)} ELSE {}
BY DEF Town!Held, Ran

LEMMA Levying ==
    ASSUME TradeTypes, NEW s \in Sessions, Session(s), Town!Busy(s)
    PROVE  /\ Ran(s) \subseteq Statements /\ Town!Statement(s) \in Statements
           /\ "levy" \in Ran(s) => "accrue" \in Ran(s)
           /\ Town!Statement(s) = "levy" => "accrue" \in Ran(s)
<1>0. PICK f : f = Town!Script[at[s].tx]
  OBVIOUS
<1>1. PICK tx \in Running, d \in Nat, n \in Nat :
        /\ tx = at[s].tx /\ f = Town!Script[tx] /\ d = at[s].done /\ n = Len(f)
        /\ d + 1 \in 1 .. n
        /\ Town!Todo(s) = f /\ Town!Statement(s) = f[d + 1]
  BY <1>0, Script
<1>2. \A i \in 1 .. n : f[i] \in Statements /\ (f[i] = "levy" => i > 1 /\ f[i - 1] = "accrue")
  BY <1>1, Places
<1>3. Ran(s) = {f[i] : i \in 1 .. d}
  BY <1>1 DEF Ran
<1>4. \A i \in 1 .. d + 1 : i \in 1 .. n
  BY <1>1
<1>5. ASSUME NEW i \in 1 .. d + 1, f[i] = "levy"
      PROVE  "accrue" \in Ran(s)
  <2>1. i > 1 /\ f[i - 1] = "accrue"
    BY <1>2, <1>4, <1>5
  <2>2. PICK j \in 1 .. d : j = i - 1
    BY <1>1, <2>1
  <2> QED  BY <1>3, <2>1, <2>2
<1>6. (\A i \in 1 .. d : i \in 1 .. d + 1) /\ d + 1 \in 1 .. d + 1
  BY <1>1
<1>7. Town!Statement(s) \in Statements /\ (Town!Statement(s) = "levy" => "accrue" \in Ran(s))
  BY <1>1, <1>2, <1>4, <1>5, <1>6
<1>8. Ran(s) \subseteq Statements /\ ("levy" \in Ran(s) => "accrue" \in Ran(s))
  BY <1>2, <1>3, <1>4, <1>5, <1>6
<1> QED  BY <1>7, <1>8

\* A session that does not step keeps its locks: only a levy's row depends on the carried tax.
LEMMA Stays ==
    ASSUME NEW t \in Sessions, at'[t] = at[t], cast' = cast,
           carry' = carry \/ (Town!Busy(t) => "levy" \notin Ran(t))
    PROVE  /\ Town!Busy(t)' = Town!Busy(t) /\ Ran(t)' = Ran(t)
           /\ Town!Who(t)' = Town!Who(t) /\ Town!Cost(t)' = Town!Cost(t)
           /\ Town!Held(t)' = Town!Held(t)
<1>1. /\ Town!Busy(t)' = Town!Busy(t) /\ Ran(t)' = Ran(t)
      /\ Town!Who(t)' = Town!Who(t) /\ Town!Cost(t)' = Town!Cost(t)
      /\ Town!Earner(t)' = Town!Earner(t)
  BY DEF Town!Busy, Town!In, Ran, Town!Todo, Town!Who, Town!Cost, Town!Earner
<1>2. ASSUME Town!Busy(t), NEW st \in Ran(t)
      PROVE  Town!Row(t, st)' = Town!Row(t, st)
  <2>1. carry' = carry => Town!Cut' = Town!Cut
    BY DEF Town!Cut
  <2> QED  BY <1>1, <1>2, <2>1 DEF Town!Row
<1>3. Town!Held(t)' = IF Town!Busy(t)' THEN {Town!Row(t, st)' : st \in Ran(t)'} ELSE {}
  BY DEF Town!Held, Ran
<1> QED  BY <1>1, <1>2, <1>3, HeldRows

\* One more statement.
LEMMA OneMore ==
    ASSUME TradeTypes, NEW s \in Sessions, Session(s), Town!Executes(s)
    PROVE  /\ Town!Busy(s) /\ Town!Busy(s)' /\ Session(s)'
           /\ at' \in [Sessions -> SessionType] /\ at'[s].tx = at[s].tx
           /\ at'[s].cut = at[s].cut
           /\ \A t \in Sessions \ {s} : at'[t] = at[t]
           /\ Ran(s)' = Ran(s) \cup {Town!Statement(s)}
           /\ UNCHANGED <<cast, stock, carry, town, wallet>>
<1>1. /\ Town!Busy(s) /\ ~Town!LastOne(s)
      /\ at' = [at EXCEPT ![s] = [at[s] EXCEPT !.done = @ + 1]]
      /\ UNCHANGED <<cast, stock, carry, town, wallet>>
  BY DEF Town!Executes
<1>2. PICK a \in SessionType : a = at[s]
  BY DEF TradeTypes
<1>3. PICK b \in SessionType : /\ b = [a EXCEPT !.done = @ + 1]
                               /\ b.tx = a.tx /\ b.done = a.done + 1 /\ b.cut = a.cut
  <2>1. [a EXCEPT !.done = @ + 1] = [tx |-> a.tx, done |-> a.done + 1, cut |-> a.cut]
    BY DEF SessionType
  <2>2. [tx |-> a.tx, done |-> a.done + 1, cut |-> a.cut] \in SessionType
    BY DEF SessionType
  <2> QED  BY <2>1, <2>2
<1>4. at' \in [Sessions -> SessionType] /\ at'[s] = b /\ \A t \in Sessions \ {s} : at'[t] = at[t]
  BY <1>1, <1>2, <1>3 DEF TradeTypes
<1>5. Town!Busy(s)' /\ Town!Todo(s)' = Town!Todo(s) /\ Town!Op(s)' = Town!Op(s)
  BY <1>1, <1>2, <1>3, <1>4 DEF Town!Busy, Town!In, Town!Todo, Town!Op
<1>6. PICK f : f = Town!Todo(s)
  OBVIOUS
<1>7. PICK d \in Nat, n \in Nat : /\ d = a.done /\ n = Len(f) /\ d + 1 <= n
                                 /\ Town!Statement(s) = f[d + 1]
  BY <1>1, <1>2, <1>6, Script DEF Town!Statement
<1>8. d + 1 # n
  BY <1>1, <1>2, <1>6, <1>7 DEF Town!LastOne
<1>9. Session(s)'
  BY <1>2, <1>3, <1>4, <1>5, <1>6, <1>7, <1>8 DEF Session
<1>10. Ran(s) = {f[i] : i \in 1 .. d} /\ Ran(s)' = {f[i] : i \in 1 .. d + 1}
  BY <1>2, <1>3, <1>4, <1>5, <1>6, <1>7 DEF Ran
<1>11. 1 .. d + 1 = (1 .. d) \cup {d + 1}
  OBVIOUS
<1>12. Ran(s)' = Ran(s) \cup {f[d + 1]}
  BY <1>10, <1>11
<1> QED  BY <1>1, <1>2, <1>3, <1>4, <1>5, <1>7, <1>9, <1>12

\* The last statement: all of the script has run.
LEMMA AllRan ==
    ASSUME TradeTypes, NEW s \in Sessions, Session(s), Town!Busy(s), Town!LastOne(s)
    PROVE  \A st : Town!Does(s, st) = IF st \in Ran(s) \cup {Town!Statement(s)} THEN 1 ELSE 0
<1>1. PICK f : f = Town!Todo(s)
  OBVIOUS
<1>2. PICK d \in Nat : d = at[s].done /\ d + 1 = Len(f) /\ Town!Statement(s) = f[d + 1]
  BY <1>1, Script DEF Town!LastOne, Town!Statement
<1>3. \A tx \in Running : DOMAIN Town!Script[tx] = 1 .. Len(Town!Script[tx])
  BY Scripts DEF Running
<1>4. DOMAIN f = 1 .. d + 1
  BY <1>1, <1>2, <1>3, Script
<1>5. Ran(s) = {f[i] : i \in 1 .. d}
  BY <1>1, <1>2 DEF Ran
<1>6. 1 .. d + 1 = (1 .. d) \cup {d + 1}
  OBVIOUS
<1>7. Town!ToSet(f) = Ran(s) \cup {Town!Statement(s)}
  BY <1>2, <1>4, <1>5, <1>6 DEF Town!ToSet
<1> QED  BY <1>1, <1>7 DEF Town!Does

\* What a session writes at COMMIT nobody else has locked.
LEMMA Alone ==
    ASSUME TradeTypes, Shut, NEW s \in Sessions, Session(s), Town!Busy(s), Town!Granted(s),
           NEW t \in Sessions, s # t, NEW st \in Ran(s) \cup {Town!Statement(s)}
    PROVE  Town!Row(s, st) \notin Town!Held(t)
<1>1. CASE st = Town!Statement(s)
  BY <1>1 DEF Town!Granted, Town!WaitsFor
<1>2. CASE st \in Ran(s)
  BY <1>2, HeldRows DEF Shut
<1> QED  BY <1>1, <1>2

Trading == TradeTypes /\ (\A s \in Sessions : Session(s) /\ Found(s)) /\ Shut

\* A step of one session keeps the trade if it leaves alone what the others have found.
LEMMA OneSteps ==
    ASSUME Trading, NEW s \in Sessions, TradeTypes', cast' = cast,
           \A t \in Sessions \ {s} : at'[t] = at[t],
           \A t \in Sessions \ {s} : Town!Busy(t) =>
              /\ carry' = carry \/ "levy" \notin Ran(t)
              /\ "take" \in Ran(t) => stock' = stock
              /\ "debit" \in Ran(t) => wallet'[Town!Who(t)] = wallet[Town!Who(t)]
              /\ "fund" \in Ran(t) => town' = town,
           Session(s)', Found(s)',
           \A t \in Sessions \ {s} : Town!Held(s)' \cap Town!Held(t) = {}
    PROVE  Trading'
<1>1. ASSUME NEW t \in Sessions \ {s}
      PROVE  /\ Town!Busy(t)' = Town!Busy(t) /\ Ran(t)' = Ran(t)
             /\ Town!Who(t)' = Town!Who(t) /\ Town!Cost(t)' = Town!Cost(t)
             /\ Town!Held(t)' = Town!Held(t)
  <2>1. at'[t] = at[t] /\ cast' = cast /\ (carry' = carry \/ (Town!Busy(t) => "levy" \notin Ran(t)))
    OBVIOUS
  <2> QED  BY <2>1, Stays
<1>2. ASSUME NEW t \in Sessions \ {s}
      PROVE  Session(t)'
  BY <1>1 DEF Trading, Session, Town!Op, Town!Todo
<1>3. ASSUME NEW t \in Sessions \ {s}
      PROVE  Found(t)'
  <2>1. wallet[Town!Who(t)] >= Town!Cost(t) /\ wallet'[Town!Who(t)] = wallet[Town!Who(t)]
           => wallet'[Town!Who(t)'] >= Town!Cost(t)'
    BY <1>1
  <2> QED  BY <1>1, <2>1 DEF Trading, Found
<1>4. Shut'
  BY <1>1 DEF Trading, Shut
<1> QED  BY <1>2, <1>3, <1>4 DEF Trading

\* A session that begins, and one that is over, has locked nothing.
LEMMA Released ==
    ASSUME Trading, NEW s \in Sessions, NEW x \in SessionType, at' = [at EXCEPT ![s] = x],
           UNCHANGED <<cast, stock, carry, town, wallet>>,
           x.tx \in Running => x.done = 0 /\ (x.tx \in {"caravan", "npc", "wage", "meal"} => Town!Op(s) = x.tx)
    PROVE  Trading' /\ Town!Held(s)' = {}
<1>1. at' \in [Sessions -> SessionType] /\ at'[s] = x /\ \A t \in Sessions \ {s} : at'[t] = at[t]
  BY DEF Trading, TradeTypes
<1>2. TradeTypes'
  BY <1>1 DEF Trading, TradeTypes
<1>3. Town!Busy(s)' <=> x.tx \in Running
  BY <1>1, Scripts DEF Town!Busy, Town!In
<1>4. Town!Busy(s)' => Ran(s)' = {}
  BY <1>1, <1>3 DEF Ran
<1>5. Town!Held(s)' = {}
  <2>1. Town!Held(s)' = IF Town!Busy(s)' THEN {Town!Row(s, st)' : st \in Ran(s)'} ELSE {}
    BY DEF Town!Held, Ran
  <2> QED  BY <1>4, <2>1
<1>6. Session(s)'
  <2>1. x.tx \in Running => Len(Town!Script[x.tx]) > 0
    BY Lengths
  <2>2. x.tx \in {"caravan", "npc", "wage", "meal"} => x.tx \in Running
    BY DEF Running
  <2>3. Town!Op(s)' = Town!Op(s)
    BY DEF Town!Op
  <2> QED  BY <1>1, <1>3, <2>1, <2>2, <2>3 DEF Session, Town!Todo
<1>7. Found(s)'
  BY <1>3, <1>4 DEF Found
<1>8. Trading'
  BY <1>1, <1>2, <1>5, <1>6, <1>7, OneSteps
<1> QED  BY <1>5, <1>8

LEMMA BeginsKeeping ==
    ASSUME Trading, NEW s \in Sessions,
           Town!Shop(s) \/ Town!CaravanBuys(s) \/ Town!NpcBuys(s) \/ Town!PayWage(s) \/ Town!Eat(s)
    PROVE  Trading'
<1>1. PICK tx \in {"goods", "caravan", "npc", "wage", "meal"} :
        Town!Begins(s, tx) /\ (tx # "goods" => Town!Op(s) = tx)
  BY DEF Town!Shop, Town!CaravanBuys, Town!NpcBuys, Town!PayWage, Town!Eat
<1>2. PICK x \in SessionType : x = Town!Fresh(tx) /\ x.tx = tx /\ x.done = 0
  <2>1. Town!Fresh(tx) = [tx |-> tx, done |-> 0, cut |-> 0]
    BY DEF Town!Fresh
  <2>2. [tx |-> tx, done |-> 0, cut |-> 0] \in SessionType
    BY TradeNumbers DEF SessionType, Running
  <2> QED  BY <2>1, <2>2
<1>3. at' = [at EXCEPT ![s] = x] /\ UNCHANGED <<cast, stock, carry, town, wallet>>
  BY <1>1, <1>2 DEF Town!Begins
<1> QED  BY <1>1, <1>2, <1>3, Released

LEMMA OverKeeping ==
    ASSUME Trading, NEW s \in Sessions, Town!Refused(s) \/ Town!Refunds(s) \/ Town!Aborts(s)
    PROVE  /\ Trading' /\ UNCHANGED <<cast, stock, carry, town, wallet>>
           /\ \E x \in SessionType : at' = [at EXCEPT ![s] = x] /\ x.tx \in Over
<1>1. PICK a \in SessionType : a = at[s]
  BY DEF Trading, TradeTypes
<1>2. ASSUME NEW tx \in Over
      PROVE  Town!Fresh(tx) \in SessionType /\ Town!Fresh(tx).tx = tx
  BY TradeNumbers DEF SessionType, Town!Fresh
<1>3. [a EXCEPT !.tx = "unpaid"] \in SessionType /\ [a EXCEPT !.tx = "unpaid"].tx = "unpaid"
  BY DEF SessionType, Over
<1>4. PICK x \in SessionType : at' = [at EXCEPT ![s] = x] /\ x.tx \in Over
  <2>1. CASE Town!Refused(s)
    <3>1. at' = [at EXCEPT ![s] = Town!Fresh(IF @.tx = "goods" THEN "refund" ELSE "refused")]
      BY <2>1 DEF Town!Refused, Town!Short
    <3>2. at' = [at EXCEPT ![s] = Town!Fresh("refund")] \/ at' = [at EXCEPT ![s] = Town!Fresh("refused")]
      BY <3>1
    <3> QED  BY <1>2, <3>2 DEF Over
  <2>2. CASE Town!Refunds(s)
    BY <1>2, <2>2 DEF Town!Refunds, Over
  <2>3. CASE Town!Aborts(s)
    <3>1. \/ at' = [at EXCEPT ![s] = Town!Fresh("lost")] \/ at' = [at EXCEPT ![s] = Town!Fresh("failed")]
          \/ at' = [at EXCEPT ![s] = [a EXCEPT !.tx = "unpaid"]]
      BY <1>1, <2>3 DEF Town!Aborts
    <3> QED  BY <1>2, <1>3, <3>1 DEF Over
  <2> QED  BY <2>1, <2>2, <2>3
<1>5. UNCHANGED <<cast, stock, carry, town, wallet>>
  BY DEF Town!Refused, Town!Refunds, Town!Aborts
<1>6. x.tx \notin Running
  BY <1>4 DEF Running, Over
<1> QED  BY <1>4, <1>5, <1>6, Released

\* A statement finds what it asks for, and waits until nobody else holds its row.
LEMMA ExecutesKeeping ==
    ASSUME Trading, NEW s \in Sessions, Town!Executes(s)
    PROVE  Trading'
<1>1. /\ Town!Busy(s) /\ Town!Busy(s)' /\ Session(s)'
      /\ at' \in [Sessions -> SessionType] /\ at'[s].tx = at[s].tx /\ at'[s].cut = at[s].cut
      /\ \A t \in Sessions \ {s} : at'[t] = at[t]
      /\ Ran(s)' = Ran(s) \cup {Town!Statement(s)}
      /\ UNCHANGED <<cast, stock, carry, town, wallet>>
  BY OneMore DEF Trading
<1>2. Town!Finds(s) /\ Town!Granted(s)
  BY DEF Town!Executes
<1>3. TradeTypes'
  BY <1>1 DEF Trading, TradeTypes
<1>4. /\ Town!Who(s)' = Town!Who(s) /\ Town!Cost(s)' = Town!Cost(s) /\ Town!Earner(s)' = Town!Earner(s)
      /\ Town!Cut' = Town!Cut
  BY <1>1 DEF Town!Who, Town!Cost, Town!Earner, Town!In, Town!Cut
<1>5. \A st : Town!Row(s, st)' = Town!Row(s, st)
  BY <1>4 DEF Town!Row
<1>6. Found(s)'
  <2>1. /\ "take" \in Ran(s)' => stock > 0
        /\ "debit" \in Ran(s)' => wallet[Town!Who(s)] >= Town!Cost(s)
        /\ "fund" \in Ran(s)' => town >= Wage + Floor
    BY <1>1, <1>2 DEF Trading, Found, Town!Finds
  <2>2. wallet'[Town!Who(s)'] = wallet[Town!Who(s)]
    BY <1>1, <1>4
  <2> QED  BY <1>1, <1>4, <2>1, <2>2 DEF Found
<1>7. Town!Held(s)' = {Town!Row(s, st) : st \in Ran(s) \cup {Town!Statement(s)}}
  <2>1. Town!Held(s)' = IF Town!Busy(s)' THEN {Town!Row(s, st)' : st \in Ran(s)'} ELSE {}
    BY DEF Town!Held, Ran
  <2> QED  BY <1>1, <1>5, <2>1
<1>8. \A t \in Sessions \ {s} : Town!Held(s)' \cap Town!Held(t) = {}
  BY <1>1, <1>2, <1>7, Alone DEF Trading
<1> QED  BY <1>1, <1>3, <1>6, <1>8, OneSteps

LEMMA Kinds ==
    /\ Town!ToSet(Town!Script["goods"]) = {"take", "accrue", "levy"}
    /\ Town!ToSet(Town!Script["earn"]) = {"credit"}
    /\ Town!ToSet(Town!Script["caravan"]) = {"take", "accrue", "levy", "credit"}
    /\ Town!ToSet(Town!Script["npc"]) = {"accrue", "levy", "debit", "take", "credit"}
    /\ Town!ToSet(Town!Script["wage"]) = {"fund", "credit"}
    /\ Town!ToSet(Town!Script["meal"]) = {"debit", "tax"}
<1>1. Town!ToSet(Town!Script["goods"]) = {"take", "accrue", "levy"}
  <2>1. 1 .. 3 = {1, 2, 3}
    OBVIOUS
  <2> QED  BY <2>1, Scripts DEF Town!ToSet
<1>2. Town!ToSet(Town!Script["earn"]) = {"credit"}
  <2>1. 1 .. 1 = {1}
    OBVIOUS
  <2> QED  BY <2>1, Scripts DEF Town!ToSet
<1>3. Town!ToSet(Town!Script["caravan"]) = {"take", "accrue", "levy", "credit"}
  <2>1. 1 .. 4 = {1, 2, 3, 4}
    OBVIOUS
  <2> QED  BY <2>1, Scripts DEF Town!ToSet
<1>4. Town!ToSet(Town!Script["npc"]) = {"accrue", "levy", "debit", "take", "credit"}
  <2>1. 1 .. 5 = {1, 2, 3, 4, 5}
    OBVIOUS
  <2> QED  BY <2>1, Scripts DEF Town!ToSet
<1>5. Town!ToSet(Town!Script["wage"]) = {"fund", "credit"}
  <2>1. 1 .. 2 = {1, 2}
    OBVIOUS
  <2> QED  BY <2>1, Scripts DEF Town!ToSet
<1>6. Town!ToSet(Town!Script["meal"]) = {"debit", "tax"}
  <2>1. 1 .. 2 = {1, 2}
    OBVIOUS
  <2> QED  BY <2>1, Scripts DEF Town!ToSet
<1> QED  BY <1>1, <1>2, <1>3, <1>4, <1>5, <1>6

\* What a transaction does to the stock, the tax and the town.
LEMMA Whole ==
    ASSUME TradeTypes, NEW s \in Sessions, Session(s), Town!Busy(s)
    PROVE  /\ at[s].tx \in Running
           /\ \A st : Town!Does(s, st) \in {0, 1}
           /\ at[s].tx \in {"goods", "caravan", "npc"} =>
                /\ Town!Does(s, "take") = 1 /\ Town!Does(s, "accrue") = 1 /\ Town!Does(s, "levy") = 1
                /\ Town!Does(s, "tax") = 0 /\ Town!Does(s, "fund") = 0
           /\ at[s].tx \in {"earn", "wage", "meal"} =>
                /\ Town!Does(s, "take") = 0 /\ Town!Does(s, "accrue") = 0 /\ Town!Does(s, "levy") = 0
                /\ Town!Does(s, "tax") = (IF at[s].tx = "meal" THEN 1 ELSE 0)
                /\ Town!Does(s, "fund") = (IF at[s].tx = "wage" THEN 1 ELSE 0)
<1>1. at[s].tx \in Running /\ Town!Todo(s) = Town!Script[at[s].tx]
  BY Script
<1>2. \A st : Town!Does(s, st) = IF st \in Town!ToSet(Town!Script[at[s].tx]) THEN 1 ELSE 0
  BY <1>1 DEF Town!Does
<1> QED  BY <1>1, <1>2, Kinds DEF Running

LEMMA Amounts ==
    ASSUME TradeTypes, NEW s \in Sessions
    PROVE  /\ Town!Who(s) \in Residents /\ Town!Earner(s) \in Residents
           /\ Town!Cost(s) \in Nat /\ Town!Earned(s) \in Nat
<1>1. Town!Who(s) \in Residents
  BY SceneShape DEF TradeTypes, Town!Who, Roles
<1>2. Town!Earner(s) \in Residents
  BY <1>1, SceneShape DEF Town!Earner
<1>3. Town!Cost(s) \in Nat
  BY TradeNumbers DEF Town!Cost
<1>4. Town!Cut \in Nat /\ Town!Cut <= Price
  BY WholeCoins, TradeNumbers DEF TradeTypes, Town!Cut
<1>5. at[s].cut \in 0 .. Price
  BY DEF TradeTypes, SessionType
<1>6. Town!Earned(s) \in Nat
  BY <1>4, <1>5, TradeNumbers DEF Town!Earned
<1> QED  BY <1>1, <1>2, <1>3, <1>6

\* What the others have found is not touched by a commit.
LEMMA LeavesAlone ==
    ASSUME Trading, wallet \in [Residents -> Nat], NEW s \in Sessions, Town!Commits(s),
           NEW t \in Sessions, s # t, Town!Busy(t)
    PROVE  /\ carry' = carry \/ "levy" \notin Ran(t)
           /\ "take" \in Ran(t) => stock' = stock
           /\ "debit" \in Ran(t) => wallet'[Town!Who(t)] = wallet[Town!Who(t)]
           /\ "fund" \in Ran(t) => town' = town
<1>1. /\ TradeTypes /\ Session(s) /\ Session(t) /\ Shut
      /\ Town!Busy(s) /\ Town!Granted(s) /\ Town!LastOne(s)
  BY DEF Trading, Town!Commits
<1>2. /\ stock' = stock - Town!Does(s, "take")
      /\ carry' = carry + Town!Does(s, "accrue") * Levy - Town!Does(s, "levy") * Town!Cut * Scale
      /\ town' = town + Town!Does(s, "levy") * Town!Cut + Town!Does(s, "tax") * Meal - Town!Does(s, "fund") * Wage
      /\ wallet' = [r \in Residents |->
                    wallet[r] + (IF r = Town!Earner(s) THEN Town!Does(s, "credit") * Town!Earned(s) ELSE 0)
                              - (IF r = Town!Who(s) THEN Town!Does(s, "debit") * Town!Cost(s) ELSE 0)]
  BY DEF Town!Commits
<1>3. \A st : Town!Does(s, st) = 1 => Town!Row(s, st) \notin Town!Held(t)
  BY <1>1, AllRan, Alone
<1>4. \A st \in Ran(t) : Town!Row(t, st) \in Town!Held(t)
  BY HeldRows
<1>5. \A st : Town!Does(s, st) \in {0, 1}
  BY <1>1, Whole
<1>6. carry \in 0 .. Scale - 1 /\ Scale \in Nat /\ Levy \in Nat /\ stock \in Int /\ town \in Int
      /\ Town!Cut \in Nat /\ Meal \in Nat /\ Wage \in Nat
  BY <1>1, WholeCoins, TradeNumbers DEF TradeTypes
<1>7. carry' = carry \/ "levy" \notin Ran(t)
  <2>1. SUFFICES ASSUME "levy" \in Ran(t) PROVE carry' = carry
    OBVIOUS
  <2>2. "carry" \in Town!Held(t)
    BY <1>1, <1>4, <2>1, Levying DEF Town!Row
  <2>3. Town!Does(s, "accrue") = 0
    BY <1>3, <1>5, <2>2 DEF Town!Row
  <2>4. Town!Does(s, "levy") = 0
    BY <1>1, <2>3, Whole DEF Running
  <2> QED  BY <1>2, <1>6, <2>3, <2>4
<1>8. "take" \in Ran(t) => stock' = stock
  <2>1. SUFFICES ASSUME "take" \in Ran(t) PROVE stock' = stock
    OBVIOUS
  <2>2. Town!Does(s, "take") = 0
    BY <1>3, <1>4, <1>5, <2>1 DEF Town!Row
  <2> QED  BY <1>2, <1>6, <2>2
<1>9. "debit" \in Ran(t) => wallet'[Town!Who(t)] = wallet[Town!Who(t)]
  <2>1. SUFFICES ASSUME "debit" \in Ran(t) PROVE wallet'[Town!Who(t)] = wallet[Town!Who(t)]
    OBVIOUS
  <2>2. Town!Who(t) \in Town!Held(t)
    BY <1>4, <2>1 DEF Town!Row
  <2>3. Town!Earner(s) = Town!Who(t) => Town!Does(s, "credit") = 0
    BY <1>3, <1>5, <2>2 DEF Town!Row
  <2>4. Town!Who(s) = Town!Who(t) => Town!Does(s, "debit") = 0
    BY <1>3, <1>5, <2>2 DEF Town!Row
  <2>5. PICK r \in Residents : r = Town!Who(t)
    BY <1>1, Amounts
  <2>6. wallet'[r] = wallet[r] + (IF r = Town!Earner(s) THEN Town!Does(s, "credit") * Town!Earned(s) ELSE 0)
                               - (IF r = Town!Who(s) THEN Town!Does(s, "debit") * Town!Cost(s) ELSE 0)
    BY <1>2
  <2>7. Town!Earned(s) \in Nat /\ Town!Cost(s) \in Nat
    BY <1>1, Amounts
  <2>8. wallet'[r] = wallet[r]
    BY <2>3, <2>4, <2>5, <2>6, <2>7
  <2> QED  BY <2>5, <2>8
<1>10. "fund" \in Ran(t) => town' = town
  <2>1. SUFFICES ASSUME "fund" \in Ran(t) PROVE town' = town
    OBVIOUS
  <2>2. "town" \in Town!Held(t)
    BY <1>4, <2>1 DEF Town!Row
  <2>3. Town!Does(s, "tax") = 0 /\ Town!Does(s, "fund") = 0
    BY <1>3, <1>5, <2>2 DEF Town!Row
  <2>4. Town!Does(s, "levy") = 0 \/ Town!Cut = 0
    BY <1>3, <1>5, <1>6, <2>2 DEF Town!Row
  <2>5. Town!Does(s, "levy") * Town!Cut = 0
    BY <1>5, <1>6, <2>4
  <2> QED  BY <1>2, <1>6, <2>3, <2>5
<1> QED  BY <1>7, <1>8, <1>9, <1>10

\* Nobody is overdrawn: the debit was judged, and its row has been locked since.
LEMMA Solvent ==
    ASSUME Trading, wallet \in [Residents -> Nat], NEW s \in Sessions, Town!Commits(s)
    PROVE  wallet' \in [Residents -> Nat]
<1>1. TradeTypes /\ Session(s) /\ Found(s) /\ Town!Busy(s) /\ Town!LastOne(s) /\ Town!Finds(s)
  BY DEF Trading, Town!Commits
<1>2. wallet' = [r \in Residents |->
                    wallet[r] + (IF r = Town!Earner(s) THEN Town!Does(s, "credit") * Town!Earned(s) ELSE 0)
                              - (IF r = Town!Who(s) THEN Town!Does(s, "debit") * Town!Cost(s) ELSE 0)]
  BY DEF Town!Commits
<1>3. Town!Does(s, "credit") \in {0, 1} /\ Town!Does(s, "debit") \in {0, 1}
  BY <1>1, Whole
<1>4. Town!Earned(s) \in Nat /\ Town!Cost(s) \in Nat
  BY <1>1, Amounts
<1>5. Town!Does(s, "debit") = 1 => wallet[Town!Who(s)] >= Town!Cost(s)
  BY <1>1, AllRan DEF Found, Town!Finds
<1>6. ASSUME NEW r \in Residents
      PROVE  wallet'[r] \in Nat
  <2>1. wallet'[r] = wallet[r] + (IF r = Town!Earner(s) THEN Town!Does(s, "credit") * Town!Earned(s) ELSE 0)
                               - (IF r = Town!Who(s) THEN Town!Does(s, "debit") * Town!Cost(s) ELSE 0)
    BY <1>2
  <2>2. PICK in \in Nat : in = IF r = Town!Earner(s) THEN Town!Does(s, "credit") * Town!Earned(s) ELSE 0
    BY <1>3, <1>4
  <2>3. PICK out \in Nat : /\ out = IF r = Town!Who(s) THEN Town!Does(s, "debit") * Town!Cost(s) ELSE 0
                           /\ out <= wallet[r]
    BY <1>3, <1>4, <1>5
  <2> QED  BY <2>1, <2>2, <2>3
<1> QED  BY <1>2, <1>6

\* What a commit writes to the tables.
LEMMA Commit ==
    ASSUME Trading, NEW s \in Sessions, Town!Commits(s)
    PROVE  /\ stock' \in Int /\ carry' \in 0 .. Scale - 1 /\ town' \in Int /\ cast' = cast
           /\ at[s].tx \in {"goods", "caravan", "npc"} =>
                /\ stock > 0 /\ stock' = stock - 1
                /\ carry' + Scale * town' = carry + Scale * town + Levy
                /\ town' >= town
           /\ at[s].tx = "earn" => stock' = stock /\ carry' = carry /\ town' = town
           /\ at[s].tx = "wage" => stock' = stock /\ carry' = carry /\ town' = town - Wage /\ town' >= Floor
           /\ at[s].tx = "meal" => stock' = stock /\ carry' = carry /\ town' = town + Meal
           /\ at[s].tx \in Running
<1>1. TradeTypes /\ Session(s) /\ Found(s) /\ Town!Busy(s) /\ Town!LastOne(s) /\ Town!Finds(s)
  BY DEF Trading, Town!Commits
<1>2. /\ stock' = stock - Town!Does(s, "take")
      /\ carry' = carry + Town!Does(s, "accrue") * Levy - Town!Does(s, "levy") * Town!Cut * Scale
      /\ town' = town + Town!Does(s, "levy") * Town!Cut + Town!Does(s, "tax") * Meal - Town!Does(s, "fund") * Wage
      /\ cast' = cast
  BY DEF Town!Commits
<1>3. /\ carry \in 0 .. Scale - 1 /\ stock \in Int /\ town \in Int
      /\ Town!Cut \in Nat /\ carry + Levy - Town!Cut * Scale \in 0 .. Scale - 1
      /\ Scale \in Nat /\ Levy \in Nat /\ Meal \in Nat /\ Wage \in Nat /\ Floor \in Nat
  BY <1>1, WholeCoins, TradeNumbers DEF TradeTypes
<1>4. Town!Does(s, "take") = 1 => stock > 0
  BY <1>1, AllRan DEF Found, Town!Finds
<1>5. Town!Does(s, "fund") = 1 => town >= Wage + Floor
  BY <1>1, AllRan DEF Found, Town!Finds
<1>6. CASE at[s].tx \in {"goods", "caravan", "npc"}
  <2>1. stock' = stock - 1 /\ stock > 0
    BY <1>1, <1>2, <1>4, <1>6, Whole
  <2>2. /\ Town!Does(s, "accrue") * Levy = Levy /\ Town!Does(s, "levy") * Town!Cut = Town!Cut
        /\ Town!Does(s, "tax") * Meal = 0 /\ Town!Does(s, "fund") * Wage = 0
    BY <1>1, <1>3, <1>6, Whole
  <2>3. carry' = carry + Levy - Town!Cut * Scale /\ town' = town + Town!Cut
    BY <1>2, <1>3, <2>2
  <2>4. Scale * (town + Town!Cut) = Scale * town + Town!Cut * Scale
    BY <1>3
  <2>5. carry' + Scale * town' = carry + Scale * town + Levy
    <3>1. PICK x \in Int, y \in Int : x = Town!Cut * Scale /\ y = Scale * town
      BY <1>3
    <3> QED  BY <1>3, <2>3, <2>4, <3>1
  <2> QED  BY <1>1, <1>2, <1>3, <1>6, <2>1, <2>3, <2>5, Whole
<1>7. CASE at[s].tx \in {"earn", "wage", "meal"}
  <2>1. /\ Town!Does(s, "take") = 0
        /\ Town!Does(s, "accrue") * Levy = 0 /\ Town!Does(s, "levy") * Town!Cut = 0
        /\ Town!Does(s, "levy") * Town!Cut * Scale = 0
        /\ Town!Does(s, "tax") * Meal = (IF at[s].tx = "meal" THEN Meal ELSE 0)
        /\ Town!Does(s, "fund") * Wage = (IF at[s].tx = "wage" THEN Wage ELSE 0)
    BY <1>1, <1>3, <1>7, Whole
  <2>2. /\ stock' = stock /\ carry' = carry
        /\ town' = town + (IF at[s].tx = "meal" THEN Meal ELSE 0) - (IF at[s].tx = "wage" THEN Wage ELSE 0)
    BY <1>2, <1>3, <2>1
  <2>3. at[s].tx = "wage" => town >= Wage + Floor
    BY <1>1, <1>5, Whole
  <2> QED  BY <1>1, <1>2, <1>3, <1>7, <2>2, <2>3, Whole
<1> QED  BY <1>1, <1>6, <1>7, Whole DEF Running

\* Where a session is after its commit.
LEMMA Afterwards ==
    ASSUME Trading, NEW s \in Sessions, Town!Commits(s)
    PROVE  \E x \in SessionType :
              /\ at' = [at EXCEPT ![s] = x]
              /\ at[s].tx = "goods" => x.tx = "earn" /\ x.done = 0
              /\ at[s].tx \in {"earn", "caravan", "npc"} => x.tx = "sold"
              /\ at[s].tx \in {"wage", "meal"} => x.tx = "paid"
<1>1. at' = [at EXCEPT ![s] = Town!After(s)]
  BY DEF Town!Commits
<1>2. at[s].tx \in Running
  BY Commit
<1>3. Town!Cut \in 0 .. Price
  BY WholeCoins, TradeNumbers DEF Trading, TradeTypes, Town!Cut
<1>4. CASE at[s].tx = "goods"
  <2>1. Town!After(s) = [tx |-> "earn", done |-> 0, cut |-> Town!Cut]
    BY <1>4 DEF Town!After, Town!In
  <2>2. [tx |-> "earn", done |-> 0, cut |-> Town!Cut] \in SessionType
    BY <1>3 DEF SessionType, Running
  <2> QED  BY <1>1, <1>4, <2>1, <2>2
<1>5. ASSUME NEW tx \in {"sold", "paid"}
      PROVE  Town!Fresh(tx) \in SessionType /\ Town!Fresh(tx).tx = tx
  BY TradeNumbers DEF SessionType, Over, Town!Fresh
<1>6. CASE at[s].tx \in {"earn", "caravan", "npc"}
  BY <1>1, <1>5, <1>6 DEF Town!After, Town!In
<1>7. CASE at[s].tx \in {"wage", "meal"}
  BY <1>1, <1>5, <1>7 DEF Town!After, Town!In
<1> QED  BY <1>2, <1>4, <1>6, <1>7 DEF Running

LEMMA CommitsKeeping ==
    ASSUME Trading, wallet \in [Residents -> Nat], NEW s \in Sessions, Town!Commits(s)
    PROVE  Trading' /\ wallet' \in [Residents -> Nat]
<1>1. PICK x \in SessionType :
        /\ at' = [at EXCEPT ![s] = x]
        /\ at[s].tx = "goods" => x.tx = "earn" /\ x.done = 0
        /\ at[s].tx \in {"earn", "caravan", "npc"} => x.tx = "sold"
        /\ at[s].tx \in {"wage", "meal"} => x.tx = "paid"
  BY Afterwards
<1>2. at' \in [Sessions -> SessionType] /\ at'[s] = x /\ \A t \in Sessions \ {s} : at'[t] = at[t]
  BY <1>1 DEF Trading, TradeTypes
<1>3. TradeTypes'
  BY <1>2, Commit DEF Trading, TradeTypes
<1>4. Town!Busy(s)' => x.tx = "earn" /\ x.done = 0
  BY <1>1, <1>2, Commit, Scripts DEF Town!Busy, Town!In, Running
<1>5. Town!Busy(s)' => Ran(s)' = {}
  BY <1>2, <1>4 DEF Ran
<1>6. Town!Held(s)' = {}
  <2>1. Town!Held(s)' = IF Town!Busy(s)' THEN {Town!Row(s, st)' : st \in Ran(s)'} ELSE {}
    BY DEF Town!Held, Ran
  <2> QED  BY <1>5, <2>1
<1>7. Session(s)'
  <2>1. Len(Town!Script["earn"]) > 0
    BY Lengths DEF Running
  <2>2. x.tx \notin {"caravan", "npc", "wage", "meal"}
    BY <1>1, Commit DEF Running
  <2> QED  BY <1>2, <1>4, <2>1, <2>2 DEF Session, Town!Todo
<1>8. Found(s)'
  BY <1>5 DEF Found
<1>9. \A t \in Sessions \ {s} : Town!Busy(t) =>
        /\ carry' = carry \/ "levy" \notin Ran(t)
        /\ "take" \in Ran(t) => stock' = stock
        /\ "debit" \in Ran(t) => wallet'[Town!Who(t)] = wallet[Town!Who(t)]
        /\ "fund" \in Ran(t) => town' = town
  BY LeavesAlone
<1>10. Trading'
  BY <1>2, <1>3, <1>6, <1>7, <1>8, <1>9, Commit, OneSteps
<1> QED  BY <1>10, Solvent

LEMMA TradeKeeping ==
    ASSUME Trading, wallet \in [Residents -> Nat], Town!TradeNext
    PROVE  Trading' /\ wallet' \in [Residents -> Nat]
<1>1. PICK s \in Sessions :
        \/ Town!Shop(s) \/ Town!CaravanBuys(s) \/ Town!NpcBuys(s) \/ Town!PayWage(s) \/ Town!Eat(s)
        \/ Town!Executes(s) \/ Town!Commits(s)
        \/ Town!Refused(s) \/ Town!Refunds(s) \/ Town!Aborts(s)
  BY DEF Town!TradeNext, Town!Step, Town!Victim
<1>2. CASE Town!Shop(s) \/ Town!CaravanBuys(s) \/ Town!NpcBuys(s) \/ Town!PayWage(s) \/ Town!Eat(s)
  BY <1>2, BeginsKeeping DEF Town!Shop, Town!CaravanBuys, Town!NpcBuys, Town!PayWage, Town!Eat, Town!Begins
<1>3. CASE Town!Executes(s)
  BY <1>3, ExecutesKeeping DEF Town!Executes
<1>4. CASE Town!Commits(s)
  BY <1>4, CommitsKeeping
<1>5. CASE Town!Refused(s) \/ Town!Refunds(s) \/ Town!Aborts(s)
  BY <1>5, OverKeeping
<1> QED  BY <1>1, <1>2, <1>3, <1>4, <1>5

\* The board pays through purses that no trade has locked.
LEMMA BoardAside ==
    ASSUME Trading, UNCHANGED shop, PursesFree \/ wallet' = wallet
    PROVE  Trading'
<1>1. ASSUME NEW t \in Sessions
      PROVE  /\ Town!Busy(t)' = Town!Busy(t) /\ Ran(t)' = Ran(t)
             /\ Town!Who(t)' = Town!Who(t) /\ Town!Cost(t)' = Town!Cost(t)
             /\ Town!Held(t)' = Town!Held(t)
  <2>1. at'[t] = at[t] /\ cast' = cast /\ carry' = carry
    BY DEF shop
  <2> QED  BY <2>1, Stays
<1>2. TradeTypes'
  BY DEF shop, Trading, TradeTypes
<1>3. ASSUME NEW t \in Sessions
      PROVE  Session(t)'
  BY <1>1 DEF shop, Trading, Session, Town!Op, Town!Todo
<1>4. ASSUME NEW t \in Sessions, Town!Busy(t), "debit" \in Ran(t)
      PROVE  wallet'[Town!Who(t)] = wallet[Town!Who(t)]
  <2>1. PICK r \in Residents : r = Town!Who(t)
    BY Amounts DEF Trading
  <2>2. r \in Town!Held(t)
    BY <1>4, <2>1, HeldRows DEF Town!Row
  <2> QED  BY <2>1, <2>2 DEF PursesFree, Town!Locked
<1>5. ASSUME NEW t \in Sessions
      PROVE  Found(t)'
  <2>1. wallet[Town!Who(t)] >= Town!Cost(t) /\ wallet'[Town!Who(t)] = wallet[Town!Who(t)]
           => wallet'[Town!Who(t)'] >= Town!Cost(t)'
    BY <1>1
  <2> QED  BY <1>1, <1>4, <2>1 DEF shop, Trading, Found
<1>6. Shut'
  BY <1>1 DEF Trading, Shut
<1> QED  BY <1>2, <1>3, <1>5, <1>6 DEF Trading

-----------------------------------------------------------------------------
(* The books of the trade. *)

Paying(op) == {s \in Sessions : Town!Op(s) = op /\ Town!In(s, {"paid"})}
Taxed == {"earn", "unpaid", "sold"}

\* a unit is in stock or sold
Units == stock >= 0 /\ stock + Cardinality(Town!Levied) = cast.units

\* TownTrade counts as everybody does.
LEMMA SameCount == ASSUME NEW S PROVE Town!Cardinality(S) = Cardinality(S)
BY DEF Town!Cardinality, Cardinality

LEMMA Counts ==
    /\ IsFiniteSet(Town!Levied) /\ Cardinality(Town!Levied) \in Nat
    /\ \A op : /\ IsFiniteSet(Paying(op)) /\ Cardinality(Paying(op)) \in Nat
              /\ Town!Paid(op) = Cardinality(Paying(op))
<1>1. Town!Levied \subseteq Sessions /\ \A op : Paying(op) \subseteq Sessions
  BY DEF Town!Levied, Paying
<1>2. ASSUME NEW op
      PROVE  Town!Paid(op) = Cardinality(Paying(op))
  BY SameCount DEF Town!Paid, Paying
<1> QED  BY <1>1, <1>2, SceneShape, FS_Subset, FS_CardinalityType

\* A session that is neither taxed nor paid by its step changes no count.
LEMMA Uncounted ==
    ASSUME TradeTypes, NEW s \in Sessions, NEW x \in SessionType, at' = [at EXCEPT ![s] = x],
           cast' = cast,
           at[s].tx \in Taxed <=> x.tx \in Taxed, at[s].tx = "paid" <=> x.tx = "paid"
    PROVE  Town!Levied' = Town!Levied /\ \A op : Town!Paid(op)' = Town!Paid(op)
<1>1. at'[s] = x /\ \A t \in Sessions \ {s} : at'[t] = at[t]
  BY DEF TradeTypes
<1>2. Town!Levied' = Town!Levied
  BY <1>1 DEF Town!Levied, Town!In, Taxed
<1>3. ASSUME NEW op
      PROVE  Town!Paid(op)' = Town!Paid(op)
  BY <1>1 DEF Town!Paid, Town!Op, Town!In
<1> QED  BY <1>2, <1>3

\* One more sale.
LEMMA OneSale ==
    ASSUME TradeTypes, NEW s \in Sessions, NEW x \in SessionType, at' = [at EXCEPT ![s] = x],
           cast' = cast, at[s].tx \in {"goods", "caravan", "npc"}, x.tx \in Taxed
    PROVE  /\ Cardinality(Town!Levied)' = Cardinality(Town!Levied) + 1
           /\ \A op : Town!Paid(op)' = Town!Paid(op)
<1>1. at'[s] = x /\ \A t \in Sessions \ {s} : at'[t] = at[t]
  BY DEF TradeTypes
<1>2. Town!Levied' = Town!Levied \cup {s} /\ s \notin Town!Levied
  BY <1>1 DEF Town!Levied, Town!In, Taxed
<1>3. Cardinality(Town!Levied') = Cardinality(Town!Levied) + 1
  BY <1>2, Counts, FS_AddElement
<1>4. ASSUME NEW op
      PROVE  Town!Paid(op)' = Town!Paid(op)
  BY <1>1 DEF Town!Paid, Town!Op, Town!In, Taxed
<1> QED  BY <1>3, <1>4

\* One more wage, or one more meal.
LEMMA OnePaid ==
    ASSUME TradeTypes, NEW s \in Sessions, NEW x \in SessionType, at' = [at EXCEPT ![s] = x],
           cast' = cast, at[s].tx \in {"wage", "meal"}, Town!Op(s) = at[s].tx, x.tx = "paid"
    PROVE  /\ Town!Levied' = Town!Levied
           /\ \A op \in {"wage", "meal"} :
                 Town!Paid(op)' = Town!Paid(op) + (IF op = at[s].tx THEN 1 ELSE 0)
<1>1. at'[s] = x /\ \A t \in Sessions \ {s} : at'[t] = at[t]
  BY DEF TradeTypes
<1>2. Town!Levied' = Town!Levied
  BY <1>1 DEF Town!Levied, Town!In
<1>3. ASSUME NEW op \in {"wage", "meal"}
      PROVE  Town!Paid(op)' = Town!Paid(op) + (IF op = at[s].tx THEN 1 ELSE 0)
  <2>1. Town!Paid(op) = Cardinality(Paying(op)) /\ Town!Paid(op)' = Cardinality(Paying(op)')
    BY SameCount DEF Town!Paid, Paying
  <2>2. CASE op = at[s].tx
    <3>1. Paying(op)' = Paying(op) \cup {s} /\ s \notin Paying(op)
      BY <1>1, <2>2 DEF Paying, Town!Op, Town!In
    <3>2. IsFiniteSet(Paying(op)) /\ Cardinality(Paying(op)) \in Nat
      BY Counts
    <3>3. Cardinality(Paying(op) \cup {s}) = Cardinality(Paying(op)) + 1
      BY <3>1, <3>2, FS_AddElement
    <3>4. Town!Paid(op)' = Town!Paid(op) + 1
      BY <2>1, <3>1, <3>3
    <3> QED  BY <2>2, <3>4
  <2>3. CASE op # at[s].tx
    <3>1. Paying(op)' = Paying(op)
      BY <1>1, <2>3 DEF Paying, Town!Op, Town!In
    <3> QED  BY <2>1, <2>3, <3>1, Counts
  <2> QED  BY <2>2, <2>3
<1> QED  BY <1>2, <1>3

\* A session that ends otherwise than by a commit is taxed only if it was.
LEMMA Ends ==
    ASSUME Trading, NEW s \in Sessions, Town!Refused(s) \/ Town!Refunds(s) \/ Town!Aborts(s)
    PROVE  \E x \in SessionType :
              /\ at' = [at EXCEPT ![s] = x]
              /\ at[s].tx \in Taxed <=> x.tx \in Taxed
              /\ at[s].tx # "paid" /\ x.tx # "paid"
              /\ x.tx \in Over \ {"sold"} /\ at[s].tx \notin {"sold", "unpaid"}
              /\ x.tx = "unpaid" <=> at[s].tx = "earn"
              /\ at[s].tx = "earn" => x.cut = at[s].cut
<1>1. PICK a \in SessionType : a = at[s]
  BY DEF Trading, TradeTypes
<1>2. \A tx \in {"refund", "refused", "refunded", "lost", "failed"} :
        Town!Fresh(tx) \in SessionType /\ Town!Fresh(tx).tx = tx
  BY TradeNumbers DEF SessionType, Over, Town!Fresh
<1>3. CASE Town!Refused(s)
  <2>1. /\ Town!Busy(s) /\ ~Town!Finds(s)
        /\ at' = [at EXCEPT ![s] = Town!Fresh(IF @.tx = "goods" THEN "refund" ELSE "refused")]
    BY <1>3 DEF Town!Refused, Town!Short
  <2>2. at[s].tx # "earn"
    <3>1. SUFFICES ASSUME at[s].tx = "earn" PROVE FALSE
      OBVIOUS
    <3>2. at[s].done + 1 \in 1 .. 1 /\ at[s].done \in Nat /\ Town!Statement(s) = Town!Script["earn"][at[s].done + 1]
      BY <2>1, <3>1, Script, Scripts DEF Trading
    <3>3. Town!Statement(s) = "credit"
      BY <3>2, Scripts
    <3> QED  BY <2>1, <3>3 DEF Town!Finds
  <2>3. at[s].tx \in Running
    BY <2>1, Scripts DEF Town!Busy, Town!In
  <2>4. at' = [at EXCEPT ![s] = Town!Fresh("refund")] \/ at' = [at EXCEPT ![s] = Town!Fresh("refused")]
    BY <2>1
  <2> QED  BY <1>2, <2>2, <2>3, <2>4 DEF Taxed, Running, Over
<1>4. CASE Town!Refunds(s)
  BY <1>2, <1>4 DEF Town!Refunds, Town!In, Taxed, Over
<1>5. CASE Town!Aborts(s)
  <2>1. at[s].tx \in Running \cup {"refund"}
    BY <1>5, Scripts DEF Town!Aborts, Town!Busy, Town!In
  <2>2. CASE at[s].tx = "earn"
    <3>1. at' = [at EXCEPT ![s] = [a EXCEPT !.tx = "unpaid"]]
      BY <1>1, <1>5, <2>2 DEF Town!Aborts
    <3>2. /\ [a EXCEPT !.tx = "unpaid"] \in SessionType /\ [a EXCEPT !.tx = "unpaid"].tx = "unpaid"
          /\ [a EXCEPT !.tx = "unpaid"].cut = a.cut
      BY DEF SessionType, Over
    <3> QED  BY <1>1, <2>2, <3>1, <3>2 DEF Taxed, Over
  <2>3. CASE at[s].tx # "earn"
    <3>1. at' = [at EXCEPT ![s] = Town!Fresh("lost")] \/ at' = [at EXCEPT ![s] = Town!Fresh("failed")]
      BY <1>5, <2>3 DEF Town!Aborts
    <3> QED  BY <1>2, <2>1, <2>3, <3>1 DEF Taxed, Running, Over
  <2> QED  BY <2>2, <2>3
<1> QED  BY <1>3, <1>4, <1>5

\* Every kind of step keeps the books.
LEMMA TradeBooks ==
    ASSUME Trading, Units, TaxAddsUp, Town!TradeNext
    PROVE  Units' /\ TaxAddsUp'
<1> DEFINE M == Town!Paid("meal")
           W == Town!Paid("wage")
           L == Cardinality(Town!Levied)
<1>1. /\ TradeTypes /\ stock \in Int /\ town \in Int /\ carry \in Int
      /\ M \in Nat /\ W \in Nat /\ L \in Nat
      /\ Scale \in Nat /\ Chest \in Nat /\ Meal \in Nat /\ Wage \in Nat /\ Levy \in Nat /\ Carried \in Nat
      /\ cast.units \in Nat
  BY Counts, TradeNumbers, SceneShape DEF Trading, TradeTypes
<1>2. /\ town >= 0 /\ carry \in 0 .. Scale - 1
      /\ carry + Scale * town = Scale * (Chest + Meal * M - Wage * W) + Carried + Levy * L
      /\ stock >= 0 /\ stock + L = cast.units
  BY SameCount DEF TaxAddsUp, Town!TaxAddsUp, Units
<1>3. TaxAddsUp' <=> /\ town' >= 0 /\ carry' \in 0 .. Scale - 1
                     /\ carry' + Scale * town' = Scale * (Chest + Meal * M' - Wage * W') + Carried + Levy * L'
  BY SameCount DEF TaxAddsUp, Town!TaxAddsUp
<1>4. Units' <=> stock' >= 0 /\ stock' + L' = cast'.units
  BY DEF Units
<1>5. PICK s \in Sessions :
        \/ Town!Shop(s) \/ Town!CaravanBuys(s) \/ Town!NpcBuys(s) \/ Town!PayWage(s) \/ Town!Eat(s)
        \/ Town!Executes(s) \/ Town!Commits(s)
        \/ Town!Refused(s) \/ Town!Refunds(s) \/ Town!Aborts(s)
  BY DEF Town!TradeNext, Town!Step, Town!Victim
<1> HIDE DEF M, W, L
<1>6. ASSUME UNCHANGED <<cast, stock, carry, town>>, M' = M, W' = W, L' = L
      PROVE  Units' /\ TaxAddsUp'
  BY <1>2, <1>3, <1>4, <1>6
<1>7. CASE Town!Shop(s) \/ Town!CaravanBuys(s) \/ Town!NpcBuys(s) \/ Town!PayWage(s) \/ Town!Eat(s)
  <2>1. PICK tx \in {"goods", "caravan", "npc", "wage", "meal"} : Town!Begins(s, tx)
    BY <1>7 DEF Town!Shop, Town!CaravanBuys, Town!NpcBuys, Town!PayWage, Town!Eat
  <2>2. PICK x \in SessionType : x = Town!Fresh(tx) /\ x.tx = tx
    <3>1. Town!Fresh(tx) = [tx |-> tx, done |-> 0, cut |-> 0]
      BY DEF Town!Fresh
    <3>2. [tx |-> tx, done |-> 0, cut |-> 0] \in SessionType
      BY TradeNumbers DEF SessionType, Running
    <3> QED  BY <3>1, <3>2
  <2>3. at' = [at EXCEPT ![s] = x] /\ at[s].tx = "idle" /\ UNCHANGED <<cast, stock, carry, town>>
    BY <2>1, <2>2 DEF Town!Begins, Town!In
  <2>4. L' = L /\ M' = M /\ W' = W
    BY <1>1, <2>2, <2>3, Uncounted DEF L, M, W, Taxed
  <2> QED  BY <1>6, <2>3, <2>4
<1>8. CASE Town!Executes(s)
  <2>1. PICK a \in SessionType : a = at[s]
    BY <1>1 DEF TradeTypes
  <2>2. [a EXCEPT !.done = @ + 1] = [tx |-> a.tx, done |-> a.done + 1, cut |-> a.cut]
    BY DEF SessionType
  <2>3. PICK x \in SessionType : x = [a EXCEPT !.done = @ + 1] /\ x.tx = a.tx
    BY <2>2 DEF SessionType
  <2>4. at' = [at EXCEPT ![s] = x] /\ UNCHANGED <<cast, stock, carry, town>>
    BY <1>8, <2>1, <2>3 DEF Town!Executes
  <2>5. L' = L /\ M' = M /\ W' = W
    BY <1>1, <2>1, <2>3, <2>4, Uncounted DEF L, M, W
  <2> QED  BY <1>6, <2>4, <2>5
<1>9. CASE Town!Refused(s) \/ Town!Refunds(s) \/ Town!Aborts(s)
  <2>1. PICK x \in SessionType :
          /\ at' = [at EXCEPT ![s] = x]
          /\ at[s].tx \in Taxed <=> x.tx \in Taxed
          /\ at[s].tx # "paid" /\ x.tx # "paid"
    BY <1>9, Ends
  <2>2. UNCHANGED <<cast, stock, carry, town>>
    BY <1>9, OverKeeping
  <2>3. L' = L /\ M' = M /\ W' = W
    BY <1>1, <2>1, <2>2, Uncounted DEF L, M, W
  <2> QED  BY <1>6, <2>2, <2>3
<1>10. CASE Town!Commits(s)
  <2>1. PICK x \in SessionType :
          /\ at' = [at EXCEPT ![s] = x]
          /\ at[s].tx = "goods" => x.tx = "earn"
          /\ at[s].tx \in {"earn", "caravan", "npc"} => x.tx = "sold"
          /\ at[s].tx \in {"wage", "meal"} => x.tx = "paid"
    BY <1>10, Afterwards
  <2>2. cast' = cast /\ carry' \in 0 .. Scale - 1 /\ town' \in Int /\ at[s].tx \in Running
    BY <1>10, Commit
  <2>3. CASE at[s].tx \in {"goods", "caravan", "npc"}
    <3>1. L' = L + 1 /\ M' = M /\ W' = W
      BY <1>1, <2>1, <2>2, <2>3, OneSale DEF L, M, W, Taxed
    <3>2. /\ stock > 0 /\ stock' = stock - 1 /\ town' >= town
          /\ carry' + Scale * town' = carry + Scale * town + Levy
      BY <1>10, <2>3, Commit
    <3>3. Levy * L' = Levy * L + Levy
      BY <1>1, <3>1
    <3>4. PICK k \in Int, m \in Int, n \in Int, n1 \in Int :
            /\ k = Scale * (Chest + Meal * M - Wage * W) /\ m = Scale * town
            /\ n = Levy * L /\ n1 = Levy * L'
      BY <1>1, <3>1
    <3>5. carry' + Scale * town' = Scale * (Chest + Meal * M' - Wage * W') + Carried + Levy * L'
      <4>1. carry + m = k + Carried + n /\ carry' + Scale * town' = carry + m + Levy /\ n1 = n + Levy
        BY <1>2, <3>2, <3>3, <3>4
      <4>2. PICK c1 \in Int, m1 \in Int : c1 = carry' /\ m1 = Scale * town'
        <5>1. PICK c1 \in Int, t1 \in Int : c1 = carry' /\ t1 = town'
          BY <1>1, <2>2
        <5>2. Scale * t1 \in Int
          BY <1>1
        <5> QED  BY <5>1, <5>2
      <4>3. c1 + m1 = k + Carried + n1
        BY <1>1, <3>4, <4>1, <4>2
      <4> QED  BY <3>1, <3>4, <4>2, <4>3
    <3>6. TaxAddsUp'
      BY <1>1, <1>2, <1>3, <2>2, <3>2, <3>5
    <3>7. Units'
      BY <1>1, <1>2, <1>4, <2>2, <3>1, <3>2
    <3> QED  BY <3>6, <3>7
  <2>4. CASE at[s].tx = "earn"
    <3>1. L' = L /\ M' = M /\ W' = W
      BY <1>1, <2>1, <2>2, <2>4, Uncounted DEF L, M, W, Taxed
    <3>2. stock' = stock /\ carry' = carry /\ town' = town
      BY <1>10, <2>4, Commit
    <3> QED  BY <1>6, <2>2, <3>1, <3>2
  <2>5. CASE at[s].tx \in {"wage", "meal"}
    <3>1. Town!Op(s) = at[s].tx
      BY <2>5 DEF Trading, Session
    <3>2. /\ L' = L
          /\ M' = M + (IF at[s].tx = "meal" THEN 1 ELSE 0)
          /\ W' = W + (IF at[s].tx = "wage" THEN 1 ELSE 0)
      BY <1>1, <2>1, <2>2, <2>5, <3>1, OnePaid DEF L, M, W
    <3>3. /\ stock' = stock /\ carry' = carry /\ town' >= 0
          /\ town' = town + (IF at[s].tx = "meal" THEN Meal ELSE 0) - (IF at[s].tx = "wage" THEN Wage ELSE 0)
      BY <1>1, <1>2, <1>10, <2>5, Commit, TradeNumbers
    <3>4. Scale * town' - Scale * town =
             Scale * (Chest + Meal * M' - Wage * W') - Scale * (Chest + Meal * M - Wage * W)
      <4>1. CASE at[s].tx = "meal"
        <5>1. M' = M + 1 /\ W' = W /\ town' = town + Meal
          BY <1>1, <3>2, <3>3, <4>1
        <5>2. Scale * (town + Meal) - Scale * town =
             Scale * (Chest + Meal * (M + 1) - Wage * W) - Scale * (Chest + Meal * M - Wage * W)
          BY <1>1
        <5> QED  BY <5>1, <5>2
      <4>2. CASE at[s].tx = "wage"
        <5>1. M' = M /\ W' = W + 1 /\ town' = town - Wage
          BY <1>1, <3>2, <3>3, <4>2
        <5>2. Scale * (town - Wage) - Scale * town =
             Scale * (Chest + Meal * M - Wage * (W + 1)) - Scale * (Chest + Meal * M - Wage * W)
          BY <1>1
        <5> QED  BY <5>1, <5>2
      <4> QED  BY <2>5, <4>1, <4>2
    <3>5. PICK k \in Int, m \in Int, n \in Int :
            k = Scale * (Chest + Meal * M - Wage * W) /\ m = Scale * town /\ n = Levy * L
      BY <1>1
    <3>6. PICK k1 \in Int, m1 \in Int :
            k1 = Scale * (Chest + Meal * M' - Wage * W') /\ m1 = Scale * town'
      <4>1. PICK M1 \in Nat, W1 \in Nat, t1 \in Int : M1 = M' /\ W1 = W' /\ t1 = town'
        BY <1>1, <2>2, <3>2
      <4>2. Scale * (Chest + Meal * M1 - Wage * W1) \in Int /\ Scale * t1 \in Int
        BY <1>1
      <4> QED  BY <4>1, <4>2
    <3>7. carry' + m1 = k1 + Carried + n
      <4>1. carry + m = k + Carried + n /\ m1 - m = k1 - k /\ carry' = carry
        BY <1>2, <3>3, <3>4, <3>5, <3>6
      <4> QED  BY <1>1, <3>5, <3>6, <4>1
    <3>8. TaxAddsUp'
      BY <1>3, <2>2, <3>2, <3>3, <3>5, <3>6, <3>7
    <3>9. Units'
      BY <1>2, <1>4, <2>2, <3>2, <3>3
    <3> QED  BY <3>8, <3>9
  <2> QED  BY <2>2, <2>3, <2>4, <2>5 DEF Running
<1> QED  BY <1>5, <1>7, <1>8, <1>9, <1>10

-----------------------------------------------------------------------------
(* Sums over finite sets. *)

Total(f, S) == Town!SumFunctionOnSet(f, S)
Pick(S) == CHOOSE x \in S : TRUE

\* g computes the sums of f over the subsets of S.
Sums(g, f, S) == g = [U \in SUBSET S |-> IF U = {} THEN 0 ELSE f[Pick(U)] + g[U \ {Pick(U)}]]

LEMMA TotalIsSums == ASSUME NEW f, NEW S PROVE Total(f, S) = (CHOOSE g : Sums(g, f, S))[S]
BY DEF Total, Town!SumFunctionOnSet, Town!FoldFunctionOnSet, Town!MapThenFoldSet, Sums, Pick

\* A family of subsets of a finite set has a smallest member.
LEMMA Smallest ==
    ASSUME NEW S, IsFiniteSet(S), NEW B, B \subseteq SUBSET S, B # {}
    PROVE  \E T \in B : \A U \in B : U \subseteq T => U = T
<1>1. IsWellFoundedOn(StrictSubsetOrdering(S), FiniteSubsetsOf(S))
  BY FS_StrictSubsetOrderingWellFounded
<1>2. B \subseteq FiniteSubsetsOf(S)
  BY FS_Subset DEF FiniteSubsetsOf
<1>3. PICK T \in B : \A U \in B : ~ (<<U, T>> \in StrictSubsetOrdering(S))
  <2> HIDE DEF FiniteSubsetsOf, StrictSubsetOrdering
  <2> QED BY <1>1, <1>2, WFMin
<1> QED  BY <1>3 DEF StrictSubsetOrdering

\* Functions that agree have the same sums.
LEMMA SumsAgree ==
    ASSUME NEW S, NEW T, IsFiniteSet(S), NEW f, NEW k, \A x \in S : f[x] = k[x],
           NEW g, NEW h, Sums(g, f, S), Sums(h, k, T)
    PROVE  \A U \in SUBSET (S \cap T) : g[U] = h[U]
<1> DEFINE B == {U \in SUBSET S : U \subseteq T /\ g[U] # h[U]}
<1> SUFFICES ASSUME B # {} PROVE FALSE
  OBVIOUS
<1>1. B \subseteq SUBSET S
  OBVIOUS
<1> HIDE DEF B
<1>2. PICK U \in B : \A V \in B : V \subseteq U => V = U
  BY <1>1, Smallest
<1> USE DEF B
<1>3. U # {}
  BY <1>2 DEF Sums
<1> DEFINE x == Pick(U)  V == U \ {x}
<1>4. x \in U
  BY <1>3 DEF Pick
<1>5. g[V] = h[V]
  BY <1>2, <1>4
<1>6. g[U] = f[x] + g[V] /\ h[U] = k[x] + h[V] /\ f[x] = k[x]
  BY <1>2, <1>3, <1>4 DEF Sums
<1> QED  BY <1>2, <1>5, <1>6

LEMMA SumsExist == ASSUME NEW f, NEW S, IsFiniteSet(S) PROVE \E g : Sums(g, f, S)
<1> DEFINE B == {T \in SUBSET S : ~ \E g : Sums(g, f, T)}
<1> SUFFICES ASSUME B # {} PROVE FALSE
  OBVIOUS
<1>1. B \subseteq SUBSET S
  OBVIOUS
<1> HIDE DEF B
<1>2. PICK T \in B : \A U \in B : U \subseteq T => U = T
  BY <1>1, Smallest
<1> USE DEF B
<1>3. \A U \in SUBSET T : IsFiniteSet(U) /\ (U # T => \E g : Sums(g, f, U))
  BY <1>2, FS_Subset
<1> DEFINE Of(U) == CHOOSE g : Sums(g, f, U)
<1>4. \A U \in SUBSET T : U # T => Sums(Of(U), f, U)
  BY <1>3
<1> HIDE DEF Of
<1>5. ASSUME NEW U \in SUBSET T, U # T, U # {}
      PROVE  Of(U)[U] = f[Pick(U)] + Of(U \ {Pick(U)})[U \ {Pick(U)}]
  <2> DEFINE V == U \ {Pick(U)}
  <2>1. Sums(Of(U), f, U) /\ Sums(Of(V), f, V) /\ V \in SUBSET (U \cap V)
    BY <1>4, <1>5
  <2>2. Of(U)[V] = Of(V)[V]
    <3>1. \A W \in SUBSET (U \cap V) : Of(U)[W] = Of(V)[W]
      BY <1>3, <2>1, SumsAgree
    <3> QED  BY <2>1, <3>1
  <2>3. Of(U)[U] = f[Pick(U)] + Of(U)[V]
    BY <1>5, <2>1 DEF Sums
  <2> QED  BY <2>2, <2>3
<1> DEFINE g == [U \in SUBSET T |-> IF U = {} THEN 0 ELSE f[Pick(U)] + Of(U \ {Pick(U)})[U \ {Pick(U)}]]
<1>6. ASSUME NEW U \in SUBSET T, U # {}
      PROVE  g[U \ {Pick(U)}] = Of(U \ {Pick(U)})[U \ {Pick(U)}]
  <2> DEFINE V == U \ {Pick(U)}
  <2>1. V \in SUBSET T /\ V # T
    BY <1>6 DEF Pick
  <2> HIDE DEF V
  <2>2. g[V] = IF V = {} THEN 0 ELSE f[Pick(V)] + Of(V \ {Pick(V)})[V \ {Pick(V)}]
    BY <2>1
  <2>3. Of(V)[V] = IF V = {} THEN 0 ELSE f[Pick(V)] + Of(V \ {Pick(V)})[V \ {Pick(V)}]
    <3>1. CASE V = {}
      BY <1>4, <2>1, <3>1 DEF Sums
    <3>2. CASE V # {}
      BY <1>5, <2>1, <3>2
    <3> QED  BY <3>1, <3>2
  <2> HIDE DEF g
  <2>4. g[V] = Of(V)[V]
    BY <2>2, <2>3
  <2> QED  BY <2>4 DEF V
<1>7. Sums(g, f, T)
  <2>1. \A U \in SUBSET T : g[U] = IF U = {} THEN 0 ELSE f[Pick(U)] + g[U \ {Pick(U)}]
    BY <1>6
  <2> QED  BY <2>1 DEF Sums
<1> QED  BY <1>2, <1>7

\* The sum, one element at a time.
LEMMA TotalUnfolds ==
    ASSUME NEW f, NEW S, IsFiniteSet(S)
    PROVE  Total(f, S) = IF S = {} THEN 0 ELSE f[Pick(S)] + Total(f, S \ {Pick(S)})
<1> DEFINE V == S \ {Pick(S)}
<1>1. PICK g : Sums(g, f, S) /\ Total(f, S) = g[S]
  BY SumsExist, TotalIsSums
<1>2. PICK h : Sums(h, f, V) /\ Total(f, V) = h[V]
  BY FS_Subset, SumsExist, TotalIsSums
<1>3. g[V] = h[V]
  <2>1. \A U \in SUBSET (S \cap V) : g[U] = h[U]
    BY <1>1, <1>2, SumsAgree
  <2> QED  BY <2>1
<1>4. g[S] = IF S = {} THEN 0 ELSE f[Pick(S)] + g[V]
  BY <1>1 DEF Sums
<1> QED  BY <1>1, <1>2, <1>3, <1>4

LEMMA TotalAgrees ==
    ASSUME NEW S, IsFiniteSet(S), NEW f, NEW k, \A x \in S : f[x] = k[x]
    PROVE  Total(f, S) = Total(k, S)
<1>1. PICK g : Sums(g, f, S) /\ Total(f, S) = g[S]
  BY SumsExist, TotalIsSums
<1>2. PICK h : Sums(h, k, S) /\ Total(k, S) = h[S]
  BY SumsExist, TotalIsSums
<1>3. \A U \in SUBSET (S \cap S) : g[U] = h[U]
  BY <1>1, <1>2, SumsAgree
<1> QED  BY <1>1, <1>2, <1>3

\* Any element may be taken out first.
LEMMA TotalWithout ==
    ASSUME NEW S, IsFiniteSet(S), NEW f, \A x \in S : f[x] \in Int
    PROVE  Total(f, S) \in Int /\ \A x \in S : Total(f, S) = f[x] + Total(f, S \ {x})
<1> DEFINE Fine(T) == Total(f, T) \in Int /\ \A x \in T : Total(f, T) = f[x] + Total(f, T \ {x})
           B == {T \in SUBSET S : ~ Fine(T)}
<1> SUFFICES ASSUME B # {} PROVE FALSE
  OBVIOUS
<1>1. B \subseteq SUBSET S
  OBVIOUS
<1> HIDE DEF B
<1>2. PICK T \in B : \A U \in B : U \subseteq T => U = T
  BY <1>1, Smallest
<1> USE DEF B
<1>3. \A U \in SUBSET T : U # T => Fine(U)
  BY <1>2
<1>4. \A U \in SUBSET S : Total(f, U) = IF U = {} THEN 0 ELSE f[Pick(U)] + Total(f, U \ {Pick(U)})
  BY TotalUnfolds, FS_Subset
<1>5. T # {}
  <2>1. T = {} => Total(f, T) = 0
    BY <1>2, <1>4
  <2> QED  BY <1>2, <2>1
<1> DEFINE y == Pick(T)  V == T \ {y}
<1>6. y \in T /\ f[y] \in Int /\ Total(f, T) = f[y] + Total(f, V)
  BY <1>2, <1>4, <1>5 DEF Pick
<1> HIDE DEF y
<1>7. Total(f, V) \in Int
  BY <1>3, <1>6
<1>8. ASSUME NEW x \in T, x # y PROVE Total(f, T) = f[x] + Total(f, T \ {x})
  <2> DEFINE W == V \ {x}
  <2>1. Total(f, V) = f[x] + Total(f, W)
    BY <1>3, <1>6, <1>8
  <2>2. Total(f, T \ {x}) = f[y] + Total(f, W)
    <3>1. (T \ {x}) \ {y} = W
      OBVIOUS
    <3>2. Total(f, T \ {x}) = f[y] + Total(f, (T \ {x}) \ {y})
      BY <1>3, <1>6, <1>8
    <3> QED  BY <3>1, <3>2
  <2>3. f[x] \in Int /\ Total(f, W) \in Int
    BY <1>2, <1>3, <1>6
  <2> HIDE DEF W, V
  <2> QED  BY <1>6, <2>1, <2>2, <2>3
<1>9. Fine(T)
  <2>1. Total(f, T) \in Int
    BY <1>6, <1>7
  <2>2. \A x \in T : Total(f, T) = f[x] + Total(f, T \ {x})
    BY <1>6, <1>8
  <2> QED  BY <2>1, <2>2
<1> QED  BY <1>2, <1>9

\* One value changes.
Plus(k, f, S, y, a) == \A x \in S : f[x] \in Int /\ k[x] = f[x] + (IF x = y THEN a ELSE 0)

LEMMA TotalChanges ==
    ASSUME NEW S, IsFiniteSet(S), NEW f, NEW k, NEW y \in S, NEW a \in Int, Plus(k, f, S, y, a)
    PROVE  Total(f, S) \in Int /\ Total(k, S) = Total(f, S) + a
<1> USE DEF Plus
<1> DEFINE V == S \ {y}
<1>1. Total(f, S) \in Int /\ Total(f, S) = f[y] + Total(f, V)
  BY TotalWithout
<1>2. Total(k, S) = k[y] + Total(k, V)
  <2>1. \A x \in S : k[x] \in Int
    OBVIOUS
  <2> QED  BY <2>1, TotalWithout
<1>3. Total(k, V) = Total(f, V) /\ Total(f, V) \in Int
  <2>1. IsFiniteSet(V) /\ \A x \in V : k[x] = f[x] /\ f[x] \in Int
    BY FS_Subset
  <2> QED  BY <2>1, TotalAgrees, TotalWithout
<1>4. k[y] = f[y] + a /\ f[y] \in Int
  OBVIOUS
<1> HIDE DEF V
<1> QED  BY <1>1, <1>2, <1>3, <1>4

\* All values are the same.
LEMMA TotalOfSame ==
    ASSUME NEW S, IsFiniteSet(S), NEW a \in Int, NEW f, \A x \in S : f[x] = a
    PROVE  Total(f, S) = a * Cardinality(S)
<1> DEFINE B == {T \in SUBSET S : Total(f, T) # a * Cardinality(T)}
<1> SUFFICES ASSUME B # {} PROVE FALSE
  OBVIOUS
<1>1. B \subseteq SUBSET S
  OBVIOUS
<1> HIDE DEF B
<1>2. PICK T \in B : \A U \in B : U \subseteq T => U = T
  BY <1>1, Smallest
<1> USE DEF B
<1>3. IsFiniteSet(T)
  BY <1>2, FS_Subset
<1>4. T # {}
  <2>1. Total(f, {}) = 0 /\ Cardinality({}) = 0
    BY TotalUnfolds, FS_EmptySet
  <2>2. a * 0 = 0
    OBVIOUS
  <2> QED  BY <1>2, <2>1, <2>2
<1>5. PICK y \in T : TRUE
  BY <1>4
<1> DEFINE V == T \ {y}
<1>6. Total(f, T) = a + Total(f, V)
  <2>1. \A x \in T : f[x] \in Int /\ f[x] = a
    BY <1>2
  <2> QED  BY <1>3, <1>5, <2>1, TotalWithout
<1>7. Total(f, V) = a * Cardinality(V)
  BY <1>2, <1>5
<1>8. Cardinality(T) \in Nat /\ Cardinality(V) = Cardinality(T) - 1
  BY <1>3, <1>5, FS_CardinalityType, FS_RemoveElement
<1>9. PICK n \in Nat : n = Cardinality(T)
  BY <1>8
<1>10. a + a * (n - 1) = a * n
  OBVIOUS
<1>11. Total(f, T) = a * n
  BY <1>6, <1>7, <1>8, <1>9, <1>10
<1> QED  BY <1>2, <1>9, <1>11

-----------------------------------------------------------------------------
(* The coins in town. *)

Brings == [s \in Sessions |-> Town!Brought(s)]
InTown == town + Total(wallet, Residents) = Chest + Wealth * Cardinality(Residents) + Total(Brings, Sessions)

\* every coin came from outside with a sale or was there, and the shop's buyer is a player
Coins == /\ InTown
         /\ \A s \in Sessions : at[s].tx \in {"goods", "earn"} => Town!Op(s) = "shop"

LEMMA BroughtTyped == ASSUME TradeTypes, NEW s \in Sessions PROVE Town!Brought(s) \in Int
<1>1. at[s].cut \in Int
  BY DEF TradeTypes, SessionType
<1> QED  BY <1>1, TradeNumbers DEF Town!Brought

\* What the town and the purses gain is what one session brings.
LEMMA Gained ==
    ASSUME TradeTypes, town' \in Int, InTown, wallet \in [Residents -> Nat], NEW s \in Sessions,
           NEW c \in Int, NEW d \in Int, town' = town + c,
           Total(wallet', Residents) = Total(wallet, Residents) + d,
           Town!Brought(s)' = Town!Brought(s) + (c + d),
           \A t \in Sessions \ {s} : Town!Brought(t)' = Town!Brought(t)
    PROVE  InTown'
<1>1. Total(wallet, Residents) \in Int
  BY SceneShape, TotalWithout
<1>2. Total(Brings, Sessions) \in Int /\ Total(Brings', Sessions) = Total(Brings, Sessions) + (c + d)
  <2>1. Plus(Brings', Brings, Sessions, s, c + d)
    BY BroughtTyped DEF Brings, Plus
  <2> QED  BY <2>1, SceneShape, TotalChanges
<1>3. PICK n \in Int : n = Chest + Wealth * Cardinality(Residents)
  <2>1. PICK k \in Nat : k = Cardinality(Residents)
    BY SceneShape, FS_CardinalityType
  <2>2. Chest + Wealth * k \in Int
    BY TradeNumbers, NumberAssumption
  <2> QED  BY <2>1, <2>2
<1>4. town + Total(wallet, Residents) = n + Total(Brings, Sessions) /\ town \in Int
  BY <1>3 DEF InTown, TradeTypes
<1>5. town' + Total(wallet', Residents) = n + Total(Brings', Sessions)
  BY <1>1, <1>2, <1>4
<1> QED  BY <1>3, <1>5 DEF InTown

\* One purse is credited and one debited, perhaps the same.
Moved(v, w, p, a, q, b) ==
    \A r \in Residents : v[r] = w[r] + (IF r = p THEN a ELSE 0) - (IF r = q THEN b ELSE 0)

LEMMA TwoPurses ==
    ASSUME NEW w \in [Residents -> Nat], NEW p \in Residents, NEW q \in Residents,
           NEW a \in Int, NEW b \in Int, NEW v, Moved(v, w, p, a, q, b)
    PROVE  Total(v, Residents) = Total(w, Residents) + a - b
<1> DEFINE u == [r \in Residents |-> w[r] + (IF r = p THEN a ELSE 0)]
<1>1. PICK m \in Int : m = -b
  OBVIOUS
<1>2. Plus(u, w, Residents, p, a) /\ Plus(v, u, Residents, q, m)
  BY <1>1 DEF Plus, Moved
<1>3. IsFiniteSet(Residents)
  BY SceneShape
<1> HIDE DEF u
<1>4. Total(w, Residents) \in Int /\ Total(u, Residents) = Total(w, Residents) + a
  BY <1>2, <1>3, TotalChanges
<1>5. Total(v, Residents) = Total(u, Residents) + m
  BY <1>2, <1>3, TotalChanges
<1> QED  BY <1>1, <1>4, <1>5

\* Whose purse a transaction moves.
LEMMA Hands ==
    ASSUME TradeTypes, NEW s \in Sessions, Session(s), Town!Busy(s)
    PROVE  /\ Town!Does(s, "credit") = (IF at[s].tx \in {"earn", "caravan", "npc", "wage"} THEN 1 ELSE 0)
           /\ Town!Does(s, "debit") = (IF at[s].tx \in {"npc", "meal"} THEN 1 ELSE 0)
<1>1. at[s].tx \in Running /\ Town!Todo(s) = Town!Script[at[s].tx]
  BY Script
<1>2. \A st : Town!Does(s, st) = IF st \in Town!ToSet(Town!Script[at[s].tx]) THEN 1 ELSE 0
  BY <1>1 DEF Town!Does
<1> QED  BY <1>1, <1>2, Kinds DEF Running

LEMMA CommitCoins ==
    ASSUME Trading, Coins, wallet \in [Residents -> Nat], NEW s \in Sessions, Town!Commits(s)
    PROVE  Coins'
<1>1. TradeTypes /\ Session(s) /\ Town!Busy(s) /\ at[s].tx \in Running
  BY Commit DEF Trading, Town!Commits
<1>2. PICK x \in SessionType :
        /\ at' = [at EXCEPT ![s] = x]
        /\ at[s].tx = "goods" => x.tx = "earn"
        /\ at[s].tx \in {"earn", "caravan", "npc"} => x.tx = "sold"
        /\ at[s].tx \in {"wage", "meal"} => x.tx = "paid"
  BY Afterwards
<1>3. at'[s] = x /\ (\A t \in Sessions \ {s} : at'[t] = at[t]) /\ cast' = cast /\ town' \in Int
  BY <1>1, <1>2, Commit DEF TradeTypes
<1>4. at[s].tx = "goods" => x.cut = Town!Cut
  <2>1. SUFFICES ASSUME at[s].tx = "goods" PROVE x.cut = Town!Cut
    OBVIOUS
  <2>2. at' = [at EXCEPT ![s] = [tx |-> "earn", done |-> 0, cut |-> Town!Cut]]
    BY <2>1 DEF Town!Commits, Town!After, Town!In
  <2>3. at'[s] = [tx |-> "earn", done |-> 0, cut |-> Town!Cut]
    BY <1>1, <2>2 DEF TradeTypes
  <2> QED  BY <1>3, <2>3
<1>5. PICK k \in Nat, e \in Int, m \in Nat :
        /\ k = Town!Cut /\ e = Town!Earned(s) /\ m = Town!Cost(s)
        /\ e = (IF at[s].tx = "wage" THEN Wage ELSE Price - (IF at[s].tx = "earn" THEN at[s].cut ELSE k))
        /\ m = (IF at[s].tx = "meal" THEN Meal ELSE Price)
  <2>1. Town!Cut \in Nat /\ Town!Earned(s) \in Nat /\ Town!Cost(s) \in Nat
    BY <1>1, Amounts, WholeCoins, TradeNumbers DEF TradeTypes
  <2> QED  BY <2>1 DEF Town!Earned, Town!Cost, Town!In
<1> DEFINE levy == Town!Does(s, "levy")  tax == Town!Does(s, "tax")  fund == Town!Does(s, "fund")
           credit == Town!Does(s, "credit")  debit == Town!Does(s, "debit")
<1>6. /\ levy = (IF at[s].tx \in {"goods", "caravan", "npc"} THEN 1 ELSE 0)
      /\ tax = (IF at[s].tx = "meal" THEN 1 ELSE 0)
      /\ fund = (IF at[s].tx = "wage" THEN 1 ELSE 0)
      /\ credit = (IF at[s].tx \in {"earn", "caravan", "npc", "wage"} THEN 1 ELSE 0)
      /\ debit = (IF at[s].tx \in {"npc", "meal"} THEN 1 ELSE 0)
  BY <1>1, Whole, Hands DEF Running
<1>7. /\ town' = town + levy * k + tax * Meal - fund * Wage
      /\ \A r \in Residents : wallet'[r] = wallet[r] + (IF r = Town!Earner(s) THEN credit * e ELSE 0)
                                                     - (IF r = Town!Who(s) THEN debit * m ELSE 0)
  BY <1>5 DEF Town!Commits
<1> HIDE DEF levy, tax, fund, credit, debit
<1>8. PICK c \in Int : c = levy * k + tax * Meal - fund * Wage
  BY <1>6, TradeNumbers
<1>9. PICK a \in Int, b \in Int : a = credit * e /\ b = debit * m
  BY <1>6
<1>10. Total(wallet', Residents) = Total(wallet, Residents) + (a - b)
  <2>1. Total(wallet', Residents) = Total(wallet, Residents) + a - b
    <3>1. PICK p \in Residents, q \in Residents : p = Town!Earner(s) /\ q = Town!Who(s)
      BY <1>1, Amounts
    <3>2. PICK w \in [Residents -> Nat] : w = wallet
      OBVIOUS
    <3>3. \A r \in Residents : wallet'[r] = w[r] + (IF r = p THEN a ELSE 0) - (IF r = q THEN b ELSE 0)
      BY <1>7, <1>9, <3>1, <3>2
    <3>4. Total(wallet', Residents) = Total(w, Residents) + a - b
      <4>1. PICK v : v = wallet'
        OBVIOUS
      <4>2. Moved(v, w, p, a, q, b)
        BY <3>3, <4>1 DEF Moved
      <4>3. Total(v, Residents) = Total(w, Residents) + a - b
        BY <4>2, TwoPurses
      <4> QED  BY <4>1, <4>3
    <3> QED  BY <3>2, <3>4
  <2>2. Total(wallet, Residents) \in Int
    BY SceneShape, TotalWithout
  <2> QED  BY <2>1, <2>2
<1>11. town' = town + c
  <2>1. town \in Int /\ Wage \in Nat /\ Meal \in Nat
    BY <1>1, TradeNumbers DEF TradeTypes
  <2> QED  BY <1>6, <1>7, <1>8, <2>1
<1>12. Town!Brought(s)' = Town!Brought(s) + (c + (a - b))
  <2>1. /\ Town!Brought(s) = (IF at[s].tx = "earn" THEN at[s].cut ELSE 0)
        /\ Town!Brought(s)' = (IF x.tx = "earn" THEN x.cut
                               ELSE IF x.tx = "sold" /\ Town!Op(s) # "npc" THEN Price ELSE 0)
    BY <1>1, <1>2, <1>3 DEF Town!Brought, Town!In, Town!Op, Running
  <2>2. at[s].cut \in Int /\ Price \in Nat /\ Wage \in Nat /\ Meal \in Nat
    BY <1>1, TradeNumbers DEF TradeTypes, SessionType
  <2>3. CASE at[s].tx = "goods"
    <3>1. c = k /\ a = 0 /\ b = 0
      BY <1>5, <1>6, <1>8, <1>9, <2>2, <2>3
    <3> QED  BY <1>2, <1>4, <1>5, <2>1, <2>3, <3>1
  <2>4. CASE at[s].tx = "earn"
    <3>1. c = 0 /\ a = Price - at[s].cut /\ b = 0
      <4>1. e = Price - at[s].cut /\ credit = 1 /\ levy = 0 /\ tax = 0 /\ fund = 0 /\ debit = 0
        BY <1>5, <1>6, <2>4
      <4> QED  BY <1>8, <1>9, <2>2, <4>1
    <3>2. Town!Op(s) = "shop"
      BY <2>4 DEF Coins
    <3> QED  BY <1>2, <2>1, <2>2, <2>4, <3>1, <3>2
  <2>5. CASE at[s].tx \in {"caravan", "npc"}
    <3>1. c = k /\ a = Price - k /\ b = (IF at[s].tx = "npc" THEN Price ELSE 0)
      BY <1>5, <1>6, <1>8, <1>9, <2>2, <2>5
    <3>2. Town!Op(s) = at[s].tx
      BY <1>1, <2>5 DEF Session
    <3>3. c + (a - b) = (IF at[s].tx = "npc" THEN 0 ELSE Price)
      BY <2>2, <3>1
    <3>4. Town!Brought(s) = 0 /\ Town!Brought(s)' = (IF at[s].tx = "npc" THEN 0 ELSE Price)
      BY <1>2, <2>1, <2>5, <3>2
    <3> QED  BY <2>2, <3>3, <3>4
  <2>6. CASE at[s].tx \in {"wage", "meal"}
    <3>1. c + (a - b) = 0
      <4>1. CASE at[s].tx = "wage"
        BY <1>5, <1>6, <1>8, <1>9, <2>2, <4>1
      <4>2. CASE at[s].tx = "meal"
        BY <1>5, <1>6, <1>8, <1>9, <2>2, <4>2
      <4> QED  BY <2>6, <4>1, <4>2
    <3> QED  BY <1>2, <2>1, <2>6, <3>1
  <2> QED  BY <1>1, <2>3, <2>4, <2>5, <2>6 DEF Running
<1>13. \A t \in Sessions \ {s} : Town!Brought(t)' = Town!Brought(t)
  BY <1>3 DEF Town!Brought, Town!In, Town!Op
<1>14. a - b \in Int
  BY <1>9
<1>15. InTown'
  BY <1>1, <1>3, <1>10, <1>11, <1>12, <1>13, <1>14, Gained DEF Coins
<1>16. \A t \in Sessions : at'[t].tx \in {"goods", "earn"} => Town!Op(t)' = "shop"
  <2>1. x.tx \in {"goods", "earn"} => at[s].tx = "goods"
    BY <1>1, <1>2 DEF Running
  <2> QED  BY <1>2, <1>3, <2>1 DEF Coins, Town!Op
<1> QED  BY <1>15, <1>16 DEF Coins

\* A step that writes no table brings nothing.
LEMMA QuietCoins ==
    ASSUME Trading, Coins, wallet \in [Residents -> Nat], NEW s \in Sessions,
           UNCHANGED <<cast, stock, carry, town, wallet>>, NEW x \in SessionType,
           at' = [at EXCEPT ![s] = x],
           x.tx \in {"goods", "earn"} => Town!Op(s) = "shop",
           x.tx \in {"earn", "unpaid"} <=> at[s].tx \in {"earn", "unpaid"},
           at[s].tx \in {"earn", "unpaid"} => x.cut = at[s].cut,
           x.tx # "sold" /\ at[s].tx # "sold"
    PROVE  Coins'
<1>1. at'[s] = x /\ \A t \in Sessions \ {s} : at'[t] = at[t]
  BY DEF Trading, TradeTypes
<1>2. \A t \in Sessions : Town!Brought(t)' = Town!Brought(t)
  BY <1>1 DEF Town!Brought, Town!In, Town!Op
<1>3. TradeTypes /\ town' \in Int /\ InTown
  BY DEF Trading, TradeTypes, Coins
<1>4. /\ Total(wallet', Residents) = Total(wallet, Residents) + 0 /\ town' = town + 0
      /\ Town!Brought(s)' = Town!Brought(s) + (0 + 0)
  BY <1>2, <1>3, BroughtTyped, SceneShape, TotalWithout DEF TradeTypes
<1>5. InTown'
  BY <1>2, <1>3, <1>4, Gained
<1>6. \A t \in Sessions : at'[t].tx \in {"goods", "earn"} => Town!Op(t)' = "shop"
  BY <1>1 DEF Coins, Town!Op
<1> QED  BY <1>5, <1>6 DEF Coins

LEMMA TradeCoins ==
    ASSUME Trading, Coins, wallet \in [Residents -> Nat], Town!TradeNext
    PROVE  Coins'
<1>1. PICK s \in Sessions :
        \/ Town!Shop(s) \/ Town!CaravanBuys(s) \/ Town!NpcBuys(s) \/ Town!PayWage(s) \/ Town!Eat(s)
        \/ Town!Executes(s) \/ Town!Commits(s)
        \/ Town!Refused(s) \/ Town!Refunds(s) \/ Town!Aborts(s)
  BY DEF Town!TradeNext, Town!Step, Town!Victim
<1>2. PICK a \in SessionType : a = at[s]
  BY DEF Trading, TradeTypes
<1>3. CASE Town!Shop(s) \/ Town!CaravanBuys(s) \/ Town!NpcBuys(s) \/ Town!PayWage(s) \/ Town!Eat(s)
  <2>1. PICK tx \in {"goods", "caravan", "npc", "wage", "meal"} :
          Town!Begins(s, tx) /\ (tx = "goods" => Town!Op(s) = "shop")
    BY <1>3 DEF Town!Shop, Town!CaravanBuys, Town!NpcBuys, Town!PayWage, Town!Eat
  <2>2. PICK x \in SessionType : x = Town!Fresh(tx) /\ x.tx = tx
    <3>1. Town!Fresh(tx) = [tx |-> tx, done |-> 0, cut |-> 0]
      BY DEF Town!Fresh
    <3>2. [tx |-> tx, done |-> 0, cut |-> 0] \in SessionType
      BY TradeNumbers DEF SessionType, Running
    <3> QED  BY <3>1, <3>2
  <2>3. at' = [at EXCEPT ![s] = x] /\ at[s].tx = "idle" /\ UNCHANGED <<cast, stock, carry, town, wallet>>
    BY <2>1, <2>2 DEF Town!Begins, Town!In
  <2> QED  BY <2>1, <2>2, <2>3, QuietCoins
<1>4. CASE Town!Executes(s)
  <2>1. [a EXCEPT !.done = @ + 1] = [tx |-> a.tx, done |-> a.done + 1, cut |-> a.cut]
    BY DEF SessionType
  <2>2. PICK x \in SessionType : x = [a EXCEPT !.done = @ + 1] /\ x.tx = a.tx /\ x.cut = a.cut
    BY <2>1 DEF SessionType
  <2>3. at' = [at EXCEPT ![s] = x] /\ UNCHANGED <<cast, stock, carry, town, wallet>>
    BY <1>2, <1>4, <2>2 DEF Town!Executes
  <2>4. at[s].tx # "sold"
    BY <1>4, Scripts DEF Town!Executes, Town!Busy, Town!In, Running
  <2>5. x.tx \in {"goods", "earn"} => Town!Op(s) = "shop"
    BY <1>2, <2>2 DEF Coins
  <2> QED  BY <1>2, <2>2, <2>3, <2>4, <2>5, QuietCoins
<1>5. CASE Town!Commits(s)
  BY <1>5, CommitCoins
<1>6. CASE Town!Refused(s) \/ Town!Refunds(s) \/ Town!Aborts(s)
  <2>1. PICK x \in SessionType :
          /\ at' = [at EXCEPT ![s] = x]
          /\ x.tx \in Over \ {"sold"}
          /\ x.tx = "unpaid" <=> at[s].tx = "earn"
          /\ at[s].tx = "earn" => x.cut = at[s].cut
          /\ at[s].tx \notin {"sold", "unpaid"}
    BY <1>6, Ends
  <2>2. UNCHANGED <<cast, stock, carry, town, wallet>>
    BY <1>6, OverKeeping
  <2>3. x.tx \notin {"goods", "earn"}
    BY <2>1 DEF Over
  <2> QED  BY <2>1, <2>2, <2>3, QuietCoins
<1> QED  BY <1>1, <1>3, <1>4, <1>5, <1>6

\* The settlement of an errand moves its reward from one purse to another.
LEMMA BoardCoins ==
    ASSUME TypeOK, TradeTypes, Coins, Next, UNCHANGED shop
    PROVE  Coins'
<1>1. Total(wallet', Residents) = Total(wallet, Residents) + 0
  <2>1. Total(wallet, Residents) \in Int
    BY SceneShape, TotalWithout DEF TypeOK
  <2>2. CASE \E c \in Commissions : Settle(c)
    <3>1. PICK c \in Commissions : Settle(c)
      BY <2>2
    <3>2. PICK p \in Residents, q \in Residents : p = npc[c] /\ q = Issuer[c]
      BY <3>1, ShapeAssumption DEF Settle, TypeOK
    <3>3. wallet' = [wallet EXCEPT ![q] = @ - Reward, ![p] = @ + Reward]
      BY <3>1, <3>2 DEF Settle
    <3>4. \A r \in Residents : wallet'[r] = wallet[r] + (IF r = p THEN Reward ELSE 0)
                                                      - (IF r = q THEN Reward ELSE 0)
      BY <3>3, NumberAssumption DEF TypeOK
    <3>5. Total(wallet', Residents) = Total(wallet, Residents) + Reward - Reward
      <4>1. PICK w \in [Residents -> Nat] : w = wallet
        BY DEF TypeOK
      <4>2. Total(wallet', Residents) = Total(w, Residents) + Reward - Reward
        <5>1. PICK v : v = wallet'
          OBVIOUS
        <5>2. Reward \in Int /\ Moved(v, w, p, Reward, q, Reward)
          BY <3>4, <4>1, <5>1, NumberAssumption DEF Moved
        <5>3. Total(v, Residents) = Total(w, Residents) + Reward - Reward
          BY <5>2, TwoPurses
        <5> QED  BY <5>1, <5>3
      <4> QED  BY <4>1, <4>2
    <3> QED  BY <2>1, <3>5, NumberAssumption
  <2>3. CASE ~ \E c \in Commissions : Settle(c)
    <3>1. wallet' = wallet
      BY <2>3 DEF Next, Purge, Insert, CheckBoard, Expires, Request, Accept, AbandonRead, Complete,
             AbandonWrite, Fulfil, PayPlayer, RequestFails, NightStep, NightTrouble, Nightly, StartSettle,
             ReopenBroke, ExpirePass, StartAccept, NightEnds, SettleGone, SettleLost, SettleBroke,
             TakeNot, Take, ExpireFails, NightCrashes, SettleFails
    <3> QED  BY <2>1, <3>1
  <2> QED  BY <2>2, <2>3
<1>2. \A t \in Sessions : Town!Brought(t)' = Town!Brought(t)
  BY DEF shop, Town!Brought, Town!In, Town!Op
<1>3. InTown'
  <2>1. Brings' = Brings /\ town' = town
    BY <1>2 DEF Brings, shop
  <2>2. Total(wallet', Residents) = Total(wallet, Residents)
    BY <1>1, SceneShape, TotalWithout DEF TypeOK
  <2> QED  BY <2>1, <2>2 DEF Coins, InTown, Total
<1> QED  BY <1>3 DEF shop, Coins, Town!Op

-----------------------------------------------------------------------------
(* Who can wait in a circle. *)

\* Shop, caravan and wages lock the item before the carried tax, the tax before the town and
\* the town before a purse, which is the last row they lock.
LEMMA Ascending ==
    ASSUME TradeTypes, NEW s \in Sessions, Session(s), Town!Busy(s), Town!Op(s) \notin {"npc", "meal"}
    PROVE  /\ Ran(s) \subseteq {"take", "accrue", "levy", "fund"}
           /\ "take" \in Ran(s) => Town!Statement(s) \in {"accrue", "levy", "credit"}
           /\ "accrue" \in Ran(s) => Town!Statement(s) \in {"levy", "credit"}
           /\ "levy" \in Ran(s) \/ "fund" \in Ran(s) => Town!Statement(s) = "credit"
           /\ Town!Statement(s) \in {"take", "accrue", "levy", "fund", "credit"}
<1>1. PICK d \in Nat : d = at[s].done
  BY Script
<1>2. /\ Town!Todo(s) = Town!Script[at[s].tx] /\ d + 1 \in 1 .. Len(Town!Script[at[s].tx])
      /\ Town!Statement(s) = Town!Script[at[s].tx][d + 1]
      /\ Ran(s) = {Town!Script[at[s].tx][i] : i \in 1 .. d}
  BY <1>1, Script DEF Ran
<1>3. at[s].tx \in {"goods", "earn", "caravan", "wage"}
  BY Script DEF Session, Running
<1>4. CASE at[s].tx = "goods"
  <2>1. d \in {0, 1, 2}
    BY <1>2, <1>4, Scripts
  <2>2. Ran(s) = IF d = 0 THEN {} ELSE IF d = 1 THEN {"take"} ELSE {"take", "accrue"}
    BY <1>2, <1>4, <2>1, Scripts
  <2> QED  BY <1>2, <1>4, <2>1, <2>2, Scripts
<1>5. CASE at[s].tx = "earn"
  <2>1. d = 0
    BY <1>2, <1>5, Scripts
  <2> QED  BY <1>2, <1>5, <2>1, Scripts
<1>6. CASE at[s].tx = "caravan"
  <2>1. d \in {0, 1, 2, 3}
    BY <1>2, <1>6, Scripts
  <2>2. Ran(s) = IF d = 0 THEN {} ELSE IF d = 1 THEN {"take"}
                 ELSE IF d = 2 THEN {"take", "accrue"} ELSE {"take", "accrue", "levy"}
    BY <1>2, <1>6, <2>1, Scripts
  <2> QED  BY <1>2, <1>6, <2>1, <2>2, Scripts
<1>7. CASE at[s].tx = "wage"
  <2>1. d \in {0, 1}
    BY <1>2, <1>7, Scripts
  <2>2. Ran(s) = IF d = 0 THEN {} ELSE {"fund"}
    BY <1>2, <1>7, <2>1, Scripts
  <2> QED  BY <1>2, <1>7, <2>1, <2>2, Scripts
<1> QED  BY <1>3, <1>4, <1>5, <1>6, <1>7

LEMMA Circles == Trading => OnlyNightBuysAndMealsDeadlock
<1> SUFFICES ASSUME Trading, NEW C \in SUBSET Sessions, Town!Cycle(C),
                    \A s \in C : Town!Op(s) \notin {"npc", "meal"}
             PROVE  FALSE
  BY DEF OnlyNightBuysAndMealsDeadlock, Town!OnlyNightBuysAndMealsDeadlock
<1>1. TradeTypes /\ Shut /\ (\A s \in Sessions : Session(s))
      /\ {"item", "carry", "town"} \cap Residents = {}
  BY SceneShape DEF Trading
<1>2. ASSUME NEW s \in C
      PROVE  Town!Busy(s) /\ \E t \in C : s # t /\ Town!Busy(t) /\ Town!Row(s, Town!Statement(s)) \in Town!Held(t)
  <2>1. PICK t \in C : s # t /\ Town!Busy(s) /\ Town!Row(s, Town!Statement(s)) \in Town!Held(t)
    BY DEF Town!Cycle, Town!WaitsFor
  <2> QED  BY <2>1, HeldRows
<1>3. ASSUME NEW s \in C
      PROVE  /\ Ran(s) \subseteq {"take", "accrue", "levy", "fund"}
             /\ "take" \in Ran(s) => Town!Statement(s) \in {"accrue", "levy", "credit"}
             /\ "accrue" \in Ran(s) => Town!Statement(s) \in {"levy", "credit"}
             /\ "levy" \in Ran(s) \/ "fund" \in Ran(s) => Town!Statement(s) = "credit"
             /\ Town!Statement(s) \in {"take", "accrue", "levy", "fund", "credit"}
             /\ Town!Statement(s) = "levy" => "accrue" \in Ran(s)
             /\ Town!Held(s) = {Town!Row(s, st) : st \in Ran(s)}
  BY <1>1, <1>2, <1>3, Ascending, Levying, HeldRows
<1>4. ASSUME NEW s \in C
      PROVE  Town!Statement(s) # "credit"
  <2>1. SUFFICES ASSUME Town!Statement(s) = "credit" PROVE FALSE
    OBVIOUS
  <2>2. PICK t \in C : Town!Earner(s) \in Town!Held(t)
    BY <1>2, <2>1 DEF Town!Row
  <2>3. \A st \in Ran(t) : Town!Row(t, st) \in {"item", "carry", "town"}
    BY <1>3 DEF Town!Row
  <2> QED  BY <1>1, <1>3, <2>2, <2>3, Amounts
<1>5. ASSUME NEW s \in C
      PROVE  Ran(s) \subseteq {"take", "accrue"}
  BY <1>3, <1>4
<1>6. ASSUME NEW s \in C
      PROVE  Town!Statement(s) \in {"take", "accrue"}
  <2>1. PICK t \in C : s # t /\ Town!Row(s, Town!Statement(s)) \in Town!Held(t)
    BY <1>2
  <2>2. \A st \in Ran(t) : Town!Row(t, st) \in {"item", "carry"}
    BY <1>5 DEF Town!Row
  <2>3. Town!Row(s, Town!Statement(s)) # "town"
    BY <1>3, <2>1, <2>2
  <2>4. CASE Town!Statement(s) = "levy"
    <3>1. Town!Row(s, "levy") = "carry"
      BY <2>3, <2>4 DEF Town!Row
    <3>2. "carry" \in Town!Held(s)
      BY <1>3, <2>4 DEF Town!Row
    <3> QED  BY <1>1, <2>1, <2>4, <3>1, <3>2 DEF Shut
  <2>5. CASE Town!Statement(s) = "fund"
    BY <2>3, <2>5 DEF Town!Row
  <2> QED  BY <1>3, <1>4, <2>4, <2>5
<1>7. ASSUME NEW s \in C
      PROVE  Ran(s) \subseteq {"take"}
  BY <1>3, <1>5, <1>6
<1>8. ASSUME NEW s \in C
      PROVE  Town!Statement(s) = "take"
  <2>1. PICK t \in C : Town!Row(s, Town!Statement(s)) \in Town!Held(t)
    BY <1>2
  <2>2. \A st \in Ran(t) : Town!Row(t, st) = "item"
    BY <1>7 DEF Town!Row
  <2>3. Town!Row(s, Town!Statement(s)) = "item"
    BY <1>3, <2>1, <2>2
  <2> QED  BY <1>6, <2>3 DEF Town!Row
<1>9. \A s \in C : Ran(s) = {}
  BY <1>3, <1>7, <1>8
<1>10. PICK s \in C : TRUE
  BY DEF Town!Cycle
<1> QED  BY <1>2, <1>3, <1>9, <1>10

-----------------------------------------------------------------------------
(* Both together. *)

Inductive == /\ TypeOK /\ (OneAtATime => Errands)
             /\ Trading /\ Units /\ TaxAddsUp /\ Coins

LEMMA Initially == TownInit => Inductive
<1> SUFFICES ASSUME TownInit PROVE Inductive
  OBVIOUS
<1>1. Init /\ Town!Init
  BY DEF TownInit
<1>2. TypeOK
  <2>1. Idle \in ReqType
    BY DEF Idle, ReqType
  <2>2. status \in [Commissions -> Statuses]
    BY <1>1 DEF Init, Statuses
  <2> QED  BY <1>1, <2>1, <2>2, DayTime, NumberAssumption DEF Init, TypeOK
<1>3. Errands
  BY <1>1 DEF Init, Errands, ErrandRow, Posting, Reads, Swept, Idle, Day
<1>4. /\ cast \in Casts /\ stock = cast.units /\ carry = Carried /\ town = Chest
      /\ at = [s \in Sessions |-> Town!Fresh("idle")]
  BY <1>1 DEF Town!Init
<1>5. Town!Fresh("idle") \in SessionType /\ Town!Fresh("idle").tx = "idle"
  BY TradeNumbers DEF SessionType, Over, Town!Fresh
<1>6. stock \in Nat /\ TradeTypes
  BY <1>4, <1>5, SceneShape, TradeNumbers DEF TradeTypes
<1>7. \A s \in Sessions : at[s].tx = "idle" /\ ~Town!Busy(s)
  BY <1>4, <1>5, Scripts DEF Town!Busy, Town!In, Running
<1>8. Trading
  BY <1>6, <1>7, HeldRows DEF Trading, Session, Found, Shut
<1>9. Town!Levied = {} /\ \A op : Paying(op) = {}
  BY <1>7 DEF Town!Levied, Paying, Town!In
<1>10. Cardinality(Town!Levied) = 0 /\ \A op : Town!Paid(op) = 0
  BY <1>9, Counts, FS_EmptySet
<1>11. Units
  BY <1>4, <1>6, <1>10 DEF Units
<1>12. TaxAddsUp
  BY <1>4, <1>6, <1>10, SameCount, TradeNumbers DEF TaxAddsUp, Town!TaxAddsUp
<1>13. Coins
  <2>1. wallet = [r \in Residents |-> Wealth]
    BY <1>1 DEF Init
  <2>2. \A r \in Residents : wallet[r] = Wealth
    BY <2>1
  <2>3. Total(wallet, Residents) = Wealth * Cardinality(Residents)
    BY <2>2, SceneShape, TotalOfSame, NumberAssumption
  <2>4. \A s \in Sessions : Brings[s] = 0
    BY <1>7 DEF Brings, Town!Brought, Town!In
  <2>5. Total(Brings, Sessions) = 0
    <3>1. Total(Brings, Sessions) = 0 * Cardinality(Sessions)
      BY <2>4, SceneShape, TotalOfSame
    <3> QED  BY <3>1, SceneShape, FS_CardinalityType
  <2>6. InTown
    <3>1. PICK k \in Nat : k = Cardinality(Residents)
      BY SceneShape, FS_CardinalityType
    <3>2. Chest + Wealth * k \in Int /\ Chest + Wealth * k = Chest + Wealth * k + 0
      BY TradeNumbers, NumberAssumption
    <3> QED  BY <1>4, <2>3, <2>5, <3>1, <3>2 DEF InTown
  <2> QED  BY <1>7, <2>6 DEF Coins
<1> QED  BY <1>2, <1>3, <1>8, <1>11, <1>12, <1>13 DEF Inductive

LEMMA Preserved == Inductive /\ [BoardStep \/ TradeStep]_<<vars, shop>> => Inductive'
<1> SUFFICES ASSUME Inductive, [BoardStep \/ TradeStep]_<<vars, shop>> PROVE Inductive'
  OBVIOUS
<1> USE DEF Inductive
<1>1. CASE BoardStep
  <2>1. UNCHANGED shop /\ Next /\ PursesFree
    BY <1>1 DEF BoardStep
  <2>2. Trading'
    BY <2>1, BoardAside
  <2>3. Units' /\ TaxAddsUp'
    BY <2>1 DEF shop, Units, TaxAddsUp, Town!TaxAddsUp, Town!Levied, Town!Paid, Town!Op, Town!In
  <2>4. (OneAtATime => Errands)'
    <3>1. env' = env
      BY <2>1 DEF Next, Purge, Insert, CheckBoard, Expires, Request, Accept, AbandonRead, Complete,
             AbandonWrite, Fulfil, PayPlayer, RequestFails, NightStep, NightTrouble, Nightly, StartSettle,
             ReopenBroke, ExpirePass, StartAccept, NightEnds, SettleGone, Settle, SettleLost, SettleBroke,
             TakeNot, Take, ExpireFails, NightCrashes, SettleFails
    <3> QED  BY <2>1, <3>1, BoardKeeping DEF OneAtATime
  <2>5. Coins'
    BY <2>1, BoardCoins DEF Trading
  <2> QED  BY <2>1, <2>2, <2>3, <2>4, <2>5, BoardTyping
<1>2. CASE TradeStep
  <2>1. Town!TradeNext /\ UNCHANGED <<env, status, user, npc, late, alive, post, req, night, paid, missed>>
    BY <1>2 DEF TradeStep, board
  <2>2. wallet \in [Residents -> Nat]
    BY DEF TypeOK
  <2>3. Trading' /\ wallet' \in [Residents -> Nat]
    BY <2>1, <2>2, TradeKeeping
  <2>4. TypeOK'
    BY <2>1, <2>3 DEF TypeOK
  <2>5. (OneAtATime => Errands)'
    BY <2>1 DEF OneAtATime, Errands, ErrandRow, Posting, Reads, Swept
  <2> QED  BY <2>1, <2>2, <2>3, <2>4, <2>5, TradeBooks, TradeCoins
<1>3. CASE UNCHANGED <<vars, shop>>
  <2>1. /\ UNCHANGED <<env, status, user, npc, late, wallet, alive, post, req, night, paid, missed>>
        /\ UNCHANGED shop
    BY <1>3 DEF vars, board
  <2>2. Trading'
    BY <2>1, BoardAside
  <2>3. Units' /\ TaxAddsUp'
    BY <2>1 DEF shop, Units, TaxAddsUp, Town!TaxAddsUp, Town!Levied, Town!Paid, Town!Op, Town!In
  <2>4. TypeOK' /\ (OneAtATime => Errands)'
    BY <2>1 DEF TypeOK, OneAtATime, Errands, ErrandRow, Posting, Reads, Swept
  <2>5. Coins'
    BY <2>1 DEF shop, Coins, InTown, Brings, Town!Brought, Town!In, Town!Op
  <2> QED  BY <2>2, <2>3, <2>4, <2>5
<1> QED  BY <1>1, <1>2, <1>3

LEMMA Invariance == TownSpec => []Inductive
BY Initially, Preserved, PTL DEF TownSpec

(* A player whose requests follow each other is paid at most once for an errand, whoever
   else writes the board and whatever fails (complete, run_commission_settle_pass). *)
THEOREM RewardedOnce == TownSpec => []PaidOnce
<1>1. Inductive => PaidOnce
  BY DEF Inductive, PaidOnce, Errands, ErrandRow
<1> QED  BY <1>1, Invariance, PTL

(* No errand is ever with a player and a resident (accept, abandon, _reopen and the accept
   pass), as long as no player has two requests under way. *)
THEOREM HeldByOne == TownSpec => []OneAcceptor
<1>1. Inductive => OneAcceptor
  BY DEF Inductive, OneAcceptor, AcceptorsExclusive, Errands, ErrandRow
<1> QED  BY <1>1, Invariance, PTL

(* The expiry cancels no errand of a resident that was not tried and failed before
   (run_nightly_jobs). *)
THEOREM TriedBeforeExpiry == TownSpec => []NpcWorkSettledBeforeExpiry
<1>1. Inductive => NpcWorkSettledBeforeExpiry
  BY DEF Inductive, NpcWorkSettledBeforeExpiry, Errands, ErrandRow
<1> QED  BY <1>1, Invariance, PTL

(* What the town took, with the part of a coin that is carried, is the levy of the sales made,
   for any price, levy and scale, however many sell at once (_skim). *)
THEOREM TaxExact == TownSpec => []TaxAddsUp
<1>1. Inductive => TaxAddsUp
  BY DEF Inductive
<1> QED  BY <1>1, Invariance, PTL

(* No unit is sold twice and nobody is overdrawn; and every coin the town and its residents
   have was there or came from outside with one of the sales, whatever errands, wages and
   meals move the same purses meanwhile (take_authoritative_stock,
   treasury_debit_pending, treasury_credit_pending). *)
THEOREM SalesBalance == TownSpec => []SalesAddUp
<1>1. Inductive => Town!NothingOversold
  BY SameCount DEF Inductive, Units, TypeOK, Town!NothingOversold
<1>2. Inductive => town + Town!SumFunction(wallet) =
          Chest + Wealth * Town!Cardinality(Residents) + Town!SumFunction(Brings)
  <2>1. Inductive => DOMAIN wallet = Residents /\ DOMAIN Brings = Sessions
    BY DEF Inductive, TypeOK, Brings
  <2> QED  BY <2>1, SameCount DEF Inductive, Coins, InTown, Total, Town!SumFunction
<1>3. Inductive => SalesAddUp
  BY <1>1, <1>2 DEF SalesAddUp, Town!SalesAddUp, Brings
<1> QED  BY <1>3, Invariance, PTL

(* Shop, caravan and wages, however many, never wait for each other in a circle. *)
THEOREM CirclesNeedNightOrMeal == TownSpec => []OnlyNightBuysAndMealsDeadlock
<1>1. Inductive => OnlyNightBuysAndMealsDeadlock
  BY Circles DEF Inductive
<1> QED  BY <1>1, Invariance, PTL
=============================================================================
