--------------------------- MODULE MCNightlyTrade ---------------------------
(* Small towns for TLC: the board alone, the board with one trade, two trades
   without a board. *)
EXTENDS NightlyTrade, Sequences, SequencesExt, TLC

CONSTANTS c1, c2, p1, p2, r1, r2, q1, q2, s1, s2

OneIssuer == [c \in Commissions |-> r1]

\* A player's requests come one after the other, or one player's two overlap.
EachHisOwn == q1 :> p1 @@ q2 :> p2
BothHis == q1 :> p1 @@ q2 :> p1
Board(of, errands, mortal) == [of |-> of, errands |-> errands, mortal |-> mortal]
WholeBoard == {Board(EachHisOwn, Commissions, Residents), Board(BothHis, {c1}, Residents)}
OneErrand == Board(EachHisOwn, {c1}, {})
NoErrands == Board(EachHisOwn, {}, {})
Boards == WholeBoard \cup {OneErrand, NoErrands}

Role(op, r) == [op |-> op, who |-> r]
Trades == <<Role("shop", r2), Role("caravan", r2), Role("npc", r2), Role("wage", r1),
            Role("wage", r2), Role("meal", r1), Role("meal", r2)>>
Pair(units, a, b) == [units |-> units, does |-> s1 :> a @@ s2 :> b]
Nobody == Role("none", r1)

\* A resident does one thing at a time; there is one caravan and one nightly job.
Meet(a, b) == /\ a = b => a.op = "shop"
              /\ {a.op, b.op} \subseteq {"wage", "meal"} => a.who # b.who

NoTrade == Pair(1, Nobody, Nobody)
OneTrade == {Pair(1, a, Nobody) : a \in ToSet(Trades)}
TwoTrades == {Pair(u, Trades[p[1]], Trades[p[2]]) : u \in {1, 2}, p \in
                {x \in (1 .. 7) \X (1 .. 7) : x[1] <= x[2] /\ Meet(Trades[x[1]], Trades[x[2]])}}
\* The issuer of an errand eats while another resident buys the issuer's work
BusyNight == {Pair(1, Role("npc", r2), Role("meal", r1))}
AllCasts == {NoTrade} \cup OneTrade \cup TwoTrades

Together == (WholeBoard \X {NoTrade}) \cup ({OneErrand} \X (OneTrade \cup BusyNight)) \cup ({NoErrands} \X TwoTrades)
=============================================================================
