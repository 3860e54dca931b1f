---------------------------- MODULE MCCaravan ----------------------------
(* Two drivers; one visit on which much goes wrong, or two market days at once. *)
EXTENDS Caravan

CONSTANTS v1, v2

Cast(visits, lapses, failures, amendments, wakes) ==
    [visits |-> visits, lapses |-> lapses, failures |-> failures,
     amendments |-> amendments, wakes |-> wakes]
MCCasts == {Cast({v1}, 1, 1, 2, 0), Cast({v1}, 2, 0, 1, 1),
            Cast({v1, v2}, 0, 0, 1, 0), Cast({v1, v2}, 0, 1, 0, 0)}
==========================================================================
