----------------------------- MODULE MCNpcChat -------------------------------
(* Small companies for TLC. *)
EXTENDS NpcChat, TLC

CONSTANTS ann, bob, c1, c2, r1, r2

Cast(user, conns, requests, skip, ss, ls, ds) ==
    [user |-> user, conns |-> conns, requests |-> requests, skip |-> skip,
     starts |-> ss, lapses |-> ls, deaths |-> ds]
Apart == (c1 :> ann) @@ (c2 :> bob)
Together == (c1 :> ann) @@ (c2 :> ann)
\* two people and a request; a person and a turn sent twice; two tabs; two people and both
\* faults; somebody who starts twice and a request, with the loop configured either way
Companies ==
    {Cast(Apart, {c1, c2}, {r1}, TRUE, 1, 0, 0), Cast(Apart, {c1}, {r1, r2}, TRUE, 1, 1, 0),
     Cast(Together, {c1, c2}, {}, TRUE, 1, 1, 1), Cast(Apart, {c1, c2}, {}, TRUE, 1, 1, 1),
     Cast(Apart, {c1}, {r1}, FALSE, 2, 1, 1), Cast(Apart, {c1}, {r1}, TRUE, 2, 1, 1)}
=============================================================================
