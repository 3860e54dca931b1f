------------------------------ MODULE MCLabTask ------------------------------
(* Small commissions for TLC. *)
EXTENDS LabTask

CONSTANTS create, dispatch, a1, a2, q1, q2

\* legacy path: no bound on sweeps, dispatches, exceptions and what is asked
LegacyBudgets == {[e \in Events |-> IF e \in {"retry", "takeover"} THEN 0 ELSE -1]}

\* A budget: what is named may happen as often as given, the rest never
Budget(f) == [e \in Events |-> IF e \in DOMAIN f THEN f[e] ELSE 0]

ControlBudgets ==
    {Budget([retry |-> 2, ask |-> 1]),          \* every try of a command fails,
     Budget([retry |-> 2, sweep |-> 1]),        \* with a rejection or with a sweep
     Budget([takeover |-> 1, break |-> 1]),     \* two attempts at one run
     Budget([dispatch |-> 1])}                  \* two runs
=============================================================================
