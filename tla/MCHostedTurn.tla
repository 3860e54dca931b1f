---------------------------- MODULE MCHostedTurn ----------------------------
(* One agent and the tasks of two workers.  Two calls exhaust the day's calls, two
   reservations the smaller limit's tokens; a report of 3 is beyond a reservation of 2. *)
EXTENDS HostedTurn

Trouble(lapses, deaths, faults, orders) ==
    [lapses |-> lapses, deaths |-> deaths, faults |-> faults, orders |-> orders]
MCTroubles == {Trouble(1, 1, 0, 0), Trouble(1, 0, 0, 1), Trouble(1, 0, 1, 0),
               Trouble(0, 0, 1, 1), Trouble(0, 1, 0, 1), Trouble(0, 0, 0, 2)}
=============================================================================
