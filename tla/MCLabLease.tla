----------------------------- MODULE MCLabLease -----------------------------
(* Small leases for TLC. *)
EXTENDS LabLease, TLC

CONSTANTS a1, a2, b1

OwnerPerAttempt == [a \in Attempts |-> a]     \* protocol 1: one uuid per orchestrator
OwnerPerProcess == [a \in Attempts |-> IF a = b1 THEN b1 ELSE a1]     \* protocol 2: one id per process and run

AnyAttempt == Permutations(Attempts)
=============================================================================
