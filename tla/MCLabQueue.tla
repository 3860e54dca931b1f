----------------------------- MODULE MCLabQueue ------------------------------
(* Small queues for TLC. *)
EXTENDS LabQueue

CONSTANTS r1, w1, w2

\* how often each kind of event may happen in one behaviour
Once(kinds) == [e \in Events |-> IF e \in kinds THEN 1 ELSE 0]

\* The run is delivered twice, perhaps published anew, or ended from outside; or it is
\* delivered once, and an owner that is too late meets a crash, an error or a pause of either
\* runner.  With a cap of one the owner that is too late stands in the way of the next.
DeliverySettings ==
    {[cap |-> 2, spare |-> [Once({"enqueue"}) EXCEPT !["publisher"] = 2]],
     [cap |-> 2, spare |-> Once({"enqueue", "outside"})],
     [cap |-> 2, spare |-> Once({"late", "runner"})],
     [cap |-> 1, spare |-> Once({"late"})]}

\* One slot, and a runner that dies in it: where CrashedRunsResume fails
LoneSlot == {[cap |-> 1, spare |-> Once({"runner"})]}
=============================================================================
