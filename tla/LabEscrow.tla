----------------------------- MODULE LabEscrow ------------------------------
(* What a Lab commission promises its issuer and its researcher: the escrow is held
   while work can still happen, and leaves it once, with the status that says where
   it went.  LabTask is meant to implement this (models/lab_task.py, the state
   machine of its docstring; services/lab_terminalization_service.py, the tables of
   operations). *)
VARIABLES status,    \* lab_tasks.status
          escrow     \* coin_holds.status

Open == {"funded", "assigned", "running"}

Init == status = "funded" /\ escrow = "held"

\* a researcher is found, and starts
Advance == /\ \/ status = "funded" /\ status' = "assigned"
              \/ status = "assigned" /\ status' = "running"
           /\ UNCHANGED escrow

Deliver == status = "running" /\ status' = "review" /\ UNCHANGED escrow

Reject == status = "review" /\ status' = "rejected" /\ UNCHANGED escrow

\* accepted, released after 72h, or settled by an admin
Settle == /\ status \in {"review", "rejected"} /\ escrow = "held"
          /\ status' = "completed" /\ escrow' = "settled"

\* cancelled, failed or expired before delivery, or refunded by an admin
Refund == /\ escrow = "held" /\ escrow' = "refunded"
          /\ \/ status \in Open /\ status' \in {"cancelled", "failed", "expired"}
             \/ status = "rejected" /\ status' = "cancelled"

Next == Advance \/ Deliver \/ Reject \/ Settle \/ Refund

Spec == Init /\ [][Next]_<<status, escrow>>
=============================================================================
