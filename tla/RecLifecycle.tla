---------------------------- MODULE RecLifecycle ----------------------------
(***************************************************************************)
(* What the optimization API promises of one recommendation: the lifecycle *)
(* of RUNBOOK E9, pending -> accepted -> approved -> applied (or rejected  *)
(* / failed).  An accepted recommendation may still be rejected; applied,  *)
(* rejected and failed are final.                                          *)
(***************************************************************************)
CONSTANT Recs

VARIABLE stage

Init == stage = [r \in Recs |-> "absent"]

Move(r, from, to) ==
  /\ stage[r] \in from
  /\ stage' = [stage EXCEPT ![r] = to]

\* Advice is queued for several plants at once.
Queue(batch) ==
  /\ \A r \in batch : stage[r] = "absent"
  /\ stage' = [r \in Recs |-> IF r \in batch THEN "pending" ELSE stage[r]]

Accept(r)  == Move(r, {"pending"}, "accepted")
Reject(r)  == Move(r, {"pending", "accepted"}, "rejected")
Approve(r) == Move(r, {"accepted"}, "approved")
Apply(r)   == Move(r, {"approved"}, "applied")
Fail(r)    == Move(r, {"approved"}, "failed")

Next ==
  \/ \E batch \in SUBSET Recs : Queue(batch)
  \/ \E r \in Recs : Accept(r) \/ Reject(r) \/ Approve(r) \/ Apply(r) \/ Fail(r)

Spec == Init /\ [][Next]_stage
=============================================================================
