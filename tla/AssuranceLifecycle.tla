------------------------- MODULE AssuranceLifecycle -------------------------
(***************************************************************************)
(* What a lock of a carbon report promises (phase E10): a report is open   *)
(* from its first generation on and may change, it becomes final once, and *)
(* a final report never changes again.                                     *)
(***************************************************************************)
CONSTANTS Reports, Values

VARIABLES stage, value

Init ==
  /\ stage = [r \in Reports |-> "absent"]
  /\ value \in [Reports -> Values]

Revalue(r) == \E v \in Values : value' = [value EXCEPT ![r] = v]

Generate(r) ==
  /\ stage[r] = "absent"
  /\ stage' = [stage EXCEPT ![r] = "open"]
  /\ Revalue(r)

Recompute(r) ==
  /\ stage[r] = "open"
  /\ Revalue(r)
  /\ UNCHANGED stage

\* The last change and the end of all changes may be one step.
Settle(r) ==
  /\ stage[r] = "open"
  /\ stage' = [stage EXCEPT ![r] = "final"]
  /\ Revalue(r)

Next == \E r \in Reports : Generate(r) \/ Recompute(r) \/ Settle(r)

Spec == Init /\ [][Next]_<<stage, value>>
=============================================================================
