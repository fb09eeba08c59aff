--------------------------- MODULE MCDeliveryScenes ---------------------------
(***************************************************************************)
(* One message between two devices, with one kind of trouble in each       *)
(* scene: the recipient's notification process beside its app and two      *)
(* faults, a clock that passes the TTL, or users who block and unblock.    *)
(***************************************************************************)
EXTENDS MCDelivery

VARIABLE scene

DeliveryInit == Init /\ scene \in {"faults", "expiry", "blocks"}

\* A request that is lost before the service executes it leaves the device as it
\* was before the request: among blocks only requests that were executed get lost.
DeliveryNext ==
  /\ UNCHANGED scene
  /\ IF scene = "expiry" THEN TRUE ELSE now' = now
  /\ IF scene = "blocks" THEN late' = {} ELSE blockCalls' = blockCalls
  /\ Next
  /\ scene # "faults" => faults' <= 1 /\ call'[<<b, "ext">>] = Idle
  /\ scene = "blocks" => blockCalls'[a] + blockCalls'[b] <= 2

DeliverySpec == DeliveryInit /\ [][DeliveryNext]_<<vars, scene>>
=============================================================================
