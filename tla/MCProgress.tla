------------------------------ MODULE MCProgress ------------------------------
(*****************************************************************************)
(* What must go on, one part in each scene: an attachment with a fault or    *)
(* two that share a slot, the requests of a device, the pushes of the        *)
(* service to two recipients, one page at a time.                            *)
(*****************************************************************************)
EXTENDS MediaTransfer, RequestQueue, PushWorker

VARIABLE scene

Capacities == [large \in BOOLEAN |-> IF large THEN 3 ELSE 2]
Refills == [large \in BOOLEAN |-> IF large THEN 2 ELSE 1]

\* A queue that rests since long is not moved by a tick.
ProgressInit ==
    /\ scene \in {"media", "queue", "push"}
    /\ MediaInit /\ QueueInit /\ PushInit
    /\ clock = 1
    /\ since = IF scene = "queue" THEN 0 ELSE LongSince
    /\ \A x \in Blobs : cipher[x] \in (IF scene = "media" THEN {"none", "dropped"} ELSE {"none"})
    /\ mediaFaults = IF \A x \in Blobs : cipher[x] = "none" THEN MaxMediaFaults ELSE 0

MediaStep == scene = "media" /\ MediaNext /\ UNCHANGED <<queueVars, pushVars>>
QueueStep == scene = "queue" /\ QueueNext /\ UNCHANGED <<mediaVars, pushVars>>
PushStep == scene = "push" /\ PushNext /\ UNCHANGED <<mediaVars, queueVars>>

ProgressNext == UNCHANGED scene /\ (MediaStep \/ QueueStep \/ PushStep)

ProgressSpec ==
    /\ ProgressInit
    /\ [][ProgressNext]_<<scene, mediaVars, queueVars, pushVars>>
    /\ MediaFairness /\ QueueFairness
    /\ (scene = "push" => PushFairness)
=============================================================================
