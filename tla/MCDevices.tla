------------------------------- MODULE MCDevices -------------------------------
(***************************************************************************)
(* What devices keep, one part in each scene: a group of two that exchange *)
(* two messages, a group of three that have deleted the first one on each  *)
(* of them, a file with faults, or two that share a slot, the request      *)
(* queue.                                                                  *)
(***************************************************************************)
EXTENDS Conversation, MediaTransfer, RequestQueue, TLC

CONSTANTS phone1, phone2, phone3, text1, text2, file1, file2

VARIABLE scene

Authors == (text1 :> phone1) @@ (text2 :> phone2)

Capacities == [large \in BOOLEAN |-> IF large THEN 3 ELSE 2]
Refills == [large \in BOOLEAN |-> IF large THEN 2 ELSE 1]

Files(x, y) == (file1 :> x) @@ (file2 :> y)

DevicesInit ==
    /\ scene \in {"group", "deleted", "media", "queue"}
    /\ IF scene = "deleted" THEN ConversationStart({phone1, phone2, phone3}, {text1}, 2)
                            ELSE ConversationStart({phone1, phone2}, {}, 1)
    /\ MediaInit /\ QueueInit
    /\ \/ scene # "media" /\ cipher = Files("none", "none") /\ mediaFaults = 0
       \/ scene = "media" /\ cipher = Files("none", "dropped") /\ mediaFaults = 0
       \/ scene = "media" /\ cipher = Files("none", "uploaded") /\ mediaFaults = MaxMediaFaults - 1
    /\ since = 0

GroupStep == scene \in {"group", "deleted"} /\ ConversationNext /\ UNCHANGED <<scene, mediaVars, queueVars>>
MediaStep == scene = "media" /\ MediaNext /\ UNCHANGED <<scene, conversationVars, queueVars>>
QueueStep == scene = "queue" /\ QueueNext /\ UNCHANGED <<scene, conversationVars, mediaVars>>

DevicesSpec ==
    DevicesInit /\ [][GroupStep \/ MediaStep \/ QueueStep]_<<scene, conversationVars, mediaVars, queueVars>>
=============================================================================
