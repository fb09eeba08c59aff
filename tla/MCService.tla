------------------------------- MODULE MCService -------------------------------
(*****************************************************************************)
(* The parts of the service that keep no state in common, one in each scene: *)
(* the mailbox with one id submitted with two bodies and in both directions, *)
(* the registration of two devices, and the pushes of two envelopes.         *)
(*****************************************************************************)
EXTENDS DeliveryHistory, Registration, PushWorker

CONSTANTS a, b

VARIABLE scene

MCEnvelopes ==
  {[from |-> a, to |-> b, id |-> 1, at |-> 0, body |-> 1],
   [from |-> a, to |-> b, id |-> 1, at |-> 0, body |-> 2],
   [from |-> a, to |-> b, id |-> 2, at |-> 2, body |-> 1],
   [from |-> b, to |-> a, id |-> 1, at |-> 1, body |-> 1]}

ServiceInit ==
    /\ scene \in {"mailbox", "registration", "pushes"}
    /\ HistoryInit /\ RegistrationInit /\ PushInit
    /\ clock = 1 \/ scene = "pushes"
    /\ now = 0 \/ scene = "mailbox"

ServiceNext ==
    /\ UNCHANGED scene
    /\ \/ scene = "mailbox" /\ HistoryNext /\ UNCHANGED <<registrationVars, pushVars>>
       \/ scene = "registration" /\ RegistrationNext /\ UNCHANGED <<historyVars, pushVars>>
       \/ scene = "pushes" /\ PushNext /\ UNCHANGED <<historyVars, registrationVars>>

ServiceSpec == ServiceInit /\ [][ServiceNext]_<<scene, historyVars, registrationVars, pushVars>>
=============================================================================
