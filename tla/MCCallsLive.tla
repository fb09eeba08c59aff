------------------------------ MODULE MCCallsLive ------------------------------
(*****************************************************************************)
(* Direct calls that must settle, one that is made without troubles or one   *)
(* that comes in with; and, as a scene of its own, the media of one call:    *)
(* either the candidates change or something fails, and nothing comes twice. *)
(*****************************************************************************)
EXTENDS Calls, CallMedia

CONSTANTS phone1, phone2, phone3

Forth == {<<phone1, phone2>>}

VARIABLE scene

SettleInit ==
    /\ scene \in {"call", "media"}
    /\ CallInit /\ NegotiationInit
    /\ troubles = IF Placed = {} THEN MaxTroubles ELSE 0
    /\ \A c \in Placed : route[c][2] = phone1
    /\ scene = "media" => Placed = {}
    /\ copies = 0
    /\ \A e \in Ends : (news[e] = 0) = (breaks = MaxBreaks)
    /\ scene = "call" => breaks = 0

CallStep == scene = "call" /\ CallNext /\ UNCHANGED negotiationVars
MediaStep == scene = "media" /\ NegotiationNext /\ UNCHANGED callVars

\* The other scene rests: its first step is not taken and none is owed.
SettleSpec ==
    /\ SettleInit
    /\ [][UNCHANGED scene /\ (CallStep \/ MediaStep)]_<<scene, callVars, negotiationVars>>
    /\ CallFairness
    /\ (scene = "media" => NegotiationFairness)
=============================================================================
