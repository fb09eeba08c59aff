-------------------------------- MODULE MCCalls --------------------------------
(*****************************************************************************)
(* Calls of devices and the engines they run on, one kind in each scene: one *)
(* of two devices calls the other, or one of them calls a third while a call *)
(* of that third comes in, or three devices hold a group call; or users come *)
(* and go at the engine of a device, or one of them works with it.           *)
(*****************************************************************************)
EXTENDS Calls, GroupCalls, DeviceEngines

CONSTANTS phone1, phone2, phone3, screen, again

Forth == {<<phone1, phone2>>}
Beside == {<<phone1, phone3>>}

VARIABLE scene

allVars == <<scene, callVars, gvars, engineVars>>

CallsInit ==
    /\ scene \in {"direct", "stray", "group", "users", "work"}
    /\ CallInit /\ GroupInit
    /\ IF scene = "work" THEN PoolStart({screen}) ELSE PoolInit
    /\ troubles = 0
    /\ Placed = IF scene = "stray" THEN StrayIds ELSE {}
    /\ \A c \in Placed : route[c][2] = phone1
    /\ scene \in {"users", "work"} => Placed = {}

\* Bound: a lost control and the end of the ring window are not combined.
LostInTime == glost' = {} \/ ~gaged'

CallsNext ==
    /\ UNCHANGED scene
    /\ \/ scene \in {"direct", "stray"} /\ CallNext /\ UNCHANGED <<gvars, engineVars>>
       \/ scene = "group" /\ GroupNext /\ LostInTime /\ UNCHANGED <<callVars, engineVars>>
       \/ scene = "users" /\ EnginesNext /\ works' = 0 /\ UNCHANGED <<callVars, gvars>>
       \/ /\ scene = "work" /\ EnginesNext /\ hold'[again] = hold[again]
          /\ UNCHANGED <<callVars, gvars>>

CallsSpec == CallsInit /\ [][CallsNext]_allVars

\* The group call alone.
GroupOnlySpec ==
    /\ CallsInit /\ scene = "group"
    /\ [][CallsNext]_allVars
=============================================================================
