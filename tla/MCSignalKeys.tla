----------------------------- MODULE MCSignalKeys -----------------------------
(* Two correspondents of one keeper, or one with two rows. *)
EXTENDS SignalKeys

CONSTANTS a, b, c

TwoRows == {[actor |-> a, owner |-> c, request |-> 1],
            [actor |-> b, owner |-> c, request |-> 2]}
OneSession == {[actor |-> a, owner |-> c, request |-> 1],
               [actor |-> a, owner |-> c, request |-> 2]}
=============================================================================
