------------------------------ MODULE MCDelivery ------------------------------
(* One message between two devices. *)
EXTENDS Delivery

CONSTANTS a, b

OneMessage == {[from |-> a, to |-> b, n |-> 1]}

\* How often each of them blocks or unblocks.
NoBlocks == [p \in {a, b} |-> 0]
RecipientBlocks == [p \in {a, b} |-> IF p = b THEN 2 ELSE 0]
EitherBlocks == [p \in {a, b} |-> IF p = a THEN 2 ELSE 1]

\* Nobody blocks and nothing expires: what would end a delivery before it is
\* confirmed.
LiveNext == Next /\ now' = now /\ blockCalls' = blockCalls

LiveSpec == Init /\ [][LiveNext]_vars /\ Fairness
=============================================================================
