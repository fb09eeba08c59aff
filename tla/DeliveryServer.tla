----------------------------- MODULE DeliveryServer ----------------------------
(***************************************************************************)
(* The mailbox of module DeliveryStore under every command its clients can *)
(* sign: retries of an envelope, altered envelopes under a used id,        *)
(* acknowledgements of anything, with an envelope or without, blocks,      *)
(* unlinking and registering again, at any time of a clock that reaches    *)
(* every deadline.                                                         *)
(***************************************************************************)
EXTENDS DeliveryStore

CONSTANTS
  Envelopes,   \* what clients may submit: records with from, to, id, at, body
  MaxNow       \* bound on the clock

ASSUME ServerAssumption ==
  /\ MaxNow \in Nat
  /\ \A e \in Envelopes : e.from \in Peers /\ e.to \in Peers /\ e.at \in Nat

vars == <<now, receipts, blocks, registered>>

Init == StoreInit /\ now \in 0 .. MaxNow

\* A command carries one envelope or none.
Batches == {{}} \cup {{e} : e \in Envelopes}

Tick ==
  /\ now < MaxNow
  /\ now' = now + 1
  /\ UNCHANGED storeVars

Next ==
  \/ Tick
  \/ /\ UNCHANGED now
     /\ \E p \in Peers :
          \/ \E envs \in Batches, acks \in SUBSET Envelopes, receive \in BOOLEAN :
               Sync(p, envs, acks, receive)
          \/ \E q \in Peers, blocked \in BOOLEAN : SetBlock(p, q, blocked)
          \/ Unlink(p)
          \/ Register(p)

Spec == Init /\ [][Next]_vars

-----------------------------------------------------------------------------
Receipt == [env : Envelopes, expires : Nat, delivered : BOOLEAN]

TypeOK ==
  /\ now \in Nat
  /\ receipts \subseteq Receipt
  /\ blocks \subseteq Peers \X Peers
  /\ registered \subseteq Peers

\* An envelope id is accepted at most once per sender and recipient, however
\* often it is submitted and whatever the retry carries.
OneReceiptPerKey ==
  \A r, s \in receipts : SameKey(r.env, s.env) => r = s

\* After a block (either way) or an unlink, nothing of the pair remains, and
\* nothing can be put there again until the block is lifted or the key is
\* registered again.
SeveredPairHoldsNothing ==
  \A r \in receipts :
    /\ <<r.env.from, r.env.to>> \notin blocks
    /\ <<r.env.to, r.env.from>> \notin blocks
    /\ r.env.from \in registered /\ r.env.to \in registered

\* A retry finds its original receipt: while a receipt lives, no command
\* changes its envelope or its deadline, and an acknowledged ciphertext does
\* not come back.
RetryKeepsReceipt ==
  [][\A r \in Pruned(receipts), s \in receipts' :
       SameKey(r.env, s.env) =>
         /\ s.env = r.env
         /\ s.expires = r.expires
         /\ r.delivered => s.delivered]_vars

=============================================================================
