----------------------------- MODULE DeliveryHistory ----------------------------
(***************************************************************************)
(* The mailbox of module DeliveryServer with a history of what it accepted *)
(* and what was acknowledged, for the promise that spans the life of more  *)
(* than one receipt: prune forgets an id at its deadline, and the sender   *)
(* may still have the envelope.                                            *)
(***************************************************************************)
EXTENDS DeliveryServer

VARIABLE
  past   \* history: acceptances [env, accepted, taken] since the pair was last severed

historyVars == <<vars, past>>

HistoryInit == Init /\ past = {}

\* A delivery-sync notes what it accepts as new, and what its peer takes.
NoteSync(p, envs, acks) ==
  past' = {IF h.env.to = p /\ \E a \in acks : SameKey(a, h.env)
           THEN [h EXCEPT !.taken = TRUE]
           ELSE h : h \in past}
          \cup {[env |-> e, accepted |-> now, taken |-> FALSE]
                  : e \in {f \in envs : Previous(receipts, f) = {}}}

\* A block or an unlink takes the pair's receipts: what was before is no matter.
NoteSevered == past' = {h \in past : Allowed(h.env.from, h.env.to)'}

HistoryNext ==
  \/ Tick /\ UNCHANGED past
  \/ /\ UNCHANGED now
     /\ \E p \in Peers :
          \/ \E envs \in Batches, acks \in SUBSET Envelopes, receive \in BOOLEAN :
               Sync(p, envs, acks, receive) /\ NoteSync(p, envs, acks)
          \/ \E q \in Peers, blocked \in BOOLEAN : SetBlock(p, q, blocked) /\ NoteSevered
          \/ Unlink(p) /\ NoteSevered
          \/ Register(p) /\ UNCHANGED past

HistorySpec == HistoryInit /\ [][HistoryNext]_historyVars

-----------------------------------------------------------------------------
\* What a fetch would hand out now, to whichever peer, is within its TTL by the
\* sender's clock, and within TTL and Skew of every time the service accepted it.
\* What its recipient has acknowledged comes back only where the sender's clock
\* was ahead: after the TTL that began when the service accepted it, and so for
\* the time at most by which the clock was ahead (submit, prune, fetch and
\* acknowledgeBatch of delivery-store.ts, whatever is retried, uploaded late or
\* acknowledged late).
NothingComesBack ==
  \A p \in Peers : \A e \in Inbox(receipts, p) :
    /\ Live(e)
    /\ \A h \in past : h.env = e =>
         /\ now < h.accepted + TTL + Skew
         /\ h.taken => h.accepted + TTL <= now /\ h.accepted < e.at
=============================================================================
