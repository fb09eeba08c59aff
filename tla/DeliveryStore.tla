----------------------------- MODULE DeliveryStore -----------------------------
(***************************************************************************)
(* The ciphertext mailbox of the identity service                          *)
(* (identity/delivery-store.ts, driven by identity/delivery-service.ts).   *)
(*                                                                         *)
(* A receipt and its spooled ciphertext are one element here.  The code    *)
(* inserts both in one transaction, an acknowledgement deletes the spool   *)
(* row and sets delivered=1 in one transaction, and a deleted receipt      *)
(* cascades to its spool row, so a receipt has a spool row exactly while   *)
(* delivered=0.  Of an envelope the store reads from, to, id and at; the   *)
(* rest is opaque to it and only compared (as a hash).                     *)
(*                                                                         *)
(* The operators that compute a new set of receipts are shared with module *)
(* Delivery, which composes this store with the devices that use it.       *)
(***************************************************************************)
EXTENDS DeliverySchema

CONSTANTS
  Skew,        \* how far ahead of the server a sender's clock may be (300000 ms)
  MaxInbox     \* spooled envelopes per recipient (1000 in the code)

ASSUME StoreAssumption ==
  /\ Skew \in Nat
  /\ MaxInbox \in Nat

VARIABLES
  receipts,    \* delivery_receipts joined with delivery_spool
  blocks,      \* delivery_blocks: pairs <<owner, peer>>
  registered   \* keys with a phone registration (identity/registry.ts)

storeVars == <<receipts, blocks, registered>>

Between(r, p, q) ==
  \/ r.env.from = p /\ r.env.to = q
  \/ r.env.from = q /\ r.env.to = p

Allowed(p, q) ==
  /\ p \in registered /\ q \in registered
  /\ <<p, q>> \notin blocks /\ <<q, p>> \notin blocks

-----------------------------------------------------------------------------
(* Receipts after each operation, as functions of the receipts R before it *)

\* prune: receipts, and the ciphertext with them, go at the stored deadline.
Pruned(R) == {r \in R : r.expires > now}

Previous(R, e) == {r \in Pruned(R) : SameKey(r.env, e)}

Held(R, p) == {r \in Pruned(R) : r.env.to = p /\ ~r.delivered}

\* The conditions under which submit does not throw.
Accepts(R, e) ==
  /\ e.at <= now + Skew
  /\ Live(e)
  /\ e.from # e.to
  /\ Allowed(e.from, e.to)
  /\ IF Previous(R, e) # {}
     THEN \A r \in Previous(R, e) : r.env = e
     ELSE Cardinality(Held(R, e.to)) < MaxInbox

Deadline(e) == (IF e.at < now THEN e.at ELSE now) + TTL

\* Defect: a retry is recognised by its ciphertext, gone once acknowledged.
SubmittedUnlessHeld(R, e) ==
  IF \E r \in Previous(R, e) : ~r.delivered
  THEN Pruned(R)
  ELSE {r \in Pruned(R) : ~SameKey(r.env, e)}
         \cup {[env |-> e, expires |-> Deadline(e), delivered |-> FALSE]}

\* A known envelope gets its original receipt back and nothing is spooled.
Submitted(R, e) ==
  IF Previous(R, e) # {}
  THEN Pruned(R)
  ELSE Pruned(R) \cup {[env |-> e, expires |-> Deadline(e), delivered |-> FALSE]}

\* Defect: the receipt goes with the ciphertext.
AcknowledgedAndForgotten(R, p, acks) ==
  {r \in R : ~(r.env.to = p /\ \E a \in acks : SameKey(a, r.env))}

\* acknowledgeBatch: scoped to the authenticated recipient.
Acknowledged(R, p, acks) ==
  {IF r.env.to = p /\ \E a \in acks : SameKey(a, r.env)
   THEN [r EXCEPT !.delivered = TRUE]
   ELSE r : r \in R}

\* fetch drops the rows whose sender may no longer reach the recipient ...
Fetched(R, p) == Pruned(R) \ {r \in Held(R, p) : ~Allowed(r.env.from, p)}

\* ... and returns the others.
Inbox(R, p) == {r.env : r \in {s \in Held(R, p) : Allowed(s.env.from, p)}}

-----------------------------------------------------------------------------
(* One authenticated command each *)

\* delivery-sync: an optional envelope (a set of at most one), then the
\* acknowledgements, then the optional fetch, in one turn of the event loop.
\* delivery-submit, delivery-ack and delivery-inbox are its special cases.
AfterWrites(p, envs, acks) ==
  Acknowledged(IF envs = {} THEN receipts
               ELSE Submitted(receipts, CHOOSE e \in envs : TRUE), p, acks)

SyncInbox(p, envs, acks) == Inbox(AfterWrites(p, envs, acks), p)

Sync(p, envs, acks, receive) ==
  /\ p \in registered
  /\ \A e \in envs : e.from = p /\ Accepts(receipts, e)
  /\ receipts' = IF receive THEN Fetched(AfterWrites(p, envs, acks), p)
                 ELSE AfterWrites(p, envs, acks)
  /\ UNCHANGED <<blocks, registered>>

\* Defect: only what the blocked peer sent is removed.
SetBlockOneWay(p, q, blocked) ==
  /\ p # q
  /\ p \in registered
  /\ blocks' = IF blocked THEN blocks \cup {<<p, q>>} ELSE blocks \ {<<p, q>>}
  /\ receipts' = IF blocked
                 THEN {r \in receipts : ~(r.env.from = q /\ r.env.to = p)}
                 ELSE receipts
  /\ UNCHANGED registered

\* delivery-block
SetBlock(p, q, blocked) ==
  /\ p # q
  /\ p \in registered
  /\ blocks' = IF blocked THEN blocks \cup {<<p, q>>} ELSE blocks \ {<<p, q>>}
  /\ receipts' = IF blocked
                 THEN {r \in receipts : ~Between(r, p, q)}
                 ELSE receipts
  /\ UNCHANGED registered

\* PhoneService 'unlink': the mailbox, then the registration.
Unlink(p) ==
  /\ p \in registered
  /\ receipts' = {r \in receipts : r.env.from # p /\ r.env.to # p}
  /\ blocks' = {b \in blocks : b[1] # p /\ b[2] # p}
  /\ registered' = registered \ {p}

\* PhoneService 'verify': a completed SMS verification binds the key.
Register(p) ==
  /\ registered' = registered \cup {p}
  /\ UNCHANGED <<receipts, blocks>>

StoreInit ==
  /\ receipts = {}
  /\ blocks = {}
  /\ registered = Peers
=============================================================================
