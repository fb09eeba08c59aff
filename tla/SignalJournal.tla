----------------------------- MODULE SignalJournal -----------------------------
(***************************************************************************)
(* The encrypted journal of every device                                   *)
(* (src/messenger/delivery/journal.ts): the outbox, the inbox and the      *)
(* Signal session state.  Every operation is one SQLite transaction        *)
(* (deliveryAtomic), so it is one step here, whichever process of the      *)
(* device runs it.                                                         *)
(*                                                                         *)
(* A ciphertext is an envelope that names the message key it was sealed    *)
(* with: the sender numbers its keys towards a peer, and the receiver can  *)
(* open a number once, in any order.  An outgoing row's token is           *)
(* determined by recipient and body, and survives the upload.              *)
(***************************************************************************)
EXTENDS DeliverySchema

CONSTANTS
  MaxPending,    \* rows waiting for upload (1000 in the code)
  MaxUnapplied   \* inbox rows waiting for projection (1000 in the code)

ASSUME JournalAssumption ==
  /\ MaxPending \in Nat \ {0}
  /\ MaxUnapplied \in Nat \ {0}

VARIABLES
  outbox,   \* outbox[p]: signal_outbox, rows [id, to, body, at, key, uploaded]
  inbox,    \* inbox[p]: signal_inbox, rows [env, applied, acked, receipted],
            \* where receipted says that no receipt is owed any more
  chain,    \* chain[p][q]: message keys p has used towards q
  opened,   \* opened[p]: pairs <<sender, key>> whose message key p has consumed
  issued    \* issued[p]: ids p has drawn

journalVars == <<outbox, inbox, chain, opened, issued>>

Envelope(p, r) ==
  [from |-> p, to |-> r.to, id |-> r.id, at |-> r.at, key |-> r.key,
   body |-> r.body]

Pending(p) == {r \in outbox[p] : ~r.uploaded}

Unapplied(p) == {r \in inbox[p] : ~r.applied}

HasToken(p, to, body) == \E r \in outbox[p] : r.to = to /\ r.body = body

Fresh(p, to, body, at) ==
  [id |-> issued[p] + 1, to |-> to, body |-> body, at |-> at, key |-> 0,
   uploaded |-> FALSE]

-----------------------------------------------------------------------------
\* insertOutgoing: a known token finds its row again, uploaded or not.
InsertOutgoing(p, to, body, at) ==
  IF HasToken(p, to, body)
  THEN UNCHANGED <<outbox, issued>>
  ELSE /\ Cardinality(Pending(p)) < MaxPending
       /\ outbox' = [outbox EXCEPT ![p] = @ \cup {Fresh(p, to, body, at)}]
       /\ issued' = [issued EXCEPT ![p] = @ + 1]

Enqueue(p, to, body, at) ==
  /\ at + TTL > now
  /\ InsertOutgoing(p, to, body, at)
  /\ UNCHANGED <<inbox, chain, opened>>

\* Defect: every attempt encrypts again.
SealAgain(p, r) ==
  /\ r \in Pending(p) /\ Live(r)
  /\ chain' = [chain EXCEPT ![p][r.to] = @ + 1]
  /\ outbox' = [outbox EXCEPT ![p] =
                  (@ \ {r}) \cup {[r EXCEPT !.key = chain'[p][r.to]]}]
  /\ UNCHANGED <<inbox, opened, issued>>

\* The ciphertext and the session state it advanced are saved together, and a
\* row that has a ciphertext keeps it.
Seal(p, r) ==
  /\ r \in Pending(p) /\ Live(r)
  /\ IF r.key # 0
     THEN UNCHANGED <<outbox, chain>>
     ELSE /\ chain' = [chain EXCEPT ![p][r.to] = @ + 1]
          /\ outbox' = [outbox EXCEPT ![p] =
                          (@ \ {r}) \cup {[r EXCEPT !.key = chain[p][r.to] + 1]}]
  /\ UNCHANGED <<inbox, opened, issued>>

Uploaded(p, id) ==
  /\ outbox' = [outbox EXCEPT ![p] =
                  {IF r.id = id THEN [r EXCEPT !.uploaded = TRUE] ELSE r : r \in @}]
  /\ UNCHANGED <<inbox, chain, opened, issued>>

-----------------------------------------------------------------------------
Known(p, e) == \E r \in inbox[p] : SameKey(r.env, e)

\* receive succeeds and changes something: the envelope is alive, unknown,
\* there is room, and its message key has not been consumed.
CanReceive(p, e) ==
  /\ Live(e)
  /\ ~Known(p, e)
  /\ Cardinality(Unapplied(p)) < MaxUnapplied
  /\ <<e.from, e.key>> \notin opened[p]

\* Defect: the session state is saved first, the plaintext in a transaction
\* that may not follow.
ReceiveInTwoSteps(p, e) ==
  /\ CanReceive(p, e)
  /\ opened' = [opened EXCEPT ![p] = @ \cup {<<e.from, e.key>>}]
  /\ \E rows \in SUBSET {[env |-> e, applied |-> FALSE, acked |-> FALSE,
                          receipted |-> FALSE]} :
       inbox' = [inbox EXCEPT ![p] = @ \cup rows]
  /\ UNCHANGED <<outbox, chain, issued>>

\* The plaintext and the session state it advanced are saved together.
Receive(p, e) ==
  /\ CanReceive(p, e)
  /\ inbox' = [inbox EXCEPT ![p] = @ \cup
        {[env |-> e, applied |-> FALSE, acked |-> FALSE, receipted |-> FALSE]}]
  /\ opened' = [opened EXCEPT ![p] = @ \cup {<<e.from, e.key>>}]
  /\ UNCHANGED <<outbox, chain, issued>>

Receipt(m) == [kind |-> "ack", of |-> m]

\* The receipt of a message; other packets have none.
Receipted(p, row) ==
  IF row.env.body.kind = "message" /\ ~row.receipted
  THEN InsertOutgoing(p, row.env.from, Receipt(row.env.body.of), now)
  ELSE UNCHANGED <<outbox, issued>>

\* applied throws: a receipt is due and the outbox is full.
ReceiptRefused(p, e) ==
  /\ \E r \in Unapplied(p) : r.env = e /\ ~r.receipted
  /\ e.body.kind = "message"
  /\ ~HasToken(p, e.from, Receipt(e.body.of))
  /\ Cardinality(Pending(p)) >= MaxPending

\* Defect: the row is marked, the receipt is left to a later transaction.
AppliedWithoutReceipt(p, e) ==
  /\ IF \E r \in inbox[p] : r.env = e /\ ~r.applied
     THEN inbox' = [inbox EXCEPT ![p] =
            {IF r.env = e THEN [r EXCEPT !.applied = TRUE] ELSE r : r \in @}]
     ELSE UNCHANGED inbox
  /\ UNCHANGED <<outbox, issued, chain, opened>>

\* applied: the receipt and the mark are one transaction, and a second call
\* or a call after the row was deleted does nothing.
Applied(p, e) ==
  /\ IF \E r \in inbox[p] : r.env = e /\ ~r.applied
     THEN /\ \E r \in inbox[p] : r.env = e /\ Receipted(p, r)
          /\ inbox' = [inbox EXCEPT ![p] =
               {IF r.env = e THEN [r EXCEPT !.applied = TRUE, !.receipted = TRUE]
                ELSE r : r \in @}]
     ELSE UNCHANGED <<inbox, outbox, issued>>
  /\ UNCHANGED <<chain, opened>>

\* received: the notification extension's receipt for a row not yet projected.
Received(p, row) ==
  /\ row \in Unapplied(p)
  /\ Receipted(p, row)
  /\ inbox' = [inbox EXCEPT ![p] = (@ \ {row}) \cup {[row EXCEPT !.receipted = TRUE]}]
  /\ UNCHANGED <<chain, opened>>

\* Defect: everything decrypted is acknowledged.
AcknowledgementsOfAll(p) == {r.env : r \in {s \in inbox[p] : ~s.acked}}

Acknowledgements(p) == {r.env : r \in {s \in inbox[p] : s.applied /\ ~s.acked}}

AcknowledgedBatch(p, acks) ==
  /\ inbox' = [inbox EXCEPT ![p] =
                 {IF \E a \in acks : SameKey(a, r.env)
                  THEN [r EXCEPT !.acked = TRUE] ELSE r : r \in @}]
  /\ UNCHANGED <<outbox, chain, opened, issued>>

Prune(p) ==
  /\ outbox' = [outbox EXCEPT ![p] = {r \in @ : Live(r)}]
  /\ inbox' = [inbox EXCEPT ![p] = {r \in @ : Live(r.env) \/ ~(r.applied /\ r.acked)}]
  /\ UNCHANGED <<chain, opened, issued>>

\* DeviceMessenger.block deletes the peer's rows and keeps the session.
Forget(p, q) ==
  /\ outbox' = [outbox EXCEPT ![p] = {r \in @ : r.to # q}]
  /\ inbox' = [inbox EXCEPT ![p] = {r \in @ : r.env.from # q}]
  /\ UNCHANGED <<chain, opened, issued>>

JournalInit ==
  /\ outbox = [p \in Peers |-> {}]
  /\ inbox = [p \in Peers |-> {}]
  /\ chain = [p \in Peers |-> [q \in Peers |-> 0]]
  /\ opened = [p \in Peers |-> {}]
  /\ issued = [p \in Peers |-> 0]
=============================================================================
