-------------------------- MODULE DeliveryServerProofs -------------------------
(***************************************************************************)
(* What the mailbox keeps for every set of peers, envelopes and commands,  *)
(* every TTL and every capacity (modules DeliveryServer, DeliveryHistory). *)
(***************************************************************************)
EXTENDS DeliveryHistory, TLAPS

\* The deadline stored with a receipt is within the TTL of both clocks.
DeadlinesBounded ==
  \A r \in receipts : r.expires <= r.env.at + TTL /\ r.expires <= now + TTL

\* The inductive invariant: SeveredPairHoldsNothing is inductive by itself,
\* the others need the types.
Inv ==
  /\ TypeOK
  /\ OneReceiptPerKey
  /\ DeadlinesBounded
  /\ SeveredPairHoldsNothing

-----------------------------------------------------------------------------
(* The operators on receipts *)

\* An acknowledgement changes the delivered flag only, and sets it only.
LEMMA AcknowledgedFrom ==
  ASSUME NEW R \in SUBSET Receipt, NEW p, NEW acks, NEW s \in Acknowledged(R, p, acks)
  PROVE  \E r \in R :
           /\ s.env = r.env
           /\ s.expires = r.expires
           /\ r.delivered => s.delivered
           /\ s \in Receipt
<1>1. PICK r \in R : s = IF r.env.to = p /\ \E a \in acks : SameKey(a, r.env)
                         THEN [r EXCEPT !.delivered = TRUE]
                         ELSE r
  BY DEF Acknowledged
<1>2. r \in Receipt
  OBVIOUS
<1> QED
  BY <1>1, <1>2 DEF Receipt

\* An acknowledgement keeps the keys of the receipts apart.
LEMMA AcknowledgedKeepsKeys ==
  ASSUME NEW R \in SUBSET Receipt, NEW p, NEW acks,
         \A r, s \in R : SameKey(r.env, s.env) => r = s,
         NEW s \in Acknowledged(R, p, acks), NEW t \in Acknowledged(R, p, acks),
         SameKey(s.env, t.env)
  PROVE  s = t
<1> DEFINE Ack(r) == IF r.env.to = p /\ \E a \in acks : SameKey(a, r.env)
                     THEN [r EXCEPT !.delivered = TRUE]
                     ELSE r
<1>1. PICK r \in R : s = Ack(r)
  BY DEF Acknowledged
<1>2. PICK q \in R : t = Ack(q)
  BY DEF Acknowledged
<1>3. r.env = s.env /\ q.env = t.env
  <2>1. r \in Receipt /\ q \in Receipt
    OBVIOUS
  <2> QED
    BY <1>1, <1>2, <2>1 DEF Receipt
<1>4. r = q
  BY <1>3
<1> QED
  BY <1>1, <1>2, <1>4

\* A deadline is a time, and bounded by both clocks.
LEMMA DeadlineBounds ==
  ASSUME now \in Nat, NEW e, e.at \in Nat
  PROVE  /\ Deadline(e) \in Nat
         /\ Deadline(e) <= e.at + TTL
         /\ Deadline(e) <= now + TTL
  BY SchemaAssumption DEF Deadline

\* What a submitted envelope adds: at most its own receipt, under a new key.
LEMMA SubmittedFrom ==
  ASSUME TypeOK, NEW e \in Envelopes, NEW s \in Submitted(receipts, e)
  PROVE  \/ s \in receipts
         \/ /\ s = [env |-> e, expires |-> Deadline(e), delivered |-> FALSE]
            /\ s \in Receipt
            /\ \A r \in Pruned(receipts) : ~SameKey(r.env, e)
<1>1. e.at \in Nat /\ now \in Nat
  BY ServerAssumption DEF TypeOK
<1>2. Deadline(e) \in Nat
  BY <1>1, DeadlineBounds
<1>3. CASE Previous(receipts, e) # {}
  BY <1>3 DEF Submitted, Pruned
<1>4. CASE Previous(receipts, e) = {}
  <2>1. \A r \in Pruned(receipts) : ~SameKey(r.env, e)
    BY <1>4 DEF Previous, SameKey
  <2>2. s \in Pruned(receipts)
        \/ s = [env |-> e, expires |-> Deadline(e), delivered |-> FALSE]
    BY <1>4 DEF Submitted
  <2>3. CASE s \in Pruned(receipts)
    BY <2>3 DEF Pruned
  <2>4. CASE s = [env |-> e, expires |-> Deadline(e), delivered |-> FALSE]
    <3>1. s \in Receipt
      BY <1>2, <2>4 DEF Receipt
    <3> QED
      BY <2>1, <2>4, <3>1
  <2> QED
    BY <2>2, <2>3, <2>4
<1> QED
  BY <1>3, <1>4

\* The receipts between the writes and the fetch of delivery-sync.
Written(envs) ==
  IF envs = {} THEN receipts ELSE Submitted(receipts, CHOOSE e \in envs : TRUE)

LEMMA WrittenKeepsInv ==
  ASSUME Inv, NEW envs, envs = {} \/ \E e \in Envelopes : envs = {e},
         \A e \in envs : Accepts(receipts, e)
  PROVE  /\ Written(envs) \subseteq Receipt
         /\ \A r, s \in Written(envs) : SameKey(r.env, s.env) => r = s
         /\ \A r \in Written(envs) :
              /\ r.expires <= r.env.at + TTL
              /\ r.expires <= now + TTL
              /\ Allowed(r.env.from, r.env.to)
<1>1. CASE envs = {}
  BY <1>1 DEF Written, Inv, TypeOK, OneReceiptPerKey, DeadlinesBounded,
              SeveredPairHoldsNothing, Allowed
<1>2. CASE \E e \in Envelopes : envs = {e}
  <2>1. PICK e \in Envelopes : envs = {e}
    BY <1>2
  <2>2. Written(envs) = Submitted(receipts, e)
    BY <2>1 DEF Written
  <2>3. Allowed(e.from, e.to)
    BY <2>1 DEF Accepts
  <2>4. \A r \in receipts :
          r.expires <= r.env.at + TTL /\ r.expires <= now + TTL
          /\ Allowed(r.env.from, r.env.to)
    BY DEF Inv, DeadlinesBounded, SeveredPairHoldsNothing, Allowed
  <2>5. Deadline(e) <= e.at + TTL /\ Deadline(e) <= now + TTL
    BY DeadlineBounds, ServerAssumption DEF Inv, TypeOK
  <2>6. TypeOK
    BY DEF Inv
  <2>7. Written(envs) \subseteq Receipt
    BY <2>2, <2>6, SubmittedFrom DEF TypeOK
  <2>8. ASSUME NEW r \in Written(envs), NEW s \in Written(envs), SameKey(r.env, s.env)
        PROVE  r = s
    <3>1. CASE Previous(receipts, e) # {}
      BY <2>2, <2>8, <3>1 DEF Submitted, Pruned, Inv, OneReceiptPerKey
    <3>2. CASE Previous(receipts, e) = {}
      <4> DEFINE new == [env |-> e, expires |-> Deadline(e), delivered |-> FALSE]
      <4>1. r \in Pruned(receipts) \/ r = new
        BY <2>2, <3>2 DEF Submitted
      <4>2. s \in Pruned(receipts) \/ s = new
        BY <2>2, <3>2 DEF Submitted
      <4>3. \A q \in Pruned(receipts) : ~SameKey(q.env, e) /\ ~SameKey(e, q.env)
        BY <3>2 DEF Previous, SameKey
      <4>4. CASE r = new \/ s = new
        <5>1. new.env = e
          OBVIOUS
        <5> HIDE DEF new
        <5> QED
          BY <2>8, <4>1, <4>2, <4>3, <4>4, <5>1
      <4>5. CASE r # new /\ s # new
        BY <2>8, <4>1, <4>2, <4>5 DEF Pruned, Inv, OneReceiptPerKey
      <4> QED
        BY <4>4, <4>5
    <3> QED
      BY <3>1, <3>2
  <2>9. ASSUME NEW r \in Written(envs)
        PROVE  /\ r.expires <= r.env.at + TTL /\ r.expires <= now + TTL
               /\ Allowed(r.env.from, r.env.to)
    <3>1. CASE r \in receipts
      BY <2>4, <3>1
    <3>2. CASE r = [env |-> e, expires |-> Deadline(e), delivered |-> FALSE]
      BY <2>3, <2>5, <3>2
    <3> QED
      BY <2>2, <2>6, <3>1, <3>2, SubmittedFrom
  <2> QED
    BY <2>7, <2>8, <2>9
<1> QED
  BY <1>1, <1>2

\* All of Inv after a delivery-sync, whatever it carries.
LEMMA SyncKeepsInv ==
  ASSUME Inv, NEW p \in Peers, NEW envs, envs = {} \/ \E e \in Envelopes : envs = {e},
         NEW acks, NEW receive \in BOOLEAN,
         Sync(p, envs, acks, receive), UNCHANGED now
  PROVE  Inv'
<1> DEFINE R == Written(envs)
           A == Acknowledged(R, p, acks)
<1>1. \A e \in envs : Accepts(receipts, e)
  BY DEF Sync
<1>2. /\ R \subseteq Receipt
      /\ \A r, s \in R : SameKey(r.env, s.env) => r = s
      /\ \A r \in R : /\ r.expires <= r.env.at + TTL
                      /\ r.expires <= now + TTL
                      /\ Allowed(r.env.from, r.env.to)
  BY <1>1, WrittenKeepsInv
<1>3. receipts' \subseteq A
  BY DEF Sync, AfterWrites, Written, Fetched, Pruned
<1>4. blocks' = blocks /\ registered' = registered /\ now' = now
  BY DEF Sync
<1>5. ASSUME NEW s \in A
      PROVE  /\ s \in Receipt
             /\ s.expires <= s.env.at + TTL
             /\ s.expires <= now + TTL
             /\ Allowed(s.env.from, s.env.to)
  <2> HIDE DEF R
  <2>1. PICK r \in R : s.env = r.env /\ s.expires = r.expires /\ s \in Receipt
    BY <1>2, <1>5, AcknowledgedFrom
  <2> QED
    BY <1>2, <2>1
<1>6. \A s, t \in A : SameKey(s.env, t.env) => s = t
  <2> HIDE DEF R
  <2> QED
    BY <1>2, AcknowledgedKeepsKeys
<1> HIDE DEF A
<1>7. TypeOK'
  BY <1>3, <1>4, <1>5 DEF Inv, TypeOK
<1>8. OneReceiptPerKey'
  BY <1>3, <1>6 DEF OneReceiptPerKey, SameKey
<1>9. DeadlinesBounded'
  BY <1>3, <1>4, <1>5 DEF DeadlinesBounded
<1>10. SeveredPairHoldsNothing'
  BY <1>3, <1>4, <1>5 DEF SeveredPairHoldsNothing, Allowed
<1> QED
  BY <1>7, <1>8, <1>9, <1>10 DEF Inv

-----------------------------------------------------------------------------
(* The other steps *)

LEMMA InitInv == Init => Inv
  BY DEF Init, StoreInit, Inv, TypeOK, OneReceiptPerKey, DeadlinesBounded,
         SeveredPairHoldsNothing

\* A step that removes receipts, and whose pairs stay allowed, keeps the rest.
LEMMA RemovalKeepsInv ==
  ASSUME Inv, receipts' \subseteq receipts, now' \in Nat, now <= now',
         blocks' \subseteq Peers \X Peers, registered' \subseteq Peers,
         SeveredPairHoldsNothing'
  PROVE  Inv'
<1>1. TypeOK'
  BY DEF Inv, TypeOK
<1>2. OneReceiptPerKey'
  BY DEF Inv, OneReceiptPerKey, SameKey
<1>3. DeadlinesBounded'
  <2> SUFFICES ASSUME NEW r \in receipts'
               PROVE  r.expires <= r.env.at + TTL /\ r.expires <= now' + TTL
    BY DEF DeadlinesBounded
  <2>1. r.expires <= r.env.at + TTL /\ r.expires <= now + TTL
    BY DEF Inv, DeadlinesBounded
  <2>2. r.expires \in Nat /\ now \in Nat
    BY DEF Inv, TypeOK, Receipt
  <2> QED
    BY <2>1, <2>2, SchemaAssumption
<1> QED
  BY <1>1, <1>2, <1>3 DEF Inv

LEMMA StepInv == Inv /\ [Next]_vars => Inv'
<1> SUFFICES ASSUME Inv, [Next]_vars
             PROVE  Inv'
  OBVIOUS
<1> USE DEF SeveredPairHoldsNothing
<1>1. CASE Tick
  BY <1>1, RemovalKeepsInv DEF Tick, storeVars, Inv, TypeOK
<1>2. ASSUME NEW p \in Peers, NEW envs \in Batches, NEW acks \in SUBSET Envelopes,
             NEW receive \in BOOLEAN, UNCHANGED now, Sync(p, envs, acks, receive)
      PROVE  Inv'
  BY <1>2, SyncKeepsInv DEF Batches
<1>3. ASSUME NEW p \in Peers, NEW q \in Peers, NEW flag \in BOOLEAN,
             UNCHANGED now, SetBlock(p, q, flag)
      PROVE  Inv'
  <2>1. receipts' \subseteq receipts
    BY <1>3 DEF SetBlock
  <2>2. SeveredPairHoldsNothing'
    BY <1>3 DEF SetBlock, Between, Inv
  <2> QED
    BY <1>3, <2>1, <2>2, RemovalKeepsInv DEF SetBlock, Inv, TypeOK
<1>4. ASSUME NEW p \in Peers, UNCHANGED now, Unlink(p)
      PROVE  Inv'
  BY <1>4, RemovalKeepsInv DEF Unlink, Inv, TypeOK
<1>5. ASSUME NEW p \in Peers, UNCHANGED now, Register(p)
      PROVE  Inv'
  BY <1>5, RemovalKeepsInv DEF Register, Inv, TypeOK
<1>6. CASE UNCHANGED vars
  BY <1>6, RemovalKeepsInv DEF vars, Inv, TypeOK
<1> QED
  BY <1>1, <1>2, <1>3, <1>4, <1>5, <1>6 DEF Next

THEOREM InvariantHolds == Spec => []Inv
<1> QED
  BY InitInv, StepInv, PTL DEF Spec

-----------------------------------------------------------------------------
(* The properties *)

\* The state of the mailbox keeps its shape: stored deadlines are times and
\* only registered peers' own envelopes are stored (delivery-store.ts).
THEOREM TypeCorrect == Spec => []TypeOK
  BY InvariantHolds, PTL DEF Inv

\* An envelope id is accepted at most once per sender and recipient while its
\* receipt lives, whatever is retried (DeliveryStore.submit).
THEOREM Idempotent == Spec => []OneReceiptPerKey
  BY InvariantHolds, PTL DEF Inv

\* Nothing of a blocked or unlinked pair is stored, in any order of block,
\* unlink, registration and upload (DeliveryStore.block, unlink and submit).
THEOREM Severed == Spec => []SeveredPairHoldsNothing
  BY InvariantHolds, PTL DEF Inv

-----------------------------------------------------------------------------
(* The action property: a living receipt keeps its envelope and deadline, and *)
(* an acknowledged ciphertext does not come back.                             *)

LEMMA SyncKeepsReceipts ==
  ASSUME Inv, NEW p \in Peers, NEW envs, envs = {} \/ \E e \in Envelopes : envs = {e},
         NEW acks, NEW receive \in BOOLEAN,
         Sync(p, envs, acks, receive),
         NEW r \in Pruned(receipts), NEW s \in receipts', SameKey(r.env, s.env)
  PROVE  s.env = r.env /\ s.expires = r.expires /\ (r.delivered => s.delivered)
<1>1. /\ Written(envs) \subseteq Receipt
      /\ \A q, t \in Written(envs) : SameKey(q.env, t.env) => q = t
  BY WrittenKeepsInv DEF Sync
<1>2. s \in Acknowledged(Written(envs), p, acks)
  BY DEF Sync, AfterWrites, Written, Fetched, Pruned
<1>3. PICK t \in Written(envs) :
         /\ s.env = t.env
         /\ s.expires = t.expires
         /\ t.delivered => s.delivered
  BY <1>1, <1>2, AcknowledgedFrom
<1>4. r \in Written(envs)
  BY DEF Written, Submitted, Pruned
<1>5. r = t
  BY <1>1, <1>3, <1>4
<1> QED
  BY <1>3, <1>5

LEMMA StepKeepsReceipts ==
  ASSUME Inv, [Next]_vars,
         NEW r \in Pruned(receipts), NEW s \in receipts', SameKey(r.env, s.env)
  PROVE  s.env = r.env /\ s.expires = r.expires /\ (r.delivered => s.delivered)
<1>1. CASE receipts' \subseteq receipts
  BY <1>1 DEF Pruned, Inv, OneReceiptPerKey
<1>2. ASSUME NEW p \in Peers, NEW envs \in Batches, NEW acks \in SUBSET Envelopes,
             NEW receive \in BOOLEAN, Sync(p, envs, acks, receive)
      PROVE  s.env = r.env /\ s.expires = r.expires /\ (r.delivered => s.delivered)
  BY <1>2, SyncKeepsReceipts DEF Batches
<1>3. ASSUME NEW p \in Peers, NEW q \in Peers, NEW flag \in BOOLEAN, SetBlock(p, q, flag)
      PROVE  receipts' \subseteq receipts
  BY <1>3 DEF SetBlock
<1>4. ASSUME NEW p \in Peers, Unlink(p) \/ Register(p)
      PROVE  receipts' \subseteq receipts
  BY <1>4 DEF Unlink, Register
<1>5. CASE Tick \/ UNCHANGED vars
  BY <1>1, <1>5 DEF Tick, storeVars, vars
<1> QED
  BY <1>1, <1>2, <1>3, <1>4, <1>5 DEF Next

\* A retry finds its original receipt until the deadline, and what was
\* acknowledged is not spooled again (DeliveryStore.submit, acknowledgeBatch).
THEOREM RetryFindsReceipt == Spec => RetryKeepsReceipt
<1>1. Inv /\ [Next]_vars =>
        [\A r \in Pruned(receipts), s \in receipts' :
           SameKey(r.env, s.env) =>
             /\ s.env = r.env
             /\ s.expires = r.expires
             /\ r.delivered => s.delivered]_vars
  BY StepKeepsReceipts
<1> QED
  BY <1>1, InvariantHolds, PTL DEF Spec, RetryKeepsReceipt
-----------------------------------------------------------------------------
(* With the history: what is handed out again, and until when *)

\* The deadline that an acceptance has put on its receipt.
Until(h) == (IF h.env.at < h.accepted THEN h.env.at ELSE h.accepted) + TTL

\* An acceptance found the sender's clock at most Skew ahead, and its receipt is
\* there until its deadline, with what was acknowledged marked so.
Remembered(h) ==
  /\ h \in [env : Envelopes, accepted : Nat, taken : BOOLEAN]
  /\ h.accepted <= now
  /\ h.env.at <= h.accepted + Skew
  /\ now < Until(h) => \E r \in receipts : /\ r.env = h.env
                                           /\ r.expires = Until(h)
                                           /\ h.taken => r.delivered

HistoryInv == Inv /\ \A h \in past : Remembered(h)

LEMMA HistoryStepIsStep == HistoryNext => Next
  BY DEF HistoryNext, Next

\* A receipt that has not reached its deadline is still there after a
\* delivery-sync, acknowledged if the command acknowledges it.
LEMMA SyncKeepsReceipt ==
  ASSUME Inv, NEW p \in Peers, NEW envs, envs = {} \/ \E e \in Envelopes : envs = {e},
         NEW acks, NEW receive \in BOOLEAN, Sync(p, envs, acks, receive),
         NEW r \in Written(envs), r.expires > now
  PROVE  \E s \in receipts' :
           /\ s.env = r.env
           /\ s.expires = r.expires
           /\ r.delivered => s.delivered
           /\ r.env.to = p /\ (\E a \in acks : SameKey(a, r.env)) => s.delivered
<1> DEFINE s == IF r.env.to = p /\ \E a \in acks : SameKey(a, r.env)
                THEN [r EXCEPT !.delivered = TRUE]
                ELSE r
           A == Acknowledged(Written(envs), p, acks)
<1>1. /\ Written(envs) \subseteq Receipt
      /\ \A q \in Written(envs) : Allowed(q.env.from, q.env.to)
  BY WrittenKeepsInv DEF Sync
<1>2. s \in A
  BY DEF Acknowledged
<1>3. /\ s.env = r.env
      /\ s.expires = r.expires
      /\ r.delivered => s.delivered
      /\ r.env.to = p /\ (\E a \in acks : SameKey(a, r.env)) => s.delivered
  BY <1>1 DEF Receipt
<1>4. Allowed(s.env.from, s.env.to)
  BY <1>1, <1>3
<1>5. AfterWrites(p, envs, acks) = A
  BY DEF AfterWrites, Written
<1> HIDE DEF s, A
<1>6. s \in Fetched(A, p)
  BY <1>2, <1>3, <1>4 DEF Fetched, Pruned, Held
<1>7. s \in receipts'
  BY <1>2, <1>5, <1>6 DEF Sync
<1> QED
  BY <1>3, <1>7

LEMMA SyncRemembers ==
  ASSUME HistoryInv, NEW p \in Peers, NEW envs, envs = {} \/ \E e \in Envelopes : envs = {e},
         NEW acks, NEW receive \in BOOLEAN, Sync(p, envs, acks, receive),
         NoteSync(p, envs, acks), UNCHANGED now, NEW g \in past'
  PROVE  Remembered(g)'
<1> DEFINE Takes(h) == h.env.to = p /\ \E a \in acks : SameKey(a, h.env)
<1>1. now \in Nat /\ now' = now /\ receipts \subseteq Receipt
  BY DEF HistoryInv, Inv, TypeOK
<1>2. CASE \E h \in past : g = IF Takes(h) THEN [h EXCEPT !.taken = TRUE] ELSE h
  <2>1. PICK h \in past : g = IF Takes(h) THEN [h EXCEPT !.taken = TRUE] ELSE h
    BY <1>2
  <2> USE DEF HistoryInv
  <2>2. Remembered(h)
    OBVIOUS
  <2>3. g.env = h.env /\ g.accepted = h.accepted /\ g \in [env : Envelopes, accepted : Nat, taken : BOOLEAN]
    BY <2>1, <2>2 DEF Remembered
  <2>4. g.taken => h.taken \/ Takes(h)
    BY <2>1, <2>2 DEF Remembered
  <2>5. Until(g) = Until(h)
    BY <2>3 DEF Until
  <2>6. ASSUME now < Until(g)
        PROVE  \E s \in receipts' : s.env = g.env /\ s.expires = Until(g) /\ (g.taken => s.delivered)
    <3>1. PICK r \in receipts : r.env = h.env /\ r.expires = Until(h) /\ (h.taken => r.delivered)
      BY <2>2, <2>5, <2>6 DEF Remembered
    <3>2. r.expires > now
      BY <2>5, <2>6, <3>1, <1>1 DEF Receipt
    <3>3. r \in Written(envs)
      BY <3>1, <3>2 DEF Written, Submitted, Pruned
    <3>4. PICK s \in receipts' :
             /\ s.env = r.env
             /\ s.expires = r.expires
             /\ r.delivered => s.delivered
             /\ r.env.to = p /\ (\E a \in acks : SameKey(a, r.env)) => s.delivered
      BY <3>2, <3>3, SyncKeepsReceipt
    <3> QED
      BY <2>3, <2>4, <2>5, <3>1, <3>4
  <2> QED
    BY <1>1, <2>2, <2>3, <2>5, <2>6 DEF Remembered, Until
<1>3. CASE \E e \in envs : /\ Previous(receipts, e) = {}
                           /\ g = [env |-> e, accepted |-> now, taken |-> FALSE]
  <2>1. PICK e \in envs : /\ Previous(receipts, e) = {}
                          /\ g = [env |-> e, accepted |-> now, taken |-> FALSE]
    BY <1>3
  <2>2. e \in Envelopes /\ envs = {e} /\ Accepts(receipts, e)
    BY <2>1 DEF Sync
  <2>3. e.at \in Nat /\ e.at <= now + Skew
    BY <2>2, ServerAssumption DEF Accepts
  <2> DEFINE r == [env |-> e, expires |-> Deadline(e), delivered |-> FALSE]
  <2>4. r \in Written(envs)
    BY <2>1, <2>2 DEF Written, Submitted
  <2>5. Until(g) = Deadline(e)
    BY <2>1 DEF Until, Deadline
  <2>6. r.env = e /\ r.expires = Deadline(e)
    OBVIOUS
  <2> HIDE DEF r
  <2>7. ASSUME now < Until(g)
        PROVE  \E s \in receipts' : s.env = g.env /\ s.expires = Until(g)
    <3>1. Deadline(e) \in Nat
      BY <1>1, <2>3, DeadlineBounds
    <3>2. r.expires > now
      BY <1>1, <2>5, <2>6, <2>7, <3>1
    <3>3. Inv
      BY DEF HistoryInv
    <3> QED
      BY <2>1, <2>4, <2>5, <2>6, <3>2, <3>3, SyncKeepsReceipt
  <2> QED
    BY <1>1, <2>1, <2>2, <2>3, <2>7 DEF Remembered, Until
<1> QED
  BY <1>2, <1>3 DEF NoteSync

\* Where a step takes no receipt but of pairs it severs, the rest is remembered.
LEMMA RemovalRemembers ==
  ASSUME HistoryInv, now' \in Nat, now <= now', NEW h \in past,
         \A r \in receipts : r.env = h.env => r \in receipts'
  PROVE  Remembered(h)'
<1>1. Remembered(h) /\ now \in Nat
  BY DEF HistoryInv, Inv, TypeOK
<1>2. Until(h) \in Nat
  BY <1>1, SchemaAssumption, ServerAssumption DEF Remembered, Until
<1> QED
  BY <1>1, <1>2 DEF Remembered, Until

LEMMA HistoryStepInv == HistoryInv /\ [HistoryNext]_historyVars => HistoryInv'
<1> SUFFICES ASSUME HistoryInv, [HistoryNext]_historyVars
             PROVE  HistoryInv'
  OBVIOUS
<1>1. Inv'
  BY StepInv, HistoryStepIsStep DEF HistoryInv, historyVars, vars
<1>2. now \in Nat
  BY DEF HistoryInv, Inv, TypeOK
<1>3. CASE Tick /\ UNCHANGED past
  <2>1. \A h \in past : Remembered(h)'
    BY <1>2, <1>3, RemovalRemembers DEF Tick, storeVars
  <2> QED
    BY <1>1, <1>3, <2>1 DEF HistoryInv
<1>4. ASSUME UNCHANGED now, NEW p \in Peers, NEW envs \in Batches,
             NEW acks \in SUBSET Envelopes, NEW receive \in BOOLEAN,
             Sync(p, envs, acks, receive), NoteSync(p, envs, acks)
      PROVE  HistoryInv'
  <2>1. \A g \in past' : Remembered(g)'
    BY <1>4, SyncRemembers DEF Batches
  <2> QED
    BY <1>1, <2>1 DEF HistoryInv
<1>5. ASSUME UNCHANGED now, NEW p \in Peers, NEW q \in Peers, NEW blocked \in BOOLEAN,
             SetBlock(p, q, blocked), NoteSevered
      PROVE  HistoryInv'
  <2>1. ASSUME NEW h \in past, Allowed(h.env.from, h.env.to)'
        PROVE  Remembered(h)'
    <3>1. \A r \in receipts : r.env = h.env => r \in receipts'
      BY <1>5, <2>1 DEF SetBlock, Between, Allowed
    <3> QED
      BY <1>2, <1>5, <2>1, <3>1, RemovalRemembers
  <2> QED
    BY <1>1, <1>5, <2>1 DEF HistoryInv, NoteSevered
<1>6. ASSUME UNCHANGED now, NEW p \in Peers, Unlink(p), NoteSevered
      PROVE  HistoryInv'
  <2>1. ASSUME NEW h \in past, Allowed(h.env.from, h.env.to)'
        PROVE  Remembered(h)'
    <3>1. \A r \in receipts : r.env = h.env => r \in receipts'
      BY <1>6, <2>1 DEF Unlink, Allowed
    <3> QED
      BY <1>2, <1>6, <2>1, <3>1, RemovalRemembers
  <2> QED
    BY <1>1, <1>6, <2>1 DEF HistoryInv, NoteSevered
<1>7. ASSUME UNCHANGED now, NEW p \in Peers, Register(p), UNCHANGED past
      PROVE  HistoryInv'
  <2>1. \A h \in past : Remembered(h)'
    BY <1>2, <1>7, RemovalRemembers DEF Register
  <2> QED
    BY <1>1, <1>7, <2>1 DEF HistoryInv
<1>8. CASE UNCHANGED historyVars
  <2>1. \A h \in past : Remembered(h)'
    BY <1>2, <1>8, RemovalRemembers DEF historyVars, vars
  <2> QED
    BY <1>1, <1>8, <2>1 DEF HistoryInv, historyVars
<1> QED
  BY <1>3, <1>4, <1>5, <1>6, <1>7, <1>8 DEF HistoryNext

LEMMA RememberedStaysAway == HistoryInv => NothingComesBack
<1> SUFFICES ASSUME HistoryInv, NEW p \in Peers, NEW e \in Inbox(receipts, p)
             PROVE  /\ Live(e)
                    /\ \A h \in past : h.env = e =>
                         /\ now < h.accepted + TTL + Skew
                         /\ h.taken => h.accepted + TTL <= now /\ h.accepted < e.at
  BY DEF NothingComesBack
<1>1. PICK r \in receipts : r.env = e /\ r.expires > now /\ ~r.delivered
  BY DEF Inbox, Held, Pruned
<1>2. now \in Nat /\ r.expires \in Nat /\ e \in Envelopes /\ e.at \in Nat
  BY <1>1, ServerAssumption DEF HistoryInv, Inv, TypeOK, Receipt
<1>3. now < e.at + TTL
  BY <1>1, <1>2, SchemaAssumption DEF HistoryInv, Inv, DeadlinesBounded
<1>4. ASSUME NEW h \in past, h.env = e
      PROVE  /\ now < h.accepted + TTL + Skew
             /\ h.taken => h.accepted + TTL <= now /\ h.accepted < e.at
  <2>1. Remembered(h)
    BY DEF HistoryInv
  <2>2. ASSUME h.taken
        PROVE  Until(h) <= now
    <3>1. SUFFICES ASSUME now < Until(h)
                   PROVE  FALSE
      BY <1>2, <1>4, <2>1, SchemaAssumption DEF Until, Remembered
    <3>2. PICK s \in receipts : s.env = h.env /\ s.delivered
      BY <2>1, <2>2, <3>1 DEF Remembered
    <3>3. s = r
      BY <1>1, <1>4, <3>2 DEF HistoryInv, Inv, OneReceiptPerKey, SameKey
    <3> QED
      BY <1>1, <3>2, <3>3
  <2> QED
    BY <1>2, <1>3, <1>4, <2>1, <2>2, SchemaAssumption, StoreAssumption DEF Remembered, Until
<1> QED
  BY <1>2, <1>3, <1>4, SchemaAssumption DEF Live

LEMMA HistoryInvariant == HistorySpec => []HistoryInv
<1>1. HistoryInit => HistoryInv
  BY InitInv DEF HistoryInit, HistoryInv
<1> QED
  BY <1>1, HistoryStepInv, PTL DEF HistorySpec

\* What a fetch hands out is within its TTL, and what its recipient has
\* acknowledged is not handed out again but where the sender's clock was ahead,
\* and then for that time at most (submit, prune, fetch and acknowledgeBatch of
\* delivery-store.ts), whatever is retried, blocked, unlinked or late.
THEOREM NothingReturns == HistorySpec => []NothingComesBack
  BY HistoryInvariant, RememberedStaysAway, PTL
=============================================================================
