----------------------------- MODULE DeliveryProofs ----------------------------
(***************************************************************************)
(* Delivery end to end, for every set of devices, messages and second      *)
(* processes, every bound and every number of faults (module Delivery).    *)
(***************************************************************************)
EXTENDS Delivery, TLAPS

-----------------------------------------------------------------------------
(* Types of the parts *)

LEMMA ProcessOwner ==
  ASSUME NEW x \in Processes
  PROVE  x[1] \in Peers /\ x \in Peers \X {"app", "ext"}
  BY DeliveryAssumption DEF Processes

LEMMA AppProcess ==
  ASSUME NEW p \in Peers
  PROVE  <<p, "app">> \in Processes /\ <<p, "app">>[1] = p /\ <<p, "app">>[2] = "app"
  BY DEF Processes

LEMMA ExtProcess ==
  ASSUME NEW p \in Extended
  PROVE  <<p, "ext">> \in Processes /\ p \in Peers
  BY DeliveryAssumption DEF Processes

LEMMA IdleType == Idle \in Call
  BY DEF Idle, Call

LEMMA BodyTypes ==
  ASSUME NEW m \in Messages
  PROVE  Body(m) \in MessageBody /\ Receipt(m) \in MessageBody
  BY DEF Body, Receipt, MessageBody

LEMMA RowUpdates ==
  ASSUME NEW r \in InboxRow
  PROVE  /\ [r EXCEPT !.acked = TRUE] \in InboxRow
         /\ [r EXCEPT !.receipted = TRUE] \in InboxRow
         /\ [r EXCEPT !.applied = TRUE, !.receipted = TRUE] \in InboxRow
  BY DEF InboxRow

LEMMA EnvelopeType ==
  ASSUME NEW p \in Peers, NEW r \in Row
  PROVE  Envelope(p, r) \in Ciphertext
  BY DEF Envelope, Row, Ciphertext

\* What the service has stored after the writes of a request comes from its
\* store and the request.
LEMMA AfterWritesTypes ==
  ASSUME TypeOK, NEW p \in Peers, NEW envs \in SUBSET Ciphertext, NEW acks,
         NEW s \in AfterWrites(p, envs, acks)
  PROVE  /\ s \in StoredReceipt
         /\ s.env \in envs \/ \E q \in receipts : q.env = s.env
<1> DEFINE e == CHOOSE e \in envs : TRUE
           W == IF envs = {} THEN receipts ELSE Submitted(receipts, e)
<1>1. \A r \in W : /\ r \in StoredReceipt
                   /\ r.env \in envs \/ \E q \in receipts : q.env = r.env
  <2>1. CASE envs = {}
    BY <2>1 DEF TypeOK
  <2>2. CASE envs # {}
    <3>1. e \in envs
      BY <2>2
    <3> HIDE DEF e
    <3>2. Deadline(e) \in Nat
      BY <3>1, SchemaAssumption DEF Deadline, Ciphertext, TypeOK
    <3> DEFINE new == [env |-> e, expires |-> Deadline(e), delivered |-> FALSE]
    <3>3. new \in StoredReceipt /\ new.env \in envs
      BY <3>1, <3>2 DEF StoredReceipt
    <3>4. \A r \in W : r \in receipts \/ r = new
      BY <2>2 DEF Submitted, Pruned
    <3> HIDE DEF new, W
    <3> QED
      BY <3>3, <3>4 DEF TypeOK
  <2> QED
    BY <2>1, <2>2
<1>2. s \in Acknowledged(W, p, acks)
  BY DEF AfterWrites
<1> HIDE DEF W
<1>3. PICK r \in W : s = IF r.env.to = p /\ \E a \in acks : SameKey(a, r.env)
                         THEN [r EXCEPT !.delivered = TRUE]
                         ELSE r
  BY <1>2 DEF Acknowledged
<1>4. s \in StoredReceipt /\ s.env = r.env
  <2>1. r \in StoredReceipt
    BY <1>1
  <2> QED
    BY <1>3, <2>1 DEF StoredReceipt
<1> QED
  BY <1>1, <1>4

LEMMA ServiceTypes ==
  ASSUME TypeOK, NEW p \in Peers, NEW c \in Call, Run(p, c)
  PROVE  /\ receipts' \subseteq StoredReceipt
         /\ blocks' \subseteq Peers \X Peers
         /\ registered' \subseteq Peers
         /\ \A r \in receipts' : r.env \in c.envs \/ \E q \in receipts : q.env = r.env
<1>1. CASE c.change # {}
  <2>1. PICK b \in c.change : SetBlock(p, b.peer, b.blocked)
    BY <1>1 DEF Run
  <2>2. b.peer \in Peers
    BY DEF Call, BlockChange
  <2> QED
    BY <2>1, <2>2 DEF SetBlock, TypeOK
<1>2. CASE c.change = {}
  <2>1. Sync(p, c.envs, c.acks, c.receive)
    BY <1>2 DEF Run
  <2>2. receipts' \subseteq AfterWrites(p, c.envs, c.acks)
    BY <2>1 DEF Sync, Fetched, Pruned
  <2>3. blocks' = blocks /\ registered' = registered
    BY <2>1 DEF Sync
  <2>4. c.envs \in SUBSET Ciphertext
    BY DEF Call
  <2> QED
    BY <2>2, <2>3, <2>4, AfterWritesTypes DEF TypeOK
<1> QED
  BY <1>1, <1>2

\* What the service returns is addressed to the device that asks.
LEMMA SyncInboxTypes ==
  ASSUME TypeOK, NEW p \in Peers, NEW c \in Call, NEW e \in SyncInbox(p, c.envs, c.acks)
  PROVE  /\ e \in Ciphertext
         /\ e.to = p
         /\ e \in c.envs \/ \E q \in receipts : q.env = e
<1>1. PICK s \in AfterWrites(p, c.envs, c.acks) : s.env = e /\ s.env.to = p
  BY DEF SyncInbox, Inbox, Held, Pruned
<1>2. c.envs \in SUBSET Ciphertext
  BY DEF Call
<1> QED
  BY <1>1, <1>2, AfterWritesTypes DEF StoredReceipt

-----------------------------------------------------------------------------
(* Type correctness *)

LEMMA InitTypes == Init => TypeOK
  BY IdleType, DeliveryAssumption
  DEF Init, JournalInit, StoreInit, TypeOK

LEMMA InsertTypes ==
  ASSUME TypeOK, NEW p \in Peers, NEW to \in Peers, NEW body \in MessageBody,
         NEW at \in Nat, InsertOutgoing(p, to, body, at)
  PROVE  outbox' \in [Peers -> SUBSET Row] /\ issued' \in [Peers -> Nat]
<1>1. CASE HasToken(p, to, body)
  BY <1>1 DEF InsertOutgoing, TypeOK
<1>2. CASE ~HasToken(p, to, body)
  <2>1. Fresh(p, to, body, at) \in Row
    BY DEF Fresh, Row, TypeOK
  <2>2. /\ outbox' = [outbox EXCEPT ![p] = @ \cup {Fresh(p, to, body, at)}]
        /\ issued' = [issued EXCEPT ![p] = @ + 1]
    BY <1>2 DEF InsertOutgoing
  <2>3. outbox' \in [Peers -> SUBSET Row]
    BY <2>1, <2>2 DEF TypeOK
  <2>4. issued' \in [Peers -> Nat]
    BY <2>2 DEF TypeOK
  <2> QED
    BY <2>3, <2>4
<1> QED
  BY <1>1, <1>2

LEMMA SendTypes ==
  ASSUME TypeOK, NEW m \in Messages, Send(m) \/ Flush(m)
  PROVE  TypeOK'
<1>1. CASE Send(m)
  BY <1>1 DEF Send, TypeOK, journalVars, storeVars, pumpVars
<1>2. CASE Flush(m)
  <2>1. outbox' \in [Peers -> SUBSET Row] /\ issued' \in [Peers -> Nat]
    BY <1>2, InsertTypes, BodyTypes, DeliveryAssumption DEF Flush, Enqueue, TypeOK
  <2> QED
    BY <1>2, <2>1 DEF Flush, Enqueue, TypeOK, storeVars, engineVars, pumpVars
<1> QED
  BY <1>1, <1>2

LEMMA BlockTypes ==
  ASSUME TypeOK, NEW p \in Peers, NEW q \in Peers, NEW flag \in BOOLEAN, Block(p, q, flag)
  PROVE  TypeOK'
<1>1. /\ blockCalls' \in [Peers -> Nat]
      /\ blocked' \in [Peers -> SUBSET Peers]
  BY DEF Block, TypeOK
<1>2. changes' \in [Peers -> SUBSET BlockChange]
  <2>1. [peer |-> q, blocked |-> flag, rev |-> blockCalls[p] + 1] \in BlockChange
    BY DEF BlockChange, TypeOK
  <2> QED
    BY <2>1 DEF Block, TypeOK
<1>3. /\ outbox' \in [Peers -> SUBSET Row]
      /\ inbox' \in [Peers -> SUBSET InboxRow]
      /\ UNCHANGED <<chain, opened, issued>>
      /\ cut' \subseteq SUBSET Peers
  <2>1. CASE flag
    <3>1. outbox' \in [Peers -> SUBSET Row]
      BY <2>1, SMTT(30) DEF Block, Forget, TypeOK
    <3>2. inbox' \in [Peers -> SUBSET InboxRow]
      BY <2>1, SMTT(30) DEF Block, Forget, TypeOK
    <3>3. UNCHANGED <<chain, opened, issued>> /\ cut' \subseteq SUBSET Peers
      <4>1. Pair(p, q) \subseteq Peers
        BY DEF Pair
      <4> QED
        BY <2>1, <4>1, SMTT(30) DEF Block, Forget, TypeOK
    <3> QED
      BY <3>1, <3>2, <3>3
  <2>2. CASE ~flag
    BY <2>2 DEF Block, journalVars, TypeOK
  <2> QED
    BY <2>1, <2>2
<1> QED
  BY <1>1, <1>2, <1>3 DEF Block, TypeOK, storeVars, pumpVars

LEMMA SealTypes ==
  ASSUME TypeOK, NEW x \in Processes, NEW r \in Pending(x[1]), SealRow(x, r)
  PROVE  TypeOK'
<1>1. x[1] \in Peers
  BY ProcessOwner
<1>2. r \in Row /\ r \in outbox[x[1]]
  BY <1>1 DEF Pending, TypeOK
<1>3. chain' \in [Peers -> [Peers -> Nat]] /\ chain[x[1]][r.to] + 1 \in Nat
  <2>1. r.to \in Peers /\ chain[x[1]] \in [Peers -> Nat]
    BY <1>1, <1>2 DEF TypeOK, Row
  <2>2. CASE r.key # 0
    BY <2>1, <2>2 DEF SealRow, Seal, TypeOK
  <2>3. CASE r.key = 0
    <3>1. chain' = [chain EXCEPT ![x[1]] = [chain[x[1]] EXCEPT ![r.to] = @ + 1]]
      BY <2>3 DEF SealRow, Seal
    <3>2. [chain[x[1]] EXCEPT ![r.to] = @ + 1] \in [Peers -> Nat]
      BY <2>1
    <3> QED
      BY <1>1, <2>1, <3>1, <3>2 DEF TypeOK
  <2> QED
    BY <2>2, <2>3
<1>4. outbox' \in [Peers -> SUBSET Row]
  <2>1. [r EXCEPT !.key = chain[x[1]][r.to] + 1] \in Row
    BY <1>2, <1>3 DEF Row
  <2>2. CASE r.key # 0
    BY <2>2 DEF SealRow, Seal, TypeOK
  <2>3. CASE r.key = 0
    <3> DEFINE sealed == [r EXCEPT !.key = chain[x[1]][r.to] + 1]
    <3>1. outbox' = [outbox EXCEPT ![x[1]] = (@ \ {r}) \cup {sealed}]
      BY <2>3 DEF SealRow, Seal
    <3>2. sealed \in Row
      BY <2>1
    <3> HIDE DEF sealed
    <3> QED
      BY <1>1, <3>1, <3>2 DEF TypeOK
  <2> QED
    BY <2>2, <2>3
<1>5. call' \in [Processes -> Call]
  <2> DEFINE sealed == {Envelope(x[1], s) : s \in {t \in outbox'[x[1]] : t.id = r.id}}
             c == [Idle EXCEPT !.stage = "sealed", !.envs = sealed]
  <2>1. sealed \subseteq Ciphertext
    BY <1>1, <1>4, EnvelopeType
  <2>2. call' = [call EXCEPT ![x] = c]
    BY DEF SealRow
  <2>3. c \in Call
    <3> HIDE DEF sealed
    <3> QED
      BY <2>1 DEF Idle, Call
  <2> HIDE DEF c
  <2> QED
    BY <2>2, <2>3 DEF TypeOK
<1> QED
  BY <1>3, <1>4, <1>5 DEF SealRow, Seal, TypeOK, storeVars, engineVars

LEMMA PostTypes ==
  ASSUME TypeOK, NEW x \in Processes, NEW receive \in BOOLEAN, Post(x, receive)
  PROVE  TypeOK'
<1>1. x[1] \in Peers /\ call[x] \in Call
  BY ProcessOwner DEF TypeOK
<1>2. Acknowledgements(x[1]) \subseteq Ciphertext
  BY <1>1 DEF Acknowledgements, InboxRow, TypeOK
<1> DEFINE acks == IF x[2] = "app" THEN Acknowledgements(x[1]) ELSE {}
           c == [call[x] EXCEPT !.stage = "sent", !.receive = receive, !.acks = acks]
<1>3. c \in Call
  BY <1>1, <1>2 DEF Call
<1>4. call' = [call EXCEPT ![x] = c]
  BY DEF Post, TypeOK
<1> HIDE DEF c
<1>5. call' \in [Processes -> Call]
  BY <1>3, <1>4 DEF TypeOK
<1> QED
  BY <1>5 DEF Post, TypeOK, journalVars, storeVars, engineVars

LEMMA FetchTypes ==
  ASSUME TypeOK, NEW x \in Processes, Fetch(x)
  PROVE  TypeOK'
<1>1. call' \in [Processes -> Call]
  <2>1. Acknowledgements(x[1]) \subseteq Ciphertext
    BY ProcessOwner DEF Acknowledgements, InboxRow, TypeOK
  <2> QED
    BY <2>1 DEF Fetch, Idle, Call, TypeOK
<1> QED
  BY <1>1 DEF Fetch, TypeOK, journalVars, storeVars, engineVars

LEMMA PushTypes ==
  ASSUME TypeOK, NEW p \in Peers, PushBlock(p)
  PROVE  TypeOK'
<1>1. PICK c \in changes[p] :
        call' = [call EXCEPT ![<<p, "app">>] = [Idle EXCEPT !.stage = "sent", !.change = {c}]]
  BY DEF PushBlock
<1>2. [Idle EXCEPT !.stage = "sent", !.change = {c}] \in Call
  <2>1. c \in BlockChange
    BY DEF TypeOK
  <2> QED
    BY <2>1 DEF Idle, Call
<1>3. call' \in [Processes -> Call]
  BY <1>1, <1>2 DEF TypeOK
<1> QED
  BY <1>3 DEF PushBlock, TypeOK, journalVars, storeVars, engineVars

LEMMA ServeTypes ==
  ASSUME TypeOK, NEW x \in Processes, Serve(x)
  PROVE  TypeOK'
<1>1. x[1] \in Peers /\ call[x] \in Call
  BY ProcessOwner DEF TypeOK
<1>2. /\ receipts' \subseteq StoredReceipt
      /\ blocks' \subseteq Peers \X Peers
      /\ registered' \subseteq Peers
  BY <1>1, ServiceTypes DEF Serve
<1> DEFINE page == IF call[x].receive
                   THEN SyncInbox(x[1], call[x].envs, call[x].acks) ELSE {}
           c == [call[x] EXCEPT !.stage = "answered", !.inbox = page]
<1>3. page \subseteq Ciphertext
  BY <1>1, SyncInboxTypes
<1>4. call' = [call EXCEPT ![x] = c]
  BY DEF Serve, TypeOK
<1>5. c \in Call
  <2> HIDE DEF page
  <2> QED
    BY <1>1, <1>3 DEF Call
<1> HIDE DEF c
<1>6. call' \in [Processes -> Call]
  BY <1>4, <1>5 DEF TypeOK
<1> QED
  BY <1>2, <1>6 DEF Serve, TypeOK, journalVars, engineVars

LEMMA LostTypes ==
  ASSUME TypeOK, NEW x \in Processes, Refuse(x) \/ TimeOut(x) \/ Die(x)
  PROVE  TypeOK'
<1>1. x[1] \in Peers /\ call[x] \in Call
  BY ProcessOwner DEF TypeOK
<1>2. call' \in [Processes -> Call]
  BY IdleType DEF Refuse, TimeOut, Die, TypeOK
<1>3. late' \subseteq [owner : Peers, cmd : Call]
  <2>1. [owner |-> x[1], cmd |-> call[x]] \in [owner : Peers, cmd : Call]
    BY <1>1
  <2>2. late' \subseteq late \cup {[owner |-> x[1], cmd |-> call[x]]}
    BY DEF Refuse, TimeOut, Die, Abandoned
  <2> QED
    BY <2>1, <2>2 DEF TypeOK
<1>4. /\ faults' \in Nat
      /\ buffer' \in [Peers -> SUBSET Ciphertext]
      /\ inHand' \in [Peers -> SUBSET Ciphertext]
  <2>1. CASE Refuse(x) \/ TimeOut(x)
    BY <2>1 DEF Refuse, TimeOut, TypeOK
  <2>2. CASE Die(x)
    <3>1. CASE x[2] = "app"
      <4>1. /\ buffer' = [buffer EXCEPT ![x[1]] = {}]
            /\ inHand' = [inHand EXCEPT ![x[1]] = {}]
            /\ faults' = faults + 1
        BY <2>2, <3>1 DEF Die
      <4>2. faults' \in Nat
        BY <4>1 DEF TypeOK
      <4>3. buffer' \in [Peers -> SUBSET Ciphertext]
        BY <4>1 DEF TypeOK
      <4>4. inHand' \in [Peers -> SUBSET Ciphertext]
        BY <4>1 DEF TypeOK
      <4> QED
        BY <4>2, <4>3, <4>4
    <3>2. CASE x[2] # "app"
      BY <2>2, <3>2 DEF Die, TypeOK
    <3> QED
      BY <3>1, <3>2
  <2> QED
    BY <2>1, <2>2
<1> QED
  BY <1>2, <1>3, <1>4
  DEF Refuse, TimeOut, Die, TypeOK, journalVars, storeVars, engineVars

LEMMA LateTypes ==
  ASSUME TypeOK, NEW c \in late, ServeLate(c)
  PROVE  TypeOK'
<1>1. c.owner \in Peers /\ c.cmd \in Call
  BY DEF TypeOK
<1>2. /\ receipts' \subseteq StoredReceipt
      /\ blocks' \subseteq Peers \X Peers
      /\ registered' \subseteq Peers
  BY <1>1, ServiceTypes DEF ServeLate
<1> QED
  BY <1>2 DEF ServeLate, TypeOK, journalVars, engineVars

LEMMA RecordTypes ==
  ASSUME TypeOK, NEW p \in Peers, RecordAcks(p) \/ RecordBlock(p)
  PROVE  TypeOK'
<1> DEFINE x == <<p, "app">>
<1>1. x \in Processes
  BY AppProcess
<1> HIDE DEF x
<1>2. call[x] \in Call
  BY <1>1 DEF TypeOK
<1>3. CASE RecordAcks(p)
  <2>1. inbox' \in [Peers -> SUBSET InboxRow]
    <3>1. \A r \in inbox[p] : [r EXCEPT !.acked = TRUE] \in InboxRow /\ r \in InboxRow
      BY RowUpdates DEF TypeOK
    <3> QED
      BY <1>3, <3>1 DEF RecordAcks, AcknowledgedBatch, TypeOK
  <2>2. buffer' \in [Peers -> SUBSET Ciphertext]
    BY <1>2, <1>3 DEF RecordAcks, TypeOK, Call, x
  <2>3. call' \in [Processes -> Call]
    <3> DEFINE rest == [call[x] EXCEPT !.stage = "recorded", !.acks = {}, !.inbox = {}]
    <3>1. rest \in Call
      BY <1>2 DEF Call
    <3>2. call' = [call EXCEPT ![x] = IF call[x].envs = {} THEN Idle ELSE rest]
      BY <1>1, <1>3 DEF RecordAcks, TypeOK, x
    <3> HIDE DEF rest
    <3> QED
      BY <3>1, <3>2, IdleType DEF TypeOK
  <2> QED
    BY <1>3, <2>1, <2>2, <2>3
    DEF RecordAcks, AcknowledgedBatch, TypeOK, storeVars, engineVars
<1>4. CASE RecordBlock(p)
  <2>1. changes' \in [Peers -> SUBSET BlockChange]
    BY <1>4 DEF RecordBlock, TypeOK
  <2>2. call' \in [Processes -> Call]
    BY <1>4, IdleType DEF RecordBlock, TypeOK
  <2> QED
    BY <1>4, <2>1, <2>2 DEF RecordBlock, TypeOK, journalVars, storeVars
<1> QED
  BY <1>3, <1>4

LEMMA UploadTypes ==
  ASSUME TypeOK, NEW x \in Processes, RecordUpload(x)
  PROVE  TypeOK'
<1>1. x[1] \in Peers
  BY ProcessOwner
<1>2. call' \in [Processes -> Call]
  BY IdleType DEF RecordUpload, TypeOK
<1>3. outbox' \in [Peers -> SUBSET Row]
  <2>1. \A r \in outbox[x[1]] : [r EXCEPT !.uploaded = TRUE] \in Row /\ r \in Row
    <3>1. SUFFICES ASSUME NEW r \in outbox[x[1]]
                   PROVE  [r EXCEPT !.uploaded = TRUE] \in Row /\ r \in Row
      OBVIOUS
    <3>2. r \in Row
      BY <1>1 DEF TypeOK
    <3> QED
      BY <3>2 DEF Row
  <2> QED
    BY <1>1, <2>1 DEF RecordUpload, Uploaded, TypeOK
<1> QED
  BY <1>2, <1>3 DEF RecordUpload, Uploaded, TypeOK, storeVars, engineVars

LEMMA ReceiveTypes ==
  ASSUME TypeOK, NEW p \in Peers, NEW e \in Ciphertext, Receive(p, e)
  PROVE  /\ inbox' \in [Peers -> SUBSET InboxRow]
         /\ opened' \in [Peers -> SUBSET (Peers \X Nat)]
<1> DEFINE row == [env |-> e, applied |-> FALSE, acked |-> FALSE, receipted |-> FALSE]
<1>1. row \in InboxRow /\ <<e.from, e.key>> \in Peers \X Nat
  BY DEF InboxRow, Ciphertext
<1>2. inbox' = [inbox EXCEPT ![p] = @ \cup {row}]
  BY DEF Receive
<1> HIDE DEF row
<1>3. inbox' \in [Peers -> SUBSET InboxRow]
  BY <1>1, <1>2 DEF TypeOK
<1>4. opened' \in [Peers -> SUBSET (Peers \X Nat)]
  BY <1>1 DEF Receive, TypeOK
<1> QED
  BY <1>3, <1>4

LEMMA TakeTypes ==
  ASSUME TypeOK, NEW p \in Peers, NEW e \in buffer[p], TakeEnvelope(p, e)
  PROVE  TypeOK'
<1>1. e \in Ciphertext
  BY DEF TypeOK
<1>2. buffer' \in [Peers -> SUBSET Ciphertext]
  BY DEF TakeEnvelope, TypeOK
<1>3. CASE Receive(p, e)
  BY <1>1, <1>2, <1>3, ReceiveTypes DEF TakeEnvelope, Receive, TypeOK, storeVars, engineVars
<1>4. CASE UNCHANGED journalVars
  BY <1>2, <1>4 DEF TakeEnvelope, TypeOK, journalVars, storeVars, engineVars
<1> QED
  BY <1>3, <1>4 DEF TakeEnvelope

LEMMA ExtensionTypes ==
  ASSUME TypeOK, NEW p \in Extended, ExtensionReceive(p)
  PROVE  TypeOK'
<1>1. <<p, "ext">> \in Processes /\ p \in Peers
  BY ExtProcess
<1>2. call' \in [Processes -> Call]
  BY IdleType DEF ExtensionReceive, TypeOK
<1>3. CASE \E e \in call[<<p, "ext">>].inbox : Receive(p, e)
  <2>1. PICK e \in call[<<p, "ext">>].inbox : Receive(p, e)
    BY <1>3
  <2>2. e \in Ciphertext
    BY <1>1 DEF TypeOK, Call
  <2> QED
    BY <1>1, <1>2, <2>1, <2>2, ReceiveTypes
    DEF ExtensionReceive, Receive, TypeOK, storeVars, engineVars
<1>4. CASE UNCHANGED journalVars
  BY <1>2, <1>4 DEF ExtensionReceive, TypeOK, journalVars, storeVars, engineVars
<1> QED
  BY <1>3, <1>4 DEF ExtensionReceive

LEMMA ReceiptTypes ==
  ASSUME TypeOK, NEW p \in Peers, NEW row \in inbox[p], Receipted(p, row)
  PROVE  outbox' \in [Peers -> SUBSET Row] /\ issued' \in [Peers -> Nat]
<1>1. CASE InsertOutgoing(p, row.env.from, Receipt(row.env.body.of), now)
  <2>1. row.env.from \in Peers /\ row.env.body.of \in Messages /\ now \in Nat
    BY DEF TypeOK, InboxRow, Ciphertext, MessageBody
  <2> QED
    BY <1>1, <2>1, BodyTypes, InsertTypes
<1>2. CASE UNCHANGED <<outbox, issued>>
  BY <1>2 DEF TypeOK
<1> QED
  BY <1>1, <1>2 DEF Receipted

LEMMA EarlyTypes ==
  ASSUME TypeOK, NEW p \in Extended, EarlyReceipt(p)
  PROVE  TypeOK'
<1>1. p \in Peers
  BY ExtProcess
<1>2. PICK row \in inbox[p] : Received(p, row)
  BY DEF EarlyReceipt, Unapplied
<1>3. outbox' \in [Peers -> SUBSET Row] /\ issued' \in [Peers -> Nat]
  BY <1>1, <1>2, ReceiptTypes DEF Received
<1>4. inbox' \in [Peers -> SUBSET InboxRow]
  <2>1. [row EXCEPT !.receipted = TRUE] \in InboxRow
    BY <1>1, RowUpdates DEF TypeOK
  <2> QED
    BY <1>1, <1>2, <2>1 DEF Received, TypeOK
<1> QED
  BY <1>2, <1>3, <1>4 DEF EarlyReceipt, Received, TypeOK, storeVars, engineVars, pumpVars

LEMMA ProjectTypes ==
  ASSUME TypeOK, NEW p \in Peers, NEW row \in Unapplied(p), Project(p, row)
  PROVE  TypeOK'
<1>1. row.env \in Ciphertext /\ row.env.body.of \in Messages
  BY DEF Unapplied, TypeOK, InboxRow, Ciphertext, MessageBody
<1>2. inHand' \in [Peers -> SUBSET Ciphertext]
  BY <1>1 DEF Project, TypeOK
<1>3. seen' \subseteq Messages /\ confirmed' \subseteq Messages
  BY <1>1 DEF Project, TypeOK
<1> QED
  BY <1>2, <1>3 DEF Project, TypeOK, journalVars, storeVars

LEMMA AppliedTypes ==
  ASSUME TypeOK, NEW p \in Peers, NEW e \in inHand[p], Applied(p, e)
  PROVE  /\ outbox' \in [Peers -> SUBSET Row]
         /\ issued' \in [Peers -> Nat]
         /\ inbox' \in [Peers -> SUBSET InboxRow]
<1>1. CASE \E r \in inbox[p] : r.env = e /\ ~r.applied
  <2>1. outbox' \in [Peers -> SUBSET Row] /\ issued' \in [Peers -> Nat]
    BY <1>1, ReceiptTypes DEF Applied
  <2>2. \A r \in inbox[p] : /\ r \in InboxRow
                            /\ [r EXCEPT !.applied = TRUE, !.receipted = TRUE] \in InboxRow
    BY RowUpdates DEF TypeOK
  <2>3. inbox' \in [Peers -> SUBSET InboxRow]
    <3> DEFINE rows == {IF r.env = e
                        THEN [r EXCEPT !.applied = TRUE, !.receipted = TRUE]
                        ELSE r : r \in inbox[p]}
    <3>1. inbox' = [inbox EXCEPT ![p] = rows]
      BY <1>1 DEF Applied
    <3>2. rows \subseteq InboxRow
      BY <2>2
    <3> HIDE DEF rows
    <3> QED
      BY <3>1, <3>2 DEF TypeOK
  <2> QED
    BY <2>1, <2>3
<1>2. CASE ~\E r \in inbox[p] : r.env = e /\ ~r.applied
  BY <1>2 DEF Applied, TypeOK
<1> QED
  BY <1>1, <1>2

LEMMA RecordAppliedTypes ==
  ASSUME TypeOK, NEW p \in Peers, RecordApplied(p)
  PROVE  TypeOK'
<1>1. inHand' \in [Peers -> SUBSET Ciphertext]
  BY DEF RecordApplied, TypeOK
<1>2. CASE \E e \in inHand[p] : Applied(p, e)
  BY <1>1, <1>2, AppliedTypes, ZenonT(60) DEF RecordApplied, Applied, TypeOK, storeVars, engineVars
<1>3. CASE UNCHANGED journalVars
  BY <1>1, <1>3 DEF RecordApplied, TypeOK, journalVars, storeVars, engineVars
<1> QED
  BY <1>2, <1>3 DEF RecordApplied

LEMMA PruneTypes ==
  ASSUME TypeOK, NEW p \in Peers, PruneJournal(p)
  PROVE  TypeOK'
<1>1. outbox' \in [Peers -> SUBSET Row]
  BY DEF PruneJournal, Prune, TypeOK
<1>2. inbox' \in [Peers -> SUBSET InboxRow]
  BY DEF PruneJournal, Prune, TypeOK
<1> QED
  BY <1>1, <1>2 DEF PruneJournal, Prune, TypeOK, storeVars, engineVars, pumpVars

LEMMA NextTypes == TypeOK /\ [Next]_vars => TypeOK'
<1> SUFFICES ASSUME TypeOK, [Next]_vars
             PROVE  TypeOK'
  OBVIOUS
<1>1. CASE Tick
  BY <1>1 DEF Tick, TypeOK, journalVars, storeVars, engineVars, pumpVars
<1>2. CASE UNCHANGED vars
  BY <1>2 DEF TypeOK, vars, journalVars, storeVars, engineVars, pumpVars
<1> QED
  BY <1>1, <1>2, SendTypes, BlockTypes, SealTypes, PostTypes, FetchTypes, PushTypes,
     ServeTypes, LostTypes, LateTypes, RecordTypes, UploadTypes, TakeTypes,
     ExtensionTypes, EarlyTypes, ProjectTypes, RecordAppliedTypes, PruneTypes
  DEF Next

\* The journals, the mailbox, the database and the pumps keep their shapes.
THEOREM TypeCorrect == Spec => []TypeOK
  BY InitTypes, NextTypes, PTL DEF Spec
=============================================================================
