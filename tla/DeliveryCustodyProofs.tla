------------------------- MODULE DeliveryCustodyProofs -------------------------
(***************************************************************************)
(* Who has an envelope (module Delivery): that a message key seals one of  *)
(* them, that somebody durable keeps it until its recipient committed what *)
(* it says, that a receipt is on its way for what was shown, and that the  *)
(* service blocks whom the device blocks; and that the service among such  *)
(* devices is the mailbox of module DeliveryServer.                        *)
(*                                                                         *)
(* Two things are the reason for all of it.  Ids and keys are drawn from   *)
(* counters that only grow, and a row without a ciphertext has none        *)
(* anywhere: what is equal by id or by key is equal.  And what was once    *)
(* committed stays committed, however late a request is executed.          *)
(***************************************************************************)
EXTENDS DeliveryPromiseProofs

-----------------------------------------------------------------------------
(* Ids and keys *)

\* Every ciphertext there is, in databases, in memory and in requests.
InStore == {r.env : r \in receipts}
InInboxes == UNION {{r.env : r \in inbox[p]} : p \in Peers}
InOutboxes == UNION {{Envelope(p, r) : r \in {s \in outbox[p] : s.key # 0}} : p \in Peers}
InMemory == UNION {buffer[p] \cup inHand[p] : p \in Peers}
InCalls == UNION {call[x].envs \cup call[x].inbox \cup call[x].acks : x \in Processes}
InLate == UNION {c.cmd.envs \cup c.cmd.inbox \cup c.cmd.acks : c \in late}

Extant == InStore \cup InInboxes \cup InOutboxes \cup InMemory \cup InCalls \cup InLate

RowsAreDistinct ==
  \A p \in Peers : \A r, s \in outbox[p] : r.id = s.id => r = s

\* Ids and keys are numbers that their sender has drawn.
NumbersAreDrawn ==
  /\ \A p \in Peers : \A r \in outbox[p] : r.id <= issued[p]
  /\ \A e \in Extant :
       e.id <= issued[e.from] /\ 0 < e.key /\ e.key <= chain[e.from][e.to]

UnsealedIsNowhere ==
  \A p \in Peers : \A r \in outbox[p] : r.key = 0 =>
    \A e \in Extant : e.from = p => e.id # r.id

OneOfAKind ==
  \A e, f \in Extant :
    e.from = f.from /\ (e.id = f.id \/ (e.to = f.to /\ e.key = f.key)) => e = f

KindInv == RowsAreDistinct /\ NumbersAreDrawn /\ UnsealedIsNowhere /\ OneOfAKind

-----------------------------------------------------------------------------
(* What was committed *)

\* What is acknowledged, or about to be, was committed.
AckedIsEffective ==
  /\ \A p \in Peers : \A r \in inbox[p] : r.applied => Effective(r.env)
  /\ \A p \in Peers : \A e \in inHand[p] : Effective(e)
  /\ \A x \in Processes : \A a \in call[x].acks : Effective(a)
  /\ \A c \in late : \A a \in c.cmd.acks : Effective(a)

-----------------------------------------------------------------------------
(* Who has it *)

\* The clock of creation, and the deadline of the service.
TimesAgree ==
  /\ \A m \in Messages : sentAt[m] <= now
  /\ \A p \in Peers : \A r \in outbox[p] : r.at <= now
  /\ \A e \in Extant : e.at <= now
  /\ \A r \in receipts : r.expires = r.env.at + TTL

\* Whoever is blocked at the service, or by a request, was blocked by a user.
BlocksAreCut ==
  /\ registered = Peers
  /\ \A p, q \in Peers : <<p, q>> \in blocks => Pair(p, q) \in cut
  /\ \A p \in Peers : \A b \in changes[p] : b.blocked => Pair(p, b.peer) \in cut
  /\ \A x \in Processes : \A b \in call[x].change : b.blocked => Pair(x[1], b.peer) \in cut
  /\ \A c \in late : \A b \in c.cmd.change : b.blocked => Pair(c.owner, b.peer) \in cut

Current(e) == Live(e) /\ Uncut(e)

\* The recipient has it, or the service.
Kept(e) == Current(e) => Journaled(e.to, e)
InCustody(e) == Current(e) => Spooled(e) \/ Journaled(e.to, e)

OneEach ==
  /\ \A x \in Processes : \A e, f \in call[x].envs : e = f /\ e.from = x[1]
  /\ \A c \in late : \A e, f \in c.cmd.envs : e = f
  /\ \A x \in Processes : call[x].change = {} \/ call[x].envs = {}

AckedIsKept ==
  /\ \A r \in receipts : r.delivered => Kept(r.env)
  /\ \A x \in Processes : \A a \in call[x].acks : Kept(a)
  /\ \A c \in late : \A a \in c.cmd.acks : Kept(a)

UploadedIsKept ==
  /\ \A p \in Peers : \A r \in outbox[p] : r.uploaded => InCustody(Envelope(p, r))
  /\ \A x \in Processes :
       call[x].stage \in {"answered", "recorded"} => \A e \in call[x].envs : InCustody(e)

\* A key that was consumed was consumed for the envelope.
OpenedIsKept ==
  /\ \A p \in Peers : \A o \in opened[p] : o[2] <= chain[o[1]][p]
  /\ \A e \in Extant : <<e.from, e.key>> \in opened[e.to] => Kept(e)

-----------------------------------------------------------------------------
(* What is answered *)

Lasts(m) == sentAt[m] + TTL > now /\ Pair(m.from, m.to) \notin cut

ShownIsWritten == seen \subseteq Written

ReceiptsAreLater ==
  \A p \in Peers : \A r \in outbox[p] : r.body.kind # "message" =>
    r.body.of \in Written /\ sentAt[r.body.of] <= r.at

ReceiptIsQueued(m) == HasToken(m.to, m.from, Receipt(m))

ShownIsAnswered ==
  \A m \in Messages : Lasts(m) =>
    /\ \A r \in inbox[m.to] : r.env.body = Body(m) /\ r.receipted => ReceiptIsQueued(m)
    /\ m \in seen => ReceiptIsQueued(m) \/ \E r \in Unapplied(m.to) : r.env.body = Body(m)

-----------------------------------------------------------------------------
(* What the service was told *)

WishesAreKnown ==
  \A p \in Peers : \A b \in changes[p] : b.blocked <=> b.peer \in blocked[p]

OneWishEach ==
  \A p \in Peers : \A b, c \in changes[p] : b.peer = c.peer => b = c

OnlyTheAppTells ==
  \A x \in Processes :
    /\ \A b, c \in call[x].change : b = c
    /\ call[x].change # {} => x[2] = "app"
    /\ call[x].change # {} => \A b \in call[x].change : \E c \in changes[x[1]] : c.peer = b.peer
    /\ call[x].stage = "answered" =>
         \A b \in call[x].change : b.blocked <=> <<x[1], b.peer>> \in blocks

WishInv == WishesAreKnown /\ OneWishEach /\ OnlyTheAppTells /\ BlocksSynchronised

-----------------------------------------------------------------------------
(* What a step does to each place                                            *)

LEMMA ExtantHas ==
  /\ \A r \in receipts : r.env \in Extant
  /\ \A p \in Peers : \A r \in inbox[p] : r.env \in Extant
  /\ \A p \in Peers : \A r \in outbox[p] : r.key # 0 => Envelope(p, r) \in Extant
  /\ \A p \in Peers : \A e \in buffer[p] \cup inHand[p] : e \in Extant
  /\ \A x \in Processes : \A e \in call[x].envs \cup call[x].inbox \cup call[x].acks : e \in Extant
  /\ \A c \in late : \A e \in c.cmd.envs \cup c.cmd.inbox \cup c.cmd.acks : e \in Extant
<1>1. \A r \in receipts : r.env \in InStore
  BY DEF InStore
<1>2. \A p \in Peers : \A r \in inbox[p] : r.env \in InInboxes
  BY DEF InInboxes
<1>3. ASSUME NEW p \in Peers, NEW r \in outbox[p], r.key # 0
      PROVE  Envelope(p, r) \in InOutboxes
  <2>1. Envelope(p, r) \in {Envelope(p, s) : s \in {t \in outbox[p] : t.key # 0}}
    BY <1>3
  <2> QED
    BY <2>1 DEF InOutboxes
<1>4. \A p \in Peers : \A e \in buffer[p] \cup inHand[p] : e \in InMemory
  BY DEF InMemory
<1>5. \A x \in Processes : \A e \in call[x].envs \cup call[x].inbox \cup call[x].acks : e \in InCalls
  BY DEF InCalls
<1>6. \A c \in late : \A e \in c.cmd.envs \cup c.cmd.inbox \cup c.cmd.acks : e \in InLate
  BY DEF InLate
<1> QED
  BY <1>1, <1>2, <1>3, <1>4, <1>5, <1>6 DEF Extant

LEMMA ExtantType == TypeOK => Extant \subseteq Ciphertext
<1> SUFFICES ASSUME TypeOK, NEW e \in Extant
             PROVE  e \in Ciphertext
  OBVIOUS
<1>1. ASSUME NEW p \in Peers, NEW r \in outbox[p]
      PROVE  Envelope(p, r) \in Ciphertext
  BY <1>1, EnvelopeType DEF TypeOK
<1>2. \A r \in receipts : r.env \in Ciphertext
  BY DEF TypeOK, StoredReceipt
<1>3. \A p \in Peers : \A r \in inbox[p] : r.env \in Ciphertext
  BY DEF TypeOK, InboxRow
<1>4. \A p \in Peers : buffer[p] \cup inHand[p] \subseteq Ciphertext
  BY DEF TypeOK
<1>5. \A c \in Call : c.envs \cup c.inbox \cup c.acks \subseteq Ciphertext
  BY DEF Call
<1>6. /\ \A x \in Processes : call[x] \in Call
      /\ \A c \in late : c.cmd \in Call
  BY DEF TypeOK
<1>7. CASE e \in InStore \cup InInboxes
  BY <1>2, <1>3, <1>7 DEF InStore, InInboxes
<1>8. CASE e \in InOutboxes
  BY <1>1, <1>8 DEF InOutboxes
<1>9. CASE e \in InMemory
  BY <1>4, <1>9 DEF InMemory
<1>10. CASE e \in InCalls \cup InLate
  BY <1>5, <1>6, <1>10 DEF InCalls, InLate
<1> QED
  BY <1>7, <1>8, <1>9, <1>10 DEF Extant

\* The commands that the service may execute next, with their owners.
Commands ==
  {<<x[1], call[x]>> : x \in {y \in Processes : call[y].stage = "sent"}}
    \cup {<<c.owner, c.cmd>> : c \in late}

LEMMA CommandTypes ==
  ASSUME TypeOK, NEW k \in Commands
  PROVE  k[1] \in Peers /\ k[2] \in Call
<1>1. CASE \E x \in Processes : k = <<x[1], call[x]>>
  BY <1>1, ProcessOwner DEF TypeOK
<1>2. CASE \E c \in late : k = <<c.owner, c.cmd>>
  BY <1>2 DEF TypeOK
<1> QED
  BY <1>1, <1>2 DEF Commands

LEMMA StoreStep ==
  ASSUME [Next]_vars
  PROVE  \/ UNCHANGED <<receipts, blocks, registered>>
         \/ /\ \E k \in Commands : Run(k[1], k[2])
            /\ UNCHANGED <<now, inbox, outbox, chain, opened, issued, sentAt, seen, confirmed, cut,
                           blocked, changes, blockCalls, buffer, inHand>>
<1>1. CASE \E x \in Processes : Serve(x)
  <2>1. PICK x \in Processes : Serve(x)
    BY <1>1
  <2>2. <<x[1], call[x]>> \in Commands /\ Run(x[1], call[x])
    BY <2>1 DEF Serve, Commands
  <2> QED
    BY <2>1, <2>2 DEF Serve, journalVars, engineVars
<1>2. CASE \E c \in late : ServeLate(c)
  <2>1. PICK c \in late : ServeLate(c)
    BY <1>2
  <2>2. <<c.owner, c.cmd>> \in Commands /\ Run(c.owner, c.cmd)
    BY <2>1 DEF ServeLate, Commands
  <2> QED
    BY <2>1, <2>2 DEF ServeLate, journalVars, engineVars
<1>3. CASE ~(\E x \in Processes : Serve(x)) /\ ~(\E c \in late : ServeLate(c))
  <2>1. CASE Tick \/ UNCHANGED vars \/ \E m \in Messages : Send(m) \/ Flush(m)
    BY <2>1 DEF vars, Tick, Send, Flush, storeVars
  <2>2. CASE \E p \in Peers : \/ \E q \in Peers, flag \in BOOLEAN : Block(p, q, flag)
                              \/ PushBlock(p) \/ RecordAcks(p) \/ RecordBlock(p)
    BY <2>2, ZenonT(60) DEF Block, PushBlock, RecordAcks, RecordBlock, storeVars
  <2>3. CASE \E p \in Peers : \/ \E e \in buffer[p] : TakeEnvelope(p, e)
                              \/ \E row \in Unapplied(p) : Project(p, row)
                              \/ RecordApplied(p) \/ PruneJournal(p)
    BY <2>3 DEF TakeEnvelope, Project, RecordApplied, PruneJournal, storeVars
  <2>4. CASE \E p \in Extended : ExtensionReceive(p) \/ EarlyReceipt(p)
    BY <2>4 DEF ExtensionReceive, EarlyReceipt, storeVars
  <2>5. CASE \E x \in Processes : \/ \E r \in Pending(x[1]) : SealRow(x, r)
                                  \/ \E receive \in BOOLEAN : Post(x, receive)
                                  \/ Fetch(x) \/ Refuse(x) \/ TimeOut(x) \/ Die(x) \/ RecordUpload(x)
    BY <2>5 DEF SealRow, Post, Fetch, Refuse, TimeOut, Die, RecordUpload, storeVars
  <2> QED
    BY <1>3, <2>1, <2>2, <2>3, <2>4, <2>5 DEF Next
<1> QED
  BY <1>1, <1>2, <1>3

\* A request that a step changes.
Emptied(c) == c.envs = {} /\ c.acks = {} /\ c.inbox = {} /\ c.change = {} /\ c.stage = "idle"

LEMMA IdleIsEmpty == Emptied(Idle)
BY DEF Emptied, Idle

Asked(x) ==
  /\ call'[x].stage = "sent" /\ call'[x].envs \subseteq call[x].envs
  /\ call'[x].inbox \subseteq call[x].inbox /\ call'[x].change \subseteq call[x].change
  /\ call'[x].acks \subseteq Acknowledgements(x[1])

Answered(x) ==
  /\ Serve(x) /\ call'[x].stage = "answered"
  /\ call'[x].envs = call[x].envs /\ call'[x].acks = call[x].acks /\ call'[x].change = call[x].change
  /\ call'[x].inbox \subseteq SyncInbox(x[1], call[x].envs, call[x].acks)

Told(x) ==
  /\ x[2] = "app" /\ call'[x].stage = "sent"
  /\ \E c \in changes[x[1]] : call'[x].change = {c}
  /\ call'[x].envs = {} /\ call'[x].acks = {} /\ call'[x].inbox = {}

Recorded(x) ==
  /\ call[x].stage = "answered" /\ call'[x].stage = "recorded" 
  /\ call'[x].envs = call[x].envs /\ call'[x].acks = {} /\ call'[x].inbox = {}
  /\ call[x].change = {} /\ call'[x].change = {}

Sealing(x) ==
  \E r \in Pending(x[1]) :
    /\ SealRow(x, r)
    /\ call'[x].stage = "sealed" /\ call'[x].acks = {} /\ call'[x].inbox = {} /\ call'[x].change = {}
    /\ call'[x].envs = {Envelope(x[1], s) : s \in {t \in outbox'[x[1]] : t.id = r.id}}

LEMMA CallStep ==
  ASSUME TypeOK, TypeOK', [Next]_vars, NEW x \in Processes
  PROVE  \/ call'[x] = call[x]
         \/ Emptied(call'[x])
         \/ Asked(x) \/ Answered(x) \/ Told(x) \/ Recorded(x) \/ Sealing(x)
<1> USE ProcessOwner
<1>0. DOMAIN call = Processes /\ \A y \in Processes : call[y] \in Call
  BY DEF TypeOK
<1>1. ASSUME NEW y \in Processes, NEW c, call' = [call EXCEPT ![y] = c]
      PROVE  \/ call'[x] = call[x] /\ x # y
             \/ call'[x] = c /\ x = y
  BY <1>0, <1>1
<1>2. CASE UNCHANGED call
  BY <1>2
<1>3. ASSUME NEW y \in Processes, call' = [call EXCEPT ![y] = Idle]
      PROVE  call'[x] = call[x] \/ Emptied(call'[x])
  BY <1>1, <1>3, IdleIsEmpty
<1>4. ASSUME NEW y \in Processes, NEW r \in Pending(y[1]), SealRow(y, r)
      PROVE  call'[x] = call[x] \/ Sealing(x)
  <2> DEFINE sealed == {Envelope(y[1], s) : s \in {t \in outbox'[y[1]] : t.id = r.id}}
             c == [Idle EXCEPT !.stage = "sealed", !.envs = sealed]
  <2>1. call' = [call EXCEPT ![y] = c]
    BY <1>4 DEF SealRow
  <2>2. /\ c.stage = "sealed" /\ c.acks = {} /\ c.inbox = {} /\ c.change = {}
        /\ c.envs = sealed
    BY DEF Idle
  <2> HIDE DEF c
  <2>3. CASE x = y
    BY <1>1, <1>4, <2>1, <2>2, <2>3 DEF Sealing
  <2> QED
    BY <1>1, <2>1, <2>3
<1>5. ASSUME NEW y \in Processes, NEW receive \in BOOLEAN, Post(y, receive)
      PROVE  call'[x] = call[x] \/ Asked(x)
  <2> DEFINE acks == IF y[2] = "app" THEN Acknowledgements(y[1]) ELSE {}
             c == [call[y] EXCEPT !.stage = "sent", !.receive = receive, !.acks = acks]
  <2>1. call' = [call EXCEPT ![y] = c]
    BY <1>0, <1>5 DEF Post
  <2>2. /\ c.stage = "sent" /\ c.envs = call[y].envs /\ c.inbox = call[y].inbox
        /\ c.change = call[y].change /\ c.acks \subseteq Acknowledgements(y[1])
    BY <1>0 DEF Call
  <2> HIDE DEF c
  <2>3. CASE x = y
    BY <1>1, <2>1, <2>2, <2>3 DEF Asked
  <2> QED
    BY <1>1, <2>1, <2>3
<1>6. ASSUME NEW y \in Processes, Fetch(y)
      PROVE  call'[x] = call[x] \/ Asked(x)
  <2> DEFINE acks == IF y[2] = "app" THEN Acknowledgements(y[1]) ELSE {}
             c == [Idle EXCEPT !.stage = "sent", !.receive = TRUE, !.acks = acks]
  <2>1. call' = [call EXCEPT ![y] = c]
    BY <1>0, <1>6 DEF Fetch
  <2>2. /\ c.stage = "sent" /\ c.envs = {} /\ c.inbox = {}
        /\ c.change = {} /\ c.acks \subseteq Acknowledgements(y[1])
    BY DEF Idle
  <2> HIDE DEF c
  <2>3. CASE x = y
    BY <1>1, <2>1, <2>2, <2>3 DEF Asked
  <2> QED
    BY <1>1, <2>1, <2>3
<1>7. ASSUME NEW y \in Processes, Serve(y)
      PROVE  call'[x] = call[x] \/ Answered(x)
  <2> DEFINE page == IF call[y].receive THEN SyncInbox(y[1], call[y].envs, call[y].acks) ELSE {}
             c == [call[y] EXCEPT !.stage = "answered", !.inbox = page]
  <2>1. call' = [call EXCEPT ![y] = c]
    BY <1>0, <1>7 DEF Serve
  <2>2. page \subseteq SyncInbox(y[1], call[y].envs, call[y].acks)
    OBVIOUS
  <2> HIDE DEF page
  <2>3. /\ c.stage = "answered" /\ c.envs = call[y].envs /\ c.inbox = page
        /\ c.change = call[y].change /\ c.acks = call[y].acks
    BY <1>0 DEF Call
  <2> HIDE DEF c
  <2>4. CASE x = y
    BY <1>1, <1>7, <2>1, <2>2, <2>3, <2>4 DEF Answered
  <2> QED
    BY <1>1, <2>1, <2>4
<1>8. ASSUME NEW p \in Peers, PushBlock(p)
      PROVE  call'[x] = call[x] \/ Told(x)
  <2> DEFINE y == <<p, "app">>
  <2>1. y \in Processes /\ y[1] = p /\ y[2] = "app"
    BY AppProcess
  <2>2. PICK b \in changes[p] : call' = [call EXCEPT ![y] = [Idle EXCEPT !.stage = "sent", !.change = {b}]]
    BY <1>8 DEF PushBlock
  <2> DEFINE c == [Idle EXCEPT !.stage = "sent", !.change = {b}]
  <2>3. /\ c.stage = "sent" /\ c.envs = {} /\ c.inbox = {} /\ c.acks = {} /\ c.change = {b}
    BY DEF Idle
  <2>4. call' = [call EXCEPT ![y] = c]
    BY <2>2
  <2> HIDE DEF c, y
  <2>5. CASE x = y
    BY <1>1, <2>1, <2>3, <2>4, <2>5 DEF Told
  <2> QED
    BY <1>1, <2>1, <2>4, <2>5
<1>9. ASSUME NEW p \in Peers, RecordAcks(p)
      PROVE  call'[x] = call[x] \/ Emptied(call'[x]) \/ Recorded(x)
  <2> DEFINE y == <<p, "app">>
             rest == [call[y] EXCEPT !.stage = "recorded", !.acks = {}, !.inbox = {}]
             c == IF call[y].envs = {} THEN Idle ELSE rest
  <2>1. y \in Processes
    BY AppProcess
  <2>2. call' = [call EXCEPT ![y] = c] /\ call[y].stage = "answered" /\ call[y].change = {}
    BY <1>0, <1>9, <2>1 DEF RecordAcks
  <2>3. /\ rest.stage = "recorded" /\ rest.envs = call[y].envs /\ rest.inbox = {} /\ rest.acks = {}
        /\ rest.change = call[y].change
    BY <1>0, <2>1 DEF Call
  <2> HIDE DEF rest, y
  <2>4. CASE x = y /\ call[y].envs = {}
    BY <1>1, <2>1, <2>2, <2>4, IdleIsEmpty
  <2>5. CASE x = y /\ call[y].envs # {}
    BY <1>1, <2>1, <2>2, <2>3, <2>5 DEF Recorded
  <2>6. CASE x # y
    BY <1>1, <2>1, <2>2, <2>6
  <2> QED
    BY <2>4, <2>5, <2>6
<1>10. ASSUME NEW p \in Peers, RecordBlock(p)
       PROVE  call'[x] = call[x] \/ Emptied(call'[x])
  BY <1>3, <1>10, AppProcess DEF RecordBlock
<1>11. ASSUME NEW p \in Extended, ExtensionReceive(p)
       PROVE  call'[x] = call[x] \/ Emptied(call'[x])
  BY <1>3, <1>11, ExtProcess DEF ExtensionReceive
<1>12. ASSUME NEW y \in Processes, Refuse(y) \/ TimeOut(y) \/ Die(y) \/ RecordUpload(y)
       PROVE  call'[x] = call[x] \/ Emptied(call'[x])
  BY <1>3, <1>12 DEF Refuse, TimeOut, Die, RecordUpload
<1>13. \/ UNCHANGED call
       \/ \E y \in Processes : \/ \E r \in Pending(y[1]) : SealRow(y, r)
                               \/ \E receive \in BOOLEAN : Post(y, receive)
                               \/ Fetch(y) \/ Serve(y)
                               \/ Refuse(y) \/ TimeOut(y) \/ Die(y) \/ RecordUpload(y)
       \/ \E p \in Peers : PushBlock(p) \/ RecordAcks(p) \/ RecordBlock(p)
       \/ \E p \in Extended : ExtensionReceive(p)
  BY DEF Next, vars, Tick, Send, Flush, Block, TakeEnvelope, Project, RecordApplied, PruneJournal,
     EarlyReceipt, ServeLate, pumpVars
<1> QED
  BY <1>2, <1>4, <1>5, <1>6, <1>7, <1>8, <1>9, <1>10, <1>11, <1>12, <1>13

LEMMA LateStep ==
  ASSUME [Next]_vars, NEW c \in late'
  PROVE  c \in late \/ \E x \in Processes : c = [owner |-> x[1], cmd |-> call[x]]
<1>1. CASE UNCHANGED late
  BY <1>1
<1>2. ASSUME NEW x \in Processes, TimeOut(x) \/ Die(x)
      PROVE  c \in late \/ c = [owner |-> x[1], cmd |-> call[x]]
  BY <1>2 DEF TimeOut, Die, Abandoned
<1>3. ASSUME NEW k \in late, ServeLate(k)
      PROVE  c \in late
  BY <1>3 DEF ServeLate
<1>4. \/ UNCHANGED late
      \/ \E x \in Processes : TimeOut(x) \/ Die(x)
      \/ \E k \in late : ServeLate(k)
  BY ZenonT(60) DEF Next, vars, Tick, Send, Flush, Block, PushBlock, RecordAcks, RecordBlock, TakeEnvelope,
     Project, RecordApplied, PruneJournal, ExtensionReceive, EarlyReceipt, SealRow, Post, Fetch, Serve,
     Refuse, RecordUpload, pumpVars
<1> QED
  BY <1>1, <1>2, <1>3, <1>4

LEMMA MemoryStep ==
  ASSUME TypeOK, [Next]_vars, NEW p \in Peers
  PROVE  /\ buffer'[p] \subseteq buffer[p] \cup call[<<p, "app">>].inbox
         /\ \A e \in inHand'[p] : \/ e \in inHand[p]
                                  \/ \E row \in Unapplied(p) : Project(p, row) /\ e = row.env
<1> USE UpdateAt, Domains
<1>1. CASE UNCHANGED <<buffer, inHand>>
  BY <1>1
<1>2. ASSUME NEW q \in Peers, RecordAcks(q)
      PROVE  buffer'[p] \subseteq buffer[p] \cup call[<<p, "app">>].inbox /\ inHand'[p] = inHand[p]
  BY <1>2 DEF RecordAcks
<1>3. ASSUME NEW q \in Peers, NEW e \in buffer[q], TakeEnvelope(q, e)
      PROVE  buffer'[p] \subseteq buffer[p] /\ inHand'[p] = inHand[p]
  BY <1>3 DEF TakeEnvelope
<1>4. ASSUME NEW x \in Processes, Die(x)
      PROVE  buffer'[p] \subseteq buffer[p] /\ inHand'[p] \subseteq inHand[p]
  <2>1. CASE UNCHANGED <<buffer, inHand>>
    BY <2>1
  <2>2. CASE buffer' = [buffer EXCEPT ![x[1]] = {}] /\ inHand' = [inHand EXCEPT ![x[1]] = {}]
    BY <2>2, ProcessOwner
  <2> QED
    BY <1>4, <2>1, <2>2 DEF Die
<1>5. ASSUME NEW q \in Peers, NEW row \in Unapplied(q), Project(q, row)
      PROVE  /\ buffer'[p] = buffer[p]
             /\ inHand'[p] = inHand[p] \/ (p = q /\ inHand'[p] = {row.env})
  BY <1>5 DEF Project
<1>6. ASSUME NEW q \in Peers, RecordApplied(q)
      PROVE  buffer'[p] = buffer[p] /\ inHand'[p] \subseteq inHand[p]
  BY <1>6 DEF RecordApplied
<1>7. \/ UNCHANGED <<buffer, inHand>>
      \/ \E q \in Peers : \/ RecordAcks(q) \/ RecordApplied(q)
                          \/ \E e \in buffer[q] : TakeEnvelope(q, e)
                          \/ \E row \in Unapplied(q) : Project(q, row)
      \/ \E x \in Processes : Die(x)
  BY ZenonT(60) DEF Next, vars, Tick, Send, Flush, Block, PushBlock, RecordBlock, PruneJournal, ExtensionReceive,
     EarlyReceipt, SealRow, Post, Fetch, Serve, ServeLate, Refuse, TimeOut, RecordUpload, pumpVars
<1> QED
  BY <1>1, <1>2, <1>3, <1>4, <1>5, <1>6, <1>7

\* The steps that touch an inbox or consume a message key.
Receiving(p, e) ==
  /\ Receive(p, e) /\ e \in Extant /\ e.to = p
  /\ UNCHANGED <<now, receipts, sentAt, seen, confirmed, cut, outbox, issued, chain, inHand>>

LEMMA InboxSteps ==
  ASSUME PromiseInv, [Next]_vars
  PROVE  \/ UNCHANGED <<inbox, opened>>
         \/ \E p \in Peers : RecordAcks(p) \/ RecordApplied(p) \/ PruneJournal(p)
         \/ \E p, q \in Peers : Block(p, q, TRUE)
         \/ \E p \in Peers : \E e : Receiving(p, e)
         \/ \E p \in Extended : EarlyReceipt(p)
<1>1. ASSUME NEW p \in Peers, NEW q \in Peers, NEW flag \in BOOLEAN, Block(p, q, flag)
      PROVE  UNCHANGED <<inbox, opened>> \/ Block(p, q, TRUE)
  BY <1>1 DEF Block, journalVars
<1>2. ASSUME NEW p \in Peers, NEW e \in buffer[p], TakeEnvelope(p, e)
      PROVE  UNCHANGED <<inbox, opened>> \/ Receiving(p, e)
  <2>1. e \in Extant /\ e.to = p
    BY ExtantHas DEF PromiseInv, MemoryGenuine
  <2>2. CASE UNCHANGED journalVars
    BY <2>2 DEF journalVars
  <2>3. CASE Receive(p, e)
    BY <1>2, <2>1, <2>3 DEF TakeEnvelope, Receiving, Receive, storeVars, engineVars
  <2> QED
    BY <1>2, <2>2, <2>3 DEF TakeEnvelope
<1>3. ASSUME NEW p \in Extended, ExtensionReceive(p)
      PROVE  UNCHANGED <<inbox, opened>> \/ \E e : Receiving(p, e)
  <2> DEFINE x == <<p, "ext">>
  <2>1. CASE UNCHANGED journalVars
    BY <2>1 DEF journalVars
  <2>2. ASSUME NEW e \in call[x].inbox, Receive(p, e)
        PROVE  Receiving(p, e)
    <3>1. x \in Processes /\ x[1] = p
      BY ExtProcess
    <3>2. e \in Extant /\ e.to = p
      BY <3>1, ExtantHas DEF PromiseInv, CallsGenuine
    <3> QED
      BY <1>3, <2>2, <3>2 DEF ExtensionReceive, Receiving, Receive, storeVars, engineVars
  <2> QED
    BY <1>3, <2>1, <2>2 DEF ExtensionReceive
<1>4. \/ UNCHANGED <<inbox, opened>>
      \/ \E p \in Peers : \/ RecordAcks(p) \/ RecordApplied(p) \/ PruneJournal(p)
                          \/ \E e \in buffer[p] : TakeEnvelope(p, e)
                          \/ \E q \in Peers, flag \in BOOLEAN : Block(p, q, flag)
      \/ \E p \in Extended : ExtensionReceive(p) \/ EarlyReceipt(p)
  <2>1. CASE Tick \/ UNCHANGED vars \/ \E m \in Messages : Send(m) \/ Flush(m)
    BY <2>1 DEF vars, Tick, Send, Flush, Enqueue, journalVars
  <2>2. CASE \E p \in Peers : PushBlock(p) \/ RecordBlock(p) \/ \E row \in Unapplied(p) : Project(p, row)
    BY <2>2 DEF PushBlock, RecordBlock, Project, journalVars
  <2>3. CASE \E x \in Processes : \/ \E r \in Pending(x[1]) : SealRow(x, r)
                                  \/ \E receive \in BOOLEAN : Post(x, receive)
                                  \/ Fetch(x) \/ Serve(x) \/ Refuse(x) \/ TimeOut(x) \/ Die(x)
                                  \/ RecordUpload(x)
    BY <2>3, ZenonT(60) DEF SealRow, Seal, Post, Fetch, Serve, Refuse, TimeOut, Die, RecordUpload, Uploaded, journalVars
  <2>4. CASE \E c \in late : ServeLate(c)
    BY <2>4 DEF ServeLate, journalVars
  <2> QED
    BY <2>1, <2>2, <2>3, <2>4 DEF Next
<1> QED
  BY <1>1, <1>2, <1>3, <1>4, ExtProcess

\* What an update of a row leaves of it.
LEMMA RowParts ==
  ASSUME NEW r \in InboxRow
  PROVE  /\ [r EXCEPT !.acked = TRUE].env = r.env
         /\ [r EXCEPT !.acked = TRUE].applied = r.applied
         /\ [r EXCEPT !.acked = TRUE].receipted = r.receipted
         /\ [r EXCEPT !.receipted = TRUE].env = r.env
         /\ [r EXCEPT !.receipted = TRUE].applied = r.applied
         /\ [r EXCEPT !.receipted = TRUE].receipted = TRUE
         /\ [r EXCEPT !.applied = TRUE, !.receipted = TRUE].env = r.env
         /\ [r EXCEPT !.applied = TRUE, !.receipted = TRUE].applied = TRUE
         /\ [r EXCEPT !.applied = TRUE, !.receipted = TRUE].receipted = TRUE
BY DEF InboxRow

\* How the inbox of the one device changes that changes.
LEMMA AcksRows ==
  ASSUME TypeOK, NEW p \in Peers, RecordAcks(p)
  PROVE  /\ \A r \in inbox'[p] : \E s \in inbox[p] :
              s.env = r.env /\ s.applied = r.applied /\ s.receipted = r.receipted
         /\ \A s \in inbox[p] : \E r \in inbox'[p] :
              s.env = r.env /\ s.applied = r.applied /\ s.receipted = r.receipted
         /\ \A o \in Peers : o # p => inbox'[o] = inbox[o]
<1> DEFINE Mark(r) == IF \E a \in call[<<p, "app">>].acks : SameKey(a, r.env)
                      THEN [r EXCEPT !.acked = TRUE] ELSE r
           rows == {Mark(r) : r \in inbox[p]}
<1>1. inbox' = [inbox EXCEPT ![p] = rows]
  BY DEF RecordAcks, AcknowledgedBatch
<1>2. \A r \in inbox[p] : /\ Mark(r).env = r.env /\ Mark(r).applied = r.applied
                          /\ Mark(r).receipted = r.receipted
  BY RowParts DEF TypeOK
<1> HIDE DEF Mark
<1>3. /\ \A r \in rows : \E s \in inbox[p] :
           s.env = r.env /\ s.applied = r.applied /\ s.receipted = r.receipted
      /\ \A s \in inbox[p] : \E r \in rows :
           s.env = r.env /\ s.applied = r.applied /\ s.receipted = r.receipted
  BY <1>2
<1> HIDE DEF rows
<1>4. inbox'[p] = rows /\ \A o \in Peers : o # p => inbox'[o] = inbox[o]
  BY <1>1, UpdateAt, Domains
<1> QED
  BY <1>3, <1>4

LEMMA AppliedRows ==
  ASSUME TypeOK, NEW p \in Peers, NEW e, Applied(p, e)
  PROVE  /\ \A r \in inbox'[p] : \E s \in inbox[p] :
              /\ s.env = r.env /\ (r.applied => s.applied \/ r.env = e)
              /\ (r.receipted => s.receipted \/ r.env = e)
         /\ \A s \in inbox[p] : \E r \in inbox'[p] :
              s.env = r.env /\ (r.applied => s.applied \/ r.env = e)
         /\ \A o \in Peers : o # p => inbox'[o] = inbox[o]
<1>1. CASE UNCHANGED inbox
  BY <1>1
<1>2. CASE \E r \in inbox[p] : r.env = e /\ ~r.applied
  <2> DEFINE Mark(r) == IF r.env = e THEN [r EXCEPT !.applied = TRUE, !.receipted = TRUE] ELSE r
             rows == {Mark(r) : r \in inbox[p]}
  <2>1. inbox' = [inbox EXCEPT ![p] = rows]
    BY <1>2 DEF Applied
  <2>2. \A r \in inbox[p] : /\ Mark(r).env = r.env
                            /\ (Mark(r).applied => r.applied \/ r.env = e)
                            /\ (Mark(r).receipted => r.receipted \/ r.env = e)
    BY RowParts DEF TypeOK
  <2> HIDE DEF Mark
  <2>3. /\ \A r \in rows : \E s \in inbox[p] :
             /\ s.env = r.env /\ (r.applied => s.applied \/ r.env = e)
             /\ (r.receipted => s.receipted \/ r.env = e)
        /\ \A s \in inbox[p] : \E r \in rows :
             s.env = r.env /\ (r.applied => s.applied \/ r.env = e)
    BY <2>2
  <2> HIDE DEF rows
  <2>4. inbox'[p] = rows /\ \A o \in Peers : o # p => inbox'[o] = inbox[o]
    BY <2>1, UpdateAt, Domains
  <2> QED
    BY <2>3, <2>4
<1> QED
  BY <1>1, <1>2 DEF Applied

LEMMA InboxMoves ==
  ASSUME PromiseInv, [Next]_vars, NEW o \in Peers
  PROVE  /\ \A r \in inbox'[o] :
              \/ \E s \in inbox[o] : s.env = r.env /\ (r.applied => s.applied \/ r.env \in inHand[o])
              \/ r.env \in Extant /\ r.env.to = o /\ ~r.applied
         /\ \A s \in inbox[o] :
              \/ \E r \in inbox'[o] : r.env = s.env
              \/ ~Live(s.env)' \/ Pair(s.env.from, o) \in cut'
<1>0. TypeOK
  BY DEF PromiseInv
<1>1. CASE UNCHANGED <<inbox, opened>>
  BY <1>1
<1>2. ASSUME NEW p \in Peers, RecordAcks(p)
      PROVE  /\ \A r \in inbox'[o] : \E s \in inbox[o] : s.env = r.env /\ (r.applied => s.applied)
             /\ \A s \in inbox[o] : \E r \in inbox'[o] : r.env = s.env
  <2>1. CASE o = p
    BY <1>0, <1>2, <2>1, AcksRows
  <2>2. CASE o # p
    BY <1>0, <1>2, <2>2, AcksRows
  <2> QED
    BY <2>1, <2>2
<1>3. ASSUME NEW p \in Peers, RecordApplied(p)
      PROVE  /\ \A r \in inbox'[o] : \E s \in inbox[o] :
                  s.env = r.env /\ (r.applied => s.applied \/ r.env \in inHand[o])
             /\ \A s \in inbox[o] : \E r \in inbox'[o] : r.env = s.env
  <2>1. PICK e \in inHand[p] : Applied(p, e) \/ UNCHANGED inbox
    BY <1>3 DEF RecordApplied, journalVars
  <2>2. CASE UNCHANGED inbox
    BY <2>2
  <2>3. CASE Applied(p, e) /\ o = p
    BY <1>0, <2>1, <2>3, AppliedRows
  <2>4. CASE Applied(p, e) /\ o # p
    BY <1>0, <2>1, <2>4, AppliedRows
  <2> QED
    BY <2>1, <2>2, <2>3, <2>4
<1>4. ASSUME NEW p \in Peers, PruneJournal(p)
      PROVE  /\ inbox'[o] \subseteq inbox[o]
             /\ \A s \in inbox[o] : s \in inbox'[o] \/ ~Live(s.env)'
  <2>1. inbox' = [inbox EXCEPT ![p] = {r \in @ : Live(r.env) \/ ~(r.applied /\ r.acked)}] /\ now' = now
    BY <1>4 DEF PruneJournal, Prune
  <2> QED
    BY <1>0, <2>1, UpdateAt, Domains DEF Live
<1>5. ASSUME NEW p \in Peers, NEW q \in Peers, Block(p, q, TRUE)
      PROVE  /\ inbox'[o] \subseteq inbox[o]
             /\ \A s \in inbox[o] : s \in inbox'[o] \/ Pair(s.env.from, o) \in cut'
  <2>1. inbox' = [inbox EXCEPT ![p] = {r \in @ : r.env.from # q}] /\ Pair(p, q) \in cut'
    BY <1>5 DEF Block, Forget
  <2>2. Pair(q, p) \in cut'
    BY <2>1 DEF Pair
  <2> QED
    BY <1>0, <2>1, <2>2, UpdateAt, Domains
<1>6. ASSUME NEW p \in Peers, NEW e, Receiving(p, e)
      PROVE  /\ \A r \in inbox'[o] : r \in inbox[o] \/ (r.env \in Extant /\ r.env.to = o /\ ~r.applied)
             /\ \A s \in inbox[o] : s \in inbox'[o]
  <2> DEFINE row == [env |-> e, applied |-> FALSE, acked |-> FALSE, receipted |-> FALSE]
  <2>1. inbox' = [inbox EXCEPT ![p] = @ \cup {row}] /\ e \in Extant /\ e.to = p
    BY <1>6 DEF Receiving, Receive
  <2>2. row.env = e /\ ~row.applied
    OBVIOUS
  <2> HIDE DEF row
  <2> QED
    BY <1>0, <2>1, <2>2, UpdateAt, Domains
<1>7. ASSUME NEW p \in Extended, EarlyReceipt(p)
      PROVE  /\ \A r \in inbox'[o] : \E s \in inbox[o] : s.env = r.env /\ (r.applied => s.applied)
             /\ \A s \in inbox[o] : \E r \in inbox'[o] : r.env = s.env
  <2>1. p \in Peers
    BY ExtProcess
  <2>2. PICK row \in inbox[p] : Received(p, row)
    BY <1>7 DEF EarlyReceipt, Unapplied
  <2> DEFINE told == [row EXCEPT !.receipted = TRUE]
  <2>3. told.env = row.env /\ told.applied = row.applied
    BY <1>0, <2>1, RowParts DEF TypeOK
  <2>4. inbox' = [inbox EXCEPT ![p] = (@ \ {row}) \cup {told}]
    BY <2>2 DEF Received
  <2> HIDE DEF told
  <2>5. inbox'[o] = IF o = p THEN (inbox[o] \ {row}) \cup {told} ELSE inbox[o]
    BY <1>0, <2>1, <2>4, UpdateAt, Domains
  <2> QED
    BY <2>1, <2>2, <2>3, <2>5
<1> QED
  BY <1>1, <1>2, <1>3, <1>4, <1>5, <1>6, <1>7, InboxSteps

\* The steps that touch an outbox.
Inserting(p, to, body, at) ==
  /\ InsertOutgoing(p, to, body, at)
  /\ \/ \E m \in Messages : sentAt[m] # 0 /\ body = Body(m) /\ at = sentAt[m]
     \/ \E m \in Written : body = Receipt(m) /\ at = now
  /\ UNCHANGED <<now, chain, sentAt>>

LEMMA ReceiptedInserts ==
  ASSUME PromiseInv, NEW p \in Peers, NEW row \in inbox[p], Receipted(p, row),
         UNCHANGED <<now, chain, sentAt>>
  PROVE  UNCHANGED <<outbox, issued, chain>> \/ \E to, body, at : Inserting(p, to, body, at)
<1>1. CASE UNCHANGED <<outbox, issued>>
  BY <1>1
<1>2. CASE /\ InsertOutgoing(p, row.env.from, Receipt(row.env.body.of), now)
            /\ row.env.body.kind = "message"
  <2>1. <<row.env.from, row.env.to, row.env.body>> \in Genuine
    BY DEF PromiseInv, InboxGenuine, Says
  <2>2. row.env.body.of \in Written
    BY <1>2, <2>1, GenuineMessage
  <2> QED
    BY <1>2, <2>2 DEF Inserting
<1> QED
  BY <1>1, <1>2 DEF Receipted

LEMMA OutboxSteps ==
  ASSUME PromiseInv, [Next]_vars
  PROVE  \/ UNCHANGED <<outbox, issued, chain>>
         \/ \E p \in Peers : PruneJournal(p)
         \/ \E p, q \in Peers : Block(p, q, TRUE)
         \/ \E x \in Processes : RecordUpload(x) \/ \E r \in Pending(x[1]) : SealRow(x, r)
         \/ \E p \in Peers : \E to, body, at : Inserting(p, to, body, at)
<1>1. ASSUME NEW p \in Peers, NEW q \in Peers, NEW flag \in BOOLEAN, Block(p, q, flag)
      PROVE  UNCHANGED <<outbox, issued, chain>> \/ Block(p, q, TRUE)
  BY <1>1 DEF Block, journalVars
<1>2. ASSUME NEW m \in Messages, Flush(m)
      PROVE  \E p \in Peers : \E to, body, at : Inserting(p, to, body, at)
  <2>1. m.from \in Peers /\ Inserting(m.from, m.to, Body(m), sentAt[m])
    BY <1>2, DeliveryAssumption DEF Flush, Enqueue, Inserting, engineVars
  <2> QED
    BY <2>1
<1>3. ASSUME NEW p \in Extended, EarlyReceipt(p)
      PROVE  \/ UNCHANGED <<outbox, issued, chain>>
             \/ \E to, body, at : Inserting(p, to, body, at)
  <2>1. PICK row \in inbox[p] : Received(p, row)
    BY <1>3 DEF EarlyReceipt, Unapplied
  <2>2. Receipted(p, row) /\ UNCHANGED <<now, chain, sentAt>> /\ p \in Peers
    BY <1>3, <2>1, ExtProcess DEF EarlyReceipt, Received, engineVars
  <2> QED
    BY <2>2, ReceiptedInserts
<1>4. ASSUME NEW p \in Peers, RecordApplied(p)
      PROVE  \/ UNCHANGED <<outbox, issued, chain>>
             \/ \E to, body, at : Inserting(p, to, body, at)
  <2>1. CASE UNCHANGED <<outbox, issued, chain>>
    BY <2>1
  <2>2. CASE \E e : Applied(p, e)
    <3>1. UNCHANGED <<now, chain, sentAt>>
      BY <1>4, <2>2 DEF RecordApplied, Applied, engineVars
    <3>2. PICK e : Applied(p, e)
      BY <2>2
    <3>3. UNCHANGED <<outbox, issued, chain>> \/ \E row \in inbox[p] : Receipted(p, row)
      BY <3>2 DEF Applied
    <3> QED
      BY <3>1, <3>3, ReceiptedInserts
  <2> QED
    BY <1>4, <2>1, <2>2 DEF RecordApplied, journalVars
<1>5. ASSUME NEW p \in Peers, NEW e, Receiving(p, e)
      PROVE  UNCHANGED <<outbox, issued, chain>>
  BY <1>5 DEF Receiving
<1>6. \/ UNCHANGED <<outbox, issued, chain>>
      \/ \E m \in Messages : Flush(m)
      \/ \E p \in Peers : \/ RecordApplied(p) \/ PruneJournal(p)
                          \/ \E q \in Peers, flag \in BOOLEAN : Block(p, q, flag)
      \/ \E p \in Extended : EarlyReceipt(p)
      \/ \E x \in Processes : RecordUpload(x) \/ \E r \in Pending(x[1]) : SealRow(x, r)
  <2>1. CASE Tick \/ UNCHANGED vars \/ \E m \in Messages : Send(m)
    BY <2>1 DEF vars, Tick, Send, journalVars
  <2>2. CASE \E p \in Peers : \/ PushBlock(p) \/ RecordBlock(p) \/ RecordAcks(p)
                              \/ \E row \in Unapplied(p) : Project(p, row)
    BY <2>2 DEF PushBlock, RecordBlock, RecordAcks, AcknowledgedBatch, Project, journalVars
  <2>3. CASE \/ \E p \in Peers : \E e \in buffer[p] : TakeEnvelope(p, e)
             \/ \E p \in Extended : ExtensionReceive(p)
    BY <2>3 DEF TakeEnvelope, ExtensionReceive, Receive, journalVars
  <2>4. CASE \E x \in Processes : \/ \E receive \in BOOLEAN : Post(x, receive)
                                  \/ Fetch(x) \/ Serve(x) \/ Refuse(x) \/ TimeOut(x) \/ Die(x)
    BY <2>4 DEF Post, Fetch, Serve, Refuse, TimeOut, Die, journalVars
  <2>5. CASE \E c \in late : ServeLate(c)
    BY <2>5 DEF ServeLate, journalVars
  <2> QED
    BY <2>1, <2>2, <2>3, <2>4, <2>5 DEF Next
<1> QED
  BY <1>1, <1>2, <1>3, <1>4, <1>6, ExtProcess

\* Two versions of a row that differ in its upload only.
SameRow(r, s) ==
  r.id = s.id /\ r.to = s.to /\ r.body = s.body /\ r.at = s.at /\ r.key = s.key

LEMMA SameRowEnvelope ==
  ASSUME NEW p, NEW r, NEW s, SameRow(r, s)
  PROVE  Envelope(p, r) = Envelope(p, s)
BY DEF SameRow, Envelope

LEMMA UploadRows ==
  ASSUME TypeOK, NEW x \in Processes, NEW e, Uploaded(x[1], e.id)
  PROVE  /\ \A o \in Peers : \A r \in outbox'[o] : \E s \in outbox[o] :
              SameRow(r, s) /\ (r.uploaded => s.uploaded \/ (o = x[1] /\ s.id = e.id))
         /\ \A o \in Peers : \A s \in outbox[o] : \E r \in outbox'[o] : SameRow(r, s)
         /\ RowsAreDistinct => RowsAreDistinct'
<1> DEFINE p == x[1]
           Mark(r) == IF r.id = e.id THEN [r EXCEPT !.uploaded = TRUE] ELSE r
           rows == {Mark(r) : r \in outbox[p]}
<1>1. p \in Peers
  BY ProcessOwner
<1>2. outbox' = [outbox EXCEPT ![p] = rows]
  BY DEF Uploaded
<1>3. ASSUME NEW r \in outbox[p]
      PROVE  SameRow(Mark(r), r) /\ (Mark(r).uploaded => r.uploaded \/ r.id = e.id)
  <2>1. r \in Row
    BY <1>1, <1>3 DEF TypeOK
  <2>2. /\ [r EXCEPT !.uploaded = TRUE].id = r.id /\ [r EXCEPT !.uploaded = TRUE].to = r.to
        /\ [r EXCEPT !.uploaded = TRUE].body = r.body /\ [r EXCEPT !.uploaded = TRUE].at = r.at
        /\ [r EXCEPT !.uploaded = TRUE].key = r.key
    BY <2>1 DEF Row
  <2> QED
    BY <2>2 DEF SameRow
<1> HIDE DEF Mark
<1>4. /\ \A r \in rows : \E s \in outbox[p] : SameRow(r, s) /\ (r.uploaded => s.uploaded \/ s.id = e.id)
      /\ \A s \in outbox[p] : \E r \in rows : SameRow(r, s)
  BY <1>3
<1>5. RowsAreDistinct => \A r, s \in rows : r.id = s.id => r = s
  BY <1>1, <1>3 DEF RowsAreDistinct, SameRow
<1> HIDE DEF rows, p
<1>6. outbox'[p] = rows /\ \A o \in Peers : o # p => outbox'[o] = outbox[o]
  BY <1>1, <1>2, UpdateAt, Domains
<1>7. \A o \in Peers : o # p =>
        /\ \A r \in outbox'[o] : SameRow(r, r) /\ r \in outbox[o]
        /\ \A s \in outbox[o] : SameRow(s, s) /\ s \in outbox'[o]
  BY <1>6 DEF SameRow
<1>8. RowsAreDistinct => RowsAreDistinct'
  BY <1>5, <1>6 DEF RowsAreDistinct
<1> QED
  BY <1>4, <1>6, <1>7, <1>8 DEF p

RowReplaced(p, r, s) ==
  /\ s \in outbox'[p]
  /\ \A o \in Peers : \A t \in outbox'[o] : (t \in outbox[o] /\ (o = p => t # r)) \/ (o = p /\ t = s)
  /\ \A o \in Peers : \A t \in outbox[o] : t \in outbox'[o] \/ (o = p /\ t = r)

KeyUsed(p, q) ==
  /\ chain'[p][q] = chain[p][q] + 1
  /\ \A o, u \in Peers : o # p \/ u # q => chain'[o][u] = chain[o][u]

LEMMA SealedRows ==
  ASSUME TypeOK, RowsAreDistinct, NEW x \in Processes, NEW r \in Pending(x[1]), SealRow(x, r)
  PROVE  \/ r.key # 0 /\ UNCHANGED <<outbox, chain, issued>>
         \/ /\ r.key = 0
            /\ \E s \in Row :
                 /\ s.id = r.id /\ s.to = r.to /\ s.body = r.body /\ s.at = r.at /\ ~s.uploaded
                 /\ s.key = chain[x[1]][r.to] + 1
                 /\ RowReplaced(x[1], r, s)
                 /\ {Envelope(x[1], t) : t \in {u \in outbox'[x[1]] : u.id = r.id}} = {Envelope(x[1], s)}
            /\ UNCHANGED issued
            /\ KeyUsed(x[1], r.to)
<1> DEFINE p == x[1]
<1>1. p \in Peers /\ r \in outbox[p] /\ r \in Row /\ ~r.uploaded
  BY ProcessOwner DEF Pending, TypeOK
<1>2. CASE r.key # 0
  BY <1>2 DEF SealRow, Seal
<1>3. CASE r.key = 0
  <2> DEFINE s == [r EXCEPT !.key = chain[p][r.to] + 1]
  <2>1. r.to \in Peers /\ chain[p][r.to] + 1 \in Nat
    BY <1>1 DEF TypeOK, Row
  <2>2. s = [id |-> r.id, to |-> r.to, body |-> r.body, at |-> r.at, key |-> chain[p][r.to] + 1,
             uploaded |-> r.uploaded]
    BY <1>1 DEF Row
  <2>3. outbox' = [outbox EXCEPT ![p] = (@ \ {r}) \cup {s}]
    BY <1>3 DEF SealRow, Seal
  <2>4. chain' = [chain EXCEPT ![p] = [chain[p] EXCEPT ![r.to] = @ + 1]]
    BY <1>3 DEF SealRow, Seal
  <2>5. /\ s \in Row /\ s.id = r.id /\ s.to = r.to /\ s.body = r.body /\ s.at = r.at /\ ~s.uploaded
        /\ s.key = chain[p][r.to] + 1
    BY <1>1, <2>1, <2>2 DEF Row
  <2> HIDE DEF s, p
  <2>6. RowReplaced(p, r, s)
    <3>1. outbox'[p] = (outbox[p] \ {r}) \cup {s} /\ \A o \in Peers : o # p => outbox'[o] = outbox[o]
      BY <1>1, <2>3, UpdateAt, Domains
    <3>2. \A o \in Peers : \A t \in outbox'[o] : (t \in outbox[o] /\ (o = p => t # r)) \/ (o = p /\ t = s)
      BY <3>1
    <3>3. \A o \in Peers : \A t \in outbox[o] : t \in outbox'[o] \/ (o = p /\ t = r)
      BY <3>1
    <3> QED
      BY <3>1, <3>2, <3>3 DEF RowReplaced
  <2>7. {u \in outbox'[p] : u.id = r.id} = {s}
    BY <1>1, <2>5, <2>6 DEF RowsAreDistinct, RowReplaced
  <2>8. {Envelope(p, t) : t \in {u \in outbox'[p] : u.id = r.id}} = {Envelope(p, s)}
    BY <2>7
  <2>9. KeyUsed(p, r.to)
    <3>1. DOMAIN chain = Peers /\ \A o \in Peers : DOMAIN chain[o] = Peers
      BY DEF TypeOK
    <3>2. chain'[p] = [chain[p] EXCEPT ![r.to] = @ + 1] /\ \A o \in Peers : o # p => chain'[o] = chain[o]
      BY <1>1, <2>4, <3>1
    <3>3. chain'[p][r.to] = chain[p][r.to] + 1 /\ \A u \in Peers : u # r.to => chain'[p][u] = chain[p][u]
      BY <1>1, <2>1, <3>1, <3>2
    <3> QED
      BY <3>2, <3>3 DEF KeyUsed
  <2>10. UNCHANGED issued
    BY DEF SealRow, Seal
  <2> QED
    BY <1>3, <2>5, <2>6, <2>8, <2>9, <2>10 DEF p
<1> QED
  BY <1>2, <1>3

RowAdded(p, new) ==
  /\ new \in outbox'[p]
  /\ \A o \in Peers : \A t \in outbox'[o] : t \in outbox[o] \/ (o = p /\ t = new)
  /\ \A o \in Peers : \A t \in outbox[o] : t \in outbox'[o]
  /\ issued'[p] = issued[p] + 1
  /\ \A o \in Peers : o # p => issued'[o] = issued[o]

LEMMA InsertedRows ==
  ASSUME TypeOK, NEW p \in Peers, NEW to, NEW body, NEW at, InsertOutgoing(p, to, body, at)
  PROVE  \/ UNCHANGED <<outbox, issued>>
         \/ /\ RowAdded(p, Fresh(p, to, body, at))
            /\ Fresh(p, to, body, at).id = issued[p] + 1 /\ Fresh(p, to, body, at).key = 0
            /\ Fresh(p, to, body, at).to = to /\ Fresh(p, to, body, at).body = body
            /\ Fresh(p, to, body, at).at = at /\ ~Fresh(p, to, body, at).uploaded
<1>1. CASE HasToken(p, to, body)
  BY <1>1 DEF InsertOutgoing
<1>2. CASE ~HasToken(p, to, body)
  <2> DEFINE new == Fresh(p, to, body, at)
  <2>1. /\ new.id = issued[p] + 1 /\ new.key = 0 /\ new.to = to /\ new.body = body
        /\ new.at = at /\ ~new.uploaded
    BY DEF Fresh
  <2>2. /\ outbox' = [outbox EXCEPT ![p] = @ \cup {new}]
        /\ issued' = [issued EXCEPT ![p] = @ + 1]
    BY <1>2 DEF InsertOutgoing
  <2> HIDE DEF new
  <2>3. outbox'[p] = outbox[p] \cup {new} /\ \A o \in Peers : o # p => outbox'[o] = outbox[o]
    BY <2>2, UpdateAt, Domains
  <2>4. issued'[p] = issued[p] + 1 /\ \A o \in Peers : o # p => issued'[o] = issued[o]
    BY <2>2 DEF TypeOK
  <2>5. RowAdded(p, new)
    BY <2>3, <2>4 DEF RowAdded
  <2> QED
    BY <2>1, <2>5 DEF new
<1> QED
  BY <1>1, <1>2

-----------------------------------------------------------------------------
(* Where ciphertexts come from                                               *)

\* A ciphertext that the step makes: its row had none, and its key is the next.
SealedNow(e) ==
  \E p \in Peers : \E r \in outbox[p] : \E s \in outbox'[p] :
    /\ r.key = 0 /\ s.id = r.id /\ s.to = r.to /\ s.at = r.at /\ s.key = chain[p][r.to] + 1
    /\ e = Envelope(p, s)

LEMMA SealedFields ==
  ASSUME NEW p, NEW s, NEW e, e = Envelope(p, s)
  PROVE  e.from = p /\ e.to = s.to /\ e.id = s.id /\ e.at = s.at /\ e.key = s.key
BY DEF Envelope

LEMMA SealExtant ==
  ASSUME TypeOK, RowsAreDistinct, NEW x \in Processes, NEW r \in Pending(x[1]), SealRow(x, r)
  PROVE  /\ \A s \in outbox'[x[1]] : s.key # 0 =>
              Envelope(x[1], s) \in Extant \/ SealedNow(Envelope(x[1], s))
         /\ \A e \in {Envelope(x[1], s) : s \in {t \in outbox'[x[1]] : t.id = r.id}} :
              e \in Extant \/ SealedNow(e)
<1> DEFINE p == x[1]
<1>1. p \in Peers /\ r \in outbox[p]
  BY ProcessOwner DEF Pending
<1>2. CASE r.key # 0 /\ UNCHANGED <<outbox, chain, issued>>
  <2>1. \A s \in outbox[p] : s.key # 0 => Envelope(p, s) \in Extant
    BY <1>1, ExtantHas
  <2>2. \A s \in outbox[p] : s.id = r.id => s = r
    BY <1>1 DEF RowsAreDistinct
  <2> HIDE DEF p
  <2>3. outbox' = outbox /\ r.key # 0
    BY <1>2
  <2>4. \A e \in {Envelope(p, s) : s \in {t \in outbox'[p] : t.id = r.id}} : e = Envelope(p, r)
    BY <2>2, <2>3
  <2>5. Envelope(p, r) \in Extant
    BY <1>1, <2>1, <2>3
  <2> QED
    BY <2>1, <2>3, <2>4, <2>5 DEF p
<1>3. ASSUME r.key = 0,
             NEW s \in Row,
             s.id = r.id /\ s.to = r.to /\ s.body = r.body /\ s.at = r.at /\ ~s.uploaded,
             s.key = chain[x[1]][r.to] + 1,
             RowReplaced(x[1], r, s),
             {Envelope(x[1], t) : t \in {u \in outbox'[x[1]] : u.id = r.id}} = {Envelope(x[1], s)}
      PROVE  /\ \A t \in outbox'[p] : t.key # 0 =>
                  Envelope(p, t) \in Extant \/ SealedNow(Envelope(p, t))
             /\ \A e \in {Envelope(p, t) : t \in {u \in outbox'[p] : u.id = r.id}} : SealedNow(e)
  <2> DEFINE new == Envelope(p, s)
  <2>1. s \in outbox'[p]
    BY <1>3 DEF RowReplaced
  <2> HIDE DEF new
  <2>2. SealedNow(new)
    BY <1>1, <1>3, <2>1 DEF SealedNow, new
  <2>3. \A t \in outbox'[p] : t = s \/ t \in outbox[p]
    BY <1>1, <1>3 DEF RowReplaced
  <2> QED
    BY <1>1, <1>3, <2>2, <2>3, ExtantHas DEF new
<1>4. ASSUME ~(r.key # 0 /\ UNCHANGED <<outbox, chain, issued>>)
      PROVE  \E s \in Row :
               /\ r.key = 0
               /\ s.id = r.id /\ s.to = r.to /\ s.body = r.body /\ s.at = r.at /\ ~s.uploaded
               /\ s.key = chain[x[1]][r.to] + 1
               /\ RowReplaced(x[1], r, s)
               /\ {Envelope(x[1], t) : t \in {u \in outbox'[x[1]] : u.id = r.id}} = {Envelope(x[1], s)}
  BY <1>4, SealedRows
<1> HIDE DEF p
<1> QED
  BY <1>2, <1>3, <1>4 DEF p

LEMMA OutboxExtant ==
  ASSUME PromiseInv, RowsAreDistinct, [Next]_vars, NEW o \in Peers, NEW r \in outbox'[o], r.key # 0
  PROVE  Envelope(o, r) \in Extant \/ SealedNow(Envelope(o, r))
<1>0. TypeOK
  BY DEF PromiseInv
<1>1. CASE r \in outbox[o]
  BY <1>1, ExtantHas
<1>2. CASE \E p \in Peers : PruneJournal(p)
  <2>1. r \in outbox[o]
    BY <1>0, <1>2, UpdateAt, Domains DEF PruneJournal, Prune
  <2> QED
    BY <1>1, <2>1
<1>3. CASE \E p, q \in Peers : Block(p, q, TRUE)
  <2>1. r \in outbox[o]
    BY <1>0, <1>3, UpdateAt, Domains DEF Block, Forget
  <2> QED
    BY <1>1, <2>1
<1>4. ASSUME NEW x \in Processes, RecordUpload(x)
      PROVE  Envelope(o, r) \in Extant
  <2>1. PICK e \in call[x].envs : Uploaded(x[1], e.id)
    BY <1>4 DEF RecordUpload
  <2>2. PICK s \in outbox[o] : SameRow(r, s)
    BY <1>0, <2>1, UploadRows
  <2>3. s.key # 0 /\ Envelope(o, r) = Envelope(o, s)
    BY <2>2, SameRowEnvelope DEF SameRow
  <2> QED
    BY <2>3, ExtantHas
<1>5. ASSUME NEW x \in Processes, NEW s \in Pending(x[1]), SealRow(x, s)
      PROVE  Envelope(o, r) \in Extant \/ SealedNow(Envelope(o, r))
  <2>1. CASE o = x[1]
    BY <1>0, <1>5, <2>1, SealExtant
  <2>2. CASE o # x[1]
    <3>1. r \in outbox[o]
      BY <1>0, <1>5, <2>2, SealedRows DEF RowReplaced
    <3> QED
      BY <1>1, <3>1
  <2> QED
    BY <2>1, <2>2
<1>6. ASSUME NEW p \in Peers, NEW to, NEW body, NEW at, Inserting(p, to, body, at)
      PROVE  Envelope(o, r) \in Extant
  <2>1. InsertOutgoing(p, to, body, at)
    BY <1>6 DEF Inserting
  <2> DEFINE new == Fresh(p, to, body, at)
  <2>2. UNCHANGED outbox \/ (new.key = 0 /\ RowAdded(p, new))
    BY <1>0, <2>1, InsertedRows
  <2> HIDE DEF new
  <2>3. r \in outbox[o]
    BY <2>2 DEF RowAdded
  <2> QED
    BY <2>3, ExtantHas
<1>7. CASE UNCHANGED <<outbox, issued, chain>>
  BY <1>1, <1>7
<1> QED
  BY <1>2, <1>3, <1>4, <1>5, <1>6, <1>7, OutboxSteps

LEMMA StoreExtant ==
  ASSUME TypeOK, [Next]_vars, NEW r \in receipts'
  PROVE  r.env \in Extant
<1>1. CASE UNCHANGED receipts
  BY <1>1, ExtantHas
<1>2. ASSUME NEW k \in Commands, Run(k[1], k[2])
      PROVE  r.env \in Extant
  <2>1. r.env \in k[2].envs \/ \E q \in receipts : q.env = r.env
    BY <1>2, CommandTypes, ServiceTypes
  <2>2. \A e \in k[2].envs : e \in Extant
    BY ExtantHas DEF Commands
  <2> QED
    BY <2>1, <2>2, ExtantHas
<1> QED
  BY <1>1, <1>2, StoreStep

LEMMA CallExtant ==
  ASSUME PromiseInv, TypeOK', RowsAreDistinct, [Next]_vars, NEW x \in Processes,
         NEW e \in call'[x].envs \cup call'[x].inbox \cup call'[x].acks
  PROVE  e \in Extant \/ SealedNow(e)
<1>0. TypeOK /\ x[1] \in Peers /\ call[x] \in Call
  BY ProcessOwner DEF PromiseInv, TypeOK
<1>1. \A f \in call[x].envs \cup call[x].inbox \cup call[x].acks : f \in Extant
  BY ExtantHas
<1>2. CASE call'[x] = call[x]
  BY <1>1, <1>2
<1>3. CASE Emptied(call'[x]) \/ Told(x)
  BY <1>3 DEF Emptied, Told
<1>4. CASE Asked(x)
  <2>1. \A a \in Acknowledgements(x[1]) : a \in Extant
    BY <1>0, ExtantHas DEF Acknowledgements
  <2> QED
    BY <1>1, <1>4, <2>1 DEF Asked
<1>5. CASE Answered(x)
  <2>1. \A f \in SyncInbox(x[1], call[x].envs, call[x].acks) : f \in Extant
    BY <1>0, <1>1, SyncInboxTypes, ExtantHas
  <2> QED
    BY <1>1, <1>5, <2>1 DEF Answered
<1>6. CASE Recorded(x)
  BY <1>1, <1>6 DEF Recorded
<1>7. CASE Sealing(x)
  BY <1>0, <1>7, SealExtant DEF Sealing
<1> QED
  BY <1>0, <1>2, <1>3, <1>4, <1>5, <1>6, <1>7, CallStep

\* Every ciphertext of the next state was there, but for the one just sealed.
LEMMA ExtantStep ==
  ASSUME PromiseInv, TypeOK', RowsAreDistinct, [Next]_vars, NEW e \in Extant'
  PROVE  e \in Extant \/ SealedNow(e)
<1>0. TypeOK
  BY DEF PromiseInv
<1>1. CASE e \in InStore'
  BY <1>0, <1>1, StoreExtant DEF InStore
<1>2. CASE e \in InInboxes'
  <2>1. PICK p \in Peers : \E r \in inbox'[p] : r.env = e
    BY <1>2 DEF InInboxes
  <2>2. e \in Extant \/ \E s \in inbox[p] : s.env = e
    BY <2>1, InboxMoves
  <2> QED
    BY <2>2, ExtantHas
<1>3. CASE e \in InOutboxes'
  <2>1. PICK p \in Peers : \E r \in outbox'[p] : r.key # 0 /\ Envelope(p, r) = e
    BY <1>3 DEF InOutboxes, Envelope
  <2> QED
    BY <2>1, OutboxExtant
<1>4. CASE e \in InMemory'
  <2>1. PICK p \in Peers : e \in buffer'[p] \cup inHand'[p]
    BY <1>4 DEF InMemory
  <2>2. \/ e \in buffer[p] \cup inHand[p] \cup call[<<p, "app">>].inbox
        \/ \E row \in inbox[p] : e = row.env
    BY <1>0, <2>1, MemoryStep DEF Unapplied
  <2>3. <<p, "app">> \in Processes
    BY AppProcess
  <2> QED
    BY <2>2, <2>3, ExtantHas
<1>5. CASE e \in InCalls'
  <2>1. PICK x \in Processes : e \in call'[x].envs \cup call'[x].inbox \cup call'[x].acks
    BY <1>5 DEF InCalls
  <2> QED
    BY <2>1, CallExtant
<1>6. CASE e \in InLate'
  <2>1. PICK c \in late' : e \in c.cmd.envs \cup c.cmd.inbox \cup c.cmd.acks
    BY <1>6 DEF InLate
  <2>2. c \in late \/ \E x \in Processes : c.cmd = call[x]
    BY <2>1, LateStep
  <2> QED
    BY <2>1, <2>2, ExtantHas
<1> QED
  BY <1>1, <1>2, <1>3, <1>4, <1>5, <1>6 DEF Extant

-----------------------------------------------------------------------------
(* A key seals one envelope                                                  *)

\* A step that draws no number and makes no ciphertext.
LEMMA KindsStay ==
  ASSUME KindInv, TypeOK, Extant' \subseteq Extant, RowsAreDistinct',
         \A p \in Peers : \A r \in outbox'[p] : \E s \in outbox[p] : s.id = r.id /\ s.key = r.key,
         UNCHANGED <<chain, issued>>
  PROVE  KindInv'
<1>1. NumbersAreDrawn'
  BY DEF KindInv, NumbersAreDrawn
<1>2. UnsealedIsNowhere'
  BY DEF KindInv, UnsealedIsNowhere
<1>3. OneOfAKind'
  BY DEF KindInv, OneOfAKind
<1> QED
  BY <1>1, <1>2, <1>3 DEF KindInv

\* A row that is new has an id that nothing has.
LEMMA KindsGrow ==
  ASSUME KindInv, TypeOK, Extant' \subseteq Extant, NEW p \in Peers, NEW new,
         new.id = issued[p] + 1, new.key = 0, UNCHANGED chain, RowAdded(p, new)
  PROVE  KindInv'
<1>1. \A o \in Peers : issued[o] \in Nat /\ \A r \in outbox[o] : r.id \in Nat /\ r.id <= issued[o]
  BY DEF TypeOK, Row, KindInv, NumbersAreDrawn
<1>2. \A e \in Extant : e.id \in Nat /\ e.from \in Peers /\ e.id <= issued[e.from]
  BY ExtantType DEF Ciphertext, KindInv, NumbersAreDrawn
<1>3. \A o \in Peers : issued[o] <= issued'[o] /\ issued'[o] \in Nat
  BY <1>1 DEF RowAdded
<1>4. \A r \in outbox[p] : r.id # new.id
  BY <1>1
<1>5. RowsAreDistinct'
  <2>1. ASSUME NEW o \in Peers, NEW r \in outbox'[o], NEW s \in outbox'[o], r.id = s.id
        PROVE  r = s
    <3>1. CASE r \in outbox[o] /\ s \in outbox[o]
      BY <2>1, <3>1 DEF KindInv, RowsAreDistinct
    <3>2. CASE o = p /\ r = new
      BY <1>4, <2>1, <3>2 DEF RowAdded
    <3>3. CASE o = p /\ s = new
      BY <1>4, <2>1, <3>3 DEF RowAdded
    <3> QED
      BY <3>1, <3>2, <3>3 DEF RowAdded
  <2> QED
    BY <2>1 DEF RowsAreDistinct
<1>6. NumbersAreDrawn'
  <2>1. ASSUME NEW o \in Peers, NEW r \in outbox'[o]
        PROVE  r.id <= issued'[o]
    <3>1. CASE r \in outbox[o]
      BY <1>1, <1>3, <3>1
    <3>2. CASE o = p /\ r = new
      BY <1>1, <3>2 DEF RowAdded
    <3> QED
      BY <3>1, <3>2 DEF RowAdded
  <2>2. \A e \in Extant : e.id <= issued'[e.from]
    BY <1>1, <1>2, <1>3
  <2> QED
    BY <2>1, <2>2 DEF KindInv, NumbersAreDrawn
<1>7. UnsealedIsNowhere'
  <2>1. ASSUME NEW o \in Peers, NEW r \in outbox'[o], r.key = 0, NEW e \in Extant, e.from = o
        PROVE  e.id # r.id
    <3>1. CASE r \in outbox[o]
      BY <2>1, <3>1 DEF KindInv, UnsealedIsNowhere
    <3>2. CASE o = p /\ r = new
      BY <1>1, <1>2, <2>1, <3>2
    <3> QED
      BY <3>1, <3>2 DEF RowAdded
  <2> QED
    BY <2>1 DEF UnsealedIsNowhere
<1>8. OneOfAKind'
  BY DEF KindInv, OneOfAKind
<1> QED
  BY <1>5, <1>6, <1>7, <1>8 DEF KindInv

\* Sealing takes the next key for a row whose id nothing has.
LEMMA KindsSeal ==
  ASSUME KindInv, TypeOK, TypeOK', NEW p \in Peers, NEW r \in outbox[p], NEW s \in Row, NEW new \in Ciphertext,
         r.key = 0, s.id = r.id, s.to = r.to, s.key = chain[p][r.to] + 1,
         new.from = p, new.to = r.to, new.id = r.id, new.key = s.key,
         \A e \in Extant' : e \in Extant \/ e = new,
         RowReplaced(p, r, s), KeyUsed(p, r.to), UNCHANGED issued
  PROVE  KindInv'
<1>1. r \in Row /\ r.to \in Peers /\ r.id <= issued[p] /\ issued[p] \in Nat
  BY DEF TypeOK, Row, KindInv, NumbersAreDrawn
<1>2. \A o, q \in Peers : chain[o][q] \in Nat /\ chain'[o][q] \in Nat /\ chain[o][q] <= chain'[o][q]
  <2>1. \A o, q \in Peers : chain[o][q] \in Nat /\ chain'[o][q] \in Nat
    BY DEF TypeOK
  <2> QED
    BY <1>1, <2>1 DEF KeyUsed
<1>3. \A e \in Extant : /\ e.from \in Peers /\ e.to \in Peers /\ e.key \in Nat /\ e.id \in Nat
                        /\ 0 < e.key /\ e.key <= chain[e.from][e.to] /\ e.id <= issued[e.from]
  BY ExtantType DEF Ciphertext, KindInv, NumbersAreDrawn
<1>4. chain[p][r.to] \in Nat /\ chain'[p][r.to] = chain[p][r.to] + 1 /\ s.key \in Nat /\ s.key # 0
  BY <1>1, <1>2 DEF KeyUsed
<1>5. \A e \in Extant : e.from = p => e.id # r.id
  BY DEF KindInv, UnsealedIsNowhere
<1>6. \A t \in outbox[p] : t.id = r.id => t = r
  BY DEF KindInv, RowsAreDistinct
<1>7. RowsAreDistinct'
  <2>1. ASSUME NEW o \in Peers, NEW t \in outbox'[o], NEW u \in outbox'[o], t.id = u.id
        PROVE  t = u
    <3>1. CASE t \in outbox[o] /\ u \in outbox[o]
      BY <2>1, <3>1 DEF KindInv, RowsAreDistinct
    <3>2. CASE o = p /\ t = s
      BY <1>6, <2>1, <3>2 DEF RowReplaced
    <3>3. CASE o = p /\ u = s
      BY <1>6, <2>1, <3>3 DEF RowReplaced
    <3> QED
      BY <3>1, <3>2, <3>3 DEF RowReplaced
  <2> QED
    BY <2>1 DEF RowsAreDistinct
<1>8. NumbersAreDrawn'
  <2>1. ASSUME NEW o \in Peers, NEW t \in outbox'[o]
        PROVE  t.id <= issued[o]
    <3>1. CASE t \in outbox[o]
      BY <3>1 DEF KindInv, NumbersAreDrawn
    <3>2. CASE o = p /\ t = s
      BY <1>1, <3>2
    <3> QED
      BY <3>1, <3>2 DEF RowReplaced
  <2>2. ASSUME NEW e \in Extant
        PROVE  e.id <= issued[e.from] /\ 0 < e.key /\ e.key <= chain'[e.from][e.to]
    BY <1>2, <1>3
  <2>3. new.id <= issued[new.from] /\ 0 < new.key /\ new.key <= chain'[new.from][new.to]
    BY <1>1, <1>4
  <2> QED
    BY <2>1, <2>2, <2>3 DEF NumbersAreDrawn
<1>9. UnsealedIsNowhere'
  <2>1. ASSUME NEW o \in Peers, NEW t \in outbox'[o], t.key = 0, NEW e \in Extant', e.from = o
        PROVE  e.id # t.id
    <3>1. t \in outbox[o] /\ (o = p => t.id # r.id)
      BY <1>4, <1>6, <2>1 DEF RowReplaced
    <3>2. CASE e \in Extant
      BY <2>1, <3>1, <3>2 DEF KindInv, UnsealedIsNowhere
    <3>3. CASE e = new
      BY <2>1, <3>1, <3>3
    <3> QED
      BY <3>2, <3>3
  <2> QED
    BY <2>1 DEF UnsealedIsNowhere
<1>10. OneOfAKind'
  <2>1. ASSUME NEW e \in Extant, e.from = new.from, e.id = new.id \/ (e.to = new.to /\ e.key = new.key)
        PROVE  FALSE
    BY <1>3, <1>4, <1>5, <2>1
  <2> QED
    BY <2>1 DEF KindInv, OneOfAKind
<1> QED
  BY <1>7, <1>8, <1>9, <1>10 DEF KindInv

\* Rows that only move or change their upload seal nothing.
LEMMA NothingSealed ==
  ASSUME PromiseInv, TypeOK', RowsAreDistinct, [Next]_vars,
         \A p \in Peers : \A r \in outbox'[p] : r.key # 0 =>
           \E s \in outbox[p] : s.id = r.id /\ s.key = r.key
  PROVE  Extant' \subseteq Extant
<1>1. ASSUME NEW e, SealedNow(e)
      PROVE  FALSE
  <2>1. PICK p \in Peers : \E r \in outbox[p] : \E s \in outbox'[p] :
          r.key = 0 /\ s.id = r.id /\ r.to \in Peers /\ s.key = chain[p][r.to] + 1
    BY <1>1 DEF SealedNow, PromiseInv, TypeOK, Row
  <2>2. PICK r \in outbox[p] : \E s \in outbox'[p] :
          r.key = 0 /\ s.id = r.id /\ r.to \in Peers /\ s.key = chain[p][r.to] + 1
    BY <2>1
  <2>3. PICK s \in outbox'[p] : r.key = 0 /\ s.id = r.id /\ r.to \in Peers /\ s.key = chain[p][r.to] + 1
    BY <2>2
  <2>4. chain[p][r.to] \in Nat
    BY <2>3 DEF PromiseInv, TypeOK
  <2>5. s.key # 0
    BY <2>3, <2>4
  <2>6. PICK t \in outbox[p] : t.id = s.id /\ t.key = s.key
    BY <2>5
  <2>7. t = r
    BY <2>3, <2>6 DEF RowsAreDistinct
  <2> QED
    BY <2>3, <2>5, <2>6, <2>7
<1> QED
  BY <1>1, ExtantStep

LEMMA KindsNext ==
  ASSUME PromiseInv, TypeOK', KindInv, [Next]_vars
  PROVE  KindInv'
<1>0. TypeOK /\ RowsAreDistinct
  BY DEF PromiseInv, KindInv
<1>1. ASSUME UNCHANGED <<chain, issued>>, RowsAreDistinct',
             \A p \in Peers : \A r \in outbox'[p] : \E s \in outbox[p] : s.id = r.id /\ s.key = r.key
      PROVE  KindInv'
  <2>1. Extant' \subseteq Extant
    BY <1>0, <1>1, NothingSealed
  <2> QED
    BY <1>0, <1>1, <2>1, KindsStay
<1>2. ASSUME UNCHANGED <<chain, issued>>, \A p \in Peers : outbox'[p] \subseteq outbox[p]
      PROVE  KindInv'
  <2>1. RowsAreDistinct'
    BY <1>0, <1>2 DEF RowsAreDistinct
  <2> QED
    BY <1>1, <1>2, <2>1
<1>3. CASE UNCHANGED <<outbox, issued, chain>>
  BY <1>2, <1>3
<1>4. ASSUME NEW p \in Peers, PruneJournal(p)
      PROVE  KindInv'
  BY <1>0, <1>2, <1>4, UpdateAt, Domains DEF PruneJournal, Prune
<1>5. ASSUME NEW p \in Peers, NEW q \in Peers, Block(p, q, TRUE)
      PROVE  KindInv'
  BY <1>0, <1>2, <1>5, UpdateAt, Domains DEF Block, Forget
<1>6. ASSUME NEW x \in Processes, RecordUpload(x)
      PROVE  KindInv'
  <2>1. PICK e \in call[x].envs : Uploaded(x[1], e.id)
    BY <1>6 DEF RecordUpload
  <2>2. UNCHANGED <<chain, issued>>
    BY <2>1 DEF Uploaded
  <2>3. RowsAreDistinct' /\ \A p \in Peers : \A r \in outbox'[p] : \E s \in outbox[p] : SameRow(r, s)
    BY <1>0, <2>1, UploadRows
  <2> QED
    BY <1>1, <2>2, <2>3 DEF SameRow
<1>7. ASSUME NEW p \in Peers, NEW to, NEW body, NEW at, Inserting(p, to, body, at)
      PROVE  KindInv'
  <2>1. InsertOutgoing(p, to, body, at) /\ UNCHANGED chain
    BY <1>7 DEF Inserting
  <2>2. CASE UNCHANGED <<outbox, issued>>
    BY <1>3, <2>1, <2>2
  <2> DEFINE new == Fresh(p, to, body, at)
  <2>3. CASE /\ RowAdded(p, new)
             /\ new.id = issued[p] + 1 /\ new.key = 0
    <3> HIDE DEF new
    <3>1. \A o \in Peers : \A r \in outbox'[o] : r.key # 0 => r \in outbox[o]
      BY <2>3 DEF RowAdded
    <3>2. Extant' \subseteq Extant
      BY <1>0, <3>1, NothingSealed
    <3> QED
      BY <1>0, <2>1, <2>3, <3>2, KindsGrow
  <2> QED
    BY <1>0, <2>1, <2>2, <2>3, InsertedRows
<1>8. ASSUME NEW x \in Processes, NEW r \in Pending(x[1]), SealRow(x, r)
      PROVE  KindInv'
  <2>1. x[1] \in Peers /\ r \in outbox[x[1]]
    BY ProcessOwner DEF Pending
  <2>2. CASE r.key # 0 /\ UNCHANGED <<outbox, chain, issued>>
    BY <1>3, <2>2
  <2>3. ASSUME r.key = 0, NEW s \in Row,
               s.id = r.id /\ s.to = r.to /\ s.key = chain[x[1]][r.to] + 1,
               RowReplaced(x[1], r, s), KeyUsed(x[1], r.to), UNCHANGED issued
        PROVE  KindInv'
    <3> DEFINE new == Envelope(x[1], s)
    <3>1. new \in Ciphertext
      BY <2>1, EnvelopeType
    <3>2. new.from = x[1] /\ new.to = r.to /\ new.id = r.id /\ new.key = s.key
      BY <2>3, SealedFields
    <3>3. ASSUME NEW e \in Extant', e \notin Extant
          PROVE  e = new
      <4>1. SealedNow(e)
        BY <1>0, <3>3, ExtantStep
      <4>2. PICK p \in Peers : \E t \in outbox[p] : \E u \in outbox'[p] :
              t.key = 0 /\ u.id = t.id /\ t.to \in Peers /\ u.key = chain[p][t.to] + 1 /\ e = Envelope(p, u)
        BY <1>0, <4>1 DEF SealedNow, TypeOK, Row
      <4>3. PICK t \in outbox[p] : \E u \in outbox'[p] :
              t.key = 0 /\ u.id = t.id /\ t.to \in Peers /\ u.key = chain[p][t.to] + 1 /\ e = Envelope(p, u)
        BY <4>2
      <4>4. PICK u \in outbox'[p] :
              t.key = 0 /\ u.id = t.id /\ t.to \in Peers /\ u.key = chain[p][t.to] + 1 /\ e = Envelope(p, u)
        BY <4>3
      <4>5. chain[p][t.to] \in Nat
        BY <1>0, <4>4 DEF TypeOK
      <4>6. u \notin outbox[p]
        BY <1>0, <4>4, <4>5 DEF RowsAreDistinct
      <4>7. p = x[1] /\ u = s
        BY <2>3, <4>6 DEF RowReplaced
      <4> QED
        BY <4>4, <4>7
    <3> HIDE DEF new
    <3> QED
      BY <1>0, <2>1, <2>3, <3>1, <3>2, <3>3, KindsSeal
  <2> QED
    BY <1>0, <1>8, <2>2, <2>3, SealedRows
<1> QED
  BY <1>3, <1>4, <1>5, <1>6, <1>7, <1>8, OutboxSteps

LEMMA KindsInit == Init => KindInv
<1> SUFFICES ASSUME Init
             PROVE  KindInv
  OBVIOUS
<1>1. \A p \in Peers : outbox[p] = {} /\ inbox[p] = {} /\ buffer[p] = {} /\ inHand[p] = {}
  BY DEF Init, JournalInit
<1>2. \A x \in Processes : call[x].envs = {} /\ call[x].inbox = {} /\ call[x].acks = {}
  BY DEF Init, Idle
<1>3. receipts = {} /\ late = {}
  BY DEF Init, StoreInit
<1>4. Extant = {}
  BY <1>1, <1>2, <1>3 DEF Extant, InStore, InInboxes, InOutboxes, InMemory, InCalls, InLate
<1> QED
  BY <1>1, <1>4 DEF KindInv, RowsAreDistinct, NumbersAreDrawn, UnsealedIsNowhere, OneOfAKind

THEOREM KindInvariant == Spec => []KindInv
<1>1. KindInv /\ PromiseInv /\ PromiseInv' /\ [Next]_vars => KindInv'
  BY KindsNext DEF PromiseInv
<1> QED
  BY <1>1, KindsInit, PromiseInvariant, PTL DEF Spec

LEMMA CiphertextsAreExtant == Ciphertexts \subseteq Extant
<1> DEFINE A == {r.env : r \in receipts}
           B == UNION {{r.env : r \in inbox[p]} : p \in Peers}
           C == UNION {{Envelope(p, r) : r \in {s \in outbox[p] : s.key # 0}} : p \in Peers}
           D == UNION {buffer[p] : p \in Peers}
           E == UNION {call[x].envs : x \in Processes}
           F == UNION {c.cmd.envs : c \in late}
<1>1. \A e \in A \cup B : e \in Extant
  BY ExtantHas
<1>2. \A e \in C : e \in Extant
  BY ExtantHas
<1>3. \A e \in D \cup E \cup F : e \in Extant
  BY ExtantHas
<1>4. ASSUME NEW e \in Ciphertexts
      PROVE  e \in A \cup B \cup C \cup D \cup E \cup F
  BY ONLY e \in Ciphertexts, Zenon DEF Ciphertexts
<1> HIDE DEF A, B, C, D, E, F
<1> QED
  BY <1>1, <1>2, <1>3, <1>4

\* No message key seals two envelopes and no envelope is sealed twice, whichever
\* process of a device uploads it, however often, and after any crash
\* (SignalJournal.sealed).
THEOREM OneSeal == Spec => []SealedOnce
<1>1. KindInv => SealedOnce
  BY CiphertextsAreExtant DEF KindInv, OneOfAKind, SealedOnce
<1> QED
  BY <1>1, KindInvariant, PTL

-----------------------------------------------------------------------------
(* What the service does to its rows *)

\* Row r is what an operation that acknowledges acks leaves of row q.
SameReceipt(q, r, acks) ==
  /\ r.env = q.env /\ r.expires = q.expires
  /\ q.delivered => r.delivered
  /\ r.delivered => q.delivered \/ \E a \in acks : SameKey(a, r.env)

LEMMA AcknowledgedRows ==
  ASSUME NEW W, NEW p, NEW acks, W \subseteq StoredReceipt
  PROVE  /\ \A r \in Acknowledged(W, p, acks) : \E q \in W : SameReceipt(q, r, acks)
         /\ \A q \in W : \E r \in Acknowledged(W, p, acks) : SameReceipt(q, r, acks)
<1> DEFINE Mark(q) == IF q.env.to = p /\ \E a \in acks : SameKey(a, q.env)
                      THEN [q EXCEPT !.delivered = TRUE] ELSE q
<1>1. ASSUME NEW q \in W
      PROVE  SameReceipt(q, Mark(q), acks)
  <2>1. q \in StoredReceipt
    OBVIOUS
  <2>2. /\ [q EXCEPT !.delivered = TRUE].env = q.env
        /\ [q EXCEPT !.delivered = TRUE].expires = q.expires
        /\ [q EXCEPT !.delivered = TRUE].delivered = TRUE
    BY <2>1 DEF StoredReceipt
  <2>3. CASE q.env.to = p /\ \E a \in acks : SameKey(a, q.env)
    BY <2>2, <2>3 DEF SameReceipt
  <2>4. CASE ~(q.env.to = p /\ \E a \in acks : SameKey(a, q.env))
    BY <2>4 DEF SameReceipt
  <2> QED
    BY <2>3, <2>4
<1>2. Acknowledged(W, p, acks) = {Mark(q) : q \in W}
  BY DEF Acknowledged
<1> HIDE DEF Mark
<1> QED
  BY <1>1, <1>2

\* Envelope e was accepted, and this is the row it got if it was not known.
NewReceipt(r, e, acks) ==
  /\ r.env = e /\ r.expires = Deadline(e)
  /\ r.delivered => \E a \in acks : SameKey(a, e)

LEMMA WrittenRows ==
  ASSUME TypeOK, NEW p \in Peers, NEW envs \in SUBSET Ciphertext, NEW acks,
         \A e, f \in envs : e = f
  PROVE  /\ \A r \in AfterWrites(p, envs, acks) :
              \/ \E q \in receipts : SameReceipt(q, r, acks)
              \/ \E e \in envs : NewReceipt(r, e, acks)
         /\ \A q \in receipts :
              \/ q.expires <= now
              \/ \E r \in AfterWrites(p, envs, acks) : SameReceipt(q, r, acks)
         /\ \A e \in envs :
              \/ \E q \in Previous(receipts, e) : TRUE
              \/ \E r \in AfterWrites(p, envs, acks) : NewReceipt(r, e, acks)
<1> DEFINE W == IF envs = {} THEN receipts ELSE Submitted(receipts, CHOOSE e \in envs : TRUE)
<1>1. AfterWrites(p, envs, acks) = Acknowledged(W, p, acks)
  BY DEF AfterWrites
<1>2. CASE envs = {}
  <2>1. W = receipts /\ receipts \subseteq StoredReceipt
    BY <1>2 DEF TypeOK
  <2> QED
    BY <1>1, <1>2, <2>1, AcknowledgedRows
<1>3. CASE envs # {}
  <2>1. PICK e \in envs : e = (CHOOSE f \in envs : TRUE)
    BY <1>3
  <2>2. \A f \in envs : f = e
    OBVIOUS
  <2>3. W = Submitted(receipts, e)
    BY <1>3, <2>1
  <2> DEFINE new == [env |-> e, expires |-> Deadline(e), delivered |-> FALSE]
  <2>4. new.env = e /\ new.expires = Deadline(e) /\ ~new.delivered
    OBVIOUS
  <2>5. new \in StoredReceipt
    BY SchemaAssumption DEF Deadline, Ciphertext, TypeOK, StoredReceipt
  <2>6. /\ \A r \in W : r \in receipts \/ r = new
        /\ \A q \in receipts : q.expires > now => q \in W
        /\ (\E q \in Previous(receipts, e) : TRUE) \/ new \in W
    BY <2>3 DEF Submitted, Pruned
  <2> HIDE DEF new, W
  <2>7. W \subseteq StoredReceipt
    BY <2>5, <2>6 DEF TypeOK
  <2>8. \A q \in receipts : q.expires \in Nat /\ now \in Nat
    BY DEF TypeOK, StoredReceipt
  <2>9. \A r : SameReceipt(new, r, acks) => NewReceipt(r, e, acks)
    BY <2>4 DEF SameReceipt, NewReceipt
  <2>10. /\ \A r \in AfterWrites(p, envs, acks) : \E q \in W : SameReceipt(q, r, acks)
         /\ \A q \in W : \E r \in AfterWrites(p, envs, acks) : SameReceipt(q, r, acks)
    BY <1>1, <2>7, AcknowledgedRows
  <2> QED
    BY <2>2, <2>6, <2>8, <2>9, <2>10
<1> QED
  BY <1>2, <1>3

\* Command c of device p makes the service forget row q.
Dropped(p, c, q) ==
  \/ \E b \in c.change : b.blocked /\ Between(q, p, b.peer)
  \/ q.env.to = p /\ ~Allowed(q.env.from, p)

LEMMA RunRows ==
  ASSUME TypeOK, NEW p \in Peers, NEW c \in Call, Run(p, c), \A e, f \in c.envs : e = f
  PROVE  /\ \A r \in receipts' :
              \/ \E q \in receipts : SameReceipt(q, r, c.acks)
              \/ \E e \in c.envs : NewReceipt(r, e, c.acks) /\ Accepts(receipts, e)
         /\ \A q \in receipts :
              \/ q.expires <= now
              \/ \E r \in receipts' : SameReceipt(q, r, c.acks)
              \/ Dropped(p, c, q)
         /\ c.change = {} => \A e \in c.envs :
              /\ Accepts(receipts, e)
              /\ \E r \in receipts' :
                   /\ r.env = e /\ r.expires > now
                   /\ r.delivered => \/ \E q \in receipts : q.env = e /\ q.delivered
                                     \/ \E a \in c.acks : SameKey(a, e)
         /\ \A b \in blocks' : b \in blocks \/ \E w \in c.change : w.blocked /\ b = <<p, w.peer>>
         /\ registered' = registered
<1>1. CASE c.change # {}
  <2>1. PICK b \in c.change : SetBlock(p, b.peer, b.blocked)
    BY <1>1 DEF Run
  <2>2. \A q \in receipts : SameReceipt(q, q, c.acks)
    BY DEF SameReceipt
  <2>3. /\ \A r \in receipts' : r \in receipts
        /\ \A q \in receipts : q \in receipts' \/ (b.blocked /\ Between(q, p, b.peer))
        /\ \A d \in blocks' : d \in blocks \/ (b.blocked /\ d = <<p, b.peer>>)
        /\ registered' = registered
    BY <2>1 DEF SetBlock
  <2> QED
    BY <1>1, <2>2, <2>3 DEF Dropped
<1>2. CASE c.change = {}
  <2> DEFINE W == AfterWrites(p, c.envs, c.acks)
  <2>1. /\ \A e \in c.envs : e.from = p /\ Accepts(receipts, e)
        /\ receipts' = Fetched(W, p) \/ receipts' = W
        /\ UNCHANGED <<blocks, registered>>
    BY <1>2 DEF Run, Sync
  <2>2. c.envs \in SUBSET Ciphertext
    BY DEF Call
  <2>3. /\ \A r \in W : \/ \E q \in receipts : SameReceipt(q, r, c.acks)
                        \/ \E e \in c.envs : NewReceipt(r, e, c.acks)
        /\ \A q \in receipts : q.expires <= now \/ \E r \in W : SameReceipt(q, r, c.acks)
        /\ \A e \in c.envs : \/ \E q \in Previous(receipts, e) : TRUE
                             \/ \E r \in W : NewReceipt(r, e, c.acks)
    BY <2>2, WrittenRows
  <2>4. \A r \in W : r \in StoredReceipt
    BY <2>2, AfterWritesTypes
  <2> HIDE DEF W
  <2>5. /\ receipts' \subseteq W
        /\ \A r \in W : r \in receipts' \/ ~(r.expires > now) \/ (r.env.to = p /\ ~Allowed(r.env.from, p))
    BY <2>1 DEF Fetched, Pruned, Held
  <2>6. \A r \in receipts' :
          \/ \E q \in receipts : SameReceipt(q, r, c.acks)
          \/ \E e \in c.envs : NewReceipt(r, e, c.acks) /\ Accepts(receipts, e)
    BY <2>1, <2>3, <2>5
  <2>7. ASSUME NEW q \in receipts, ~(q.expires <= now)
        PROVE  (\E r \in receipts' : SameReceipt(q, r, c.acks)) \/ Dropped(p, c, q)
    <3>1. PICK r \in W : SameReceipt(q, r, c.acks)
      BY <2>3, <2>7
    <3>2. r.env = q.env /\ r.expires = q.expires
      BY <3>1 DEF SameReceipt
    <3>3. q.expires > now
      BY <2>7 DEF TypeOK, StoredReceipt
    <3> QED
      BY <2>5, <3>1, <3>2, <3>3 DEF Dropped
  <2>8. ASSUME NEW e \in c.envs
        PROVE  \E r \in receipts' :
                 /\ r.env = e /\ r.expires > now
                 /\ r.delivered => \/ \E q \in receipts : q.env = e /\ q.delivered
                                   \/ \E a \in c.acks : SameKey(a, e)
    <3>1. e \in Ciphertext /\ now \in Nat
      BY <2>2 DEF TypeOK
    <3>2. e.from = p /\ Accepts(receipts, e) /\ e.to # p /\ Live(e)
      BY <2>1 DEF Accepts
    <3>3. CASE \E q \in Previous(receipts, e) : TRUE
      <4>1. PICK q \in receipts : q.expires > now /\ q.env = e
        BY <3>2, <3>3 DEF Previous, Pruned, Accepts
      <4>2. q.expires \in Nat
        BY DEF TypeOK, StoredReceipt
      <4>3. PICK r \in W : SameReceipt(q, r, c.acks)
        BY <2>3, <3>1, <4>1, <4>2
      <4>4. r \in receipts'
        BY <2>5, <3>2, <4>1, <4>3 DEF SameReceipt
      <4> QED
        BY <4>1, <4>3, <4>4 DEF SameReceipt
    <3>4. CASE \E r \in W : NewReceipt(r, e, c.acks)
      <4>1. PICK r \in W : NewReceipt(r, e, c.acks)
        BY <3>4
      <4>2. Deadline(e) > now
        BY <3>1, <3>2, SchemaAssumption DEF Deadline, Live, Ciphertext
      <4>3. r \in receipts'
        BY <2>5, <3>2, <4>1, <4>2 DEF NewReceipt
      <4> QED
        BY <4>1, <4>2, <4>3 DEF NewReceipt
    <3> QED
      BY <2>3, <3>3, <3>4
  <2>9. \A b \in blocks' : b \in blocks
    BY <2>1
  <2> QED
    BY <1>2, <2>1, <2>6, <2>7, <2>8, <2>9
<1> QED
  BY <1>1, <1>2

LEMMA CommandParts ==
  ASSUME TypeOK, NEW k \in Commands
  PROVE  /\ \A e \in k[2].envs \cup k[2].acks : e \in Extant
         /\ OneEach => \A e, f \in k[2].envs : e = f
         /\ AckedIsEffective => \A a \in k[2].acks : Effective(a)
<1>1. CASE \E x \in Processes : call[x].stage = "sent" /\ k = <<x[1], call[x]>>
  <2>1. PICK x \in Processes : k = <<x[1], call[x]>>
    BY <1>1
  <2> QED
    BY <2>1, ExtantHas DEF OneEach, AckedIsEffective
<1>2. CASE \E c \in late : k = <<c.owner, c.cmd>>
  <2>1. PICK c \in late : k = <<c.owner, c.cmd>>
    BY <1>2
  <2> QED
    BY <2>1, ExtantHas DEF OneEach, AckedIsEffective
<1> QED
  BY <1>1, <1>2 DEF Commands

LEMMA OneEachNext ==
  ASSUME PromiseInv, TypeOK', KindInv, OneEach, [Next]_vars
  PROVE  OneEach'
<1>0. TypeOK /\ RowsAreDistinct
  BY DEF PromiseInv, KindInv
<1>1. ASSUME NEW x \in Processes, NEW e \in call'[x].envs, NEW f \in call'[x].envs
      PROVE  e = f /\ e.from = x[1]
  <2>1. CASE Sealing(x)
    <3>1. PICK r \in Pending(x[1]) :
            /\ SealRow(x, r)
            /\ call'[x].envs = {Envelope(x[1], s) : s \in {t \in outbox'[x[1]] : t.id = r.id}}
      BY <2>1 DEF Sealing
    <3>2. \A s : Envelope(x[1], s).from = x[1]
      BY DEF Envelope
    <3>3. CASE UNCHANGED outbox
      <4>1. \A s, t \in outbox[x[1]] : s.id = t.id => s = t
        BY <1>0, ProcessOwner DEF RowsAreDistinct
      <4> QED
        BY <1>1, <3>1, <3>2, <3>3, <4>1
    <3>4. CASE \E s : {Envelope(x[1], t) : t \in {u \in outbox'[x[1]] : u.id = r.id}} = {Envelope(x[1], s)}
      <4>1. PICK s : call'[x].envs = {Envelope(x[1], s)}
        BY <3>1, <3>4
      <4> QED
        BY <1>1, <3>2, <4>1
    <3> QED
      BY <1>0, <3>1, <3>3, <3>4, SealedRows
  <2>2. CASE call'[x].envs \subseteq call[x].envs
    BY <1>1, <2>2 DEF OneEach
  <2> QED
    BY <1>0, <2>1, <2>2, CallStep DEF Emptied, Asked, Answered, Told, Recorded
<1>2. ASSUME NEW c \in late', NEW e \in c.cmd.envs, NEW f \in c.cmd.envs
      PROVE  e = f
  <2>1. CASE c \in late
    BY <1>2, <2>1 DEF OneEach
  <2>2. CASE \E x \in Processes : c = [owner |-> x[1], cmd |-> call[x]]
    <3>1. PICK x \in Processes : c.cmd = call[x]
      BY <2>2
    <3> QED
      BY <1>2, <3>1 DEF OneEach
  <2> QED
    BY <2>1, <2>2, LateStep
<1>3. ASSUME NEW x \in Processes
      PROVE  call'[x].change = {} \/ call'[x].envs = {}
  BY <1>0, CallStep DEF Emptied, Asked, Answered, Told, Recorded, Sealing, OneEach
<1> QED
  BY <1>1, <1>2, <1>3 DEF OneEach

LEMMA OneEachInvariant == Spec => []OneEach
<1>1. Init => OneEach
  BY DEF Init, OneEach, Idle
<1>2. OneEach /\ KindInv /\ PromiseInv /\ PromiseInv' /\ [Next]_vars => OneEach'
  BY OneEachNext DEF PromiseInv
<1> QED
  BY <1>1, <1>2, PromiseInvariant, KindInvariant, PTL DEF Spec

-----------------------------------------------------------------------------
(* What is acknowledged was committed *)

LEMMA EffectsLast ==
  ASSUME TypeOK, [Next]_vars
  PROVE  /\ \A e : Effective(e) => Effective(e)'
         /\ \A p \in Peers : \A row \in Unapplied(p) : Project(p, row) => Effective(row.env)'
<1>1. \A p \in Peers : \A row \in Unapplied(p) : Project(p, row) =>
        seen \subseteq seen' /\ confirmed \subseteq confirmed' /\ Effective(row.env)'
  BY DEF Project, Effective
<1>2. UNCHANGED <<seen, confirmed>> \/ \E p \in Peers : \E row \in Unapplied(p) : Project(p, row)
  BY ZenonT(60) DEF Next, vars, Tick, Send, Flush, Block, PushBlock, RecordAcks, RecordBlock, TakeEnvelope,
     RecordApplied, PruneJournal, ExtensionReceive, EarlyReceipt, SealRow, Post, Fetch, Serve,
     ServeLate, Refuse, TimeOut, Die, RecordUpload, engineVars
<1>3. seen \subseteq seen' /\ confirmed \subseteq confirmed'
  BY <1>1, <1>2
<1> QED
  BY <1>1, <1>3 DEF Effective

LEMMA CommitNext ==
  ASSUME PromiseInv, TypeOK', KindInv, OneEach, AckedIsEffective, DroppedOnlyWhenCommitted, [Next]_vars
  PROVE  AckedIsEffective' /\ DroppedOnlyWhenCommitted'
<1>0. TypeOK
  BY DEF PromiseInv
<1>1. /\ \A e : Effective(e) => Effective(e)'
      /\ \A p \in Peers : \A row \in Unapplied(p) : Project(p, row) => Effective(row.env)'
  BY <1>0, EffectsLast
<1>2. ASSUME NEW p \in Peers, NEW r \in inbox'[p], r.applied
      PROVE  Effective(r.env)'
  <2>1. \E s \in inbox[p] : s.env = r.env /\ (s.applied \/ r.env \in inHand[p])
    BY <1>2, InboxMoves
  <2>2. Effective(r.env)
    BY <2>1 DEF AckedIsEffective
  <2> QED
    BY <1>1, <2>2
<1>3. ASSUME NEW p \in Peers, NEW e \in inHand'[p]
      PROVE  Effective(e)'
  <2>1. e \in inHand[p] \/ \E row \in Unapplied(p) : Project(p, row) /\ e = row.env
    BY <1>0, <1>3, MemoryStep
  <2> QED
    BY <1>1, <2>1 DEF AckedIsEffective
<1>4. ASSUME NEW x \in Processes, NEW a \in call'[x].acks
      PROVE  Effective(a)'
  <2>1. a \in call[x].acks \/ a \in Acknowledgements(x[1])
    BY <1>0, <1>4, CallStep DEF Emptied, Asked, Answered, Told, Recorded, Sealing
  <2>2. Effective(a)
    BY <2>1, ProcessOwner DEF AckedIsEffective, Acknowledgements
  <2> QED
    BY <1>1, <2>2
<1>5. ASSUME NEW c \in late', NEW a \in c.cmd.acks
      PROVE  Effective(a)'
  <2>1. CASE c \in late
    BY <1>1, <1>5, <2>1 DEF AckedIsEffective
  <2>2. CASE \E x \in Processes : c = [owner |-> x[1], cmd |-> call[x]]
    <3>1. PICK x \in Processes : c.cmd = call[x]
      BY <2>2
    <3> QED
      BY <1>1, <1>5, <3>1 DEF AckedIsEffective
  <2> QED
    BY <2>1, <2>2, LateStep
<1>6. ASSUME NEW r \in receipts', r.delivered
      PROVE  Effective(r.env)'
  <2>1. CASE UNCHANGED receipts
    BY <1>1, <1>6, <2>1 DEF DroppedOnlyWhenCommitted
  <2>2. ASSUME NEW k \in Commands, Run(k[1], k[2])
        PROVE  Effective(r.env)
    <3>1. /\ \A e \in k[2].envs \cup k[2].acks : e \in Extant
          /\ \A e, f \in k[2].envs : e = f
          /\ \A a \in k[2].acks : Effective(a)
      BY <1>0, CommandParts
    <3>2. k[1] \in Peers /\ k[2] \in Call
      BY <1>0, CommandTypes
    <3>3. \/ \E q \in receipts : SameReceipt(q, r, k[2].acks)
          \/ \E e \in k[2].envs : NewReceipt(r, e, k[2].acks)
      BY <1>0, <2>2, <3>1, <3>2, RunRows
    <3>4. (\E q \in receipts : q.env = r.env /\ q.delivered) \/ \E a \in k[2].acks : SameKey(a, r.env)
      BY <1>6, <3>3 DEF SameReceipt, NewReceipt
    <3>5. ASSUME NEW a \in k[2].acks, SameKey(a, r.env)
          PROVE  Effective(r.env)
      <4>1. r.env \in Extant
        BY <1>0, StoreExtant
      <4>2. a = r.env
        BY <3>1, <3>5, <4>1 DEF SameKey, KindInv, OneOfAKind
      <4> QED
        BY <3>1, <4>2
    <3> QED
      BY <3>4, <3>5 DEF DroppedOnlyWhenCommitted
  <2> QED
    BY <1>1, <2>1, <2>2, StoreStep
<1> QED
  BY <1>2, <1>3, <1>4, <1>5, <1>6 DEF AckedIsEffective, DroppedOnlyWhenCommitted

LEMMA CommitInvariant == Spec => [](AckedIsEffective /\ DroppedOnlyWhenCommitted)
<1>1. Init => AckedIsEffective /\ DroppedOnlyWhenCommitted
  BY DEF Init, JournalInit, StoreInit, AckedIsEffective, DroppedOnlyWhenCommitted, Idle
<1>2. /\ AckedIsEffective /\ DroppedOnlyWhenCommitted
      /\ OneEach /\ KindInv /\ PromiseInv /\ PromiseInv' /\ [Next]_vars
      => (AckedIsEffective /\ DroppedOnlyWhenCommitted)'
  BY CommitNext DEF PromiseInv
<1> QED
  BY <1>1, <1>2, PromiseInvariant, KindInvariant, OneEachInvariant, PTL DEF Spec

\* The mailbox deletes a ciphertext on acknowledgement only after its recipient
\* committed what it says: no request that is late, repeated or abandoned
\* acknowledges anything else (SignalJournal.acknowledgements, pump.project).
THEOREM DroppedIsCommitted == Spec => []DroppedOnlyWhenCommitted
BY CommitInvariant, PTL

-----------------------------------------------------------------------------
(* The clock, the cuts and the rows of an outbox *)

LEMMA Grows ==
  ASSUME TypeOK, [Next]_vars
  PROVE  /\ now <= now' /\ cut \subseteq cut'
         /\ \A m \in Messages : sentAt'[m] = sentAt[m] \/ (sentAt[m] = 0 /\ sentAt'[m] = now)
<1>1. now \in Nat /\ DOMAIN sentAt = Messages
  BY DEF TypeOK
<1>2. CASE UNCHANGED <<now, cut, sentAt>>
  BY <1>1, <1>2
<1>3. CASE Tick
  BY <1>1, <1>3 DEF Tick, engineVars
<1>4. ASSUME NEW m \in Messages, Send(m)
      PROVE  /\ UNCHANGED <<now, cut>> /\ sentAt[m] = 0
             /\ \A n \in Messages : sentAt'[n] = sentAt[n] \/ (n = m /\ sentAt'[n] = now)
  BY <1>1, <1>4 DEF Send
<1>5. CASE \E p \in Peers : \E q \in Peers, flag \in BOOLEAN : Block(p, q, flag)
  BY <1>1, <1>5 DEF Block
<1>6. \/ UNCHANGED <<now, cut, sentAt>> \/ Tick \/ \E m \in Messages : Send(m)
      \/ \E p \in Peers : \E q \in Peers, flag \in BOOLEAN : Block(p, q, flag)
  BY ZenonT(60) DEF Next, vars, Flush, PushBlock, RecordAcks, RecordBlock, TakeEnvelope, Project,
     RecordApplied, PruneJournal, ExtensionReceive, EarlyReceipt, SealRow, Post, Fetch, Serve,
     ServeLate, Refuse, TimeOut, Die, RecordUpload, engineVars
<1> QED
  BY <1>1, <1>2, <1>3, <1>4, <1>5, <1>6

LEMMA ChangesMove ==
  ASSUME TypeOK, [Next]_vars, NEW p \in Peers, NEW b \in changes'[p]
  PROVE  b \in changes[p] \/ (b.blocked => Pair(p, b.peer) \in cut')
<1>0. DOMAIN changes = Peers
  BY DEF TypeOK
<1>1. CASE UNCHANGED changes
  BY <1>1
<1>2. ASSUME NEW o \in Peers, NEW q \in Peers, NEW flag \in BOOLEAN, Block(o, q, flag)
      PROVE  b \in changes[p] \/ (b.blocked => Pair(p, b.peer) \in cut')
  <2> DEFINE new == [peer |-> q, blocked |-> flag, rev |-> blockCalls[o] + 1]
             old == {c \in changes[o] : c.peer # q}
  <2>1. new.peer = q /\ new.blocked = flag
    OBVIOUS
  <2>2. changes' = [changes EXCEPT ![o] = old \cup {new}] /\ (flag => Pair(o, q) \in cut')
    BY <1>2 DEF Block
  <2>3. old \subseteq changes[o]
    OBVIOUS
  <2> HIDE DEF new, old
  <2> QED
    BY <1>0, <2>1, <2>2, <2>3, UpdateAt
<1>3. ASSUME NEW o \in Peers, RecordBlock(o)
      PROVE  b \in changes[p]
  BY <1>0, <1>3 DEF RecordBlock
<1>4. \/ UNCHANGED changes \/ \E o \in Peers : RecordBlock(o)
      \/ \E o \in Peers : \E q \in Peers, flag \in BOOLEAN : Block(o, q, flag)
  BY DEF Next, vars, Tick, Send, Flush, PushBlock, RecordAcks, TakeEnvelope, Project,
     RecordApplied, PruneJournal, ExtensionReceive, EarlyReceipt, SealRow, Post, Fetch, Serve,
     ServeLate, Refuse, TimeOut, Die, RecordUpload, engineVars
<1> QED
  BY <1>1, <1>2, <1>3, <1>4

\* How the rows of an outbox change: their token and time stay.
LEMMA OutboxMoves ==
  ASSUME PromiseInv, KindInv, [Next]_vars, NEW o \in Peers
  PROVE  /\ \A r \in outbox'[o] :
              \/ \E s \in outbox[o] :
                   /\ r.id = s.id /\ r.to = s.to /\ r.body = s.body /\ r.at = s.at
                   /\ r.uploaded => /\ SameRow(r, s)
                                    /\ \/ s.uploaded
                                       \/ \E x \in Processes : \E e \in call[x].envs :
                                            RecordUpload(x) /\ x[1] = o /\ e.id = s.id
              \/ /\ ~r.uploaded
                 /\ \/ \E m \in Messages : sentAt[m] # 0 /\ r.body = Body(m) /\ r.at = sentAt[m]
                    \/ \E m \in Written : r.body = Receipt(m) /\ r.at = now
         /\ \A s \in outbox[o] :
              \/ \E r \in outbox'[o] : r.to = s.to /\ r.body = s.body /\ r.at = s.at
              \/ ~Live(s)' \/ Pair(o, s.to) \in cut'
<1>0. TypeOK /\ RowsAreDistinct
  BY DEF PromiseInv, KindInv
<1>a. \A r : SameRow(r, r)
  BY DEF SameRow
<1>1. ASSUME outbox'[o] \subseteq outbox[o],
             \A s \in outbox[o] : s \in outbox'[o] \/ ~Live(s)' \/ Pair(o, s.to) \in cut'
      PROVE  /\ \A r \in outbox'[o] : \E s \in outbox[o] : SameRow(r, s) /\ (r.uploaded => s.uploaded)
             /\ \A s \in outbox[o] : (\E r \in outbox'[o] : SameRow(r, s)) \/ ~Live(s)' \/ Pair(o, s.to) \in cut'
  BY <1>1, <1>a
<1>2. CASE UNCHANGED outbox
  BY <1>1, <1>2 DEF SameRow
<1>3. CASE \E p \in Peers : PruneJournal(p)
  <2>1. PICK p \in Peers : /\ outbox' = [outbox EXCEPT ![p] = {r \in @ : Live(r)}]
                           /\ now' = now
    BY <1>3 DEF PruneJournal, Prune
  <2>2. /\ outbox'[o] \subseteq outbox[o]
        /\ \A s \in outbox[o] : s \in outbox'[o] \/ ~Live(s)'
    BY <1>0, <2>1, UpdateAt, Domains DEF Live
  <2> QED
    BY <1>1, <2>2 DEF SameRow
<1>4. CASE \E p, q \in Peers : Block(p, q, TRUE)
  <2>1. PICK p \in Peers, q \in Peers : Block(p, q, TRUE)
    BY <1>4
  <2>2. outbox' = [outbox EXCEPT ![p] = {r \in @ : r.to # q}] /\ Pair(p, q) \in cut'
    BY <2>1 DEF Block, Forget
  <2>3. /\ outbox'[o] \subseteq outbox[o]
        /\ \A s \in outbox[o] : s \in outbox'[o] \/ Pair(o, s.to) \in cut'
    BY <1>0, <2>2, UpdateAt, Domains
  <2> QED
    BY <1>1, <2>3 DEF SameRow
<1>5. ASSUME NEW x \in Processes, RecordUpload(x)
      PROVE  /\ \A r \in outbox'[o] : \E s \in outbox[o] :
                  /\ SameRow(r, s)
                  /\ r.uploaded => s.uploaded \/ \E e \in call[x].envs : x[1] = o /\ e.id = s.id
             /\ \A s \in outbox[o] : \E r \in outbox'[o] : SameRow(r, s)
  <2>1. PICK e \in call[x].envs : Uploaded(x[1], e.id)
    BY <1>5 DEF RecordUpload
  <2>2. /\ \A r \in outbox'[o] : \E s \in outbox[o] :
             SameRow(r, s) /\ (r.uploaded => s.uploaded \/ (o = x[1] /\ s.id = e.id))
        /\ \A s \in outbox[o] : \E r \in outbox'[o] : SameRow(r, s)
    BY <1>0, <2>1, UploadRows
  <2> QED
    BY <2>2
<1>6. ASSUME NEW x \in Processes, NEW t \in Pending(x[1]), SealRow(x, t)
      PROVE  /\ \A r \in outbox'[o] : \E s \in outbox[o] :
                  /\ r.id = s.id /\ r.to = s.to /\ r.body = s.body /\ r.at = s.at
                  /\ r.uploaded => SameRow(r, s) /\ s.uploaded
             /\ \A s \in outbox[o] : \E r \in outbox'[o] : r.to = s.to /\ r.body = s.body /\ r.at = s.at
  <2>1. CASE UNCHANGED outbox
    BY <1>a, <2>1
  <2>2. ASSUME NEW u, u.id = t.id, u.to = t.to, u.body = t.body, u.at = t.at, ~u.uploaded,
               RowReplaced(x[1], t, u)
        PROVE  /\ \A r \in outbox'[o] : \E s \in outbox[o] :
                    /\ r.id = s.id /\ r.to = s.to /\ r.body = s.body /\ r.at = s.at
                    /\ r.uploaded => SameRow(r, s) /\ s.uploaded
               /\ \A s \in outbox[o] : \E r \in outbox'[o] : r.to = s.to /\ r.body = s.body /\ r.at = s.at
    <3>1. t \in outbox[x[1]] /\ x[1] \in Peers
      BY ProcessOwner DEF Pending
    <3>2. /\ \A r \in outbox'[o] : r \in outbox[o] \/ (o = x[1] /\ r = u)
          /\ \A s \in outbox[o] : s \in outbox'[o] \/ (o = x[1] /\ s = t)
          /\ u \in outbox'[x[1]]
      BY <2>2 DEF RowReplaced
    <3> QED
      BY <1>a, <2>2, <3>1, <3>2
  <2> QED
    BY <1>0, <1>6, <2>1, <2>2, SealedRows
<1>7. ASSUME NEW p \in Peers, NEW to, NEW body, NEW at, Inserting(p, to, body, at)
      PROVE  /\ \A r \in outbox'[o] :
                  \/ r \in outbox[o]
                  \/ /\ ~r.uploaded
                     /\ \/ \E m \in Messages : sentAt[m] # 0 /\ r.body = Body(m) /\ r.at = sentAt[m]
                        \/ \E m \in Written : r.body = Receipt(m) /\ r.at = now
             /\ \A s \in outbox[o] : s \in outbox'[o]
  <2>1. CASE UNCHANGED outbox
    BY <2>1
  <2>2. CASE RowAdded(p, Fresh(p, to, body, at))
    <3> DEFINE new == Fresh(p, to, body, at)
    <3>1. new.body = body /\ new.at = at /\ ~new.uploaded
      BY DEF Fresh
    <3>2. /\ \A r \in outbox'[o] : r \in outbox[o] \/ r = new
          /\ \A s \in outbox[o] : s \in outbox'[o]
      BY <2>2 DEF RowAdded
    <3> HIDE DEF new
    <3> QED
      BY <1>7, <3>1, <3>2 DEF Inserting
  <2> QED
    BY <1>0, <1>7, <2>1, <2>2, InsertedRows DEF Inserting
<1> HIDE DEF SameRow
<1>b. \A r, s : SameRow(r, s) => r.id = s.id /\ r.to = s.to /\ r.body = s.body /\ r.at = s.at
  BY DEF SameRow
<1>8. CASE \E x \in Processes : RecordUpload(x)
  BY <1>5, <1>8, <1>b
<1>9. CASE \E x \in Processes : \E r \in Pending(x[1]) : SealRow(x, r)
  BY <1>6, <1>9
<1>10. CASE \E p \in Peers : \E to, body, at : Inserting(p, to, body, at)
  BY <1>7, <1>10, <1>a
<1> QED
  BY <1>2, <1>3, <1>4, <1>8, <1>9, <1>10, OutboxSteps

LEMMA TimesNext ==
  ASSUME PromiseInv, TypeOK', KindInv, OneEach, TimesAgree, [Next]_vars
  PROVE  TimesAgree'
<1>0. TypeOK /\ RowsAreDistinct /\ now \in Nat /\ now' \in Nat
  BY DEF PromiseInv, KindInv, TypeOK
<1>1. /\ now <= now'
      /\ \A m \in Messages : sentAt[m] \in Nat /\ (sentAt'[m] = sentAt[m] \/ sentAt'[m] = now)
  BY <1>0, Grows DEF TypeOK
<1>2. \A m \in Messages : sentAt'[m] <= now'
  BY <1>0, <1>1 DEF TimesAgree
<1>3. ASSUME NEW p \in Peers, NEW r \in outbox'[p]
      PROVE  r.at <= now'
  <2>1. \/ \E s \in outbox[p] : r.at = s.at
        \/ \E m \in Messages : r.at = sentAt[m]
        \/ r.at = now
    BY <1>3, OutboxMoves
  <2>2. \A s \in outbox[p] : s.at \in Nat /\ s.at <= now
    BY <1>0 DEF TypeOK, Row, TimesAgree
  <2> QED
    BY <1>0, <1>1, <2>1, <2>2 DEF TimesAgree
<1>4. ASSUME NEW e \in Extant'
      PROVE  e.at <= now'
  <2>1. CASE e \in Extant
    <3>1. e.at \in Nat /\ e.at <= now
      BY <1>0, <2>1, ExtantType DEF Ciphertext, TimesAgree
    <3> QED
      BY <1>0, <1>1, <3>1
  <2>2. CASE SealedNow(e)
    <3>1. PICK p \in Peers : \E r \in outbox[p] : \E s \in outbox'[p] : s.at = r.at /\ e = Envelope(p, s)
      BY <2>2 DEF SealedNow
    <3>2. PICK r \in outbox[p] : e.at = r.at
      BY <3>1, SealedFields
    <3>3. r.at \in Nat /\ r.at <= now
      BY <1>0 DEF TypeOK, Row, TimesAgree
    <3> QED
      BY <1>0, <1>1, <3>2, <3>3
  <2> QED
    BY <1>0, <1>4, <2>1, <2>2, ExtantStep
<1>5. ASSUME NEW r \in receipts'
      PROVE  r.expires = r.env.at + TTL
  <2>1. CASE UNCHANGED receipts
    BY <1>5, <2>1 DEF TimesAgree
  <2>2. ASSUME NEW k \in Commands, Run(k[1], k[2])
        PROVE  r.expires = r.env.at + TTL
    <3>1. /\ \A e \in k[2].envs : e \in Extant
          /\ \A e, f \in k[2].envs : e = f
      BY <1>0, CommandParts
    <3>2. \/ \E q \in receipts : SameReceipt(q, r, k[2].acks)
          \/ \E e \in k[2].envs : NewReceipt(r, e, k[2].acks)
      BY <1>0, <2>2, <3>1, CommandTypes, RunRows
    <3>3. CASE \E q \in receipts : SameReceipt(q, r, k[2].acks)
      BY <3>3 DEF SameReceipt, TimesAgree
    <3>4. CASE \E e \in k[2].envs : NewReceipt(r, e, k[2].acks)
      <4>1. PICK e \in Extant : r.env = e /\ r.expires = Deadline(e)
        BY <3>1, <3>4 DEF NewReceipt
      <4>2. e.at \in Nat /\ e.at <= now
        BY <1>0, ExtantType DEF Ciphertext, TimesAgree
      <4> QED
        BY <1>0, <4>1, <4>2 DEF Deadline
    <3> QED
      BY <3>2, <3>3, <3>4
  <2> QED
    BY <2>1, <2>2, StoreStep
<1> QED
  BY <1>2, <1>3, <1>4, <1>5 DEF TimesAgree

LEMMA CutsNext ==
  ASSUME PromiseInv, TypeOK', KindInv, OneEach, BlocksAreCut, [Next]_vars
  PROVE  BlocksAreCut'
<1>0. TypeOK
  BY DEF PromiseInv
<1>1. cut \subseteq cut'
  BY <1>0, Grows
<1>2. registered' = Peers /\ \A p, q \in Peers : <<p, q>> \in blocks' => Pair(p, q) \in cut
  <2>1. CASE UNCHANGED <<receipts, blocks, registered>>
    BY <2>1 DEF BlocksAreCut
  <2>2. ASSUME NEW k \in Commands, Run(k[1], k[2])
        PROVE  registered' = Peers /\ \A p, q \in Peers : <<p, q>> \in blocks' => Pair(p, q) \in cut
    <3>1. /\ \A b \in blocks' : b \in blocks \/ \E w \in k[2].change : w.blocked /\ b = <<k[1], w.peer>>
          /\ registered' = registered
      BY <1>0, <2>2, CommandParts, CommandTypes, RunRows
    <3>2. \A w \in k[2].change : w.blocked => Pair(k[1], w.peer) \in cut
      <4>1. CASE \E x \in Processes : k = <<x[1], call[x]>>
        BY <4>1 DEF BlocksAreCut
      <4>2. CASE \E c \in late : k = <<c.owner, c.cmd>>
        BY <4>2 DEF BlocksAreCut
      <4> QED
        BY <4>1, <4>2 DEF Commands
    <3> QED
      BY <3>1, <3>2 DEF BlocksAreCut
  <2> QED
    BY <2>1, <2>2, StoreStep
<1>3. ASSUME NEW p \in Peers, NEW b \in changes'[p], b.blocked
      PROVE  Pair(p, b.peer) \in cut'
  BY <1>0, <1>1, <1>3, ChangesMove DEF BlocksAreCut
<1>4. ASSUME NEW x \in Processes, NEW b \in call'[x].change, b.blocked
      PROVE  Pair(x[1], b.peer) \in cut'
  <2>1. b \in call[x].change \/ b \in changes[x[1]]
    BY <1>0, <1>4, CallStep DEF Emptied, Asked, Answered, Told, Recorded, Sealing
  <2> QED
    BY <1>1, <1>4, <2>1, ProcessOwner DEF BlocksAreCut
<1>5. ASSUME NEW c \in late', NEW b \in c.cmd.change, b.blocked
      PROVE  Pair(c.owner, b.peer) \in cut'
  <2>1. CASE c \in late
    BY <1>1, <1>5, <2>1 DEF BlocksAreCut
  <2>2. CASE \E x \in Processes : c = [owner |-> x[1], cmd |-> call[x]]
    <3>1. PICK x \in Processes : c.cmd = call[x] /\ c.owner = x[1]
      BY <2>2
    <3> QED
      BY <1>1, <1>5, <3>1 DEF BlocksAreCut
  <2> QED
    BY <2>1, <2>2, LateStep
<1> QED
  BY <1>1, <1>2, <1>3, <1>4, <1>5 DEF BlocksAreCut

LEMMA OpenedMoves ==
  ASSUME PromiseInv, [Next]_vars, NEW p \in Peers, NEW o \in opened'[p]
  PROVE  o \in opened[p] \/ \E e : Receiving(p, e) /\ o = <<e.from, e.key>>
<1>0. DOMAIN opened = Peers
  BY DEF PromiseInv, TypeOK
<1>1. CASE UNCHANGED opened
  BY <1>1
<1>2. ASSUME NEW q \in Peers, NEW e, Receiving(q, e)
      PROVE  o \in opened[p] \/ (q = p /\ o = <<e.from, e.key>>)
  <2>1. opened' = [opened EXCEPT ![q] = @ \cup {<<e.from, e.key>>}]
    BY <1>2 DEF Receiving, Receive
  <2> QED
    BY <1>0, <2>1, UpdateAt
<1>3. CASE \E q \in Peers : \E e : Receiving(q, e)
  BY <1>2, <1>3
<1>4. UNCHANGED opened \/ \E q \in Peers : \E e : Receiving(q, e)
  BY InboxSteps DEF RecordAcks, AcknowledgedBatch, RecordApplied, Applied, PruneJournal, Prune, Block,
     Forget, EarlyReceipt, Received, journalVars
<1> QED
  BY <1>1, <1>3, <1>4

LEMMA ChainGrows ==
  ASSUME PromiseInv, KindInv, [Next]_vars, NEW p \in Peers, NEW q \in Peers
  PROVE  chain[p][q] <= chain'[p][q]
<1>0. TypeOK /\ RowsAreDistinct /\ \A o, u \in Peers : chain[o][u] \in Nat
  BY DEF PromiseInv, KindInv, TypeOK
<1>1. CASE UNCHANGED chain
  BY <1>0, <1>1
<1>2. ASSUME NEW x \in Processes, NEW r \in Pending(x[1]), SealRow(x, r)
      PROVE  chain[p][q] <= chain'[p][q]
  <2>1. UNCHANGED chain \/ KeyUsed(x[1], r.to)
    BY <1>0, <1>2, SealedRows
  <2>2. x[1] \in Peers /\ r.to \in Peers
    BY <1>0, ProcessOwner DEF Pending, TypeOK, Row
  <2> QED
    BY <1>0, <2>1, <2>2 DEF KeyUsed
<1>3. UNCHANGED chain \/ \E x \in Processes : \E r \in Pending(x[1]) : SealRow(x, r)
  BY OutboxSteps DEF PruneJournal, Prune, Block, Forget, RecordUpload, Uploaded, Inserting
<1> QED
  BY <1>1, <1>2, <1>3

-----------------------------------------------------------------------------
(* Custody *)

CustodyInv ==
  TimesAgree /\ BlocksAreCut /\ AckedIsKept /\ UploadedIsKept /\ OpenedIsKept

LEMMA CurrentFades ==
  ASSUME TypeOK, TypeOK', [Next]_vars, NEW e \in Ciphertext, Current(e)'
  PROVE  Current(e)
<1>1. now \in Nat /\ now' \in Nat /\ e.at \in Nat /\ TTL \in Nat
  BY SchemaAssumption DEF TypeOK, Ciphertext
<1>2. now <= now' /\ cut \subseteq cut'
  BY Grows
<1> QED
  BY <1>1, <1>2 DEF Current, Live, Uncut

LEMMA JournaledLasts ==
  ASSUME PromiseInv, [Next]_vars, NEW e \in Ciphertext, Journaled(e.to, e), Current(e)'
  PROVE  Journaled(e.to, e)'
<1>1. e.to \in Peers
  BY DEF Ciphertext
<1>2. PICK s \in inbox[e.to] : s.env = e
  BY DEF Journaled
<1>3. (\E r \in inbox'[e.to] : r.env = s.env) \/ ~Live(s.env)' \/ Pair(s.env.from, e.to) \in cut'
  BY <1>1, InboxMoves
<1> QED
  BY <1>2, <1>3 DEF Journaled, Current, Uncut

LEMMA KeptLasts ==
  ASSUME PromiseInv, TypeOK', [Next]_vars, NEW e \in Ciphertext, Kept(e)
  PROVE  Kept(e)'
<1>1. ASSUME Current(e)'
      PROVE  Journaled(e.to, e)'
  <2>1. Current(e)
    BY <1>1, CurrentFades DEF PromiseInv
  <2> QED
    BY <1>1, <2>1, JournaledLasts DEF Kept
<1> QED
  BY <1>1 DEF Kept

LEMMA CommandCustody ==
  ASSUME NEW k \in Commands
  PROVE  /\ AckedIsKept => \A a \in k[2].acks : Kept(a)
         /\ BlocksAreCut => \A w \in k[2].change : w.blocked => Pair(k[1], w.peer) \in cut
<1>1. CASE \E x \in Processes : call[x].stage = "sent" /\ k = <<x[1], call[x]>>
  <2>1. PICK x \in Processes : k = <<x[1], call[x]>>
    BY <1>1
  <2> QED
    BY <2>1 DEF AckedIsKept, BlocksAreCut
<1>2. CASE \E c \in late : k = <<c.owner, c.cmd>>
  <2>1. PICK c \in late : k = <<c.owner, c.cmd>>
    BY <1>2
  <2> QED
    BY <2>1 DEF AckedIsKept, BlocksAreCut
<1> QED
  BY <1>1, <1>2 DEF Commands

\* An acknowledgement that names a ciphertext is that ciphertext.
LEMMA SameKeySame ==
  ASSUME KindInv, NEW a \in Extant, NEW e \in Extant, SameKey(a, e)
  PROVE  a = e
  BY DEF SameKey, KindInv, OneOfAKind

LEMMA SpooledLasts ==
  ASSUME PromiseInv, TypeOK', KindInv, OneEach, TimesAgree, BlocksAreCut, AckedIsKept, [Next]_vars,
         NEW e \in Ciphertext, Spooled(e), Current(e)'
  PROVE  Spooled(e)' \/ Journaled(e.to, e)'
<1>0. TypeOK /\ Current(e)
  BY CurrentFades DEF PromiseInv
<1>1. PICK q \in receipts : q.env = e /\ ~q.delivered /\ q.expires > now
  BY DEF Spooled
<1>2. q.expires = e.at + TTL /\ e \in Extant
  BY <1>1, ExtantHas DEF TimesAgree
<1>3. e.at + TTL > now'
  BY DEF Current, Live
<1>4. CASE UNCHANGED receipts
  BY <1>1, <1>2, <1>3, <1>4 DEF Spooled
<1>5. ASSUME NEW k \in Commands, Run(k[1], k[2]), UNCHANGED <<now, inbox, cut>>
      PROVE  Spooled(e)' \/ Journaled(e.to, e)'
  <2>1. /\ \A a \in k[2].acks : a \in Extant /\ Kept(a)
        /\ \A f, g \in k[2].envs : f = g
        /\ \A w \in k[2].change : w.blocked => Pair(k[1], w.peer) \in cut
    BY <1>0, CommandParts, CommandCustody
  <2>2. \/ q.expires <= now
        \/ \E r \in receipts' : SameReceipt(q, r, k[2].acks)
        \/ Dropped(k[1], k[2], q)
    BY <1>0, <1>5, <2>1, CommandTypes, RunRows
  <2>3. ~(q.expires <= now)
    BY <1>0, <1>1 DEF TypeOK, StoredReceipt
  <2>4. CASE Dropped(k[1], k[2], q)
    <3>1. Pair(e.from, e.to) \notin cut
      BY <1>0 DEF Current, Uncut
    <3>2. \A a, b : Pair(a, b) = Pair(b, a)
      BY DEF Pair
    <3>3. CASE \E b \in k[2].change : b.blocked /\ Between(q, k[1], b.peer)
      BY <1>1, <2>1, <3>1, <3>2, <3>3 DEF Between
    <3>4. CASE q.env.to = k[1] /\ ~Allowed(q.env.from, k[1])
      <4>1. ~Allowed(e.from, e.to) /\ e.from \in Peers /\ e.to \in Peers
        BY <1>1, <3>4 DEF Ciphertext
      <4> QED
        BY <3>1, <3>2, <4>1 DEF Allowed, BlocksAreCut
    <3> QED
      BY <2>4, <3>3, <3>4 DEF Dropped
  <2>5. CASE \E r \in receipts' : SameReceipt(q, r, k[2].acks)
    <3>1. PICK r \in receipts' : SameReceipt(q, r, k[2].acks)
      BY <2>5
    <3>2. r.env = e /\ r.expires > now' /\ (r.delivered => \E a \in k[2].acks : SameKey(a, e))
      BY <1>1, <1>2, <1>3, <3>1 DEF SameReceipt
    <3>3. CASE ~r.delivered
      BY <3>2, <3>3 DEF Spooled
    <3>4. CASE r.delivered
      <4>1. PICK a \in k[2].acks : SameKey(a, e)
        BY <3>2, <3>4
      <4>2. a = e
        BY <1>2, <2>1, <4>1, SameKeySame
      <4>3. Journaled(e.to, e)
        BY <1>0, <2>1, <4>2 DEF Kept
      <4> QED
        BY <1>5, <4>3 DEF Journaled
    <3> QED
      BY <3>3, <3>4
  <2> QED
    BY <2>2, <2>3, <2>4, <2>5
<1> QED
  BY <1>4, <1>5, StoreStep

LEMMA CustodyLasts ==
  ASSUME PromiseInv, TypeOK', KindInv, OneEach, TimesAgree, BlocksAreCut, AckedIsKept, [Next]_vars,
         NEW e \in Ciphertext, InCustody(e)
  PROVE  InCustody(e)'
<1>1. ASSUME Current(e)'
      PROVE  Spooled(e)' \/ Journaled(e.to, e)'
  <2>1. Current(e)
    BY <1>1, CurrentFades DEF PromiseInv
  <2>2. CASE Spooled(e)
    BY <1>1, <2>2, SpooledLasts
  <2>3. CASE Journaled(e.to, e)
    BY <1>1, <2>3, JournaledLasts
  <2> QED
    BY <2>1, <2>2, <2>3 DEF InCustody
<1> QED
  BY <1>1 DEF InCustody

LEMMA AckedNext ==
  ASSUME PromiseInv, TypeOK', KindInv, OneEach, AckedIsKept, [Next]_vars
  PROVE  AckedIsKept'
<1>0. TypeOK
  BY DEF PromiseInv
<1>1. \A e \in Extant : Kept(e) => Kept(e)'
  BY <1>0, ExtantType, KeptLasts
<1>2. ASSUME NEW r \in receipts', r.delivered
      PROVE  Kept(r.env)'
  <2>0. r.env \in Extant
    BY <1>0, StoreExtant
  <2>1. CASE UNCHANGED receipts
    BY <1>1, <1>2, <2>0, <2>1 DEF AckedIsKept
  <2>2. ASSUME NEW k \in Commands, Run(k[1], k[2])
        PROVE  Kept(r.env)
    <3>1. /\ \A a \in k[2].acks : a \in Extant /\ Kept(a)
          /\ \A e, f \in k[2].envs : e = f
      BY <1>0, CommandParts, CommandCustody
    <3>2. \/ \E q \in receipts : SameReceipt(q, r, k[2].acks)
          \/ \E e \in k[2].envs : NewReceipt(r, e, k[2].acks)
      BY <1>0, <2>2, <3>1, CommandTypes, RunRows
    <3>3. (\E q \in receipts : q.env = r.env /\ q.delivered) \/ \E a \in k[2].acks : SameKey(a, r.env)
      BY <1>2, <3>2 DEF SameReceipt, NewReceipt
    <3> QED
      BY <2>0, <3>1, <3>3, SameKeySame DEF AckedIsKept
  <2> QED
    BY <1>1, <2>0, <2>1, <2>2, StoreStep
<1>3. ASSUME NEW x \in Processes, NEW a \in call'[x].acks
      PROVE  Kept(a)'
  <2>1. a \in call[x].acks \/ a \in Acknowledgements(x[1])
    BY <1>0, <1>3, CallStep DEF Emptied, Asked, Answered, Told, Recorded, Sealing
  <2>2. CASE a \in call[x].acks
    BY <1>1, <2>2, ExtantHas DEF AckedIsKept
  <2>3. CASE a \in Acknowledgements(x[1])
    <3>1. x[1] \in Peers
      BY ProcessOwner
    <3>2. PICK r \in inbox[x[1]] : r.env = a
      BY <2>3 DEF Acknowledgements
    <3>3. a \in Extant /\ a.to = x[1]
      BY <3>1, <3>2, ExtantHas DEF PromiseInv, InboxGenuine
    <3>4. Kept(a)
      BY <3>2, <3>3 DEF Kept, Journaled
    <3> QED
      BY <1>1, <3>3, <3>4
  <2> QED
    BY <2>1, <2>2, <2>3
<1>4. ASSUME NEW c \in late', NEW a \in c.cmd.acks
      PROVE  Kept(a)'
  <2>1. CASE c \in late
    BY <1>1, <1>4, <2>1, ExtantHas DEF AckedIsKept
  <2>2. CASE \E x \in Processes : c = [owner |-> x[1], cmd |-> call[x]]
    <3>1. PICK x \in Processes : c.cmd = call[x]
      BY <2>2
    <3> QED
      BY <1>1, <1>4, <3>1, ExtantHas DEF AckedIsKept
  <2> QED
    BY <2>1, <2>2, LateStep
<1> QED
  BY <1>2, <1>3, <1>4 DEF AckedIsKept

\* The service has answered a request that uploaded e: it has e, or had it.
LEMMA AnsweredIsKept ==
  ASSUME PromiseInv, TypeOK', KindInv, OneEach, CustodyInv, [Next]_vars,
         NEW x \in Processes, Answered(x), NEW e \in call[x].envs
  PROVE  InCustody(e)'
<1>0. TypeOK /\ OneEach /\ AckedIsKept /\ e \in Extant /\ e \in Ciphertext
  BY ExtantHas, ExtantType DEF PromiseInv, CustodyInv
<1>1. Run(x[1], call[x]) /\ call[x].stage = "sent" /\ UNCHANGED <<now, inbox, cut>>
  BY DEF Answered, Serve, journalVars, engineVars
<1> DEFINE k == <<x[1], call[x]>>
<1>2. k \in Commands /\ k[1] = x[1] /\ k[2] = call[x]
  BY <1>1 DEF Commands
<1>3. /\ \A a \in call[x].acks : a \in Extant /\ Kept(a)
      /\ \A f, g \in call[x].envs : f = g
  BY <1>0, <1>2, CommandParts, CommandCustody
<1>4. call[x].change = {} /\ x[1] \in Peers /\ call[x] \in Call
  BY <1>0, ProcessOwner DEF OneEach, TypeOK
<1>5. PICK r \in receipts' :
        /\ r.env = e /\ r.expires > now
        /\ r.delivered => \/ \E q \in receipts : q.env = e /\ q.delivered
                          \/ \E a \in call[x].acks : SameKey(a, e)
  BY <1>0, <1>1, <1>3, <1>4, RunRows
<1>6. CASE ~r.delivered
  BY <1>1, <1>5, <1>6 DEF InCustody, Spooled
<1>7. CASE r.delivered
  <2>1. Kept(e)
    BY <1>0, <1>3, <1>5, <1>7, SameKeySame DEF AckedIsKept
  <2>2. Kept(e)'
    BY <1>0, <2>1, KeptLasts
  <2> QED
    BY <2>2 DEF Kept, InCustody
<1> QED
  BY <1>6, <1>7

LEMMA UploadedNext ==
  ASSUME PromiseInv, TypeOK', KindInv, OneEach, CustodyInv, [Next]_vars
  PROVE  UploadedIsKept'
<1>0. TypeOK /\ TimesAgree /\ BlocksAreCut /\ AckedIsKept /\ UploadedIsKept
  BY DEF PromiseInv, CustodyInv
<1>1. \A e \in Ciphertext : InCustody(e) => InCustody(e)'
  BY <1>0, CustodyLasts
<1>2. ASSUME NEW p \in Peers, NEW r \in outbox'[p], r.uploaded
      PROVE  InCustody(Envelope(p, r))'
  <2>1. PICK s \in outbox[p] :
          /\ SameRow(r, s)
          /\ \/ s.uploaded
             \/ \E x \in Processes : \E e \in call[x].envs : RecordUpload(x) /\ x[1] = p /\ e.id = s.id
    BY <1>2, OutboxMoves
  <2>2. s \in Row /\ Envelope(p, s) \in Ciphertext /\ Envelope(p, r) = Envelope(p, s)
    BY <1>0, <2>1, EnvelopeType, SameRowEnvelope DEF TypeOK
  <2>3. CASE s.uploaded
    <3>1. InCustody(Envelope(p, s))
      BY <1>0, <2>3 DEF UploadedIsKept
    <3> QED
      BY <1>1, <2>2, <3>1
  <2>4. ASSUME NEW x \in Processes, NEW e \in call[x].envs, RecordUpload(x), x[1] = p, e.id = s.id
        PROVE  InCustody(Envelope(p, r))'
    <3>1. e \in Extant /\ e.from = p
      BY <2>4, ExtantHas DEF OneEach
    <3>2. s.key # 0
      BY <2>4, <3>1 DEF KindInv, UnsealedIsNowhere
    <3>3. Envelope(p, s) \in Extant /\ Envelope(p, s).from = p /\ Envelope(p, s).id = s.id
      BY <3>2, ExtantHas, SealedFields
    <3>4. e = Envelope(p, s)
      BY <2>4, <3>1, <3>3 DEF KindInv, OneOfAKind
    <3>5. InCustody(e)
      BY <1>0, <2>4 DEF UploadedIsKept, RecordUpload
    <3> QED
      BY <1>1, <2>2, <3>4, <3>5
  <2> QED
    BY <2>1, <2>3, <2>4
<1>3. ASSUME NEW x \in Processes, call'[x].stage \in {"answered", "recorded"}, NEW e \in call'[x].envs
      PROVE  InCustody(e)'
  <2>1. CASE e \in call[x].envs /\ call[x].stage \in {"answered", "recorded"}
    <3>1. e \in Ciphertext
      BY <1>0, <2>1, ExtantHas, ExtantType
    <3> QED
      BY <1>0, <1>1, <2>1, <3>1 DEF UploadedIsKept
  <2>2. CASE Answered(x)
    <3>1. e \in call[x].envs
      BY <1>3, <2>2 DEF Answered
    <3> QED
      BY <2>2, <3>1, AnsweredIsKept
  <2> QED
    BY <1>0, <1>3, <2>1, <2>2, CallStep DEF Emptied, Asked, Told, Recorded, Sealing
<1> QED
  BY <1>2, <1>3 DEF UploadedIsKept

LEMMA OpenedNext ==
  ASSUME PromiseInv, TypeOK', KindInv, OpenedIsKept, [Next]_vars
  PROVE  OpenedIsKept'
<1>0. TypeOK /\ RowsAreDistinct
  BY DEF PromiseInv, KindInv
<1>1. /\ \A p, q \in Peers : chain[p][q] \in Nat /\ chain'[p][q] \in Nat /\ chain[p][q] <= chain'[p][q]
      /\ \A e \in Extant : /\ e \in Ciphertext /\ e.from \in Peers /\ e.to \in Peers /\ e.key \in Nat
                           /\ e.key <= chain[e.from][e.to]
      /\ \A p \in Peers : \A o \in opened[p] : o[1] \in Peers /\ o[2] \in Nat /\ o[2] <= chain[o[1]][p]
  BY <1>0, ChainGrows, ExtantType DEF TypeOK, Ciphertext, KindInv, NumbersAreDrawn, OpenedIsKept
<1>2. \A p \in Peers : \A e : Receiving(p, e) => e \in Extant /\ e.to = p /\ Journaled(p, e)'
  <2>1. ASSUME NEW p \in Peers, NEW e, Receiving(p, e)
        PROVE  Journaled(p, e)'
    <3> DEFINE row == [env |-> e, applied |-> FALSE, acked |-> FALSE, receipted |-> FALSE]
    <3>1. inbox' = [inbox EXCEPT ![p] = @ \cup {row}] /\ row.env = e
      BY <2>1 DEF Receiving, Receive
    <3> HIDE DEF row
    <3>2. row \in inbox'[p]
      BY <1>0, <3>1, UpdateAt, Domains
    <3> QED
      BY <3>1, <3>2 DEF Journaled
  <2> QED
    BY <2>1 DEF Receiving
<1>3. ASSUME NEW p \in Peers, NEW o \in opened'[p]
      PROVE  o[2] <= chain'[o[1]][p]
  <2>1. CASE o \in opened[p]
    BY <1>1, <2>1
  <2>2. ASSUME NEW e, Receiving(p, e), o = <<e.from, e.key>>
        PROVE  o[2] <= chain'[o[1]][p]
    <3>1. e \in Extant /\ e.to = p /\ o[1] = e.from /\ o[2] = e.key
      BY <1>2, <2>2
    <3> QED
      BY <1>1, <3>1
  <2> QED
    BY <2>1, <2>2, OpenedMoves
<1>4. ASSUME NEW e \in Extant', <<e.from, e.key>> \in opened'[e.to]
      PROVE  Kept(e)'
  <2>0. e \in Ciphertext /\ e.from \in Peers /\ e.to \in Peers /\ e.key \in Nat
    <3>1. e \in Ciphertext
      <4>1. CASE SealedNow(e)
        <5>1. PICK p \in Peers : \E r \in outbox[p] : \E s \in outbox'[p] : e = Envelope(p, s)
          BY <4>1 DEF SealedNow
        <5>2. PICK s \in outbox'[p] : e = Envelope(p, s)
          BY <5>1
        <5>3. s \in Row
          BY DEF TypeOK
        <5> QED
          BY <5>2, <5>3, EnvelopeType
      <4> QED
        BY <1>0, <1>4, <4>1, ExtantStep, ExtantType
    <3> QED
      BY <3>1 DEF Ciphertext
  <2>1. CASE e \in Extant
    <3>1. CASE <<e.from, e.key>> \in opened[e.to]
      BY <2>0, <2>1, <3>1, KeptLasts DEF OpenedIsKept
    <3>2. ASSUME NEW f, Receiving(e.to, f), <<e.from, e.key>> = <<f.from, f.key>>
          PROVE  Kept(e)'
      <4>1. f \in Extant /\ f.to = e.to /\ f.from = e.from /\ f.key = e.key /\ Journaled(e.to, f)'
        BY <1>2, <2>0, <3>2
      <4>2. f = e
        BY <2>1, <4>1 DEF KindInv, OneOfAKind
      <4> QED
        BY <4>1, <4>2 DEF Kept
    <3> QED
      BY <1>4, <2>0, <3>1, <3>2, OpenedMoves
  <2>2. CASE SealedNow(e)
    <3>1. e.key = chain[e.from][e.to] + 1
      <4>1. PICK p \in Peers : \E r \in outbox[p] : \E s \in outbox'[p] :
              s.to = r.to /\ s.key = chain[p][r.to] + 1 /\ e = Envelope(p, s)
        BY <2>2 DEF SealedNow
      <4>2. PICK r \in outbox[p] : \E s \in outbox'[p] :
              s.to = r.to /\ s.key = chain[p][r.to] + 1 /\ e = Envelope(p, s)
        BY <4>1
      <4> QED
        BY <4>2, SealedFields
    <3>2. CASE <<e.from, e.key>> \in opened[e.to]
      <4>1. e.key <= chain[e.from][e.to]
        BY <2>0, <3>2 DEF OpenedIsKept
      <4> QED
        BY <1>1, <2>0, <3>1, <4>1
    <3>3. ASSUME NEW f, Receiving(e.to, f), <<e.from, e.key>> = <<f.from, f.key>>
          PROVE  Kept(e)'
      <4>1. f \in Extant /\ f.to = e.to /\ f.from = e.from /\ f.key = e.key
        BY <1>2, <2>0, <3>3
      <4>2. e.key <= chain[e.from][e.to]
        BY <1>1, <4>1
      <4> QED
        BY <1>1, <2>0, <3>1, <4>2
    <3> QED
      BY <1>4, <2>0, <3>2, <3>3, OpenedMoves
  <2> QED
    BY <1>0, <1>4, <2>1, <2>2, ExtantStep
<1> QED
  BY <1>3, <1>4 DEF OpenedIsKept

LEMMA CustodyInit == Init => CustodyInv
<1> SUFFICES ASSUME Init
             PROVE  CustodyInv
  OBVIOUS
<1>1. /\ \A p \in Peers : outbox[p] = {} /\ inbox[p] = {} /\ buffer[p] = {} /\ inHand[p] = {}
      /\ \A p \in Peers : changes[p] = {} /\ opened[p] = {}
      /\ \A m \in Messages : sentAt[m] = 0
  BY DEF Init, JournalInit
<1>2. \A x \in Processes : /\ call[x].envs = {} /\ call[x].inbox = {} /\ call[x].acks = {}
                           /\ call[x].change = {} 
  BY DEF Init, Idle
<1>3. receipts = {} /\ late = {} /\ blocks = {} /\ registered = Peers /\ now = 1
  BY DEF Init, StoreInit
<1>4. Extant = {}
  BY <1>1, <1>2, <1>3 DEF Extant, InStore, InInboxes, InOutboxes, InMemory, InCalls, InLate
<1> QED
  BY <1>1, <1>2, <1>3, <1>4
  DEF CustodyInv, TimesAgree, BlocksAreCut, AckedIsKept, UploadedIsKept, OpenedIsKept

LEMMA CustodyInvariant == Spec => []CustodyInv
<1>1. CustodyInv /\ OneEach /\ KindInv /\ PromiseInv /\ PromiseInv' /\ [Next]_vars => CustodyInv'
  BY TimesNext, CutsNext, AckedNext, UploadedNext, OpenedNext DEF CustodyInv, PromiseInv
<1> QED
  BY <1>1, CustodyInit, PromiseInvariant, KindInvariant, OneEachInvariant, PTL DEF Spec

\* An envelope that its sender marked as uploaded, and therefore never sends
\* again, is in the mailbox or in its recipient's journal until it is over or
\* the two are cut off; and one whose message key is consumed is journaled, so
\* that a second copy does not fail to decrypt for ever (pump.sendOne,
\* SignalJournal.uploaded and receive, DeliveryStore.acknowledgeBatch).
THEOREM NothingIsLost == Spec => []Custody
<1> SUFFICES ASSUME TypeOK, KindInv, CustodyInv
             PROVE  Custody
  BY PromiseInvariant, KindInvariant, CustodyInvariant, PTL DEF PromiseInv
<1>1. ASSUME NEW p \in Peers, NEW r \in outbox[p], r.uploaded, Live(r), Uncut(Envelope(p, r))
      PROVE  Spooled(Envelope(p, r)) \/ Journaled(r.to, Envelope(p, r))
  <2>1. Envelope(p, r).to = r.to /\ Envelope(p, r).at = r.at
    BY DEF Envelope
  <2>2. Current(Envelope(p, r)) /\ InCustody(Envelope(p, r))
    BY <1>1, <2>1 DEF Current, Live, CustodyInv, UploadedIsKept
  <2> QED
    BY <2>1, <2>2 DEF InCustody
<1>2. ASSUME NEW r \in receipts, r.expires > now, Uncut(r.env),
             <<r.env.from, r.env.key>> \in opened[r.env.to]
      PROVE  Journaled(r.env.to, r.env)
  <2>1. r.env \in Extant /\ Current(r.env)
    BY <1>2, ExtantHas DEF Current, Live, CustodyInv, TimesAgree
  <2> QED
    BY <1>2, <2>1 DEF CustodyInv, OpenedIsKept, Kept
<1> QED
  BY <1>1, <1>2 DEF Custody

-----------------------------------------------------------------------------
(* Receipts *)

AnswerInv == ShownIsWritten /\ ReceiptsAreLater /\ ShownIsAnswered

\* The receipt of e, if it has one, has a row.
Promised(o, e) == e.body.kind = "message" => HasToken(o, e.from, Receipt(e.body.of))

\* No receipt is owed for e any more.
Settled(o, e) == \E t \in inbox[o] : t.env = e /\ t.receipted

LEMMA ReceiptedQueues ==
  ASSUME TypeOK, NEW p \in Peers, NEW row \in inbox[p], Receipted(p, row)
  PROVE  row.receipted \/ Promised(p, row.env)'
<1>1. CASE ~(row.env.body.kind = "message" /\ ~row.receipted)
  BY <1>1 DEF Promised
<1>2. CASE row.env.body.kind = "message" /\ ~row.receipted
  <2> DEFINE body == Receipt(row.env.body.of)
             new == Fresh(p, row.env.from, body, now)
  <2>1. InsertOutgoing(p, row.env.from, body, now)
    BY <1>2 DEF Receipted
  <2>2. CASE HasToken(p, row.env.from, body)
    BY <2>1, <2>2 DEF InsertOutgoing, HasToken, Promised
  <2>3. CASE ~HasToken(p, row.env.from, body)
    <3>1. outbox' = [outbox EXCEPT ![p] = @ \cup {new}] /\ new.to = row.env.from /\ new.body = body
      BY <2>1, <2>3 DEF InsertOutgoing, Fresh
    <3> HIDE DEF new
    <3>2. new \in outbox'[p]
      BY <3>1, UpdateAt, Domains
    <3> QED
      BY <3>1, <3>2 DEF HasToken, Promised
  <2> QED
    BY <2>2, <2>3
<1> QED
  BY <1>1, <1>2

LEMMA InboxAnswers ==
  ASSUME PromiseInv, [Next]_vars, NEW o \in Peers
  PROVE  /\ \A r \in inbox'[o] : ~r.receipted \/ Settled(o, r.env) \/ Promised(o, r.env)'
         /\ \A s \in Unapplied(o) :
              \/ \E r \in inbox'[o] : r.env = s.env /\ ~r.applied
              \/ Settled(o, s.env) \/ Promised(o, s.env)' \/ Pair(s.env.from, o) \in cut'
<1>0. TypeOK
  BY DEF PromiseInv
<1> DEFINE Left == \A r \in inbox'[o] : ~r.receipted \/ Settled(o, r.env) \/ Promised(o, r.env)'
           Right == \A s \in Unapplied(o) :
                      \/ \E r \in inbox'[o] : r.env = s.env /\ ~r.applied
                      \/ Settled(o, s.env) \/ Promised(o, s.env)' \/ Pair(s.env.from, o) \in cut'
<1>1. CASE UNCHANGED <<inbox, opened>>
  BY <1>1 DEF Settled, Unapplied
<1>2. ASSUME NEW p \in Peers, RecordAcks(p)
      PROVE  Left /\ Right
  <2>1. /\ \A r \in inbox'[o] : \E s \in inbox[o] :
             s.env = r.env /\ s.applied = r.applied /\ s.receipted = r.receipted
        /\ \A s \in inbox[o] : \E r \in inbox'[o] :
             s.env = r.env /\ s.applied = r.applied /\ s.receipted = r.receipted
    <3>1. CASE o = p
      BY <1>0, <1>2, <3>1, AcksRows
    <3>2. CASE o # p
      BY <1>0, <1>2, <3>2, AcksRows
    <3> QED
      BY <3>1, <3>2
  <2> QED
    BY <2>1 DEF Settled, Unapplied
<1>3. ASSUME NEW p \in Peers, RecordApplied(p)
      PROVE  Left /\ Right
  <2>1. PICK e \in inHand[p] : Applied(p, e) \/ UNCHANGED inbox
    BY <1>3 DEF RecordApplied, journalVars
  <2>2. CASE UNCHANGED inbox \/ (Applied(p, e) /\ o # p)
    <3>1. inbox'[o] = inbox[o]
      BY <1>0, <2>2, AppliedRows
    <3> QED
      BY <3>1 DEF Settled, Unapplied
  <2>3. CASE Applied(p, e) /\ o = p /\ \E r \in inbox[p] : r.env = e /\ ~r.applied
    <3>1. PICK row \in inbox[p] : row.env = e /\ Receipted(p, row)
      BY <2>3 DEF Applied
    <3>2. Settled(o, e) \/ Promised(o, e)'
      BY <1>0, <2>3, <3>1, ReceiptedQueues DEF Settled
    <3>3. /\ \A r \in inbox'[o] : \E s \in inbox[o] :
               s.env = r.env /\ (r.receipted => s.receipted \/ r.env = e)
          /\ \A s \in inbox[o] : \E r \in inbox'[o] :
               s.env = r.env /\ (r.applied => s.applied \/ r.env = e)
      BY <1>0, <2>3, AppliedRows
    <3> QED
      BY <3>2, <3>3 DEF Settled, Unapplied
  <2>4. CASE Applied(p, e) /\ ~(\E r \in inbox[p] : r.env = e /\ ~r.applied)
    BY <2>4 DEF Applied, Settled, Unapplied
  <2> QED
    BY <2>1, <2>2, <2>3, <2>4
<1>4. ASSUME NEW p \in Peers, PruneJournal(p)
      PROVE  Left /\ Right
  <2>1. inbox' = [inbox EXCEPT ![p] = {r \in @ : Live(r.env) \/ ~(r.applied /\ r.acked)}]
    BY <1>4 DEF PruneJournal, Prune
  <2>2. /\ inbox'[o] \subseteq inbox[o]
        /\ \A s \in inbox[o] : s \in inbox'[o] \/ s.applied
    BY <1>0, <2>1, UpdateAt, Domains
  <2> QED
    BY <2>2 DEF Settled, Unapplied
<1>5. ASSUME NEW p \in Peers, NEW q \in Peers, Block(p, q, TRUE)
      PROVE  Left /\ Right
  <2>1. inbox' = [inbox EXCEPT ![p] = {r \in @ : r.env.from # q}] /\ Pair(p, q) \in cut'
    BY <1>5 DEF Block, Forget
  <2>2. Pair(q, p) \in cut'
    BY <2>1 DEF Pair
  <2>3. /\ inbox'[o] \subseteq inbox[o]
        /\ \A s \in inbox[o] : s \in inbox'[o] \/ Pair(s.env.from, o) \in cut'
    BY <1>0, <2>1, <2>2, UpdateAt, Domains
  <2> QED
    BY <2>3 DEF Settled, Unapplied
<1>6. ASSUME NEW p \in Peers, NEW e, Receiving(p, e)
      PROVE  Left /\ Right
  <2> DEFINE row == [env |-> e, applied |-> FALSE, acked |-> FALSE, receipted |-> FALSE]
  <2>1. inbox' = [inbox EXCEPT ![p] = @ \cup {row}]
    BY <1>6 DEF Receiving, Receive
  <2>2. ~row.receipted
    OBVIOUS
  <2> HIDE DEF row
  <2>3. /\ \A r \in inbox'[o] : r \in inbox[o] \/ r = row
        /\ \A s \in inbox[o] : s \in inbox'[o]
    BY <1>0, <2>1, UpdateAt, Domains
  <2> QED
    BY <2>2, <2>3 DEF Settled, Unapplied
<1>7. ASSUME NEW p \in Extended, EarlyReceipt(p)
      PROVE  Left /\ Right
  <2>1. p \in Peers
    BY ExtProcess
  <2>2. PICK row \in inbox[p] : Received(p, row)
    BY <1>7 DEF EarlyReceipt, Unapplied
  <2> DEFINE told == [row EXCEPT !.receipted = TRUE]
  <2>3. told.env = row.env /\ told.applied = row.applied
    BY <1>0, <2>1, RowParts DEF TypeOK
  <2>4. inbox' = [inbox EXCEPT ![p] = (@ \ {row}) \cup {told}]
    BY <2>2 DEF Received
  <2>5. row.receipted \/ Promised(p, row.env)'
    BY <1>0, <2>1, <2>2, ReceiptedQueues DEF Received
  <2> HIDE DEF told
  <2>6. /\ \A r \in inbox'[o] : r \in inbox[o] \/ (o = p /\ r = told)
        /\ \A s \in inbox[o] : s \in inbox'[o] \/ (o = p /\ s = row)
        /\ told \in inbox'[p]
    BY <1>0, <2>1, <2>4, UpdateAt, Domains
  <2> QED
    BY <2>1, <2>2, <2>3, <2>5, <2>6 DEF Settled, Unapplied
<1> QED
  BY <1>1, <1>2, <1>3, <1>4, <1>5, <1>6, <1>7, InboxSteps

LEMMA ReceiptsLaterNext ==
  ASSUME PromiseInv, TypeOK', KindInv, TimesAgree, ReceiptsAreLater, [Next]_vars
  PROVE  ReceiptsAreLater'
<1>0. TypeOK /\ now \in Nat
  BY DEF PromiseInv, TypeOK
<1>1. \A m \in Written : m \in Messages /\ sentAt'[m] = sentAt[m] /\ m \in Written' /\ sentAt[m] <= now
  BY <1>0, Grows DEF Written, TypeOK, TimesAgree
<1>2. ASSUME NEW p \in Peers, NEW r \in outbox'[p], r.body.kind # "message"
      PROVE  r.body.of \in Written /\ sentAt[r.body.of] <= r.at
  <2>1. CASE \E s \in outbox[p] : r.body = s.body /\ r.at = s.at
    BY <1>2, <2>1 DEF ReceiptsAreLater
  <2>2. CASE \E m \in Written : r.body = Receipt(m) /\ r.at = now
    BY <1>1, <2>2 DEF Receipt
  <2>3. \A m : Body(m).kind = "message"
    BY DEF Body
  <2> QED
    BY <1>2, <2>1, <2>2, <2>3, OutboxMoves
<1> QED
  BY <1>1, <1>2 DEF ReceiptsAreLater

LEMMA ShownNext ==
  ASSUME PromiseInv, ShownIsWritten, [Next]_vars
  PROVE  /\ ShownIsWritten'
         /\ \A m \in seen' : m \in seen \/ \E r \in Unapplied(m.to)' : r.env.body = Body(m)
<1>1. Written \subseteq Written'
  BY Grows DEF PromiseInv, TypeOK, Written
<1>2. ASSUME NEW p \in Peers, NEW row \in Unapplied(p), Project(p, row)
      PROVE  \A m \in seen' : \/ m \in seen
                              \/ m \in Written /\ \E r \in Unapplied(m.to)' : r.env.body = Body(m)
  <2>1. CASE row.env.body.kind = "message"
    <3>1. row \in inbox[p] /\ <<row.env.from, row.env.to, row.env.body>> \in Genuine /\ row.env.to = p
      BY DEF PromiseInv, InboxGenuine, Says, Unapplied
    <3>2. PICK m \in Written : p = m.to /\ row.env.body = Body(m) /\ row.env.body.of = m
      BY <2>1, <3>1, GenuineMessage
    <3>3. seen' = seen \cup {m} /\ inbox' = inbox
      BY <1>2, <2>1, <3>2 DEF Project, journalVars
    <3>4. row \in Unapplied(m.to)'
      BY <3>2, <3>3 DEF Unapplied
    <3> QED
      BY <3>2, <3>3, <3>4
  <2>2. CASE row.env.body.kind # "message"
    BY <1>2, <2>2 DEF Project
  <2> QED
    BY <2>1, <2>2
<1>3. UNCHANGED seen \/ \E p \in Peers : \E row \in Unapplied(p) : Project(p, row)
  BY ZenonT(60) DEF Next, vars, Tick, Send, Flush, Block, PushBlock, RecordAcks, RecordBlock, TakeEnvelope,
     RecordApplied, PruneJournal, ExtensionReceive, EarlyReceipt, SealRow, Post, Fetch, Serve,
     ServeLate, Refuse, TimeOut, Die, RecordUpload, engineVars
<1> QED
  BY <1>1, <1>2, <1>3 DEF ShownIsWritten

LEMMA AnsweredNext ==
  ASSUME PromiseInv, PromiseInv', KindInv, TimesAgree, AnswerInv, [Next]_vars
  PROVE  ShownIsAnswered'
<1>0. TypeOK /\ TypeOK' /\ now \in Nat /\ now' \in Nat /\ TTL \in Nat
  BY SchemaAssumption DEF PromiseInv, TypeOK
<1> SUFFICES ASSUME NEW m \in Messages, Lasts(m)'
             PROVE  /\ \A r \in inbox'[m.to] : r.env.body = Body(m) /\ r.receipted => ReceiptIsQueued(m)'
                    /\ m \in seen' => ReceiptIsQueued(m)' \/ \E r \in Unapplied(m.to)' : r.env.body = Body(m)
  BY DEF ShownIsAnswered
<1>1. /\ now <= now' /\ cut \subseteq cut'
      /\ sentAt[m] \in Nat /\ (sentAt'[m] = sentAt[m] \/ sentAt[m] = 0)
      /\ m.to \in Peers /\ m.from \in Peers
  BY <1>0, Grows, DeliveryAssumption DEF TypeOK
<1>2. \A n : Body(n) = Body(m) => n = m
  BY DEF Body
<1>3. Body(m).kind = "message" /\ Body(m).of = m /\ Receipt(m).kind # "message" /\ Receipt(m).of = m
  BY DEF Body, Receipt
\* What is in the inbox was written, and it is from the sender.
<1>4. \A e : e.to = m.to /\ Says(e) \in Genuine /\ e.body = Body(m) => m \in Written /\ e.from = m.from
  BY <1>2, <1>3, GenuineMessage DEF Says
<1>5. \A r \in inbox[m.to] : r.env.body = Body(m) => m \in Written /\ r.env.from = m.from
  BY <1>1, <1>4 DEF PromiseInv, InboxGenuine
<1>6. ASSUME m \in Written
      PROVE  /\ Lasts(m) /\ sentAt'[m] = sentAt[m]
             /\ ReceiptIsQueued(m) => ReceiptIsQueued(m)'
  <2>1. sentAt'[m] = sentAt[m]
    BY <1>1, <1>6 DEF Written
  <2>2. Lasts(m)
    BY <1>0, <1>1, <2>1 DEF Lasts
  <2>3. ASSUME NEW s \in outbox[m.to], s.to = m.from, s.body = Receipt(m)
        PROVE  ReceiptIsQueued(m)'
    <3>1. s.at \in Nat /\ sentAt[m] <= s.at
      BY <1>0, <1>1, <1>3, <2>3 DEF AnswerInv, ReceiptsAreLater, TypeOK, Row
    <3>2. Live(s)'
      BY <1>0, <1>1, <2>1, <3>1 DEF Live, Lasts
    <3>3. Pair(m.to, s.to) \notin cut'
      BY <2>3 DEF Lasts, Pair
    <3>4. PICK r \in outbox'[m.to] : r.to = s.to /\ r.body = s.body
      BY <1>1, <3>2, <3>3, OutboxMoves
    <3> QED
      BY <2>3, <3>4 DEF ReceiptIsQueued, HasToken
  <2> QED
    BY <2>1, <2>2, <2>3 DEF ReceiptIsQueued, HasToken
<1>7. ASSUME NEW e, e.body = Body(m), e.from = m.from
      PROVE  /\ Promised(m.to, e)' => ReceiptIsQueued(m)'
             /\ m \in Written /\ Settled(m.to, e) => ReceiptIsQueued(m)'
  <2>1. Promised(m.to, e)' => ReceiptIsQueued(m)'
    BY <1>3, <1>7 DEF Promised, ReceiptIsQueued
  <2>2. ASSUME m \in Written, Settled(m.to, e)
        PROVE  ReceiptIsQueued(m)'
    BY <1>6, <1>7, <2>2 DEF Settled, AnswerInv, ShownIsAnswered
  <2> QED
    BY <2>1, <2>2
<1>8. ASSUME NEW r \in inbox'[m.to], r.env.body = Body(m), r.receipted
      PROVE  ReceiptIsQueued(m)'
  <2>1. Settled(m.to, r.env) \/ Promised(m.to, r.env)'
    BY <1>1, <1>8, InboxAnswers
  <2>2. r.env.from = m.from
    <3>1. r.env.to = m.to /\ <<r.env.from, r.env.to, r.env.body>> \in Genuine'
      BY <1>1 DEF PromiseInv, InboxGenuine, Says
    <3>2. <<r.env.from, r.env.to, r.env.body>> \in {<<n.from, n.to, Body(n)>> : n \in Written'}
      <4>1. \A n : Receipt(n) # Body(m)
        BY <1>3 DEF Receipt
      <4> QED
        BY <1>8, <3>1, <4>1 DEF Genuine
    <3> QED
      BY <1>2, <1>8, <3>2
  <2>3. Settled(m.to, r.env) => m \in Written
    BY <1>5, <1>8 DEF Settled
  <2> QED
    BY <1>7, <1>8, <2>1, <2>2, <2>3
<1>9. ASSUME m \in seen'
      PROVE  ReceiptIsQueued(m)' \/ \E r \in Unapplied(m.to)' : r.env.body = Body(m)
  <2>1. CASE m \in seen
    <3>1. m \in Written
      BY <2>1 DEF AnswerInv, ShownIsWritten
    <3>2. CASE ReceiptIsQueued(m)
      BY <1>6, <3>1, <3>2
    <3>3. ASSUME NEW s \in Unapplied(m.to), s.env.body = Body(m)
          PROVE  ReceiptIsQueued(m)' \/ \E r \in Unapplied(m.to)' : r.env.body = Body(m)
      <4>1. s.env.from = m.from
        BY <1>5, <3>3 DEF Unapplied
      <4>2. \/ \E r \in inbox'[m.to] : r.env = s.env /\ ~r.applied
            \/ Settled(m.to, s.env) \/ Promised(m.to, s.env)'
        BY <1>1, <4>1, InboxAnswers DEF Lasts
      <4> QED
        BY <1>7, <3>1, <3>3, <4>1, <4>2 DEF Unapplied
    <3> QED
      BY <1>6, <2>1, <3>1, <3>2, <3>3 DEF AnswerInv, ShownIsAnswered
  <2>2. CASE m \notin seen
    BY <1>9, <2>2, ShownNext DEF AnswerInv
  <2> QED
    BY <2>1, <2>2
<1> QED
  BY <1>8, <1>9

LEMMA AnswerInvariant == Spec => []AnswerInv
<1>1. Init => AnswerInv
  <2> SUFFICES ASSUME Init
               PROVE  AnswerInv
    OBVIOUS
  <2>1. \A p \in Peers : outbox[p] = {} /\ inbox[p] = {}
    BY DEF Init, JournalInit
  <2>2. \A m \in Messages : m.to \in Peers
    BY DeliveryAssumption
  <2> QED
    BY <2>1, <2>2 DEF Init, AnswerInv, ShownIsWritten, ReceiptsAreLater, ShownIsAnswered
<1>2. AnswerInv /\ CustodyInv /\ KindInv /\ PromiseInv /\ PromiseInv' /\ [Next]_vars => AnswerInv'
  BY ReceiptsLaterNext, ShownNext, AnsweredNext DEF AnswerInv, CustodyInv, PromiseInv
<1> QED
  BY <1>1, <1>2, PromiseInvariant, KindInvariant, CustodyInvariant, PTL DEF Spec

\* A message that its recipient sees and whose sender does not know it has a
\* receipt in the making, queued, spooled or journaled: nobody waits for a
\* receipt that nobody sends (DeviceMessenger.receive, SignalJournal.applied
\* and received, pump.sendOne).
THEOREM ReceiptsArrive == Spec => []ReceiptOnItsWay
<1> SUFFICES ASSUME TypeOK, CustodyInv, AnswerInv, AckedIsEffective
             PROVE  ReceiptOnItsWay
  BY PromiseInvariant, CommitInvariant, CustodyInvariant, AnswerInvariant, PTL DEF PromiseInv
<1> SUFFICES ASSUME NEW m \in seen \ confirmed, sentAt[m] + TTL > now, Pair(m.from, m.to) \notin cut
             PROVE  \/ \E r \in Unapplied(m.to) : r.env.body = Body(m)
                    \/ \E r \in Pending(m.to) : r.body = Receipt(m)
                    \/ \E r \in receipts : r.env.body = Receipt(m) /\ Spooled(r.env)
                    \/ \E r \in Unapplied(m.from) : r.env.body = Receipt(m)
  BY DEF ReceiptOnItsWay
<1>1. m \in Messages /\ Lasts(m) /\ m.to \in Peers /\ m.from \in Peers
  BY DeliveryAssumption DEF TypeOK, Lasts
<1>2. ReceiptIsQueued(m) \/ \E r \in Unapplied(m.to) : r.env.body = Body(m)
  BY <1>1 DEF AnswerInv, ShownIsAnswered
<1>3. ASSUME NEW s \in outbox[m.to], s.to = m.from, s.body = Receipt(m), s.uploaded
      PROVE  \/ \E r \in receipts : r.env.body = Receipt(m) /\ Spooled(r.env)
             \/ \E r \in Unapplied(m.from) : r.env.body = Receipt(m)
  <2> DEFINE e == Envelope(m.to, s)
  <2>1. e.from = m.to /\ e.to = m.from /\ e.at = s.at /\ e.body = Receipt(m)
    BY <1>3 DEF Envelope
  <2>2. Receipt(m).kind # "message" /\ Receipt(m).of = m
    BY DEF Receipt
  <2>3. s.at \in Nat /\ sentAt[m] \in Nat /\ now \in Nat /\ TTL \in Nat /\ sentAt[m] <= s.at
    BY <1>1, <1>3, <2>2, SchemaAssumption DEF AnswerInv, ReceiptsAreLater, TypeOK, Row
  <2>4. InCustody(e)
    BY <1>1, <1>3 DEF CustodyInv, UploadedIsKept
  <2> HIDE DEF e
  <2>5. Current(e)
    BY <1>1, <2>1, <2>3 DEF Current, Live, Uncut, Lasts, Pair
  <2>6. CASE Spooled(e)
    BY <2>1, <2>6 DEF Spooled
  <2>7. CASE Journaled(m.from, e)
    <3>1. PICK r \in inbox[m.from] : r.env = e
      BY <2>7 DEF Journaled
    <3>2. ~r.applied
      BY <1>1, <2>1, <2>2, <3>1 DEF AckedIsEffective, Effective
    <3> QED
      BY <2>1, <3>1, <3>2 DEF Unapplied
  <2> QED
    BY <2>1, <2>4, <2>5, <2>6, <2>7 DEF InCustody
<1> QED
  BY <1>2, <1>3 DEF ReceiptIsQueued, HasToken, Pending

-----------------------------------------------------------------------------
(* Blocks *)

\* No request to block or unblock is executed after the device gave it up.
NoLateBlock == \A c \in late : ServeLate(c) => c.cmd.change = {}

\* Peer q of device p has a new change waiting, and no other device has.
WishMade(p, q, flag, new) ==
  /\ new.peer = q /\ (new.blocked <=> flag) /\ new \in changes'[p]
  /\ \A o \in Peers : o # p => changes'[o] = changes[o] /\ blocked'[o] = blocked[o]
  /\ \A c \in changes'[p] : c = new \/ (c \in changes[p] /\ c.peer # q)
  /\ \A c \in changes[p] : c \in changes'[p] \/ c.peer = q
  /\ \A u \in Peers : u # q => (u \in blocked'[p] <=> u \in blocked[p])
  /\ q \in blocked'[p] <=> flag

LEMMA WishSteps ==
  ASSUME TypeOK, [Next]_vars
  PROVE  \/ UNCHANGED <<changes, blocked>>
         \/ \E p \in Peers : RecordBlock(p)
         \/ /\ \E p, q \in Peers, flag \in BOOLEAN : \E new : WishMade(p, q, flag, new)
            /\ UNCHANGED <<call, blocks>>
<1>1. ASSUME NEW p \in Peers, NEW q \in Peers, NEW flag \in BOOLEAN, Block(p, q, flag)
      PROVE  (\E new : WishMade(p, q, flag, new)) /\ UNCHANGED <<call, blocks>>
  <2> DEFINE new == [peer |-> q, blocked |-> flag, rev |-> blockCalls[p] + 1]
             old == {c \in changes[p] : c.peer # q}
             wished == IF flag THEN blocked[p] \cup {q} ELSE blocked[p] \ {q}
  <2>1. new.peer = q /\ new.blocked = flag
    OBVIOUS
  <2>2. /\ changes' = [changes EXCEPT ![p] = old \cup {new}]
        /\ blocked' = [blocked EXCEPT ![p] = wished]
    BY <1>1 DEF Block
  <2>3. \A c : c \in old <=> c \in changes[p] /\ c.peer # q
    OBVIOUS
  <2>4. \A u : u \in wished <=> IF u = q THEN flag ELSE u \in blocked[p]
    OBVIOUS
  <2>5. DOMAIN changes = Peers /\ DOMAIN blocked = Peers
    BY DEF TypeOK
  <2> HIDE DEF new, old, wished
  <2>6. /\ \A o \in Peers : changes'[o] = IF o = p THEN old \cup {new} ELSE changes[o]
        /\ \A o \in Peers : blocked'[o] = IF o = p THEN wished ELSE blocked[o]
    BY <2>2, <2>5, UpdateAt
  <2>7. WishMade(p, q, flag, new)
    BY <2>1, <2>3, <2>4, <2>6 DEF WishMade
  <2> QED
    BY <1>1, <2>7 DEF Block, pumpVars, storeVars
<1>2. \/ UNCHANGED <<changes, blocked>>
      \/ \E p \in Peers : RecordBlock(p)
      \/ \E p \in Peers : \E q \in Peers, flag \in BOOLEAN : Block(p, q, flag)
  BY ZenonT(60) DEF Next, vars, Tick, Send, Flush, PushBlock, RecordAcks, TakeEnvelope, Project,
     RecordApplied, PruneJournal, ExtensionReceive, EarlyReceipt, SealRow, Post, Fetch, Serve,
     ServeLate, Refuse, TimeOut, Die, RecordUpload, engineVars
<1> QED
  BY <1>1, <1>2

LEMMA BlockSteps ==
  ASSUME OnlyTheAppTells, NoLateBlock, [Next]_vars
  PROVE  \/ UNCHANGED blocks
         \/ \E x \in Processes : \E b \in call[x].change :
              Serve(x) /\ SetBlock(x[1], b.peer, b.blocked)
<1>1. ASSUME NEW x \in Processes, Serve(x)
      PROVE  \/ UNCHANGED blocks
             \/ \E b \in call[x].change : SetBlock(x[1], b.peer, b.blocked)
  BY <1>1 DEF Serve, Run, Sync
<1>2. ASSUME NEW c \in late, ServeLate(c)
      PROVE  UNCHANGED blocks
  BY <1>2 DEF NoLateBlock, ServeLate, Run, Sync
<1>3. CASE ~(\E x \in Processes : Serve(x)) /\ ~(\E c \in late : ServeLate(c))
  <2>1. CASE Tick \/ UNCHANGED vars \/ \E m \in Messages : Send(m) \/ Flush(m)
    BY <2>1 DEF vars, Tick, Send, Flush, storeVars
  <2>2. CASE \E p \in Peers : \/ \E q \in Peers, flag \in BOOLEAN : Block(p, q, flag)
                              \/ PushBlock(p) \/ RecordAcks(p) \/ RecordBlock(p)
    BY <2>2 DEF Block, PushBlock, RecordAcks, RecordBlock, storeVars
  <2>3. CASE \E p \in Peers : \/ \E e \in buffer[p] : TakeEnvelope(p, e)
                              \/ \E row \in Unapplied(p) : Project(p, row)
                              \/ RecordApplied(p) \/ PruneJournal(p)
    BY <2>3 DEF TakeEnvelope, Project, RecordApplied, PruneJournal, storeVars
  <2>4. CASE \E p \in Extended : ExtensionReceive(p) \/ EarlyReceipt(p)
    BY <2>4 DEF ExtensionReceive, EarlyReceipt, storeVars
  <2>5. CASE \E x \in Processes : \/ \E r \in Pending(x[1]) : SealRow(x, r)
                                  \/ \E receive \in BOOLEAN : Post(x, receive)
                                  \/ Fetch(x) \/ Refuse(x) \/ TimeOut(x) \/ Die(x) \/ RecordUpload(x)
    BY <2>5 DEF SealRow, Post, Fetch, Refuse, TimeOut, Die, RecordUpload, storeVars
  <2> QED
    BY <1>3, <2>1, <2>2, <2>3, <2>4, <2>5 DEF Next
<1> QED
  BY <1>1, <1>2, <1>3

\* A block that the service executes is one that waits to be told.
LEMMA BlockRows ==
  ASSUME TypeOK, NEW p, NEW q, NEW flag \in BOOLEAN, SetBlock(p, q, flag)
  PROVE  /\ \A o, u \in Peers : o # p \/ u # q => (<<o, u>> \in blocks' <=> <<o, u>> \in blocks)
         /\ <<p, q>> \in blocks' <=> flag
  BY DEF SetBlock

LEMMA WishNext ==
  ASSUME TypeOK, TypeOK', WishInv, NoLateBlock, [Next]_vars
  PROVE  WishInv'
<1>0. /\ OnlyTheAppTells
      /\ \A x \in Processes : x[1] \in Peers /\ \A b \in call[x].change : b.peer \in Peers /\ b.blocked \in BOOLEAN
      /\ \A p \in Peers : \A b \in changes[p] : b.peer \in Peers /\ b.blocked \in BOOLEAN
  BY ProcessOwner DEF WishInv, TypeOK, Call, BlockChange
\* Two processes that tell are of two devices.
<1>1. \A x, y \in Processes : call[x].change # {} /\ call[y].change # {} /\ x[1] = y[1] => x = y
  <2>1. \A x \in Processes : x = <<x[1], x[2]>>
    BY DEF Processes
  <2> QED
    BY <1>0, <2>1 DEF OnlyTheAppTells
<1>2. CASE \E p, q \in Peers, flag \in BOOLEAN : \E new : WishMade(p, q, flag, new) /\ UNCHANGED <<call, blocks>>
  <2>1. PICK p \in Peers, q \in Peers, flag \in BOOLEAN :
          \E new : WishMade(p, q, flag, new) /\ UNCHANGED <<call, blocks>>
    BY <1>2
  <2>2. PICK new : WishMade(p, q, flag, new) /\ UNCHANGED <<call, blocks>>
    BY <2>1
  <2>3. WishesAreKnown'
    BY <1>0, <2>2 DEF WishInv, WishesAreKnown, WishMade
  <2>4. OneWishEach'
    BY <1>0, <2>2 DEF WishInv, OneWishEach, WishMade
  <2>5. ASSUME NEW o \in Peers, NEW c \in changes[o]
        PROVE  \E d \in changes'[o] : d.peer = c.peer
    BY <2>2, <2>5 DEF WishMade
  <2>6. OnlyTheAppTells'
    BY <1>0, <2>2, <2>5 DEF OnlyTheAppTells
  <2>7. BlocksSynchronised'
    BY <2>2 DEF WishInv, BlocksSynchronised, WishMade
  <2> QED
    BY <2>3, <2>4, <2>6, <2>7 DEF WishInv
<1>3. CASE \E p \in Peers : RecordBlock(p)
  <2>1. PICK p \in Peers : RecordBlock(p)
    BY <1>3
  <2> DEFINE x == <<p, "app">>
  <2>2. x \in Processes /\ x[1] = p /\ x[2] = "app"
    BY AppProcess
  <2>3. /\ call[x].stage = "answered" /\ UNCHANGED <<blocked, blocks>>
        /\ changes' = [changes EXCEPT ![p] = @ \ call[x].change]
        /\ call' = [call EXCEPT ![x] = Idle]
    BY <2>1 DEF RecordBlock, storeVars
  <2> HIDE DEF x
  <2>4. /\ \A o \in Peers : changes'[o] \subseteq changes[o]
        /\ \A o \in Peers : o # p => changes'[o] = changes[o]
        /\ \A c \in changes[p] : c \in changes'[p] \/ c \in call[x].change
    BY <2>3, UpdateAt DEF TypeOK
  <2>5. /\ call'[x].change = {}
        /\ \A y \in Processes : y # x => call'[y] = call[y]
    BY <2>2, <2>3, IdleIsEmpty DEF TypeOK, Emptied
  <2>6. WishesAreKnown' /\ OneWishEach'
    BY <2>3, <2>4 DEF WishInv, WishesAreKnown, OneWishEach
  <2>7. OnlyTheAppTells'
    <3>1. ASSUME NEW y \in Processes, call'[y].change # {}
          PROVE  call'[y] = call[y] /\ changes'[y[1]] = changes[y[1]]
      <4>1. y # x /\ call'[y] = call[y]
        BY <2>5, <3>1
      <4>2. y[1] # p
        <5>1. \A z \in Processes : z = <<z[1], z[2]>>
          BY DEF Processes
        <5> QED
          BY <1>0, <2>2, <3>1, <4>1, <5>1 DEF OnlyTheAppTells
      <4> QED
        BY <1>0, <2>4, <4>1, <4>2
    <3> QED
      BY <1>0, <2>3, <3>1 DEF OnlyTheAppTells
  <2>8. BlocksSynchronised'
    <3>1. ASSUME NEW o \in Peers, NEW q \in Peers, \A c \in changes'[o] : c.peer # q
          PROVE  q \in blocked[o] <=> <<o, q>> \in blocks
      <4>1. CASE \A c \in changes[o] : c.peer # q
        BY <4>1 DEF WishInv, BlocksSynchronised
      <4>2. CASE \E c \in changes[o] : c.peer = q
        <5>1. PICK c \in changes[o] : c.peer = q
          BY <4>2
        <5>2. o = p /\ c \in call[x].change
          BY <2>4, <3>1, <5>1
        <5>3. c.blocked <=> <<p, q>> \in blocks
          BY <1>0, <2>2, <2>3, <5>1, <5>2 DEF OnlyTheAppTells
        <5>4. c.blocked <=> q \in blocked[p]
          BY <5>1, <5>2 DEF WishInv, WishesAreKnown
        <5> QED
          BY <5>2, <5>3, <5>4
      <4> QED
        BY <4>1, <4>2
    <3> QED
      BY <2>3, <3>1 DEF BlocksSynchronised
  <2> QED
    BY <2>6, <2>7, <2>8 DEF WishInv
<1>4. CASE UNCHANGED <<changes, blocked>>
  <2>1. WishesAreKnown' /\ OneWishEach'
    BY <1>4 DEF WishInv, WishesAreKnown, OneWishEach
  <2>2. ASSUME NEW x \in Processes, NEW b \in call[x].change, Serve(x), SetBlock(x[1], b.peer, b.blocked)
        PROVE  OnlyTheAppTells' /\ BlocksSynchronised'
    <3>0. /\ \A o, u \in Peers : o # x[1] \/ u # b.peer => (<<o, u>> \in blocks' <=> <<o, u>> \in blocks)
          /\ <<x[1], b.peer>> \in blocks' <=> b.blocked
      BY <1>0, <2>2, BlockRows
    <3>1. /\ call'[x].change = call[x].change
          /\ \A y \in Processes : y # x => call'[y] = call[y]
      <4> DEFINE page == IF call[x].receive THEN SyncInbox(x[1], call[x].envs, call[x].acks) ELSE {}
                 c == [call[x] EXCEPT !.stage = "answered", !.inbox = page]
      <4>1. call' = [call EXCEPT ![x] = c] /\ c.change = call[x].change
        BY <2>2 DEF Serve, TypeOK, Call
      <4> HIDE DEF c
      <4> QED
        BY <4>1 DEF TypeOK
    <3>2. \E d \in changes[x[1]] : d.peer = b.peer
      BY <2>2, <1>0 DEF OnlyTheAppTells
    <3>3. BlocksSynchronised'
      BY <1>0, <1>4, <3>0, <3>2 DEF WishInv, BlocksSynchronised
    <3>4. ASSUME NEW y \in Processes, NEW d \in call'[y].change, call'[y].stage = "answered"
          PROVE  d.blocked <=> <<y[1], d.peer>> \in blocks'
      <4>1. CASE y = x
        BY <1>0, <2>2, <3>0, <3>1, <3>4, <4>1 DEF OnlyTheAppTells
      <4>2. CASE y # x
        <5>1. call'[y] = call[y] /\ y[1] # x[1]
          BY <1>1, <2>2, <3>1, <3>4, <4>2
        <5> QED
          BY <1>0, <3>0, <3>4, <5>1 DEF OnlyTheAppTells
      <4> QED
        BY <4>1, <4>2
    <3> QED
      BY <1>0, <1>4, <3>1, <3>3, <3>4 DEF OnlyTheAppTells
  <2>3. CASE UNCHANGED blocks
    <3>1. ASSUME NEW x \in Processes
          PROVE  \/ call'[x] = call[x]
                 \/ call'[x].change = {}
                 \/ call'[x].change \subseteq call[x].change /\ call'[x].stage = "sent"
                 \/ Told(x)
                 \/ Answered(x) /\ call[x].change # {}
      BY <3>1, CallStep DEF Emptied, Asked, Answered, Recorded, Sealing
    <3>2. ASSUME NEW x \in Processes, Answered(x), call[x].change # {}
          PROVE  \A b \in call[x].change : b.blocked <=> <<x[1], b.peer>> \in blocks'
      <4>1. PICK b \in call[x].change : SetBlock(x[1], b.peer, b.blocked)
        BY <3>2 DEF Answered, Serve, Run
      <4> QED
        BY <1>0, <3>2, <4>1, BlockRows DEF OnlyTheAppTells
    <3>3. OnlyTheAppTells'
      BY <1>0, <1>4, <2>3, <3>1, <3>2 DEF OnlyTheAppTells, Told, Answered
    <3>4. BlocksSynchronised'
      BY <1>4, <2>3 DEF WishInv, BlocksSynchronised
    <3> QED
      BY <2>1, <3>3, <3>4 DEF WishInv
  <2> QED
    BY <1>0, <2>1, <2>2, <2>3, BlockSteps DEF WishInv
<1> QED
  BY <1>2, <1>3, <1>4, WishSteps

\* The service blocks whom the device blocks as soon as no change waits to be
\* pushed, provided that no block or unblock the device gave up on is executed
\* after all, which nothing in the code excludes (DeviceMessenger.block,
\* deliveryBlockApplied, pump.beforeCycle).
THEOREM BlocksAgree == Spec /\ [][NoLateBlock]_vars => []BlocksSynchronised
<1>1. Init => WishInv
  <2> SUFFICES ASSUME Init
               PROVE  WishInv
    OBVIOUS
  <2>1. \A p \in Peers : changes[p] = {} /\ blocked[p] = {}
    BY DEF Init
  <2>2. \A x \in Processes : call[x].change = {}
    BY DEF Init, Idle
  <2> QED
    BY <2>1, <2>2
    DEF Init, StoreInit, WishInv, WishesAreKnown, OneWishEach, OnlyTheAppTells, BlocksSynchronised
<1>2. WishInv /\ PromiseInv /\ PromiseInv' /\ [Next]_vars /\ [NoLateBlock]_vars => WishInv'
  <2>1. CASE UNCHANGED vars
    BY <2>1 DEF vars, journalVars, storeVars, engineVars, pumpVars, WishInv, WishesAreKnown, OneWishEach,
      OnlyTheAppTells, BlocksSynchronised
  <2> QED
    BY <2>1, WishNext DEF PromiseInv
<1>3. WishInv => BlocksSynchronised
  BY DEF WishInv
<1> QED
  BY <1>1, <1>2, <1>3, PromiseInvariant, PTL DEF Spec

-----------------------------------------------------------------------------
(* The service, seen by itself *)

\* The mailbox of module DeliveryServer, with whatever the devices seal as its
\* envelopes and without its history.  It may start at any time.
Server == INSTANCE DeliveryServerProofs WITH
  Envelopes <- Ciphertext,
  MaxNow <- MaxNow + 1,
  past <- {}

LEMMA ServerConstants == Server!ServerAssumption
  BY DeliveryAssumption DEF Server!ServerAssumption, Ciphertext

\* What a command reads and writes is the same in both modules.
LEMMA SameCommands ==
  /\ \A R, e : Server!Accepts(R, e) <=> Accepts(R, e)
  /\ \A p, envs, acks : Server!AfterWrites(p, envs, acks) = AfterWrites(p, envs, acks)
  /\ \A R, p : Server!Fetched(R, p) = Fetched(R, p)
<1>0. \A S : Server!Cardinality(S) = Cardinality(S)
  BY DEF Server!Cardinality, Cardinality
<1>1. \A R : Server!Pruned(R) = Pruned(R)
  BY DEF Server!Pruned, Pruned
<1>2. \A R, e : Server!Previous(R, e) = Previous(R, e)
  BY DEF Server!Previous, Previous, Server!SameKey, SameKey, Server!Pruned, Pruned
<1>3. \A R, p : Server!Held(R, p) = Held(R, p)
  BY DEF Server!Held, Held, Server!Pruned, Pruned
<1>4. \A p, q : Server!Allowed(p, q) <=> Allowed(p, q)
  BY DEF Server!Allowed, Allowed
<1>5. \A e : Server!Live(e) <=> Live(e)
  BY DEF Server!Live, Live
<1>6. \A e : Server!Deadline(e) = Deadline(e)
  BY DEF Server!Deadline, Deadline
<1>7. \A R, e : Server!Submitted(R, e) = Submitted(R, e)
  BY <1>1, <1>2, <1>6, Zenon DEF Server!Submitted, Submitted
<1>8. \A R, p, acks : Server!Acknowledged(R, p, acks) = Acknowledged(R, p, acks)
  BY DEF Server!Acknowledged, Acknowledged, Server!SameKey, SameKey
<1>9. \A R, e : Server!Accepts(R, e) <=> Accepts(R, e)
  <2> TAKE R, e
  <2>1. Server!Previous(R, e) = Previous(R, e) /\ Server!Held(R, e.to) = Held(R, e.to)
    BY <1>2, <1>3, Zenon
  <2> QED
    BY <1>0, <2>1 DEF Server!Accepts, Accepts, Server!Live, Live, Server!Allowed, Allowed
<1>10. \A p, envs, acks : Server!AfterWrites(p, envs, acks) = AfterWrites(p, envs, acks)
  BY <1>7, <1>8, Zenon DEF Server!AfterWrites, AfterWrites
<1>11. \A R, p : Server!Fetched(R, p) = Fetched(R, p)
  BY DEF Server!Fetched, Fetched, Server!Held, Held, Server!Allowed, Allowed, Server!Pruned, Pruned
<1> QED
  BY <1>9, <1>10, <1>11

\* Only the clock moves the clock.
LEMMA ClockStep ==
  ASSUME [Next]_vars
  PROVE  UNCHANGED now \/ (now < MaxNow /\ now' = now + 1 /\ UNCHANGED storeVars)
<1>1. CASE Tick
  BY <1>1 DEF Tick
<1>2. CASE UNCHANGED vars \/ \E m \in Messages : Send(m) \/ Flush(m)
  BY <1>2 DEF vars, Send, Flush
<1>3. CASE \E p \in Peers : \/ \E q \in Peers, flag \in BOOLEAN : Block(p, q, flag)
                            \/ PushBlock(p) \/ RecordAcks(p) \/ RecordBlock(p)
  BY <1>3, ZenonT(60) DEF Block, PushBlock, RecordAcks, RecordBlock
<1>4. CASE \E p \in Peers : \/ \E e \in buffer[p] : TakeEnvelope(p, e)
                            \/ \E row \in Unapplied(p) : Project(p, row)
                            \/ RecordApplied(p) \/ PruneJournal(p)
  BY <1>4 DEF TakeEnvelope, Project, RecordApplied, PruneJournal
<1>5. CASE \E p \in Extended : ExtensionReceive(p) \/ EarlyReceipt(p)
  BY <1>5 DEF ExtensionReceive, EarlyReceipt
<1>6. CASE \E x \in Processes : \/ \E r \in Pending(x[1]) : SealRow(x, r)
                                \/ \E receive \in BOOLEAN : Post(x, receive)
                                \/ Fetch(x) \/ Serve(x) \/ Refuse(x)
                                \/ TimeOut(x) \/ Die(x) \/ RecordUpload(x)
  BY <1>6 DEF SealRow, Post, Fetch, Serve, Refuse, TimeOut, Die, RecordUpload
<1>7. CASE \E c \in late : ServeLate(c)
  BY <1>7 DEF ServeLate
<1> QED
  BY <1>1, <1>2, <1>3, <1>4, <1>5, <1>6, <1>7 DEF Next

\* A command of a device is one that the service knows.
LEMMA CommandIsServed ==
  ASSUME TypeOK, OneEach, NEW k \in Commands, Run(k[1], k[2]), UNCHANGED now
  PROVE  Server!Next
<1>1. k[1] \in Peers /\ k[2] \in Call
  BY CommandTypes
<1>2. CASE k[2].change # {}
  <2>1. PICK b \in k[2].change : SetBlock(k[1], b.peer, b.blocked)
    BY <1>2 DEF Run
  <2>2. b.peer \in Peers /\ b.blocked \in BOOLEAN
    BY <1>1 DEF Call, BlockChange
  <2>3. Server!SetBlock(k[1], b.peer, b.blocked)
    BY <2>1 DEF SetBlock, Server!SetBlock, Between, Server!Between
  <2> QED
    BY <1>1, <2>2, <2>3 DEF Server!Next
<1>3. CASE k[2].change = {}
  <2>1. Sync(k[1], k[2].envs, k[2].acks, k[2].receive)
    BY <1>3 DEF Run
  <2>2. k[2].envs \in SUBSET Ciphertext /\ k[2].acks \in SUBSET Ciphertext /\ k[2].receive \in BOOLEAN
    BY <1>1 DEF Call
  <2>3. \A e, f \in k[2].envs : e = f
    BY CommandParts
  <2>4. k[2].envs \in Server!Batches
    BY <2>2, <2>3 DEF Server!Batches
  <2>5. Server!Sync(k[1], k[2].envs, k[2].acks, k[2].receive)
    BY <2>1, SameCommands, Zenon DEF Sync, Server!Sync
  <2> QED
    BY <1>1, <2>2, <2>4, <2>5 DEF Server!Next
<1> QED
  BY <1>2, <1>3

LEMMA StepIsServed == TypeOK /\ OneEach /\ [Next]_vars => [Server!Next]_Server!vars
<1> SUFFICES ASSUME TypeOK, OneEach, [Next]_vars
             PROVE  Server!Next \/ UNCHANGED Server!vars
  OBVIOUS
<1>1. CASE UNCHANGED <<now, receipts, blocks, registered>>
  BY <1>1 DEF Server!vars
<1>2. CASE now < MaxNow /\ now' = now + 1 /\ UNCHANGED storeVars
  <2>1. now < MaxNow + 1
    BY <1>2, DeliveryAssumption DEF TypeOK
  <2> QED
    BY <1>2, <2>1 DEF Server!Next, Server!Tick, Server!storeVars, storeVars
<1>3. CASE UNCHANGED now /\ \E k \in Commands : Run(k[1], k[2])
  BY <1>3, CommandIsServed
<1> QED
  BY <1>1, <1>2, <1>3, ClockStep, StoreStep DEF storeVars

\* Whatever devices, second processes, crashes, retries and late requests do,
\* the service of the composition is the mailbox of module DeliveryServer
\* (delivery-service.ts executes one command at a time).
THEOREM ServiceIsMailbox == Spec => Server!Spec
<1>1. Init => Server!Init
  BY DeliveryAssumption DEF Init, StoreInit, Server!Init, Server!StoreInit
<1> QED
  BY <1>1, StepIsServed, PromiseInvariant, OneEachInvariant, PTL DEF PromiseInv, Spec, Server!Spec

\* It therefore keeps, among devices that crash, retry and give up, what
\* DeliveryServerProofs shows of it: one receipt for an id, nothing of a severed
\* pair, and a retry finds its receipt
\* (DeliveryStore.submit, acknowledgeBatch, block).
THEOREM ServiceKeepsItsWord ==
  Spec => /\ []Server!OneReceiptPerKey
          /\ []Server!SeveredPairHoldsNothing
          /\ Server!RetryKeepsReceipt
<1> USE DEF Server!ServerAssumption, Server!StoreAssumption, Server!SchemaAssumption
<1>1. Server!Spec => []Server!OneReceiptPerKey
  BY Server!Idempotent, ServerConstants, StoreAssumption, SchemaAssumption
<1>2. Server!Spec => []Server!SeveredPairHoldsNothing
  BY Server!Severed, ServerConstants, StoreAssumption, SchemaAssumption
<1>3. Server!Spec => Server!RetryKeepsReceipt
  BY Server!RetryFindsReceipt, ServerConstants, StoreAssumption, SchemaAssumption
<1> QED
  BY <1>1, <1>2, <1>3, ServiceIsMailbox, PTL
=============================================================================
