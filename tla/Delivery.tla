------------------------------- MODULE Delivery -------------------------------
(***************************************************************************)
(* Store-and-forward delivery end to end: the messenger database of every  *)
(* device (src/messenger/engine.ts), its encrypted journal (SignalJournal),*)
(* the pump that drives it (src/messenger/delivery/pump.ts with the hooks  *)
(* of application.ts), the mailbox of the service (DeliveryStore), and the *)
(* second process of a device, which opens the same database: the          *)
(* notification extension (notification-session.ts) or a system intent     *)
(* (intent-message-session.ts).                                            *)
(*                                                                         *)
(* Every step is one local transaction or one command executed by the      *)
(* service, so that crashes and the other actors fall between any two.     *)
(* What a process has in memory (the request it waits for, the page of     *)
(* envelopes it fetched, the row it projects) is state of its own and is   *)
(* lost when the process dies.  A request the client gave up on may still  *)
(* reach the service, later than newer ones: every request is signed over  *)
(* a challenge of its own, and several challenges may be open at once.     *)
(***************************************************************************)
EXTENDS SignalJournal, DeliveryStore

CONSTANTS
  Messages,     \* what may be written: records [from, to, n]
  Extended,     \* the devices whose second process may run
  MaxNow,       \* bound on the clock
  MaxFaults,    \* bound on timeouts and process deaths
  MaxLate,      \* bound on abandoned requests that wait to be executed
  MaxBlocks     \* MaxBlocks[p]: bound on the block and unblock calls of p

ASSUME DeliveryAssumption ==
  /\ \A m \in Messages : m.from \in Peers /\ m.to \in Peers /\ m.from # m.to
  /\ Extended \subseteq Peers
  /\ MaxNow \in Nat /\ MaxFaults \in Nat /\ MaxLate \in Nat
  /\ MaxBlocks \in [Peers -> Nat]

VARIABLES
  sentAt,      \* sentAt[m]: creation time of the row in messages, 0 before
  confirmed,   \* messages with deliveries.acknowledged=1 at their sender
  seen,        \* messages in the recipient's history
  blocked,     \* blocked[p]: contacts with blocked=1
  changes,     \* changes[p]: delivery_block_changes, records [peer, blocked, rev]
  call,        \* call[x]: the request process x is busy with
  buffer,      \* buffer[p]: fetched envelopes in the memory of p's pump
  inHand,      \* inHand[p]: the row projected but not yet marked applied
  late,        \* abandoned requests that the service has not executed
  faults,      \* timeouts and deaths so far
  blockCalls,  \* blockCalls[p]: calls of block by p's user so far
  cut          \* history variable: pairs that were blocked at some time

engineVars == <<sentAt, confirmed, seen, blocked, changes, blockCalls, cut>>
pumpVars == <<call, buffer, inHand, late, faults>>
vars == <<now, journalVars, storeVars, engineVars, pumpVars>>

Processes == (Peers \X {"app"}) \cup (Extended \X {"ext"})

Idle == [stage |-> "idle", envs |-> {}, acks |-> {}, receive |-> FALSE,
         inbox |-> {}, change |-> {}]

\* The pump is one thread of control: it starts nothing while it waits for an
\* answer or between a projection and its mark.
Free(x) == call[x] = Idle /\ (x[2] = "app" => inHand[x[1]] = {})

Pair(p, q) == {p, q}

Body(m) == [kind |-> "message", of |-> m]

Init ==
  /\ now = 1
  /\ JournalInit
  /\ StoreInit
  /\ sentAt = [m \in Messages |-> 0]
  /\ confirmed = {} /\ seen = {}
  /\ blocked = [p \in Peers |-> {}]
  /\ changes = [p \in Peers |-> {}]
  /\ call = [x \in Processes |-> Idle]
  /\ buffer = [p \in Peers |-> {}]
  /\ inHand = [p \in Peers |-> {}]
  /\ late = {}
  /\ faults = 0
  /\ blockCalls = [p \in Peers |-> 0]
  /\ cut = {}

Tick ==
  /\ now < MaxNow
  /\ now' = now + 1
  /\ UNCHANGED <<journalVars, storeVars, engineVars, pumpVars>>

-----------------------------------------------------------------------------
(* The user and the database of the messenger *)

\* send: the history row and the delivery row are committed before transport.
Send(m) ==
  /\ sentAt[m] = 0
  /\ m.to \notin blocked[m.from]
  /\ sentAt' = [sentAt EXCEPT ![m] = now]
  /\ UNCHANGED <<now, journalVars, storeVars, pumpVars>>
  /\ UNCHANGED <<confirmed, seen, blocked, changes, blockCalls, cut>>

\* flush, through sendApplication: an unacknowledged delivery is queued unless
\* its event already has a row.
Flush(m) ==
  /\ sentAt[m] # 0
  /\ m \notin confirmed
  /\ m.to \notin blocked[m.from]
  /\ ~HasToken(m.from, m.to, Body(m))
  /\ Enqueue(m.from, m.to, Body(m), sentAt[m])
  /\ UNCHANGED <<now, storeVars, engineVars, pumpVars>>

\* block(peer, flag): the change waiting for the service is replaced, with a
\* new revision, by the latest wish.
Block(p, q, flag) ==
  /\ p # q
  /\ blockCalls[p] < MaxBlocks[p]
  /\ blockCalls' = [blockCalls EXCEPT ![p] = @ + 1]
  /\ blocked' = [blocked EXCEPT ![p] = IF flag THEN @ \cup {q} ELSE @ \ {q}]
  /\ changes' = [changes EXCEPT ![p] =
        {c \in @ : c.peer # q}
          \cup {[peer |-> q, blocked |-> flag, rev |-> blockCalls[p] + 1]}]
  /\ IF flag
     THEN Forget(p, q) /\ cut' = cut \cup {Pair(p, q)}
     ELSE UNCHANGED <<journalVars, cut>>
  /\ UNCHANGED <<now, storeVars, sentAt, confirmed, seen, pumpVars>>

-----------------------------------------------------------------------------
(* Requests *)

\* sendOne, up to the ciphertext.  beforeSend holds back a blocked peer's rows.
SealRow(x, r) ==
  /\ Free(x)
  /\ r \in Pending(x[1])
  /\ r.to \notin blocked[x[1]]
  /\ Seal(x[1], r)
  /\ call' = [call EXCEPT ![x] = [Idle EXCEPT
       !.stage = "sealed",
       !.envs = {Envelope(x[1], s) : s \in {t \in outbox'[x[1]] : t.id = r.id}}]]
  /\ UNCHANGED <<now, storeVars, engineVars, buffer, inHand, late, faults>>

\* sync: the acknowledgements are read when the request is posted.  Only the
\* app acknowledges, and it asks for a page only when it has none left.
Post(x, receive) ==
  /\ call[x].stage = "sealed"
  /\ x[2] = "ext" => ~receive
  /\ x[2] = "app" /\ buffer[x[1]] = {} => receive
  /\ call' = [call EXCEPT ![x].stage = "sent",
                          ![x].receive = receive,
                          ![x].acks = IF x[2] = "app"
                                      THEN Acknowledgements(x[1]) ELSE {}]
  /\ UNCHANGED <<now, journalVars, storeVars, engineVars, buffer, inHand, late,
                 faults>>

\* receiveCycle's poll, and the extension's delivery-inbox.
Fetch(x) ==
  /\ Free(x)
  /\ x[2] = "app" => buffer[x[1]] = {}
  /\ call' = [call EXCEPT ![x] = [Idle EXCEPT
       !.stage = "sent",
       !.receive = TRUE,
       !.acks = IF x[2] = "app" THEN Acknowledgements(x[1]) ELSE {}]]
  /\ UNCHANGED <<now, journalVars, storeVars, engineVars, buffer, inHand, late,
                 faults>>

\* beforeCycle pushes a block change it has read.
PushBlock(p) ==
  /\ Free(<<p, "app">>)
  /\ \E c \in changes[p] :
       call' = [call EXCEPT ![<<p, "app">>] =
                  [Idle EXCEPT !.stage = "sent", !.change = {c}]]
  /\ UNCHANGED <<now, journalVars, storeVars, engineVars, buffer, inHand, late,
                 faults>>

\* What the service does with command c of device p.
Run(p, c) ==
  IF c.change # {}
  THEN \E b \in c.change : SetBlock(p, b.peer, b.blocked)
  ELSE Sync(p, c.envs, c.acks, c.receive)

Serve(x) ==
  /\ call[x].stage = "sent"
  /\ Run(x[1], call[x])
  /\ call' = [call EXCEPT ![x].stage = "answered",
                          ![x].inbox = IF call[x].receive
                                       THEN SyncInbox(x[1], call[x].envs, call[x].acks)
                                       ELSE {}]
  /\ UNCHANGED <<now, journalVars, engineVars, buffer, inHand, late, faults>>

\* The service throws before it changes anything; the row stays and is retried.
Refuse(x) ==
  /\ call[x].stage = "sent"
  /\ \E e \in call[x].envs : ~Accepts(receipts, e)
  /\ call' = [call EXCEPT ![x] = Idle]
  /\ UNCHANGED <<now, journalVars, storeVars, engineVars, buffer, inHand, late,
                 faults>>

Abandoned(x) ==
  IF call[x].stage = "sent" /\ Cardinality(late) < MaxLate
  THEN late \cup {[owner |-> x[1], cmd |-> call[x]]}
  ELSE late

\* The request timeout of the client: the command or its answer is lost.
TimeOut(x) ==
  /\ call[x].stage \in {"sent", "answered"}
  /\ faults < MaxFaults
  /\ faults' = faults + 1
  /\ late' = Abandoned(x)
  /\ call' = [call EXCEPT ![x] = Idle]
  /\ UNCHANGED <<now, journalVars, storeVars, engineVars, buffer, inHand>>

\* The process dies, or is stopped, and starts again.
Die(x) ==
  /\ faults < MaxFaults
  /\ faults' = faults + 1
  /\ late' = Abandoned(x)
  /\ call' = [call EXCEPT ![x] = Idle]
  /\ IF x[2] = "app"
     THEN /\ buffer' = [buffer EXCEPT ![x[1]] = {}]
          /\ inHand' = [inHand EXCEPT ![x[1]] = {}]
     ELSE UNCHANGED <<buffer, inHand>>
  /\ UNCHANGED <<now, journalVars, storeVars, engineVars>>

\* An abandoned request is executed after all.
ServeLate(c) ==
  /\ c \in late
  /\ Run(c.owner, c.cmd)
  /\ late' = late \ {c}
  /\ UNCHANGED <<now, journalVars, engineVars, call, buffer, inHand, faults>>

-----------------------------------------------------------------------------
(* Answers *)

\* sync, second half: the acknowledgements are recorded and the page is kept
\* in memory before the envelope's row is marked.
RecordAcks(p) ==
  LET x == <<p, "app">> IN
  /\ call[x].stage = "answered"
  /\ call[x].change = {}
  /\ AcknowledgedBatch(p, call[x].acks)
  /\ buffer' = [buffer EXCEPT ![p] = @ \cup call[x].inbox]
  /\ call' = [call EXCEPT ![x] =
                IF call[x].envs = {} THEN Idle
                ELSE [@ EXCEPT !.stage = "recorded", !.acks = {}, !.inbox = {}]]
  /\ UNCHANGED <<now, storeVars, engineVars, inHand, late, faults>>

\* Defect: the row is marked once the request has been posted.
RecordUploadEarly(x) ==
  /\ call[x].stage \in {"sent", "recorded"}
  /\ \E e \in call[x].envs : Uploaded(x[1], e.id)
  /\ call' = [call EXCEPT ![x] = IF @.stage = "recorded" THEN Idle ELSE @]
  /\ UNCHANGED <<now, storeVars, engineVars, buffer, inHand, late, faults>>

RecordUpload(x) ==
  /\ call[x].stage = IF x[2] = "app" THEN "recorded" ELSE "answered"
  /\ \E e \in call[x].envs : Uploaded(x[1], e.id)
  /\ call' = [call EXCEPT ![x] = Idle]
  /\ UNCHANGED <<now, storeVars, engineVars, buffer, inHand, late, faults>>

\* Defect: any change of the peer is settled.
RecordBlockOfPeer(p) ==
  LET x == <<p, "app">> IN
  /\ call[x].stage = "answered"
  /\ call[x].change # {}
  /\ changes' = [changes EXCEPT ![p] =
                   {c \in @ : \A b \in call[x].change : b.peer # c.peer}]
  /\ call' = [call EXCEPT ![x] = Idle]
  /\ UNCHANGED <<now, journalVars, storeVars, buffer, inHand, late, faults>>
  /\ UNCHANGED <<sentAt, confirmed, seen, blocked, blockCalls, cut>>

\* deliveryBlockApplied: only the revision that was pushed is settled.
RecordBlock(p) ==
  LET x == <<p, "app">> IN
  /\ call[x].stage = "answered"
  /\ call[x].change # {}
  /\ changes' = [changes EXCEPT ![p] = @ \ call[x].change]
  /\ call' = [call EXCEPT ![x] = Idle]
  /\ UNCHANGED <<now, journalVars, storeVars, buffer, inHand, late, faults>>
  /\ UNCHANGED <<sentAt, confirmed, seen, blocked, blockCalls, cut>>

\* receiveEnvelopes: one envelope of the page enters the journal, or fails and
\* is left to a later fetch.
TakeEnvelope(p, e) ==
  /\ Free(<<p, "app">>)
  /\ e \in buffer[p]
  /\ buffer' = [buffer EXCEPT ![p] = @ \ {e}]
  /\ IF CanReceive(p, e) THEN Receive(p, e) ELSE UNCHANGED journalVars
  /\ UNCHANGED <<now, storeVars, engineVars, call, inHand, late, faults>>

\* The extension journals the one message its notification announced.
ExtensionReceive(p) ==
  LET x == <<p, "ext">> IN
  /\ call[x].stage = "answered" /\ call[x].receive
  /\ \/ /\ \E e \in call[x].inbox :
             /\ e.body.kind = "message"
             /\ e.from \notin blocked[p]
             /\ Receive(p, e)
     \/ UNCHANGED journalVars
  /\ call' = [call EXCEPT ![x] = Idle]
  /\ UNCHANGED <<now, storeVars, engineVars, buffer, inHand, late, faults>>

\* ... and commits the receipt of a message that the app has not projected.
EarlyReceipt(p) ==
  /\ Free(<<p, "ext">>)
  /\ \E row \in Unapplied(p) :
       /\ row.env.body.kind = "message"
       /\ ~row.receipted
       /\ Received(p, row)
  /\ UNCHANGED <<now, storeVars, engineVars, pumpVars>>

\* Defect: a message is taken for projected before the history is written.
ProjectWithoutCommit(p, row) ==
  /\ Free(<<p, "app">>)
  /\ row \in Unapplied(p)
  /\ row.env.from \notin blocked[p]
  /\ confirmed' = IF row.env.body.kind = "message" THEN confirmed
                  ELSE confirmed \cup {row.env.body.of}
  /\ inHand' = [inHand EXCEPT ![p] = {row.env}]
  /\ UNCHANGED <<now, journalVars, storeVars, call, buffer, late, faults>>
  /\ UNCHANGED <<sentAt, seen, blocked, changes, blockCalls, cut>>

\* project, up to the commit of engine.receive.
Project(p, row) ==
  /\ Free(<<p, "app">>)
  /\ row \in Unapplied(p)
  /\ row.env.from \notin blocked[p]
  /\ IF row.env.body.kind = "message"
     THEN seen' = seen \cup {row.env.body.of} /\ UNCHANGED confirmed
     ELSE confirmed' = confirmed \cup {row.env.body.of} /\ UNCHANGED seen
  /\ inHand' = [inHand EXCEPT ![p] = {row.env}]
  /\ UNCHANGED <<now, journalVars, storeVars, call, buffer, late, faults>>
  /\ UNCHANGED <<sentAt, blocked, changes, blockCalls, cut>>

\* project, second half; a full outbox leaves the row to the next projection.
RecordApplied(p) ==
  /\ \E e \in inHand[p] :
       \/ Applied(p, e)
       \/ ReceiptRefused(p, e) /\ UNCHANGED journalVars
  /\ inHand' = [inHand EXCEPT ![p] = {}]
  /\ UNCHANGED <<now, storeVars, engineVars, call, buffer, late, faults>>

PruneJournal(p) ==
  /\ Free(<<p, "app">>)
  /\ Prune(p)
  /\ UNCHANGED <<now, storeVars, engineVars, pumpVars>>

Next ==
  \/ Tick
  \/ \E m \in Messages : Send(m) \/ Flush(m)
  \/ \E p \in Peers :
       \/ \E q \in Peers, flag \in BOOLEAN : Block(p, q, flag)
       \/ PushBlock(p)
       \/ RecordAcks(p)
       \/ RecordBlock(p)
       \/ \E e \in buffer[p] : TakeEnvelope(p, e)
       \/ \E row \in Unapplied(p) : Project(p, row)
       \/ RecordApplied(p)
       \/ PruneJournal(p)
  \/ \E p \in Extended : ExtensionReceive(p) \/ EarlyReceipt(p)
  \/ \E x \in Processes :
       \/ \E r \in Pending(x[1]) : SealRow(x, r)
       \/ \E receive \in BOOLEAN : Post(x, receive)
       \/ Fetch(x)
       \/ Serve(x)
       \/ Refuse(x)
       \/ TimeOut(x)
       \/ Die(x)
       \/ RecordUpload(x)
  \/ \E c \in late : ServeLate(c)

Spec == Init /\ [][Next]_vars

\* What the thread does next while it is not free.
Continue(p) ==
  \/ \E receive \in BOOLEAN : Post(<<p, "app">>, receive)
  \/ RecordAcks(p)
  \/ RecordUpload(<<p, "app">>)
  \/ RecordBlock(p)
  \/ RecordApplied(p)

\* A started pump runs cycle after cycle (tick schedules the next one in its
\* finally block), and a cycle sends, pushes blocks, polls and projects in
\* turn: a kind of work that can be done again and again is done.  The runtime
\* flushes the deliveries after every change of the database, and the service
\* answers.  Nothing is assumed of users, of the second process, of faults and
\* of abandoned requests.
Fairness ==
  /\ \A m \in Messages : WF_vars(Flush(m))
  /\ \A p \in Peers :
       /\ WF_vars(Continue(p))
       /\ WF_vars(Serve(<<p, "app">>) \/ Refuse(<<p, "app">>))
       /\ SF_vars(PushBlock(p))
       /\ SF_vars(\E r \in Pending(p) : SealRow(<<p, "app">>, r))
       /\ SF_vars(Fetch(<<p, "app">>) \/ \E e \in buffer[p] : TakeEnvelope(p, e))
       /\ SF_vars(\E row \in Unapplied(p) : Project(p, row))

-----------------------------------------------------------------------------
MessageBody == [kind : {"message", "ack"}, of : Messages]

Row == [id : Nat, to : Peers, body : MessageBody, at : Nat, key : Nat,
        uploaded : BOOLEAN]

Ciphertext == [from : Peers, to : Peers, id : Nat, at : Nat, key : Nat,
               body : MessageBody]

InboxRow == [env : Ciphertext, applied : BOOLEAN, acked : BOOLEAN,
             receipted : BOOLEAN]

StoredReceipt == [env : Ciphertext, expires : Nat, delivered : BOOLEAN]

BlockChange == [peer : Peers, blocked : BOOLEAN, rev : Nat]

Call == [stage : {"idle", "sealed", "sent", "answered", "recorded"},
         envs : SUBSET Ciphertext, acks : SUBSET Ciphertext, receive : BOOLEAN,
         inbox : SUBSET Ciphertext, change : SUBSET BlockChange]

TypeOK ==
  /\ now \in Nat
  /\ outbox \in [Peers -> SUBSET Row]
  /\ inbox \in [Peers -> SUBSET InboxRow]
  /\ chain \in [Peers -> [Peers -> Nat]]
  /\ opened \in [Peers -> SUBSET (Peers \X Nat)]
  /\ issued \in [Peers -> Nat]
  /\ receipts \subseteq StoredReceipt
  /\ blocks \subseteq Peers \X Peers
  /\ registered \subseteq Peers
  /\ sentAt \in [Messages -> Nat]
  /\ confirmed \subseteq Messages
  /\ seen \subseteq Messages
  /\ blocked \in [Peers -> SUBSET Peers]
  /\ changes \in [Peers -> SUBSET BlockChange]
  /\ call \in [Processes -> Call]
  /\ buffer \in [Peers -> SUBSET Ciphertext]
  /\ inHand \in [Peers -> SUBSET Ciphertext]
  /\ late \subseteq [owner : Peers, cmd : Call]
  /\ faults \in Nat
  /\ blockCalls \in [Peers -> Nat]
  /\ cut \subseteq SUBSET Peers

-----------------------------------------------------------------------------
(* Safety *)

Uncut(e) == Pair(e.from, e.to) \notin cut

Spooled(e) == \E r \in receipts : r.env = e /\ ~r.delivered /\ r.expires > now

Journaled(p, e) == \E r \in inbox[p] : r.env = e

\* Every ciphertext that exists anywhere.
Ciphertexts ==
  {r.env : r \in receipts}
    \cup (UNION {{r.env : r \in inbox[p]} : p \in Peers})
    \cup (UNION {{Envelope(p, r) : r \in {s \in outbox[p] : s.key # 0}} : p \in Peers})
    \cup (UNION {buffer[p] : p \in Peers})
    \cup (UNION {call[x].envs : x \in Processes})
    \cup (UNION {c.cmd.envs : c \in late})

\* No message key seals two envelopes and no envelope is sealed twice, however
\* often an upload is retried, by either process, across crashes.
SealedOnce ==
  \A e, f \in Ciphertexts :
    e.from = f.from /\ e.to = f.to /\ (e.key = f.key \/ e.id = f.id) => e = f

\* What a sender has marked as uploaded is in the mailbox or in the recipient's
\* journal until its TTL ends, unless the two were cut off by a block; and a
\* spooled ciphertext whose message key the recipient consumed is recognised by
\* the journal, so it never fails to decrypt for ever.
Custody ==
  /\ \A p \in Peers : \A r \in outbox[p] :
       LET e == Envelope(p, r) IN
       r.uploaded /\ Live(r) /\ Uncut(e) => Spooled(e) \/ Journaled(r.to, e)
  /\ \A r \in receipts :
       /\ ~r.delivered /\ r.expires > now /\ Uncut(r.env)
       /\ <<r.env.from, r.env.key>> \in opened[r.env.to]
       => Journaled(r.env.to, r.env)

Holds(p, m) ==
  \/ m \in seen
  \/ \E r \in Unapplied(p) : r.env.body = Body(m)

\* The sender sees "delivered" only for a message in the recipient's history
\* or durably decrypted in its journal.
DeliveredMeansDurable ==
  \A m \in confirmed : Holds(m.to, m) \/ Pair(m.from, m.to) \in cut

Effective(e) ==
  IF e.body.kind = "message" THEN e.body.of \in seen ELSE e.body.of \in confirmed

\* The mailbox forgets a ciphertext on acknowledgement only when what it says
\* has been committed to the recipient's database.
DroppedOnlyWhenCommitted ==
  \A r \in receipts : r.delivered => Effective(r.env)

\* A message in the recipient's history that the sender does not know to be
\* delivered has a receipt on its way: in the making, queued, spooled, or
\* journaled at the sender.
ReceiptOnItsWay ==
  \A m \in seen \ confirmed :
    sentAt[m] + TTL > now /\ Pair(m.from, m.to) \notin cut =>
      \/ \E r \in Unapplied(m.to) : r.env.body = Body(m)
      \/ \E r \in Pending(m.to) : r.body = Receipt(m)
      \/ \E r \in receipts : r.env.body = Receipt(m) /\ Spooled(r.env)
      \/ \E r \in Unapplied(m.from) : r.env.body = Receipt(m)

\* When no change waits to be pushed, the service's blocks are the device's.
BlocksSynchronised ==
  \A p, q \in Peers :
    (\A c \in changes[p] : c.peer # q) => (q \in blocked[p] <=> <<p, q>> \in blocks)

-----------------------------------------------------------------------------
(* The promise of module Mailbox *)

Promise == INSTANCE Mailbox WITH
  written <- {m \in Messages : sentAt[m] # 0},
  history <- seen,
  held <- {m \in Messages : Holds(m.to, m)},
  known <- confirmed,
  severed <- cut

\* All of this implements a mailbox: a delivery that the sender sees is one
\* that the recipient has, and no crash, retry, timeout or second process takes
\* back a message that reached the recipient.
KeepsPromise == Promise!Spec

-----------------------------------------------------------------------------
(* Liveness *)

\* Every message is eventually in the recipient's history and known to be.
Confirmation ==
  \A m \in Messages : sentAt[m] # 0 ~> m \in confirmed /\ m \in seen
=============================================================================
