------------------------- MODULE DeliveryPromiseProofs ------------------------
(***************************************************************************)
(* Delivery (module Delivery) keeps the promise of module Mailbox, and a   *)
(* delivery that the sender sees is durable at the recipient.              *)
(*                                                                         *)
(* The argument follows what is said: whatever travels, in whichever       *)
(* place and however old, is either a message that its sender has written  *)
(* or the receipt of a message that its recipient durably has.             *)
(***************************************************************************)
EXTENDS DeliveryProofs

\* The state functions that module Mailbox sees.
Written == {m \in Messages : sentAt[m] # 0}

HeldNow == {m \in Messages : Holds(m.to, m)}

\* What may be taken for delivered.
Durable == HeldNow \cup {m \in Messages : Pair(m.from, m.to) \in cut}

\* What may be said: who to whom, and what.
Genuine ==
  {<<m.from, m.to, Body(m)>> : m \in Written}
    \cup {<<m.to, m.from, Receipt(m)>> : m \in Durable}

Says(e) == <<e.from, e.to, e.body>>

OutboxGenuine ==
  \A p \in Peers : \A r \in outbox[p] : <<p, r.to, r.body>> \in Genuine

InboxGenuine ==
  \A p \in Peers : \A r \in inbox[p] : r.env.to = p /\ Says(r.env) \in Genuine

MemoryGenuine ==
  \A p \in Peers : \A e \in buffer[p] \cup inHand[p] : e.to = p /\ Says(e) \in Genuine

CallsGenuine ==
  \A x \in Processes :
    /\ \A e \in call[x].envs : Says(e) \in Genuine
    /\ \A e \in call[x].inbox : e.to = x[1] /\ Says(e) \in Genuine

ServiceGenuine ==
  /\ \A r \in receipts : Says(r.env) \in Genuine
  /\ \A c \in late : \A e \in c.cmd.envs : Says(e) \in Genuine

\* A row is handed over to be marked applied after its effect.
HandSeen ==
  \A p \in Peers : \A e \in inHand[p] : e.body.kind = "message" => e.body.of \in seen

PromiseInv ==
  /\ TypeOK
  /\ now > 0
  /\ OutboxGenuine
  /\ InboxGenuine
  /\ MemoryGenuine
  /\ CallsGenuine
  /\ ServiceGenuine
  /\ HandSeen
  /\ confirmed \subseteq Durable

PromiseStep == Promise!Next \/ UNCHANGED Promise!vars

-----------------------------------------------------------------------------
(* What can be said *)

LEMMA GenuineMessage ==
  ASSUME NEW p, NEW q, NEW b, <<p, q, b>> \in Genuine, b.kind = "message"
  PROVE  \E m \in Written : p = m.from /\ q = m.to /\ b = Body(m) /\ b.of = m
<1>1. \A m : Receipt(m).kind # "message"
  BY DEF Receipt
<1>2. PICK m \in Written : <<p, q, b>> = <<m.from, m.to, Body(m)>>
  BY <1>1 DEF Genuine
<1> QED
  BY <1>2 DEF Body

LEMMA GenuineReceipt ==
  ASSUME NEW p, NEW q, NEW b, <<p, q, b>> \in Genuine, b.kind # "message"
  PROVE  b.of \in Durable
<1>1. \A m : Body(m).kind = "message"
  BY DEF Body
<1>2. PICK m \in Durable : <<p, q, b>> = <<m.to, m.from, Receipt(m)>>
  BY <1>1 DEF Genuine
<1> QED
  BY <1>2 DEF Receipt

LEMMA ReceiptGenuine ==
  ASSUME NEW m \in Durable
  PROVE  <<m.to, m.from, Receipt(m)>> \in Genuine
  BY DEF Genuine

LEMMA GenuineGrows ==
  ASSUME Written \subseteq Written', Durable \subseteq Durable'
  PROVE  Genuine \subseteq Genuine'
  BY DEF Genuine

\* What is not touched stays genuine.
LEMMA Untouched ==
  ASSUME PromiseInv, Genuine \subseteq Genuine'
  PROVE  /\ UNCHANGED outbox => OutboxGenuine'
         /\ UNCHANGED inbox => InboxGenuine'
         /\ UNCHANGED <<buffer, inHand>> => MemoryGenuine'
         /\ UNCHANGED call => CallsGenuine'
         /\ UNCHANGED <<receipts, late>> => ServiceGenuine'
<1>1. UNCHANGED outbox => OutboxGenuine'
  BY DEF PromiseInv, OutboxGenuine
<1>2. UNCHANGED inbox => InboxGenuine'
  BY DEF PromiseInv, InboxGenuine, Says
<1>3. UNCHANGED <<buffer, inHand>> => MemoryGenuine'
  BY DEF PromiseInv, MemoryGenuine, Says
<1>4. UNCHANGED call => CallsGenuine'
  BY DEF PromiseInv, CallsGenuine, Says
<1>5. UNCHANGED <<receipts, late>> => ServiceGenuine'
  BY DEF PromiseInv, ServiceGenuine, Says
<1> QED
  BY <1>1, <1>2, <1>3, <1>4, <1>5

\* A step that moves things about and changes nothing that either end can see.
Quiet ==
  /\ Written' = Written /\ HeldNow' = HeldNow
  /\ UNCHANGED <<seen, confirmed, cut>>

LEMMA QuietEffect ==
  ASSUME PromiseInv, Quiet
  PROVE  /\ Genuine \subseteq Genuine'
         /\ confirmed' \subseteq Durable'
         /\ UNCHANGED inHand => HandSeen'
         /\ PromiseStep
<1>1. Written \subseteq Written' /\ Durable \subseteq Durable'
  BY DEF Quiet, Durable
<1>2. Genuine \subseteq Genuine'
  BY <1>1, GenuineGrows
<1>3. UNCHANGED Promise!vars
  BY DEF Quiet, Written, HeldNow, Promise!vars
<1> QED
  BY <1>1, <1>2, <1>3 DEF PromiseStep, Quiet, PromiseInv, HandSeen

\* An update of one device's part leaves the others alone.
LEMMA UpdateAt ==
  ASSUME NEW f, NEW p \in Peers, NEW v, DOMAIN f = Peers
  PROVE  \A o \in Peers : [f EXCEPT ![p] = v][o] = IF o = p THEN v ELSE f[o]
  OBVIOUS

LEMMA Domains ==
  ASSUME TypeOK
  PROVE  /\ DOMAIN outbox = Peers /\ DOMAIN inbox = Peers
         /\ DOMAIN buffer = Peers /\ DOMAIN inHand = Peers
  BY DEF TypeOK

LEMMA QuietWhenUnread ==
  ASSUME UNCHANGED <<inbox, sentAt, seen, confirmed, cut>>
  PROVE  Quiet
  BY DEF Quiet, Written, HeldNow, Holds, Unapplied

-----------------------------------------------------------------------------
(* The initial states *)

LEMMA InitPromise == Init => PromiseInv /\ Promise!Init
<1> SUFFICES ASSUME Init
             PROVE  PromiseInv /\ Promise!Init
  OBVIOUS
<1>1. TypeOK
  BY InitTypes
<1>2. \A p \in Peers : outbox[p] = {} /\ inbox[p] = {} /\ buffer[p] = {} /\ inHand[p] = {}
  BY DEF Init, JournalInit
<1>3. \A x \in Processes : call[x].envs = {} /\ call[x].inbox = {}
  BY DEF Init, Idle
<1>4. PromiseInv
  BY <1>1, <1>2, <1>3
  DEF Init, StoreInit, PromiseInv, OutboxGenuine, InboxGenuine, MemoryGenuine,
      CallsGenuine, ServiceGenuine, HandSeen
<1>5. Promise!Init
  BY <1>2, DeliveryAssumption DEF Init, Promise!Init, Holds, Unapplied
<1> QED
  BY <1>4, <1>5

-----------------------------------------------------------------------------
(* The user and the database *)

LEMMA SendPromise ==
  ASSUME PromiseInv, TypeOK', NEW m \in Messages, Send(m)
  PROVE  PromiseInv' /\ PromiseStep
<1>1. UNCHANGED <<now, outbox, inbox, receipts, seen, confirmed, cut, call, buffer,
                  inHand, late>>
  BY DEF Send, journalVars, storeVars, pumpVars
<1>2. Written' = Written \cup {m} /\ m \notin Written
  BY DEF Send, Written, PromiseInv, TypeOK
<1>3. HeldNow' = HeldNow
  BY <1>1 DEF HeldNow, Holds, Unapplied
<1>4. Genuine \subseteq Genuine' /\ confirmed' \subseteq Durable'
  BY <1>1, <1>2, <1>3, GenuineGrows DEF Durable, PromiseInv
<1>5. Promise!Write(m)
  BY <1>1, <1>2, <1>3 DEF Promise!Write, Written, HeldNow
<1>6. PromiseStep
  BY <1>5 DEF PromiseStep, Promise!Next
<1> QED
  BY <1>1, <1>4, <1>6, Untouched DEF PromiseInv, HandSeen

LEMMA InsertGenuine ==
  ASSUME PromiseInv, Genuine \subseteq Genuine', NEW p \in Peers, NEW to, NEW body, NEW at,
         <<p, to, body>> \in Genuine, InsertOutgoing(p, to, body, at)
  PROVE  OutboxGenuine'
<1>1. CASE HasToken(p, to, body)
  BY <1>1, Untouched DEF InsertOutgoing
<1>2. CASE ~HasToken(p, to, body)
  <2> DEFINE new == Fresh(p, to, body, at)
  <2>1. new.to = to /\ new.body = body
    BY DEF Fresh
  <2>2. outbox' = [outbox EXCEPT ![p] = @ \cup {new}]
    BY <1>2 DEF InsertOutgoing
  <2> HIDE DEF new
  <2> QED
    BY <2>1, <2>2 DEF OutboxGenuine, PromiseInv, TypeOK
<1> QED
  BY <1>1, <1>2

LEMMA FlushPromise ==
  ASSUME PromiseInv, TypeOK', NEW m \in Messages, Flush(m)
  PROVE  PromiseInv' /\ PromiseStep
<1>1. UNCHANGED <<now, inbox, receipts, sentAt, seen, confirmed, cut, call, buffer,
                  inHand, late>>
  BY DEF Flush, Enqueue, storeVars, engineVars, pumpVars
<1>2. Quiet
  BY <1>1, QuietWhenUnread
<1>3. <<m.from, m.to, Body(m)>> \in Genuine
  BY DEF Flush, Genuine, Written
<1>4. OutboxGenuine'
  BY <1>2, <1>3, QuietEffect, InsertGenuine, DeliveryAssumption DEF Flush, Enqueue
<1> QED
  BY <1>1, <1>2, <1>4, QuietEffect, Untouched DEF PromiseInv

\* A block deletes rows of the pair only, and says so in cut.
LEMMA BlockPromise ==
  ASSUME PromiseInv, TypeOK', NEW p \in Peers, NEW q \in Peers, NEW flag \in BOOLEAN,
         Block(p, q, flag)
  PROVE  PromiseInv' /\ PromiseStep
<1>1. UNCHANGED <<now, receipts, sentAt, seen, confirmed, call, buffer, inHand, late>>
  BY DEF Block, storeVars, pumpVars
<1>2. CASE ~flag
  <2>1. UNCHANGED <<inbox, outbox, cut>>
    BY <1>2 DEF Block, journalVars
  <2>2. Quiet
    BY <1>1, <2>1, QuietWhenUnread
  <2> QED
    BY <1>1, <2>1, <2>2, QuietEffect, Untouched DEF PromiseInv
<1>3. CASE flag
  <2>1. /\ cut' = cut \cup {Pair(p, q)}
        /\ outbox' = [outbox EXCEPT ![p] = {r \in @ : r.to # q}]
        /\ inbox' = [inbox EXCEPT ![p] = {r \in @ : r.env.from # q}]
    BY <1>3 DEF Block, Forget
  <2>2. /\ \A o \in Peers : outbox'[o] \subseteq outbox[o]
        /\ \A o \in Peers : inbox'[o] \subseteq inbox[o]
    BY <2>1 DEF PromiseInv, TypeOK
  <2>3. HeldNow' \subseteq HeldNow
    BY <1>1, <2>2, DeliveryAssumption DEF HeldNow, Holds, Unapplied
  <2>4. ASSUME NEW m \in HeldNow, m \notin HeldNow'
        PROVE  m \notin seen /\ Pair(m.from, m.to) = Pair(p, q)
    <3>1. m \in Messages /\ m.to \in Peers
      BY DeliveryAssumption DEF HeldNow
    <3>2. m \notin seen
      BY <1>1, <2>4 DEF HeldNow, Holds
    <3>3. PICK r \in inbox[m.to] : ~r.applied /\ r.env.body = Body(m)
      BY <3>2 DEF HeldNow, Holds, Unapplied
    <3>4. r \notin inbox'[m.to]
      BY <2>4, <3>1, <3>3 DEF HeldNow, Holds, Unapplied
    <3>5. m.to = p /\ r.env.from = q
      BY <2>1, <3>1, <3>3, <3>4 DEF PromiseInv, TypeOK
    <3>6. <<r.env.from, r.env.to, r.env.body>> \in Genuine /\ r.env.body.kind = "message"
      BY <3>1, <3>3 DEF PromiseInv, InboxGenuine, Says, Body
    <3>7. m.from = r.env.from
      BY <3>3, <3>6, GenuineMessage DEF Body
    <3> QED
      BY <3>2, <3>5, <3>7 DEF Pair
  <2>5. Durable \subseteq Durable'
    BY <2>1, <2>4 DEF Durable, HeldNow
  <2>6. Genuine \subseteq Genuine' /\ confirmed' \subseteq Durable'
    BY <1>1, <2>5, GenuineGrows DEF Written, PromiseInv
  <2>7. OutboxGenuine' /\ InboxGenuine'
    BY <2>2, <2>6 DEF PromiseInv, OutboxGenuine, InboxGenuine, Says
  <2>8. Promise!Sever({p, q})
    <3> DEFINE lost == HeldNow \ HeldNow'
    <3>1. /\ lost \in SUBSET {m \in HeldNow \ seen : {m.from, m.to} = {p, q}}
          /\ HeldNow' = HeldNow \ lost
      BY <2>3, <2>4 DEF Pair
    <3>2. cut' = cut \cup {{p, q}}
      BY <2>1 DEF Pair
    <3> HIDE DEF lost
    <3> QED
      BY <1>1, <3>1, <3>2 DEF Promise!Sever, Promise!Between, HeldNow
  <2>9. PromiseStep
    BY <2>8 DEF PromiseStep, Promise!Next
  <2> QED
    BY <1>1, <2>6, <2>7, <2>9, Untouched DEF PromiseInv, HandSeen
<1> QED
  BY <1>2, <1>3

-----------------------------------------------------------------------------
(* Requests *)

LEMMA SealPromise ==
  ASSUME PromiseInv, TypeOK', NEW x \in Processes, NEW r \in Pending(x[1]), SealRow(x, r)
  PROVE  PromiseInv' /\ PromiseStep
<1>1. UNCHANGED <<now, inbox, receipts, sentAt, seen, confirmed, cut, buffer, inHand, late>>
  BY DEF SealRow, Seal, storeVars, engineVars
<1>2. Quiet
  BY <1>1, QuietWhenUnread
<1>3. x[1] \in Peers /\ r \in outbox[x[1]]
  BY ProcessOwner DEF Pending
<1>4. OutboxGenuine'
  <2>1. CASE r.key # 0
    BY <1>2, <2>1, QuietEffect, Untouched DEF SealRow, Seal
  <2>2. CASE r.key = 0
    <3> DEFINE sealed == [r EXCEPT !.key = chain[x[1]][r.to] + 1]
    <3>1. sealed.to = r.to /\ sealed.body = r.body
      BY <1>3 DEF PromiseInv, TypeOK, Row
    <3>2. outbox' = [outbox EXCEPT ![x[1]] = (@ \ {r}) \cup {sealed}]
      BY <2>2 DEF SealRow, Seal
    <3> HIDE DEF sealed
    <3>3. \A p \in Peers : \A t \in outbox'[p] :
            t \in outbox[p] \/ (p = x[1] /\ t = sealed)
      BY <1>3, <3>2, UpdateAt, Domains DEF PromiseInv
    <3>4. \A p \in Peers : \A t \in outbox'[p] : <<p, t.to, t.body>> \in Genuine
      BY <1>3, <3>1, <3>3 DEF OutboxGenuine, PromiseInv
    <3> QED
      BY <1>2, <3>4, QuietEffect DEF OutboxGenuine
  <2> QED
    BY <2>1, <2>2
<1>5. CallsGenuine'
  <2> DEFINE sealed == {Envelope(x[1], t) : t \in {u \in outbox'[x[1]] : u.id = r.id}}
             c == [Idle EXCEPT !.stage = "sealed", !.envs = sealed]
  <2>1. \A e \in sealed : Says(e) \in Genuine'
    BY <1>3, <1>4 DEF OutboxGenuine, Envelope, Says
  <2>2. call' = [call EXCEPT ![x] = c]
    BY DEF SealRow
  <2>3. c.envs = sealed /\ c.inbox = {}
    BY DEF Idle
  <2> HIDE DEF c, sealed
  <2> QED
    BY <1>2, <2>1, <2>2, <2>3, QuietEffect DEF CallsGenuine, PromiseInv, TypeOK, Says
<1> QED
  BY <1>1, <1>2, <1>4, <1>5, QuietEffect, Untouched DEF PromiseInv

\* A request that is started or changes its stage carries nothing new.
LEMMA CallMoves ==
  ASSUME PromiseInv, Genuine \subseteq Genuine', NEW x \in Processes, NEW c,
         call' = [call EXCEPT ![x] = c],
         c.envs \subseteq call[x].envs,
         \A e \in c.inbox : e.to = x[1] /\ Says(e) \in Genuine
  PROVE  CallsGenuine'
  BY DEF CallsGenuine, PromiseInv, TypeOK, Says

LEMMA RequestPromise ==
  ASSUME PromiseInv, TypeOK', NEW x \in Processes,
         Fetch(x) \/ \E receive \in BOOLEAN : Post(x, receive)
  PROVE  PromiseInv' /\ PromiseStep
<1>1. UNCHANGED <<now, inbox, outbox, receipts, sentAt, seen, confirmed, cut, buffer,
                  inHand, late>>
  BY DEF Fetch, Post, journalVars, storeVars, engineVars
<1>2. Quiet
  BY <1>1, QuietWhenUnread
<1>3. PICK c : /\ call' = [call EXCEPT ![x] = c]
               /\ c.envs \subseteq call[x].envs
               /\ c.inbox \subseteq call[x].inbox
  <2>1. CASE Fetch(x)
    <3> DEFINE c == [Idle EXCEPT !.stage = "sent", !.receive = TRUE,
                       !.acks = IF x[2] = "app" THEN Acknowledgements(x[1]) ELSE {}]
    <3>1. call' = [call EXCEPT ![x] = c]
      BY <2>1 DEF Fetch
    <3>2. c.envs = {} /\ c.inbox = {}
      BY DEF Idle
    <3> QED
      BY <3>1, <3>2
  <2>2. CASE \E receive \in BOOLEAN : Post(x, receive)
    <3>1. PICK receive \in BOOLEAN : Post(x, receive)
      BY <2>2
    <3> DEFINE c == [call[x] EXCEPT !.stage = "sent", !.receive = receive,
                       !.acks = IF x[2] = "app" THEN Acknowledgements(x[1]) ELSE {}]
    <3>2. call' = [call EXCEPT ![x] = c]
      BY <3>1 DEF Post, PromiseInv, TypeOK
    <3>3. c.envs = call[x].envs /\ c.inbox = call[x].inbox
      BY DEF PromiseInv, TypeOK, Call
    <3> QED
      BY <3>2, <3>3
  <2> QED
    BY <2>1, <2>2
<1>4. CallsGenuine'
  BY <1>2, <1>3, CallMoves, QuietEffect DEF PromiseInv, CallsGenuine
<1> QED
  BY <1>1, <1>2, <1>4, QuietEffect, Untouched DEF PromiseInv

LEMMA PushPromise ==
  ASSUME PromiseInv, TypeOK', NEW p \in Peers, PushBlock(p)
  PROVE  PromiseInv' /\ PromiseStep
<1>1. UNCHANGED <<now, inbox, outbox, receipts, sentAt, seen, confirmed, cut, buffer,
                  inHand, late>>
  BY DEF PushBlock, journalVars, storeVars, engineVars
<1>2. Quiet
  BY <1>1, QuietWhenUnread
<1>3. CallsGenuine'
  <2>1. PICK b \in changes[p] :
          call' = [call EXCEPT ![<<p, "app">>] = [Idle EXCEPT !.stage = "sent", !.change = {b}]]
    BY DEF PushBlock
  <2> DEFINE c == [Idle EXCEPT !.stage = "sent", !.change = {b}]
  <2>2. c.envs = {} /\ c.inbox = {}
    BY DEF Idle
  <2> QED
    BY <1>2, <2>1, <2>2, AppProcess, CallMoves, QuietEffect
<1> QED
  BY <1>1, <1>2, <1>3, QuietEffect, Untouched DEF PromiseInv

LEMMA ServePromise ==
  ASSUME PromiseInv, TypeOK', NEW x \in Processes, Serve(x)
  PROVE  PromiseInv' /\ PromiseStep
<1>1. UNCHANGED <<now, inbox, outbox, sentAt, seen, confirmed, cut, buffer, inHand, late>>
  BY DEF Serve, journalVars, engineVars
<1>2. Quiet
  BY <1>1, QuietWhenUnread
<1>3. TypeOK /\ x[1] \in Peers /\ call[x] \in Call
  BY ProcessOwner DEF PromiseInv, TypeOK
<1>4. ServiceGenuine'
  <2>1. \A r \in receipts' : r.env \in call[x].envs \/ \E q \in receipts : q.env = r.env
    BY <1>3, ServiceTypes DEF Serve
  <2>2. \A r \in receipts' : Says(r.env) \in Genuine'
    BY <1>2, <2>1, QuietEffect DEF PromiseInv, ServiceGenuine, CallsGenuine
  <2> QED
    BY <1>1, <1>2, <2>2, QuietEffect DEF PromiseInv, ServiceGenuine, Says
<1>5. CallsGenuine'
  <2> DEFINE page == IF call[x].receive
                     THEN SyncInbox(x[1], call[x].envs, call[x].acks) ELSE {}
             c == [call[x] EXCEPT !.stage = "answered", !.inbox = page]
  <2>1. call' = [call EXCEPT ![x] = c]
    BY DEF Serve, PromiseInv, TypeOK
  <2>2. \A e \in page : e.to = x[1] /\ Says(e) \in Genuine
    BY <1>3, SyncInboxTypes DEF PromiseInv, ServiceGenuine, CallsGenuine
  <2>3. c.envs = call[x].envs /\ c.inbox = page
    BY <1>3 DEF Call
  <2> HIDE DEF page, c
  <2> QED
    BY <1>2, <2>1, <2>2, <2>3, CallMoves, QuietEffect
<1> QED
  BY <1>1, <1>2, <1>4, <1>5, QuietEffect, Untouched DEF PromiseInv

LEMMA LostPromise ==
  ASSUME PromiseInv, TypeOK', NEW x \in Processes, Refuse(x) \/ TimeOut(x) \/ Die(x)
  PROVE  PromiseInv' /\ PromiseStep
<1>1. UNCHANGED <<now, inbox, outbox, receipts, sentAt, seen, confirmed, cut>>
  BY DEF Refuse, TimeOut, Die, journalVars, storeVars, engineVars
<1>2. Quiet
  BY <1>1, QuietWhenUnread
<1>3. CallsGenuine'
  <2>1. call' = [call EXCEPT ![x] = Idle]
    BY DEF Refuse, TimeOut, Die
  <2>2. Idle.envs = {} /\ Idle.inbox = {}
    BY DEF Idle
  <2> QED
    BY <1>2, <2>1, <2>2, CallMoves, QuietEffect
<1>4. ServiceGenuine'
  <2> DEFINE c == [owner |-> x[1], cmd |-> call[x]]
  <2>1. late' \subseteq late \cup {c}
    BY DEF Refuse, TimeOut, Die, Abandoned
  <2>2. \A e \in c.cmd.envs : Says(e) \in Genuine
    BY DEF PromiseInv, CallsGenuine
  <2> HIDE DEF c
  <2> QED
    BY <1>1, <1>2, <2>1, <2>2, QuietEffect DEF PromiseInv, ServiceGenuine, Says
<1>5. MemoryGenuine' /\ HandSeen'
  <2>1. \A p \in Peers : buffer'[p] \subseteq buffer[p] /\ inHand'[p] \subseteq inHand[p]
    <3>1. CASE Refuse(x) \/ TimeOut(x)
      BY <3>1 DEF Refuse, TimeOut
    <3>2. CASE Die(x)
      <4>1. CASE x[2] = "app"
        <5>1. /\ buffer' = [buffer EXCEPT ![x[1]] = {}]
              /\ inHand' = [inHand EXCEPT ![x[1]] = {}]
          BY <3>2, <4>1 DEF Die
        <5> QED
          BY <5>1, UpdateAt, Domains, ProcessOwner DEF PromiseInv
      <4>2. CASE x[2] # "app"
        BY <3>2, <4>2 DEF Die
      <4> QED
        BY <4>1, <4>2
    <3> QED
      BY <3>1, <3>2
  <2> QED
    BY <1>1, <1>2, <2>1, QuietEffect DEF PromiseInv, MemoryGenuine, HandSeen, Says
<1> QED
  BY <1>1, <1>2, <1>3, <1>4, <1>5, QuietEffect, Untouched DEF PromiseInv

LEMMA LatePromise ==
  ASSUME PromiseInv, TypeOK', NEW c \in late, ServeLate(c)
  PROVE  PromiseInv' /\ PromiseStep
<1>1. UNCHANGED <<now, inbox, outbox, sentAt, seen, confirmed, cut, call, buffer, inHand>>
  BY DEF ServeLate, journalVars, engineVars
<1>2. Quiet
  BY <1>1, QuietWhenUnread
<1>3. TypeOK /\ c.owner \in Peers /\ c.cmd \in Call
  BY DEF PromiseInv, TypeOK
<1>4. \A r \in receipts' : r.env \in c.cmd.envs \/ \E q \in receipts : q.env = r.env
  BY <1>3, ServiceTypes DEF ServeLate
<1>5. \A r \in receipts' : Says(r.env) \in Genuine'
  BY <1>2, <1>4, QuietEffect DEF PromiseInv, ServiceGenuine
<1>6. late' \subseteq late
  BY DEF ServeLate
<1>7. ServiceGenuine'
  BY <1>2, <1>5, <1>6, QuietEffect DEF PromiseInv, ServiceGenuine, Says
<1> QED
  BY <1>1, <1>2, <1>7, QuietEffect, Untouched DEF PromiseInv

-----------------------------------------------------------------------------
(* Answers and the journal *)

LEMMA RecordAcksPromise ==
  ASSUME PromiseInv, TypeOK', NEW p \in Peers, RecordAcks(p)
  PROVE  PromiseInv' /\ PromiseStep
<1> DEFINE x == <<p, "app">>
<1>1. UNCHANGED <<now, outbox, receipts, sentAt, seen, confirmed, cut, inHand, late>>
  BY DEF RecordAcks, AcknowledgedBatch, storeVars, engineVars
<1>2. x \in Processes /\ x[1] = p
  BY AppProcess
<1>3. /\ \A r \in inbox'[p] : \E q \in inbox[p] : q.env = r.env /\ q.applied = r.applied
      /\ \A q \in inbox[p] : \E r \in inbox'[p] : q.env = r.env /\ q.applied = r.applied
      /\ \A o \in Peers : o # p => inbox'[o] = inbox[o]
  <2> DEFINE Mark(r) == IF \E a \in call[x].acks : SameKey(a, r.env)
                        THEN [r EXCEPT !.acked = TRUE] ELSE r
             rows == {Mark(r) : r \in inbox[p]}
  <2>1. inbox' = [inbox EXCEPT ![p] = rows]
    BY DEF RecordAcks, AcknowledgedBatch
  <2>2. \A r \in inbox[p] : Mark(r).env = r.env /\ Mark(r).applied = r.applied
    BY DEF PromiseInv, TypeOK, InboxRow
  <2> HIDE DEF Mark
  <2>3. /\ \A r \in rows : \E q \in inbox[p] : q.env = r.env /\ q.applied = r.applied
        /\ \A q \in inbox[p] : \E r \in rows : q.env = r.env /\ q.applied = r.applied
    BY <2>2
  <2> HIDE DEF rows
  <2>4. inbox'[p] = rows /\ \A o \in Peers : o # p => inbox'[o] = inbox[o]
    BY <2>1, UpdateAt, Domains DEF PromiseInv
  <2> QED
    BY <2>3, <2>4
<1>4. \A o \in Peers : \A r \in inbox'[o] : \E q \in inbox[o] : q.env = r.env
  BY <1>3
<1>5. HeldNow' = HeldNow
  BY <1>1, <1>3, DeliveryAssumption DEF HeldNow, Holds, Unapplied
<1>6. Quiet
  BY <1>1, <1>5 DEF Quiet, Written
<1>7. InboxGenuine'
  BY <1>4, <1>6, QuietEffect DEF PromiseInv, InboxGenuine
<1>8. MemoryGenuine'
  <2>1. buffer' = [buffer EXCEPT ![p] = @ \cup call[x].inbox]
    BY DEF RecordAcks
  <2>2. \A e \in call[x].inbox : e.to = p /\ Says(e) \in Genuine
    BY <1>2 DEF PromiseInv, CallsGenuine
  <2> HIDE DEF x
  <2>3. \A o \in Peers : \A e \in buffer'[o] :
          e \in buffer[o] \/ (o = p /\ e \in call[x].inbox)
    BY <2>1, UpdateAt, Domains DEF PromiseInv
  <2>4. \A o \in Peers : \A e \in buffer'[o] \cup inHand'[o] : e.to = o /\ Says(e) \in Genuine
    BY <1>1, <2>2, <2>3 DEF PromiseInv, MemoryGenuine
  <2> QED
    BY <1>6, <2>4, QuietEffect DEF MemoryGenuine, Says
<1>9. CallsGenuine'
  <2> DEFINE rest == [call[x] EXCEPT !.stage = "recorded", !.acks = {}, !.inbox = {}]
             c == IF call[x].envs = {} THEN Idle ELSE rest
  <2>1. call' = [call EXCEPT ![x] = c]
    BY <1>2 DEF RecordAcks, PromiseInv, TypeOK
  <2>2. call[x] \in Call
    BY <1>2 DEF PromiseInv, TypeOK
  <2>3. c.envs \subseteq call[x].envs /\ c.inbox = {}
    BY <2>2 DEF Idle, Call
  <2> HIDE DEF c, x
  <2> QED
    BY <1>2, <1>6, <2>1, <2>3, CallMoves, QuietEffect
<1> QED
  BY <1>1, <1>6, <1>7, <1>8, <1>9, QuietEffect, Untouched DEF PromiseInv

LEMMA RecordUploadPromise ==
  ASSUME PromiseInv, TypeOK', NEW x \in Processes, RecordUpload(x)
  PROVE  PromiseInv' /\ PromiseStep
<1>1. UNCHANGED <<now, inbox, receipts, sentAt, seen, confirmed, cut, buffer, inHand, late>>
  BY DEF RecordUpload, Uploaded, storeVars, engineVars
<1>2. Quiet
  BY <1>1, QuietWhenUnread
<1>3. OutboxGenuine'
  <2>1. PICK e \in call[x].envs : Uploaded(x[1], e.id)
    BY DEF RecordUpload
  <2> DEFINE Mark(r) == IF r.id = e.id THEN [r EXCEPT !.uploaded = TRUE] ELSE r
             rows == {Mark(r) : r \in outbox[x[1]]}
  <2>2. outbox' = [outbox EXCEPT ![x[1]] = rows]
    BY <2>1 DEF Uploaded
  <2>3. x[1] \in Peers
    BY ProcessOwner
  <2>4. \A r \in rows : \E q \in outbox[x[1]] : q.to = r.to /\ q.body = r.body
    <3>1. \A r \in outbox[x[1]] : Mark(r).to = r.to /\ Mark(r).body = r.body
      BY <2>3 DEF PromiseInv, TypeOK, Row
    <3> QED
      BY <3>1
  <2> HIDE DEF rows
  <2>5. \A p \in Peers : \A r \in outbox'[p] :
          \E q \in outbox[p] : q.to = r.to /\ q.body = r.body
    BY <2>2, <2>3, <2>4, UpdateAt, Domains DEF PromiseInv
  <2> QED
    BY <1>2, <2>5, QuietEffect DEF PromiseInv, OutboxGenuine
<1>4. CallsGenuine'
  <2>1. call' = [call EXCEPT ![x] = Idle]
    BY DEF RecordUpload
  <2>2. Idle.envs = {} /\ Idle.inbox = {}
    BY DEF Idle
  <2> QED
    BY <1>2, <2>1, <2>2, CallMoves, QuietEffect
<1> QED
  BY <1>1, <1>2, <1>3, <1>4, QuietEffect, Untouched DEF PromiseInv

LEMMA RecordBlockPromise ==
  ASSUME PromiseInv, TypeOK', NEW p \in Peers, RecordBlock(p)
  PROVE  PromiseInv' /\ PromiseStep
<1>1. UNCHANGED <<now, inbox, outbox, receipts, sentAt, seen, confirmed, cut, buffer,
                  inHand, late>>
  BY DEF RecordBlock, journalVars, storeVars
<1>2. Quiet
  BY <1>1, QuietWhenUnread
<1>3. CallsGenuine'
  <2>1. call' = [call EXCEPT ![<<p, "app">>] = Idle]
    BY DEF RecordBlock
  <2>2. Idle.envs = {} /\ Idle.inbox = {}
    BY DEF Idle
  <2> QED
    BY <1>2, <2>1, <2>2, AppProcess, CallMoves, QuietEffect
<1> QED
  BY <1>1, <1>2, <1>3, QuietEffect, Untouched DEF PromiseInv

\* A received message is held from then on; a received receipt changes nothing.
LEMMA ReceivePromise ==
  ASSUME PromiseInv, NEW p \in Peers, NEW e, Receive(p, e), e.to = p, Says(e) \in Genuine,
         UNCHANGED <<sentAt, seen, confirmed, cut>>
  PROVE  /\ Genuine \subseteq Genuine'
         /\ confirmed' \subseteq Durable'
         /\ InboxGenuine'
         /\ PromiseStep
<1> DEFINE row == [env |-> e, applied |-> FALSE, acked |-> FALSE, receipted |-> FALSE]
<1>1. row.env = e /\ ~row.applied
  OBVIOUS
<1>2. inbox' = [inbox EXCEPT ![p] = @ \cup {row}]
  BY DEF Receive
<1> HIDE DEF row
<1>3. \A o \in Peers : inbox'[o] = IF o = p THEN inbox[o] \cup {row} ELSE inbox[o]
  BY <1>2, UpdateAt, Domains DEF PromiseInv
<1>4. \A m \in Messages : m \in HeldNow' <=> m \in HeldNow \/ (m.to = p /\ e.body = Body(m))
  BY <1>1, <1>3, DeliveryAssumption DEF HeldNow, Holds, Unapplied
<1>5. Written' = Written /\ HeldNow \subseteq HeldNow'
  BY <1>4 DEF Written, HeldNow
<1>6. Genuine \subseteq Genuine' /\ confirmed' \subseteq Durable'
  BY <1>5, GenuineGrows DEF Durable, PromiseInv
<1>7. InboxGenuine'
  <2>1. \A o \in Peers : \A r \in inbox'[o] : r.env.to = o /\ Says(r.env) \in Genuine
    <3>1. SUFFICES ASSUME NEW o \in Peers, NEW r \in inbox'[o]
                   PROVE  r.env.to = o /\ Says(r.env) \in Genuine
      OBVIOUS
    <3>2. CASE r \in inbox[o]
      BY <3>2 DEF PromiseInv, InboxGenuine
    <3>3. CASE o = p /\ r = row
      BY <1>1, <3>3
    <3> QED
      BY <1>3, <3>2, <3>3
  <2> QED
    BY <1>6, <2>1 DEF InboxGenuine, Says
<1>8. CASE HeldNow' = HeldNow
  BY <1>5, <1>6, <1>7, <1>8, QuietEffect DEF Quiet
<1>9. CASE HeldNow' # HeldNow
  <2>1. PICK m \in Messages : m \notin HeldNow /\ m \in HeldNow' /\ e.body = Body(m)
    BY <1>4, <1>9 DEF HeldNow
  <2>2. e.body.kind = "message" /\ e.body.of = m
    BY <2>1 DEF Body
  <2>3. m \in Written
    BY <2>2, GenuineMessage DEF Says
  <2>4. \A n \in Messages : e.body = Body(n) => n = m
    BY <2>1 DEF Body
  <2>5. HeldNow' = HeldNow \cup {m}
    BY <1>4, <2>1, <2>4 DEF HeldNow
  <2>6. Promise!Hold(m)
    BY <1>5, <2>1, <2>3, <2>5 DEF Promise!Hold, HeldNow, Written
  <2>7. PromiseStep
    BY <2>6 DEF PromiseStep, Promise!Next
  <2> QED
    BY <1>6, <1>7, <2>7
<1> QED
  BY <1>8, <1>9

LEMMA TakePromise ==
  ASSUME PromiseInv, TypeOK', NEW p \in Peers, NEW e \in buffer[p], TakeEnvelope(p, e)
  PROVE  PromiseInv' /\ PromiseStep
<1>1. UNCHANGED <<now, outbox, receipts, sentAt, seen, confirmed, cut, call, inHand, late>>
  BY DEF TakeEnvelope, Receive, journalVars, storeVars, engineVars
<1>2. /\ Genuine \subseteq Genuine'
      /\ confirmed' \subseteq Durable'
      /\ InboxGenuine'
      /\ PromiseStep
  <2>1. CASE Receive(p, e)
    <3>1. e.to = p /\ Says(e) \in Genuine
      BY DEF PromiseInv, MemoryGenuine
    <3> QED
      BY <1>1, <2>1, <3>1, ReceivePromise
  <2>2. CASE UNCHANGED journalVars
    BY <1>1, <2>2, QuietWhenUnread, QuietEffect, Untouched DEF journalVars
  <2> QED
    BY <2>1, <2>2 DEF TakeEnvelope
<1>3. MemoryGenuine'
  <2>1. buffer' = [buffer EXCEPT ![p] = @ \ {e}]
    BY DEF TakeEnvelope
  <2>2. \A o \in Peers : buffer'[o] \subseteq buffer[o]
    BY <2>1, UpdateAt, Domains DEF PromiseInv
  <2> QED
    BY <1>1, <1>2, <2>2 DEF PromiseInv, MemoryGenuine, Says
<1> QED
  BY <1>1, <1>2, <1>3, Untouched DEF PromiseInv, HandSeen

LEMMA ExtensionPromise ==
  ASSUME PromiseInv, TypeOK', NEW p \in Extended, ExtensionReceive(p)
  PROVE  PromiseInv' /\ PromiseStep
<1> DEFINE x == <<p, "ext">>
<1>1. x \in Processes /\ p \in Peers /\ x[1] = p
  BY ExtProcess
<1>2. UNCHANGED <<now, outbox, receipts, sentAt, seen, confirmed, cut, buffer, inHand, late>>
  BY DEF ExtensionReceive, Receive, journalVars, storeVars, engineVars
<1>3. /\ Genuine \subseteq Genuine'
      /\ confirmed' \subseteq Durable'
      /\ InboxGenuine'
      /\ PromiseStep
  <2>1. CASE \E e \in call[x].inbox : Receive(p, e)
    <3>1. PICK e \in call[x].inbox : Receive(p, e)
      BY <2>1
    <3>2. e.to = p /\ Says(e) \in Genuine
      BY <1>1 DEF PromiseInv, CallsGenuine
    <3> QED
      BY <1>1, <1>2, <3>1, <3>2, ReceivePromise
  <2>2. CASE UNCHANGED journalVars
    BY <1>2, <2>2, QuietWhenUnread, QuietEffect, Untouched DEF journalVars
  <2> QED
    BY <2>1, <2>2 DEF ExtensionReceive
<1>4. CallsGenuine'
  <2>1. call' = [call EXCEPT ![x] = Idle]
    BY DEF ExtensionReceive
  <2>2. Idle.envs = {} /\ Idle.inbox = {}
    BY DEF Idle
  <2> QED
    BY <1>1, <1>3, <2>1, <2>2, CallMoves
<1> QED
  BY <1>2, <1>3, <1>4, Untouched DEF PromiseInv, HandSeen

\* A receipt is written for a message that its recipient holds.
LEMMA ReceiptedPromise ==
  ASSUME PromiseInv, Genuine \subseteq Genuine', NEW p \in Peers, NEW row \in inbox[p],
         row.env.body.kind = "message" => row.env.body.of \in HeldNow,
         Receipted(p, row)
  PROVE  OutboxGenuine'
<1>1. CASE row.env.body.kind = "message" /\ ~row.receipted
  <2>1. <<row.env.from, p, row.env.body>> \in Genuine
    BY DEF PromiseInv, InboxGenuine, Says
  <2>2. PICK m \in Written : row.env.from = m.from /\ p = m.to /\ row.env.body.of = m
    BY <1>1, <2>1, GenuineMessage
  <2>3. m \in Durable
    BY <1>1, <2>2 DEF Durable
  <2>4. <<p, row.env.from, Receipt(row.env.body.of)>> \in Genuine
    BY <2>2, <2>3, ReceiptGenuine
  <2> QED
    BY <1>1, <2>4, InsertGenuine DEF Receipted
<1>2. CASE ~(row.env.body.kind = "message" /\ ~row.receipted)
  BY <1>2, Untouched DEF Receipted
<1> QED
  BY <1>1, <1>2

LEMMA EarlyPromise ==
  ASSUME PromiseInv, TypeOK', NEW p \in Extended, EarlyReceipt(p)
  PROVE  PromiseInv' /\ PromiseStep
<1>1. p \in Peers
  BY ExtProcess
<1>2. PICK row \in inbox[p] : ~row.applied /\ Received(p, row)
  BY DEF EarlyReceipt, Unapplied
<1>3. UNCHANGED <<now, receipts, sentAt, seen, confirmed, cut, call, buffer, inHand, late>>
  BY DEF EarlyReceipt, storeVars, engineVars, pumpVars
<1> DEFINE told == [row EXCEPT !.receipted = TRUE]
<1>4. told.env = row.env /\ told.applied = row.applied
  BY <1>1 DEF PromiseInv, TypeOK, InboxRow
<1>5. inbox' = [inbox EXCEPT ![p] = (@ \ {row}) \cup {told}]
  BY <1>2 DEF Received
<1> HIDE DEF told
<1>6. \A o \in Peers : inbox'[o] = IF o = p THEN (inbox[o] \ {row}) \cup {told} ELSE inbox[o]
  BY <1>1, <1>5, UpdateAt, Domains DEF PromiseInv
<1>7. HeldNow' = HeldNow
  <2>1. ASSUME NEW m \in Messages
        PROVE  (\E r \in inbox'[m.to] : ~r.applied /\ r.env.body = Body(m))
               <=> (\E r \in inbox[m.to] : ~r.applied /\ r.env.body = Body(m))
    <3>1. CASE m.to # p
      BY <1>6, <3>1, DeliveryAssumption
    <3>2. CASE m.to = p
      <4>1. /\ \A r \in inbox'[p] : \E q \in inbox[p] : q.env = r.env /\ q.applied = r.applied
            /\ \A q \in inbox[p] : \E r \in inbox'[p] : q.env = r.env /\ q.applied = r.applied
        BY <1>1, <1>2, <1>4, <1>6
      <4> QED
        BY <3>2, <4>1
    <3> QED
      BY <3>1, <3>2
  <2> QED
    BY <1>3, <2>1 DEF HeldNow, Holds, Unapplied
<1>8. Quiet
  BY <1>3, <1>7 DEF Quiet, Written
<1>9. InboxGenuine'
  <2>1. \A o \in Peers : \A r \in inbox'[o] : \E q \in inbox[o] : q.env = r.env
    BY <1>2, <1>4, <1>6
  <2> QED
    BY <1>8, <2>1, QuietEffect DEF PromiseInv, InboxGenuine
<1>10. row.env.body.kind = "message" => row.env.body.of \in HeldNow
  <2>1. <<row.env.from, p, row.env.body>> \in Genuine
    BY <1>1 DEF PromiseInv, InboxGenuine, Says
  <2>2. SUFFICES ASSUME row.env.body.kind = "message"
                 PROVE  row.env.body.of \in HeldNow
    OBVIOUS
  <2>3. PICK m \in Written : p = m.to /\ row.env.body = Body(m) /\ row.env.body.of = m
    BY <2>1, <2>2, GenuineMessage
  <2> QED
    BY <1>2, <2>3 DEF HeldNow, Written, Holds, Unapplied
<1>11. OutboxGenuine'
  BY <1>1, <1>2, <1>8, <1>10, QuietEffect, ReceiptedPromise DEF Received
<1> QED
  BY <1>3, <1>8, <1>9, <1>11, QuietEffect, Untouched DEF PromiseInv

LEMMA ProjectPromise ==
  ASSUME PromiseInv, TypeOK', NEW p \in Peers, NEW row \in Unapplied(p), Project(p, row)
  PROVE  PromiseInv' /\ PromiseStep
<1> DEFINE body == row.env.body
<1>1. UNCHANGED <<now, outbox, inbox, receipts, sentAt, cut, call, buffer, late>>
  BY DEF Project, journalVars, storeVars
<1>2. row \in inbox[p] /\ ~row.applied
  BY DEF Unapplied
<1>3. <<row.env.from, p, body>> \in Genuine /\ row.env.to = p /\ Says(row.env) \in Genuine
  BY <1>2 DEF PromiseInv, InboxGenuine, Says
<1>4. inHand' = [inHand EXCEPT ![p] = {row.env}]
  BY DEF Project
<1>5. CASE body.kind = "message"
  <2>1. PICK m \in Written : p = m.to /\ body = Body(m) /\ body.of = m
    BY <1>3, <1>5, GenuineMessage
  <2>2. seen' = seen \cup {m} /\ confirmed' = confirmed
    BY <1>5, <2>1 DEF Project
  <2>3. m \in HeldNow
    BY <1>2, <2>1 DEF HeldNow, Written, Holds, Unapplied
  <2>4. HeldNow' = HeldNow
    BY <1>1, <2>2, <2>3 DEF HeldNow, Holds, Unapplied
  <2>5. Written' = Written
    BY <1>1 DEF Written
  <2>6. Genuine \subseteq Genuine' /\ confirmed' \subseteq Durable'
    BY <1>1, <2>2, <2>4, <2>5, GenuineGrows DEF Durable, PromiseInv
  <2>7. PromiseStep
    <3>1. CASE m \in seen
      BY <1>1, <2>2, <2>4, <2>5, <3>1 DEF PromiseStep, Promise!vars, HeldNow, Written
    <3>2. CASE m \notin seen
      <4>1. Promise!Show(m)
        BY <1>1, <2>2, <2>3, <2>4, <2>5, <3>2 DEF Promise!Show, HeldNow, Written
      <4> QED
        BY <2>1, <4>1 DEF PromiseStep, Promise!Next, Written
    <3> QED
      BY <3>1, <3>2
  <2>8. \A o \in Peers : \A e \in inHand'[o] : e \in inHand[o] \/ (o = p /\ e = row.env)
    BY <1>4, UpdateAt, Domains DEF PromiseInv
  <2>9. HandSeen'
    BY <2>1, <2>2, <2>8 DEF PromiseInv, HandSeen
  <2>10. MemoryGenuine'
    <3>1. \A o \in Peers : \A e \in buffer'[o] \cup inHand'[o] : e.to = o /\ Says(e) \in Genuine
      BY <1>1, <1>3, <2>8 DEF PromiseInv, MemoryGenuine
    <3> QED
      BY <2>6, <3>1 DEF MemoryGenuine, Says
  <2> QED
    BY <1>1, <2>6, <2>7, <2>9, <2>10, Untouched DEF PromiseInv
<1>6. CASE body.kind # "message"
  <2> DEFINE m == body.of
  <2>1. m \in Durable
    BY <1>3, <1>6, GenuineReceipt
  <2>2. seen' = seen /\ confirmed' = confirmed \cup {m}
    BY <1>6 DEF Project
  <2>3. HeldNow' = HeldNow /\ Written' = Written
    BY <1>1, <2>2 DEF HeldNow, Written, Holds, Unapplied
  <2>4. Genuine \subseteq Genuine' /\ confirmed' \subseteq Durable'
    BY <1>1, <2>1, <2>2, <2>3, GenuineGrows DEF Durable, PromiseInv
  <2>5. PromiseStep
    <3>1. CASE m \in confirmed
      BY <1>1, <2>2, <2>3, <3>1 DEF PromiseStep, Promise!vars, HeldNow, Written
    <3>2. CASE m \notin confirmed
      <4>1. m \in Messages
        BY <2>1 DEF Durable, HeldNow
      <4>2. Promise!Know(m)
        BY <1>1, <2>1, <2>2, <2>3, <3>2
        DEF Promise!Know, Durable, HeldNow, Written, Pair
      <4> QED
        BY <4>1, <4>2 DEF PromiseStep, Promise!Next
    <3> QED
      BY <3>1, <3>2
  <2>6. \A o \in Peers : \A e \in inHand'[o] : e \in inHand[o] \/ (o = p /\ e = row.env)
    BY <1>4, UpdateAt, Domains DEF PromiseInv
  <2>7. HandSeen'
    BY <1>6, <2>2, <2>6 DEF PromiseInv, HandSeen
  <2>8. MemoryGenuine'
    <3>1. \A o \in Peers : \A e \in buffer'[o] \cup inHand'[o] : e.to = o /\ Says(e) \in Genuine
      BY <1>1, <1>3, <2>6 DEF PromiseInv, MemoryGenuine
    <3> QED
      BY <2>4, <3>1 DEF MemoryGenuine, Says
  <2> QED
    BY <1>1, <2>4, <2>5, <2>7, <2>8, Untouched DEF PromiseInv
<1> QED
  BY <1>5, <1>6

\* A row is marked applied after its message was shown.
LEMMA AppliedPromise ==
  ASSUME PromiseInv, TypeOK', NEW p \in Peers, RecordApplied(p)
  PROVE  PromiseInv' /\ PromiseStep
<1>1. UNCHANGED <<now, receipts, sentAt, seen, confirmed, cut, call, buffer, late>>
  BY DEF RecordApplied, storeVars, engineVars
<1>2. PICK e \in inHand[p] : Applied(p, e) \/ UNCHANGED journalVars
  BY DEF RecordApplied
<1>3. e.body.kind = "message" => e.body.of \in seen
  BY DEF PromiseInv, HandSeen
<1>4. Genuine \subseteq Genuine' => MemoryGenuine' /\ HandSeen'
  <2>1. inHand' = [inHand EXCEPT ![p] = {}]
    BY DEF RecordApplied
  <2>2. \A o \in Peers : inHand'[o] \subseteq inHand[o]
    BY <2>1, UpdateAt, Domains DEF PromiseInv
  <2> QED
    BY <1>1, <2>2 DEF PromiseInv, MemoryGenuine, HandSeen, Says
<1>5. CASE UNCHANGED <<inbox, outbox>>
  <2>1. Quiet
    BY <1>1, <1>5, QuietWhenUnread
  <2> QED
    BY <1>1, <1>4, <1>5, <2>1, QuietEffect, Untouched DEF PromiseInv
<1>6. CASE \E r \in inbox[p] : r.env = e /\ ~r.applied
  <2>0. CASE UNCHANGED journalVars
    BY <1>5, <2>0 DEF journalVars
  <2>1. CASE Applied(p, e)
    <3> DEFINE Mark(r) == IF r.env = e
                          THEN [r EXCEPT !.applied = TRUE, !.receipted = TRUE] ELSE r
               rows == {Mark(r) : r \in inbox[p]}
    <3>1. inbox' = [inbox EXCEPT ![p] = rows]
      BY <1>6, <2>1 DEF Applied
    <3>2. PICK row \in inbox[p] : row.env = e /\ Receipted(p, row)
      BY <1>6, <2>1 DEF Applied
    <3>3. \A r \in inbox[p] : Mark(r).env = r.env /\ (Mark(r).applied <=> r.applied \/ r.env = e)
      BY DEF PromiseInv, TypeOK, InboxRow
    <3> HIDE DEF Mark
    <3>4. /\ \A r \in rows : \E q \in inbox[p] : q.env = r.env /\ (r.applied <=> q.applied \/ q.env = e)
          /\ \A q \in inbox[p] : \E r \in rows : q.env = r.env /\ (r.applied <=> q.applied \/ q.env = e)
      BY <3>3
    <3> HIDE DEF rows
    <3>5. \A o \in Peers : inbox'[o] = IF o = p THEN rows ELSE inbox[o]
      BY <3>1, UpdateAt, Domains DEF PromiseInv
    <3>6. HeldNow' = HeldNow
      <4>1. ASSUME NEW m \in Messages, m \notin seen
            PROVE  (\E r \in inbox'[m.to] : ~r.applied /\ r.env.body = Body(m))
                   <=> (\E r \in inbox[m.to] : ~r.applied /\ r.env.body = Body(m))
        <5>1. e.body # Body(m)
          BY <1>3, <4>1 DEF Body
        <5>2. CASE m.to # p
          BY <3>5, <5>2, DeliveryAssumption
        <5>3. CASE m.to = p
          BY <3>4, <3>5, <5>1, <5>3
        <5> QED
          BY <5>2, <5>3
      <4> QED
        BY <1>1, <4>1 DEF HeldNow, Holds, Unapplied
    <3>7. Quiet
      BY <1>1, <3>6 DEF Quiet, Written
    <3>8. InboxGenuine'
      <4>1. \A o \in Peers : \A r \in inbox'[o] : \E q \in inbox[o] : q.env = r.env
        BY <3>4, <3>5
      <4> QED
        BY <3>7, <4>1, QuietEffect DEF PromiseInv, InboxGenuine
    <3>9. OutboxGenuine'
      <4>1. row.env.body.kind = "message" => row.env.body.of \in HeldNow
        BY <1>3, <3>2 DEF HeldNow, Holds, PromiseInv, TypeOK
      <4> QED
        BY <3>2, <3>7, <4>1, QuietEffect, ReceiptedPromise
    <3> QED
      BY <1>1, <1>4, <3>7, <3>8, <3>9, QuietEffect, Untouched DEF PromiseInv
  <2> QED
    BY <1>2, <2>0, <2>1
<1>7. CASE ~\E r \in inbox[p] : r.env = e /\ ~r.applied
  BY <1>2, <1>5, <1>7 DEF Applied, journalVars
<1> QED
  BY <1>6, <1>7

LEMMA PrunePromise ==
  ASSUME PromiseInv, TypeOK', NEW p \in Peers, PruneJournal(p)
  PROVE  PromiseInv' /\ PromiseStep
<1>1. UNCHANGED <<now, receipts, sentAt, seen, confirmed, cut, call, buffer, inHand, late>>
  BY DEF PruneJournal, storeVars, engineVars, pumpVars
<1>2. /\ outbox' = [outbox EXCEPT ![p] = {r \in @ : Live(r)}]
      /\ inbox' = [inbox EXCEPT ![p] = {r \in @ : Live(r.env) \/ ~(r.applied /\ r.acked)}]
  BY DEF PruneJournal, Prune
<1>3. \A o \in Peers : outbox'[o] \subseteq outbox[o]
  BY <1>2, UpdateAt, Domains DEF PromiseInv
<1>4. \A o \in Peers : /\ inbox'[o] \subseteq inbox[o]
                       /\ \A r \in inbox[o] : ~r.applied => r \in inbox'[o]
  BY <1>2, UpdateAt, Domains DEF PromiseInv
<1>5. HeldNow' = HeldNow
  BY <1>1, <1>4, DeliveryAssumption DEF HeldNow, Holds, Unapplied
<1>6. Quiet
  BY <1>1, <1>5 DEF Quiet, Written
<1>7. OutboxGenuine' /\ InboxGenuine'
  BY <1>3, <1>4, <1>6, QuietEffect DEF PromiseInv, OutboxGenuine, InboxGenuine, Says
<1> QED
  BY <1>1, <1>6, <1>7, QuietEffect, Untouched DEF PromiseInv

-----------------------------------------------------------------------------
(* The theorems *)

LEMMA StepPromise == PromiseInv /\ TypeOK' /\ [Next]_vars => PromiseInv' /\ PromiseStep
<1> SUFFICES ASSUME PromiseInv, TypeOK', [Next]_vars
             PROVE  PromiseInv' /\ PromiseStep
  OBVIOUS
<1>1. CASE Tick \/ UNCHANGED vars
  <2>1. UNCHANGED <<outbox, inbox, receipts, sentAt, seen, confirmed, cut, call, buffer,
                    inHand, late>> /\ now' > 0
    BY <1>1 DEF Tick, vars, journalVars, storeVars, engineVars, pumpVars, PromiseInv, TypeOK
  <2>2. Quiet
    BY <2>1, QuietWhenUnread
  <2> QED
    BY <2>1, <2>2, QuietEffect, Untouched DEF PromiseInv
<1> QED
  BY <1>1, SendPromise, FlushPromise, BlockPromise, SealPromise, RequestPromise, PushPromise,
     ServePromise, LostPromise, LatePromise, RecordAcksPromise, RecordUploadPromise,
     RecordBlockPromise, TakePromise, ExtensionPromise, EarlyPromise, ProjectPromise,
     AppliedPromise, PrunePromise
  DEF Next

THEOREM PromiseInvariant == Spec => []PromiseInv
<1>1. PromiseInv /\ [Next]_vars => PromiseInv'
  BY NextTypes, StepPromise DEF PromiseInv
<1> QED
  BY <1>1, InitPromise, PTL DEF Spec

\* The sender is told of a delivery only when the message is in the recipient's
\* history or durably decrypted in its journal, or a block has intervened
\* (DeviceMessenger.receive of an acknowledgement, SignalJournal.receipt).
THEOREM DeliveredIsDurable == Spec => []DeliveredMeansDurable
<1>1. PromiseInv => DeliveredMeansDurable
  BY DEF PromiseInv, Durable, HeldNow, DeliveredMeansDurable
<1> QED
  BY <1>1, PromiseInvariant, PTL

\* Delivery implements the mailbox of module Mailbox: whatever devices, their
\* second processes and the service do, the two ends of a conversation see the
\* steps of that module only.
THEOREM PromiseKept == Spec => KeepsPromise
<1>1. Init => Promise!Init
  BY InitPromise
<1>2. PromiseInv /\ [Next]_vars => [Promise!Next]_(Promise!vars)
  BY NextTypes, StepPromise DEF PromiseInv, PromiseStep
<1> QED
  BY <1>1, <1>2, PromiseInvariant, PTL DEF Spec, KeepsPromise, Promise!Spec
=============================================================================
