------------------------------ MODULE SignalKeys ------------------------------
(***************************************************************************)
(* One-time keys from their creation to the first message they open: the   *)
(* device that keeps the directory supplied (maintainKeys and publish in   *)
(* src/messenger/delivery/pump.ts, its journal and the vendor's key store),*)
(* the directory (SignalDirectory), and the correspondents who lease a key *)
(* for a row of their outbox (sendOne) and seal the row with it.           *)
(*                                                                         *)
(* Requests time out, processes die, and an abandoned request may still be *)
(* executed, as in module Delivery.  Two processes of a device run a pump: *)
(* the app and its share extension (share-extension.ts).  How a sealed row *)
(* travels is the matter of module Delivery; here it may be opened at any  *)
(* time.                                                                   *)
(***************************************************************************)
EXTENDS SignalDirectory

CONSTANTS
  Keepers,     \* peers whose pumps run here; the others have no keys left
  Hosts,       \* the processes of a device that run a pump
  Rows,        \* outbox rows: records [actor, owner, request]
  First,       \* keys created with the identity (50)
  Low,         \* stock below which a device replenishes (20)
  Full,        \* stock it replenishes to (50)
  MaxLocal,    \* key pairs a device keeps (200)
  Batch,       \* keys per publication (100)
  MaxNow, MaxFaults, MaxLate, MaxUnlinks   \* bounds of the environment

ASSUME KeysAssumption ==
  /\ Keepers \subseteq Peers
  /\ Rows \subseteq [actor : Peers, owner : Keepers, request : Requests]
  /\ \A r \in Rows : r.actor # r.owner
  /\ First \in Nat \ {0} /\ Low \in Nat /\ Full \in Nat /\ Batch \in Nat \ {0}
  /\ MaxLocal \in Nat /\ First <= MaxLocal /\ MaxLocal <= MaxPool
  /\ MaxNow \in Nat /\ MaxFaults \in Nat /\ MaxLate \in Nat /\ MaxUnlinks \in Nat

VARIABLES
  local,       \* local[p]: numbers of the one-time key pairs in p's Signal state
  next,        \* next[p]: nextPreKey
  pump,        \* pump[x]: what key maintenance of process x is doing
  ask,         \* ask[r]: the delivery-keys request for row r
  session,     \* session[p][q]: the key p's session with q was started with, or 0
  sealed,      \* sealed[r]: the key named by the ciphertext of row r, or 0
  opened,      \* rows decrypted by their recipient
  started,     \* started[p]: sessions <<actor, key>> p has accepted
  late, faults,
  unlinks,     \* unlinks[p]: how often p was unlinked
  granted      \* history variable: every new lease, with unlinks[owner] as era

deviceVars == <<local, next, session, sealed, opened, started>>
directoryVars == <<directory, leases, registered>>
vars == <<now, directoryVars, deviceVars, pump, ask, late, faults, unlinks, granted>>

Pumps == Keepers \X Hosts

\* goal says which of the three publications is under way: the one of the first
\* cycle, the repeated one of maintainKeys, or that of the new keys.
Resting(stage) ==
  [stage |-> stage, goal |-> "start", todo |-> {}, batch |-> {}, size |-> 0,
   stock |-> 0]

NoAsk == [stage |-> "idle", id |-> 0]

Init ==
  /\ now = 0
  /\ directory = [p \in Peers |->
        IF p \in Keepers THEN Absent
        ELSE [present |-> TRUE, highWater |-> First, keys |-> {}]]
  /\ leases = {}
  /\ registered = Peers
  /\ local = [p \in Peers |-> {}]
  /\ next = [p \in Peers |-> IF p \in Keepers THEN 1 ELSE First + 1]
  /\ pump = [x \in Pumps |-> Resting("new")]
  /\ ask = [r \in Rows |-> NoAsk]
  /\ session = [p \in Peers |-> [q \in Peers |-> 0]]
  /\ sealed = [r \in Rows |-> 0]
  /\ opened = {}
  /\ started = [p \in Peers |-> {}]
  /\ late = {}
  /\ faults = 0
  /\ unlinks = [p \in Peers |-> 0]
  /\ granted = {}

Tick ==
  /\ now < MaxNow
  /\ now' = now + 1
  /\ UNCHANGED <<directoryVars, deviceVars, pump, ask, late, faults, unlinks, granted>>

-----------------------------------------------------------------------------
(* The keeper of a stock *)

\* publish(keys) starts with the keys of the journal's answer.
Publishing(goal, keys) ==
  [stage |-> "publishing", goal |-> goal, todo |-> keys, batch |-> {},
   size |-> Cardinality(keys), stock |-> 0]

\* The first cycle of a pump: journal.initialize creates the identity and its
\* first keys, or finds them.
Begin(x) ==
  /\ pump[x].stage = "new"
  /\ x[1] \in registered
  /\ IF next[x[1]] = 1
     THEN /\ local' = [local EXCEPT ![x[1]] = 1..First]
          /\ next' = [next EXCEPT ![x[1]] = First + 1]
     ELSE UNCHANGED <<local, next>>
  /\ pump' = [pump EXCEPT ![x] = Publishing("start", local'[x[1]])]
  /\ UNCHANGED <<now, directoryVars, session, sealed, opened, started, ask, late,
                 faults, unlinks, granted>>

\* maintainKeys: the service reports a low stock ...
FindLow(x) ==
  /\ pump[x].stage = "ready"
  /\ x[1] \in registered
  /\ Cardinality(directory[x[1]].keys) < Low
  /\ pump' = [pump EXCEPT ![x].stage = "low"]
  /\ UNCHANGED <<now, directoryVars, deviceVars, ask, late, faults, unlinks, granted>>

\* ... and the keys of the journal are published once more.
Republish(x) ==
  /\ pump[x].stage = "low"
  /\ pump' = [pump EXCEPT ![x] = Publishing("again", local[x[1]])]
  /\ UNCHANGED <<now, directoryVars, deviceVars, ask, late, faults, unlinks, granted>>

\* Defect: the keys go out in the order the journal holds them.
NextUnordered(keys, batch) ==
  /\ batch # {}
  /\ Cardinality(batch) <= Batch
  /\ batch = keys \/ Cardinality(batch) = Batch

\* The lowest keys, as many as a publication may carry.
NextOf(keys, batch) ==
  /\ batch # {}
  /\ Cardinality(batch) <= Batch
  /\ batch = keys \/ Cardinality(batch) = Batch
  /\ \A i \in batch, j \in keys \ batch : i < j

PostBatch(x) ==
  /\ pump[x].stage = "publishing"
  /\ \E batch \in SUBSET pump[x].todo :
       /\ NextOf(pump[x].todo, batch)
       /\ pump' = [pump EXCEPT ![x].stage = "sent", ![x].batch = batch]
  /\ UNCHANGED <<now, directoryVars, deviceVars, ask, late, faults, unlinks, granted>>

ServeBatch(x) ==
  /\ pump[x].stage = "sent"
  /\ Publish(x[1], pump[x].batch)
  /\ pump' = [pump EXCEPT ![x].stage = "answered",
                          ![x].stock = Cardinality(directory'[x[1]].keys)]
  /\ UNCHANGED <<now, deviceVars, ask, late, faults, unlinks, granted>>

NextBatch(x) ==
  /\ pump[x].stage = "answered"
  /\ pump' = [pump EXCEPT ![x].stage = "publishing",
                          ![x].todo = @ \ pump[x].batch, ![x].batch = {}]
  /\ UNCHANGED <<now, directoryVars, deviceVars, ask, late, faults, unlinks, granted>>

\* A pump that has finished its first publication keeps being initialized.
AtRest(x) == Resting(IF pump[x].goal = "start" THEN "new" ELSE "ready")

\* A cycle that fails ends; the next one starts over.
RefuseBatch(x) ==
  /\ pump[x].stage = "sent"
  /\ ~Publishable(x[1], pump[x].batch)
  /\ pump' = [pump EXCEPT ![x] = AtRest(x)]
  /\ UNCHANGED <<now, directoryVars, deviceVars, ask, late, faults, unlinks, granted>>

\* Defect: the keys it holds are taken for the keys in stock.
WantedLocally(x) ==
  IF pump[x].goal = "again" /\ pump[x].size < Low
  THEN Full - pump[x].size
  ELSE 0

\* What maintainKeys adds after it has republished.
Wanted(x) ==
  IF pump[x].goal = "again" /\ pump[x].stock < Low
  THEN IF Full - pump[x].stock <= MaxLocal - pump[x].size
       THEN Full - pump[x].stock ELSE MaxLocal - pump[x].size
  ELSE 0

Done(x) == pump[x].stage = "publishing" /\ pump[x].todo = {}

Rest(x) ==
  /\ Done(x)
  /\ Wanted(x) <= 0
  /\ pump' = [pump EXCEPT ![x] = Resting("ready")]
  /\ UNCHANGED <<now, directoryVars, deviceVars, ask, late, faults, unlinks, granted>>

\* journal.replenish: the new keys and the counter are saved together.  The
\* vendor's store refuses to hold more than MaxLocal.
Replenish(x) ==
  /\ Done(x)
  /\ Wanted(x) > 0
  /\ IF Cardinality(local[x[1]]) + Wanted(x) <= MaxLocal
     THEN /\ local' = [local EXCEPT ![x[1]] =
                         @ \cup next[x[1]]..(next[x[1]] + Wanted(x) - 1)]
          /\ next' = [next EXCEPT ![x[1]] = @ + Wanted(x)]
          /\ pump' = [pump EXCEPT ![x] = Publishing("grown", local'[x[1]])]
     ELSE /\ pump' = [pump EXCEPT ![x] = Resting("ready")]
          /\ UNCHANGED <<local, next>>
  /\ UNCHANGED <<now, directoryVars, session, sealed, opened, started, ask, late,
                 faults, unlinks, granted>>

-----------------------------------------------------------------------------
(* A correspondent with a row to send *)

Unsealed(r) == sealed[r] = 0

\* sendOne: a row for a peer without a session asks for a bundle, in the name
\* of the row.
Ask(r) ==
  /\ ask[r].stage = "idle"
  /\ Unsealed(r)
  /\ session[r.actor][r.owner] = 0
  /\ ask' = [ask EXCEPT ![r].stage = "sent"]
  /\ UNCHANGED <<now, directoryVars, deviceVars, pump, late, faults, unlinks, granted>>

\* What delivery-keys answers for row r is key id.
Grant(r, id) ==
  \/ /\ TakeNew(r.actor, r.owner, r.request, id)
     /\ granted' = granted \cup {[owner |-> r.owner, id |-> id, actor |-> r.actor,
                                  request |-> r.request, era |-> unlinks[r.owner]]}
  \/ /\ Retake(r.actor, r.owner, r.request, id)
     /\ UNCHANGED granted

Numbers == (UNION {directory[p].keys : p \in Peers}) \cup {l.id : l \in leases}

ServeAsk(r) ==
  /\ ask[r].stage = "sent"
  /\ \E id \in Numbers :
       /\ Grant(r, id)
       /\ ask' = [ask EXCEPT ![r] = [stage |-> "answered", id |-> id]]
  /\ UNCHANGED <<now, deviceVars, pump, late, faults, unlinks>>

\* No key, no registration, or too many leases; the row is tried again later.
RefuseAsk(r) ==
  /\ ask[r].stage = "sent"
  /\ \/ {r.actor, r.owner} \cap registered # {r.actor, r.owner}
     \/ ~directory[r.actor].present
     \/ /\ LeasedTo(r.actor, r.owner, r.request) = {}
        /\ directory[r.owner].keys = {} \/ Cardinality(Living) >= MaxLeases
  /\ ask' = [ask EXCEPT ![r] = NoAsk]
  /\ UNCHANGED <<now, directoryVars, deviceVars, pump, late, faults, unlinks, granted>>

\* seal with the bundle: it starts a session unless there is one by now.
SealWithBundle(r) ==
  /\ ask[r].stage = "answered"
  /\ session' = [session EXCEPT ![r.actor][r.owner] = IF @ = 0 THEN ask[r].id ELSE @]
  /\ sealed' = [sealed EXCEPT ![r] = session'[r.actor][r.owner]]
  /\ ask' = [ask EXCEPT ![r] = NoAsk]
  /\ UNCHANGED <<now, directoryVars, local, next, opened, started, pump, late,
                 faults, unlinks, granted>>

\* seal with a session: until the peer answers, ciphertexts name its key.
SealInSession(r) ==
  /\ ask[r].stage = "idle"
  /\ Unsealed(r)
  /\ session[r.actor][r.owner] # 0
  /\ sealed' = [sealed EXCEPT ![r] = session[r.actor][r.owner]]
  /\ UNCHANGED <<now, directoryVars, local, next, session, opened, started, pump,
                 ask, late, faults, unlinks, granted>>

Openable(r) ==
  \/ <<r.actor, sealed[r]>> \in started[r.owner]
  \/ sealed[r] \in local[r.owner]

\* The recipient decrypts: the first ciphertext of a session consumes the key.
Open(r) ==
  /\ ~Unsealed(r)
  /\ r \notin opened
  /\ Openable(r)
  /\ opened' = opened \cup {r}
  /\ IF <<r.actor, sealed[r]>> \in started[r.owner]
     THEN UNCHANGED <<local, started>>
     ELSE /\ local' = [local EXCEPT ![r.owner] = @ \ {sealed[r]}]
          /\ started' = [started EXCEPT ![r.owner] = @ \cup {<<r.actor, sealed[r]>>}]
  /\ UNCHANGED <<now, directoryVars, next, session, sealed, pump, ask, late, faults,
                 unlinks, granted>>

-----------------------------------------------------------------------------
(* Faults *)

AbandonedBatch(x) ==
  IF pump[x].stage = "sent" /\ Cardinality(late) < MaxLate
  THEN late \cup {[owner |-> x[1], batch |-> pump[x].batch, rows |-> {}]} ELSE late

AbandonedAsk(r) ==
  IF ask[r].stage = "sent" /\ Cardinality(late) < MaxLate
  THEN late \cup {[owner |-> r.owner, batch |-> {}, rows |-> {r}]} ELSE late

\* The request or its answer is lost, and the cycle fails.
TimeOutBatch(x) ==
  /\ pump[x].stage \in {"sent", "answered"}
  /\ faults < MaxFaults
  /\ faults' = faults + 1
  /\ late' = AbandonedBatch(x)
  /\ pump' = [pump EXCEPT ![x] = AtRest(x)]
  /\ UNCHANGED <<now, directoryVars, deviceVars, ask, unlinks, granted>>

\* The process dies; its successor initializes again.
Die(x) ==
  /\ faults < MaxFaults
  /\ faults' = faults + 1
  /\ late' = AbandonedBatch(x)
  /\ pump' = [pump EXCEPT ![x] = Resting("new")]
  /\ UNCHANGED <<now, directoryVars, deviceVars, ask, unlinks, granted>>

\* The correspondent loses the answer, or dies before it sealed the row.
LoseAsk(r) ==
  /\ ask[r].stage # "idle"
  /\ faults < MaxFaults
  /\ faults' = faults + 1
  /\ late' = AbandonedAsk(r)
  /\ ask' = [ask EXCEPT ![r] = NoAsk]
  /\ UNCHANGED <<now, directoryVars, deviceVars, pump, unlinks, granted>>

ServeLate(c) ==
  /\ c \in late
  /\ late' = late \ {c}
  /\ IF c.rows = {}
     THEN Publish(c.owner, c.batch) /\ UNCHANGED granted
     ELSE \E r \in c.rows, id \in Numbers : Grant(r, id)
  /\ UNCHANGED <<now, deviceVars, pump, ask, faults, unlinks>>

UnlinkPhone(p) ==
  /\ unlinks[p] < MaxUnlinks
  /\ unlinks' = [unlinks EXCEPT ![p] = @ + 1]
  /\ Unlink(p)
  /\ UNCHANGED <<now, deviceVars, pump, ask, late, faults, granted>>

RegisterPhone(p) ==
  /\ Register(p)
  /\ UNCHANGED <<now, deviceVars, pump, ask, late, faults, unlinks, granted>>

Next ==
  \/ Tick
  \/ \E x \in Pumps :
       \/ Begin(x) \/ FindLow(x) \/ Republish(x)
       \/ PostBatch(x) \/ ServeBatch(x) \/ NextBatch(x) \/ RefuseBatch(x)
       \/ Rest(x) \/ Replenish(x)
       \/ TimeOutBatch(x) \/ Die(x)
  \/ \E r \in Rows :
       \/ Ask(r) \/ ServeAsk(r) \/ RefuseAsk(r) \/ LoseAsk(r)
       \/ SealWithBundle(r) \/ SealInSession(r) \/ Open(r)
  \/ \E c \in late : ServeLate(c)
  \/ \E p \in Keepers : UnlinkPhone(p) \/ RegisterPhone(p)

Spec == Init /\ [][Next]_vars

\* A started pump runs its cycles to the end and begins new ones, and the
\* service answers.  Nothing is assumed of correspondents, of deaths and
\* timeouts, or of abandoned requests.
Maintain(x) ==
  \/ Begin(x) \/ FindLow(x) \/ Republish(x)
  \/ PostBatch(x) \/ ServeBatch(x) \/ NextBatch(x) \/ RefuseBatch(x)
  \/ Rest(x) \/ Replenish(x)

FairSpec == Spec /\ \A x \in Pumps : WF_vars(Maintain(x))

-----------------------------------------------------------------------------
Pumping == [stage : {"new", "ready", "low", "publishing", "sent", "answered"},
            goal : {"start", "again", "grown"}, todo : SUBSET Nat,
            batch : SUBSET Nat, size : Nat, stock : Nat]

Granted == [owner : Peers, id : Nat, actor : Peers, request : Requests, era : Nat]

TypeOK ==
  /\ now \in Nat
  /\ directory \in [Peers -> [present : BOOLEAN, highWater : Nat, keys : SUBSET Nat]]
  /\ leases \subseteq [actor : Peers, owner : Peers, request : Requests, id : Nat,
                       expires : Nat]
  /\ registered \subseteq Peers
  /\ local \in [Peers -> SUBSET Nat]
  /\ next \in [Peers -> Nat]
  /\ pump \in [Pumps -> Pumping]
  /\ ask \in [Rows -> [stage : {"idle", "sent", "answered"}, id : Nat]]
  /\ session \in [Peers -> [Peers -> Nat]]
  /\ sealed \in [Rows -> Nat]
  /\ opened \subseteq Rows
  /\ started \in [Peers -> SUBSET (Peers \X Nat)]
  /\ late \subseteq [owner : Peers, batch : SUBSET Nat, rows : SUBSET Rows]
  /\ faults \in Nat
  /\ unlinks \in [Peers -> Nat]
  /\ granted \subseteq Granted

\* While its owner stays registered, a one-time key is given to one request of
\* one correspondent, however often keys are published again or requests are
\* repeated or executed late.
OneTime ==
  \A g, h \in granted :
    g.owner = h.owner /\ g.id = h.id /\ g.era = h.era => g = h

\* Publishing in batches, again and again, by two processes and with batches
\* that arrive late, leaves no key behind the high-water mark unpublished.
NothingSkipped ==
  \A p \in Keepers : unlinks[p] = 0 =>
    \A i \in 1..directory[p].highWater :
      i \in directory[p].keys \/ \E g \in granted : g.owner = p /\ g.id = i

\* Every ciphertext that was sealed for a device can be opened by it: nobody
\* else's message consumed its key and the device has not lost it.
FirstMessageOpens ==
  \A r \in Rows :
    ~Unsealed(r) /\ r \notin opened /\ unlinks[r.owner] = 0 => Openable(r)

\* A publication is never refused for want of room, not even a late one: that
\* would end every cycle of the pump before it replenishes.
NeverRefused ==
  /\ \A x \in Pumps :
       pump[x].stage = "sent" /\ unlinks[x[1]] = 0 => Publishable(x[1], pump[x].batch)
  /\ \A c \in late :
       c.rows = {} /\ unlinks[c.owner] = 0 => Publishable(c.owner, c.batch)

\* Whatever overlaps, all key pairs are published once and none is refused
\* (pump.ts maintainKeys, signal-directory.ts publish).
PublicationsSucceed == NothingSkipped /\ NeverRefused

\* A stock that ran out is filled again, unless the device holds as many key
\* pairs as it may or is unlinked.
Restocked ==
  \A p \in Keepers :
    directory[p].keys = {} ~>
      \/ directory[p].keys # {}
      \/ Cardinality(local[p]) >= MaxLocal
      \/ p \notin registered
=============================================================================
