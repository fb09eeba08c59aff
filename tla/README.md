# Formal model of Mnelo's message delivery

Mnelo is a device-owned, end-to-end encrypted messenger (TypeScript, React
Native). A message lives in the SQLite databases of its two ends; a service
keeps ciphertext for at most thirty days until the recipient acknowledges it.
This directory models the protocol that carries a message from one database to
the other and what is built on it: one-time keys, conversations, attachments,
calls, the queue of requests, the registration of phones, the pushes, and the
connection to the database that iOS may take back. It checks the models with TLC on
small instances, and proves with TLAPS, for every value of the constants, the safety
properties of delivery, key allocation, conversations, attachments, registration, pushes,
calls and the engines of a device; section 4 says which properties are only model-checked.

Paths below are relative to the repository; `PROJECT.json` maps every modelled
definition to its lines.

## 1. The system

| Component | State it keeps | Operations | Talks to |
|---|---|---|---|
| Messenger database (`src/messenger/engine.ts`, `message-change.ts`) | messages, deliveries (one row per recipient), contacts, groups, reactions, `delivery_block_changes`, tombstones | send, flush, receive (one case per packet), block, edit/delete, group snapshots, archives | journal (same database), application adapter |
| Encrypted journal (`src/messenger/delivery/journal.ts`, `schema.ts`) | `signal_outbox`, `signal_inbox`, `signal_state`, `signal_retries`, pinned identities | enqueue, seal, uploaded, receive, applied, received, acknowledgements, prune | Signal library, engine's transactions |
| Delivery pump and adapter (`delivery/pump.ts`, `application.ts`) | in memory: pages, cursors, retry delay, the row in hand | a cycle: block pushes, uploads, polls, projections, key maintenance | journal, engine, service |
| Notification and intent processes (`notification-session.ts`, `intent-message-session.ts`, `share-extension.ts`) | none of their own: they open the device's database | journal one message, commit an early receipt, upload pending rows | journal, service |
| Delivery mailbox (`identity/delivery-store.ts`, `delivery-service.ts`) | receipts, spool, blocks, quota counters, notification jobs | submit, inbox, ack, sync, block, prune, unlink | phone registry, push worker |
| Signal key directory (`identity/signal-directory.ts`) | identities, high-water marks, one-time keys, leases | publish, take, count, unlink | pump |
| Media store and transfer (`identity/media-store.ts`, `delivery/media-journal.ts`, `media-transfer.ts`) | blobs and chunks; transfers per device | begin, put, finish, get, acknowledge | pump, journal |
| Call control (`delivery/call-control.ts`, `calls.ts`) | invites, tombstones of ended calls, call phase and deadlines | invite, ring, accept, terminal events, expiry | journal, media transport |
| Request queue (`phone-request-queue.ts`) | tokens, urgent and bulk requests, pause | add, drain, pause on a rate limit | every request of a device |
| Push worker (`notifications/*`) | push jobs, registrations | claim, send, retry, fall back to a missed call | APNs, FCM, mailbox |
| Phone identity service (`identity/service.ts`, `registry.ts`, `verification.ts`, `public-registration.ts`) | challenges, SMS attempts, registrations | challenge, send, verify, discover, unlink | SMS provider, all stores |
| Relay and peer mesh (`relay/server.ts`, `peer-mesh.ts`, `prepared-call.ts`) | one socket per key, scopes, rates; the prepared call, links, reserved connections and awaited ones of a call | authenticate, route, close; prepare, select, negotiate, discard | calls, mailbox, WebRTC |
| Device runtime and engine pool (`MneloDatabase.swift`, `database-owned.ts`, `device-engine-pool.ts`, `device-runtime.ts`) | native connection, OS assertion, session of the pool, users | open, share, run a statement, expire, close, recover | OS, database, pump |

How they interact. `send` commits a history row and a delivery row. `flush`
hands unacknowledged deliveries to the journal as events with a stable token.
The pump seals an outbox row (encrypt and save the session in one transaction),
uploads it, and marks it when the answer arrives. The recipient's pump fetches a
page, journals each envelope (decrypt, insert and save the session in one
transaction), projects it to the history through `engine.receive`, marks it
applied together with queuing a receipt, and acknowledges it with the next
request, upon which the service drops the ciphertext. The receipt takes the same
way back and sets `acknowledged` on the delivery row. Meanwhile the second
process of a device works on the same journal, and users block and unblock.

### What is hard here, and what makes each part correct

* *Mailbox.* Uploads are retried by clients that do not know whether the first
  one arrived, possibly after the receipt was acknowledged, pruned or removed by
  a block. Correct: one receipt per id, a retry finds the original, what was
  taken or has expired is not handed out again, nothing of a blocked or unlinked
  pair is kept.
* *Journal.* Signal's message keys are used once at each end, so every crash
  between encrypting, saving, uploading and marking matters, and so does every
  crash between decrypting and saving. Correct: no key seals two envelopes;
  whatever was decrypted is durable.
* *Pump.* Five steps separate an envelope from its acknowledgement, each in a
  transaction or a request of its own. Correct: someone durable always has the
  message; the service forgets it only after the recipient committed it; the
  sender is told "delivered" only of durable messages; everything is confirmed
  in the end.
* *Blocks.* The device, the service and their requests have different views for
  a while. Correct: when nothing waits to be pushed, the two agree.
* *Second process.* It shares every table but not the memory of the app.
* *Limits.* Queues with 1000 rows refuse new ones at both ends.
* *Keys.* Stocks are published in batches by the app and the share extension and leased to requests
  that may be repeated. Correct: no key is given out twice or forgotten, and
  whoever got one can start a session with it.
* *Conversations.* A packet is projected when it arrives, in any order and perhaps
  twice, and throws when it is not ready. Correct: all copies agree in the end, and
  nothing but what concerns parted members stays refused for ever.
* *Attachments.* A blob is put part by part, announced, fetched part by part and
  acknowledged; every command is an await. Correct: until it is in the history of
  the recipient it is whole somewhere, and it arrives.
* *Calls.* Screen, database and microphone are three states that await each other,
  packets come late, and a process dies between them. Correct: no microphone is
  open without a call, no ended call rings, every invite is filed as what it was,
  and nobody rings for ever.
* *Media.* A phone prepares a connection while it rings and negotiates another one
  after the answer if that is not ready; the answer may come between any two awaits of
  either, and what is awaited outlives the call. Correct: at most one connection, none
  after the end, both ends use the same way, no track before the answer, and an answered
  call connects.
* *Requests.* One token bucket serves urgent and bulk requests. Correct: the
  service's limits hold, an urgent request is not held by a bulk one, everything is
  sent.
* *Registration.* A code is checked by a provider while the phone asks for another
  one. Correct: the newest code binds, a number keeps its owner, no quota is
  exceeded, an unlink that stops half way can be repeated.
* *Pushes.* A page of jobs is worked off while recipients fetch, routes die and
  calls end. Correct: what waits has a push, nothing is announced that is over, a
  new route survives the report that the old one died, and every push is made.

* *Engines.* iOS gives an app in the background some seconds and may take them back
  between two statements of a transaction. Correct: the app never stops with a lock on
  the file it shares with its extensions; the next connection is opened after the old
  one is closed; nothing late of an old engine reaches the new one.

`PROJECT.json` lists every hazard at its line, with the properties that watch it.

## 2. The modules

| Module | Models |
|---|---|
| `DeliverySchema` | identities, TTL, the clock, envelope keys |
| `DeliveryStore` | the mailbox: operators on sets of receipts, and one action per command |
| `DeliveryServer` | the mailbox under every command two clients can sign; its properties |
| `DeliveryHistory` | the mailbox with a history of what it accepted and what was acknowledged, for the property that spans several receipts of one envelope |
| `SignalJournal` | the journal: one action per transaction |
| `Delivery` | the devices, their second processes, requests and the service, composed; the properties of the whole |
| `Mailbox` | the abstract specification: written, held, in history, known |
| `SignalDirectory` | the directory of public keys: publish, take with leases, unlink |
| `SignalKeys` | one-time keys from creation to the message they open: pumps that keep a stock, the directory, correspondents; its properties |
| `Conversation` | one group on the devices of its members: snapshots, texts, edits, deletions, reactions, receipts |
| `MediaTransfer` | attachments between two devices: journal and uploads of the sender, blobs of the service, downloads of the recipient |
| `Calls` | direct calls: `DeviceCalls` and `DeliveredCallControl` on each device, and packets between them |
| `GroupCalls` | one group call: seats, readiness, links and timers of each member |
| `CallMedia` | the media of one direct call: `PreparedCall` and the tables of `PeerMesh` at both ends, from the invite to the connection |
| `RequestQueue` | the queue that paces every command of a device |
| `Registration` | SMS attempts, the registry of numbers, unlink |
| `OwnedDatabase` | one native connection per generation: its serial queue, its OS assertion, expiry and close |
| `DeviceEngines` | the adapter and the pool over it: sessions, leases, recovery, and transactions of an engine |
| `PushWorker` | notification jobs, the worker that asks the provider, push routes |
| `MCService`, `MCDelivery`, `MCDeliveryScenes`, `MCSignalKeys`, `MCCalls`, `MCCallsLive`, `MCDevices`, `MCProgress` | constants for TLC, and the *scenes*: parts without common state that are checked in one run, each from its own initial states |
| `DeliveryServerProofs`, `DeliveryProofs`, `DeliveryPromiseProofs`, `DeliveryCustodyProofs` | theorems of the mailbox and of the composition of delivery |
| `SignalKeysProofs` | theorems of the one-time keys |
| `ServiceProofs` | theorems of `Registration`, `PushWorker`, `MediaTransfer` and `RequestQueue` |
| `CallProofs` | theorems of `Calls`, `GroupCalls` and `CallMedia` |
| `DeviceProofs` | theorems of `OwnedDatabase`, `DeviceEngines` and `Conversation` |

Operators marked `Defect:` in these modules belong to no specification. Each is
a plausible bug in the operation defined right after it; substituting it makes
TLC refute the property that `PROJECT.json` pairs it with.

### Correspondence with the code

*Mailbox.* `receipts` is `delivery_receipts` joined with `delivery_spool`: both
rows are inserted in one transaction, an acknowledgement deletes the spool row
and sets `delivered`, a deleted receipt cascades, so a spool row exists exactly
while `delivered` is 0. `Submitted`, `Acknowledged`, `Fetched`, `SetBlock`,
`Unlink` are `submit`, `acknowledgeBatch`, `fetch`, `block`, `unlink`; each
starts by pruning where the code does. `Sync` is the combined `delivery-sync`
command, of which submit, ack and inbox are special cases. SQLite is synchronous
here, so a command is one step. `Accepts` is the conjunction of the conditions
under which `submit` does not throw. `past` in `DeliveryHistory` is no state of the
code: it remembers each acceptance as new and whether its recipient acknowledged it
since, until the pair is severed.

*Journal.* `deliveryAtomic` runs every operation in one `BEGIN IMMEDIATE`
transaction, so an operation is one step whichever process runs it. A ciphertext
is a record with the number of the message key that sealed it: `chain` counts
the keys a device has used towards a peer, `opened` holds the numbers it has
consumed. The outbox token is the pair recipient and body, as the code's hash
is. `receipted` abstracts the `receipted` column of an inbox row.

*Devices.* `sentAt` and `confirmed` stand for `messages.created_at` and
`deliveries.acknowledged` at the sender, `seen` for the recipient's history,
`blocked` and `changes` for `contacts.blocked` and `delivery_block_changes`. The
memory of a process is `call` (the request it waits for, stage by stage),
`buffer` (the fetched page) and `inHand` (the row between its projection and its
mark). A death clears it. A timeout clears the request; the request itself may
sit in `late` and be executed by the service at any later time, after newer ones:
each request is signed over a challenge of its own and several may be open.

*Keys.* `directory[p]` joins `signal_identities` and `signal_one_time_keys`; a key
is its number, since all content checks succeed for what an honest device
publishes. `pump` follows `cycle` and `maintainKeys`: a first publication, a
status that finds the stock low, the repeated publication, `replenish`, the
publication of the new keys, each in batches of the lowest numbers left and each
batch one request. `ask` is the `delivery-keys` request of a row, whose id names
the lease; `session`, `sealed`, `started` and `local` are the parts of the two
Signal states that decide whether a first message can be opened. The five
minutes between two looks at the stock are left open: a ready pump may look at
any time.

*Conversations.* `kinds`, `bodies` and `changes` are the row of a message and of
`message_changes`, `roster`, `groupRev`, `leftGroup` and `profileRev` those of the
group, `deliveries` and `receiptInfo` the two tables an author reads receipts from,
`controlOutbox` the staged control packets. Every branch of `receive` is an action
with the guard under which it does not throw; `post` holds what `Delivery` brings,
`projected` what was applied, and both only grow, so a packet may come at any time
and again. A refused one is tried again.

*Attachments.* `cipher` and `uploads` are the sender's rows and the upload in each
of its processes, `store` a blob with its parts, `inbox`, `chunks` and `intake` the
recipient's row, parts and the projection in hand. Steps between two awaits are
one action; `late` holds commands whose answer was given up.

*Calls.* `value` is `DeviceCalls.value`, `capturing` the awaits of `captureCall`,
`tracks` the streams that are open, `books` the ends that are being written, `hand`
the projection of a packet between its awaits, `saved`, `tombs` and `history` the
three durable places of a call. Age is one bit of a packet. In `GroupCalls`, `seat`
is what a member shows of each other, `gready` and `goffers` whom it holds ready
and offers to, `gposted` what was enqueued: a set, since the journal does not
enqueue an equal event twice. `glost` is what could not be enqueued: a lost invite
fails the seat, a lost accept is swallowed, and neither is sent again for itself.

*Media of a call.* `CallMedia` takes from `Calls` that the status of a call goes from
ringing over connecting to active and ends once. In `mesh`, `wants` is what
`incomingPreparation`, `preparingCall` and `pendingMedia` name and `awaits` the functions
that have not resolved: cancelling takes away the first and leaves the second, which
finds it gone. `open` is every native connection that was made and not closed. In `warm`,
`job` is where the serialized work of `PreparedCall` stands, `pub` where `publish` does,
and `signals`, `kept`, `far`, `offer` and `sent` are `signals`, `pending`, `remotePhase`,
`activationStarted` and `sent`. JavaScript runs undisturbed to the next await, so what
the code does between two of them is one action; two awaits without an effect between
them are one. `wire` joins the mailbox and the data channel: descriptions and
controls may arrive in any order and, within `MaxCopies`, twice.

*Request queue.* `drain` is where the loop stands, `tokens` and `since` the bucket,
`paused` and `waitFor` the pause and the timer, `inRow` the urgent requests since
the last bulk one; `started` counts, for `RequestsArePaced`, what was started in the
last tick, the last two, and so on to a window.

*Registration.* `bound` and `listed` are the registry, `attempts` the SMS attempts in
memory, `reserved` the reservations of a number in its window, `sendingTo` and
`checking` the awaits on the provider, `owned` what other stores hold of a key.
`UnlinkKey` runs its three removals in order and may stop after any.

*Pushes.* `line` is the order of the jobs, `wait`, `tries` and `ringLeft` their times,
`page` what the worker has read and `asked` what the provider was asked.

*Engines.* A generation `g` is a `MneloDatabase` with its adapter and its session.
`handle`, `suspended` and `leased` are `pointer`, `suspended` and `lease`; `tasks` are the
assertions the OS counts and `ended` those whose end waits for the main thread, which
works in order: hence one assertion per generation at a time. `sql` and `stage` are the
statement that is awaited and where it is: called, executed on the queue (where the OS
may expire it), answered. `cleanup` and `events` are the work an expiry queues and the
message to JavaScript; `noticed` and `closing` are `suspended` and `closing` of the
adapter. `phase` is the promise of a session, `last` what `closing` of the pool waits
for, `hold` the calls of `acquire`. Setting up an engine is one statement, a transaction
is begin, one write and commit or rollback.

*Order inside an action* follows the code: `RecordAcks` precedes `RecordUpload`
as in `sync`; the acknowledgements are read when the request is posted, so rows
applied while it travels are acknowledged by the next one; the page is in memory
before the upload is marked.

## 3. The runs

A run with scenes explores each scene from its own initial states; the variables of
the others stand still.

| Run | Bounds | What it shows |
|---|---|---|
| `service`, mailbox | 2 devices, 4 envelopes (one id with two bodies and in both directions, one created in the future), TTL 2, 5 time units, every command any time, also a sync that uploads, acknowledges and fetches at once | no fetch hands out what has expired, or what its recipient took, but for the time by which the sender's clock was ahead; a retry finds its receipt; a severed pair has nothing stored |
| `service`, registration | 2 keys, 2 numbers, 3 texts, a quota of 2, 1 check at a time, 1 restart | bindings are earned by the newest code, numbers keep their owners, quotas hold, an unlink may stop half way |
| `service`, pushes | 2 envelopes, 1 of them a call, pages of 2, batches of 1, 2 registrations, 1 death | a waiting envelope has a push, stale ones are not made, new routes survive |
| `delivery`, faults | 2 devices, 1 message, 2 timeouts or deaths, 1 late request, the recipient's second process | keys are used once, custody is never lost, what is decrypted is durable, acknowledgements follow commits, a receipt is always on its way, and the whole refines `Mailbox` |
| `delivery`, expiry | TTL 2 and 4 time units, 1 fault, 1 late request | the same across the end of the TTL with pruning on both sides |
| `delivery`, blocks | 2 block calls, 1 fault | agreement of device and service, no key reuse after rows were deleted, refinement of `Mailbox` with `Sever` steps |
| `live` | 1 message, 2 faults, 1 late request, fair | every written message is confirmed once faults stop |
| `keys` | 2 correspondents, one keeper with at most 4 key pairs in batches of 2, 1 fault, 1 late request, 1 unlink, leases that expire, fair pumps | no key is given out twice, first messages can be opened, an empty stock is filled again |
| `keys_pumps` | 1 correspondent with two rows, both processes of the keeper run a pump, 1 fault, 1 late request | overlapping publications and two replenishments at once skip no key and never exceed the directory's room |
| `calls`, direct and stray | 2 phones, 2 calls; in stray a third phone's packets come in any order; 1 death or failing capture | no microphone without a call, no ringing after the end, invites are filed as what became of them |
| `calls`, group | 3 members, 1 control that cannot be enqueued, while the invites are young | consent before media; members that joined hold each other ready |
| `calls`, users and work | 2 generations; 3 users that come and go without work, or 1 user with 1 transaction and 1 that comes later | who holds a lease has the open connection unless the OS took it, two are never open, and the OS never freezes the app within a transaction |
| `calls_live`, call | as direct, fair | setting up ends, and every invite ends in the history, in a call, or in the end that is being written |
| `calls_live`, media | both ends of one call; at each end the candidates change once, or else one connection, send or configuration fails; fair | a phone holds one connection, none after the end, both ends the same one; no media before the answer; an answered call connects however the answer crosses the negotiation |
| `devices`, group and deleted | 2 members and 2 messages, or 3 members with one message deleted by its author; 4 operations | all copies agree when everything arrived, receipts are true, only packets of parted members are stuck, deletion is final |
| `devices`, media | 2 files of 3 parts, 1 slot, 2 sending processes, 2 faults | a file is whole somewhere until it is in the history |
| `devices`, queue | 8 requests, buckets of 2 and 3, pause 2 | limits hold, urgent requests are not held by bulk ones |
| `progress` | media with 2 files and 1 slot, 5 requests, 2 pushes on pages of 1; fair | files arrive, the queue drains, owed pushes are made |
| `late_block`, `group_answer`, `delete_everyone` | as needed for the behaviour | a statement of the repository that the code does not meet (section 6) |

Why the bounds are enough to be interesting. A message and its receipt are two
envelopes in opposite directions, so one message makes both devices sender and
recipient and exercises key numbering, deduplication and both mailboxes. A fault
can strike any stage of either envelope; two faults can strike the same envelope
twice (lose the answer of an upload, then die before the repeated one is
recorded) or one envelope each. A late request lets an upload, an acknowledgement
or a block be executed after its successors. The TTL of the expiry scene leaves time
before, at and after the deadline. In the other scenes of `delivery` the clock
stands still, so nothing ends by expiry and the properties rest on the protocol
alone. `MaxPending`, `MaxUnapplied` and `MaxInbox` are the 1000s of the code; in
`delivery` they are out of the way, in `service` the mailbox holds 1 envelope and
refuses the next. `MaxFaults`, `MaxLate`, `MaxBlocks` and `MaxNow` bound the
environment and occur only in the guards of `TimeOut`/`Die`, `Abandoned`, `Block`
and `Tick`; the scenes of `MCDeliveryScenes` restrict them further.
No symmetry is used: the devices have different roles.

`MaxOps`, `MaxTroubles`, `MaxLost`, `MaxMediaFaults`, `MaxRequests`, `MaxTexts`, `MaxChecks`,
`MaxRestarts`, `Registrations` and `MaxDeaths` bound what users, networks and
machines do in the other modules. Four operations let a text be written, edited,
deleted and its members be changed; as packets never leave `post`, every order of
arrival of what they cause is there. Two files and one slot are the least for which
a slot can be held by the wrong one, three parts the least that a batch of two does
not exhaust. Two pushes on a page of one are the least for which one can hide the
other. With two numbers and two keys a number can be changed, and be taken meanwhile.
`MaxOpenings` is 2: one engine that is suspended, fails or is released, and the next one.
Work and users of engines are separate scenes, since statements only multiply the orders
of acquiring and releasing. `MaxLost` is 1: an invite, an accept or the answer to one
is lost; `LostInTime` of `MCCalls` leaves out that the ring window ends in the same call,
which the theorems of `CallProofs` allow. In `group_answer` nothing is lost.

`MaxNews`, `MaxCopies` and `MaxBreaks` bound changes of candidates, second copies and
failures in `CallMedia`. A budget may be spent at the start: in `calls_live` either the
candidates change or something fails, and nothing comes twice. The invariants were also
checked with one of each at once (286,000 states), and `AnswerConnects` with second
copies; these take longer than a run should.

In `keys` the sizes 50, 20, 50, 200, 200 and 100 of the code become 2, 2, 3, 4, 4
and 2 (`First`, `Low`, `Full`, `MaxLocal`, `MaxPool`, `Batch`): the stock runs low
after one lease, replenishing hits the limit, and a publication takes two
batches. One pump runs in `keys`, two in `keys_pumps`; theorem
`KeysAreGivenOnce` covers any number of processes of a device.

Deadlock checking is off in the runs where the system may stop: the user may
write nothing more, and all bounds may be used up.

### Fairness

`Fairness` in `Delivery` assumes, for the app of each device only:

* weak fairness of `Flush`: the runtime flushes after every change of the
  database and a delivery that is not queued stays due;
* weak fairness of `Continue` and of the service's answer: a thread that waits
  for nothing runs on, a request that does not time out is answered (time-outs
  are a bounded number of faults);
* strong fairness of each kind of work a cycle starts (push a block, seal and
  send a row, fetch and journal, project): a started pump schedules the next
  cycle in the `finally` block of `tick` (`pump.ts:149`), and a cycle does these
  in turn, so work that is possible again and again, though not while the thread
  is busy with another kind, is eventually done.

In `SignalKeys`, `FairSpec` asks for weak fairness of each pump's work as a whole,
with the same justification; correspondents, faults and unlinks are free.

`NegotiationFairness`: whatever a call has begun goes on, since promises settle, native
connections come up and descriptions arrive. As one weakly fair action it is enough,
because the candidates, copies and failures of a call are finite, so that it cannot go
round for ever; it owes nothing that a user must do.

`CallFairness`: awaits settle, the pump projects every packet in the end, timers
fire, and packets age. Nothing is assumed of users: a call that nobody answers ends
by its timer. `MediaFairness`: uploads and downloads are begun again by every cycle of
the pump and an answer comes. `QueueFairness`: timers fire,
and each command is answered or times out. `PushFairness`: the worker's timer fires
and the provider answers; strong fairness of acceptance says that it does not refuse
for ever what it could accept.

In `Delivery` nothing is assumed of users, of the second process, of faults, of pruning or of
abandoned requests. `Confirmation` is checked without blocks and without expiry,
which legitimately end a delivery.

## 4. The proofs

The theorems hold for every set of devices, messages, phones, users and keys, every
TTL, skew, page and queue size, and any number of faults, late requests and blocks
(the bounds are arbitrary naturals). They use the named assumptions on constants,
each in the module that declares the constants, and nothing else: sizes are naturals,
sets that the code counts are finite, names do not coincide. Three of them say more.
`CallsAssumption` asks that a call is dialled between two different phones, since
contacts are the callees and a contact with the user's own key is refused
(`CONTACT_INVALID`, `engine.ts:609` and `:723`). `GroupAssumption` numbers the members,
as their keys are ordered. `ConversationAssumption` gives every message one author and
the group one owner, its creator.

The invariants below were all checked with TLC on the scenes of their runs before
they were proved; the numbers of states are given where the check is not a run.

*Mailbox* (`DeliveryServerProofs`). The invariant `Inv` collects `TypeOK`, that
deadlines are within creation + TTL, one receipt per key, and no receipt of a
severed pair. One receipt per key is inductive only with the others because
`Submitted` decides on the pruned receipts, and a severed pair stays empty because
`Accepts` asks `Allowed`. From it follow `TypeCorrect`, `Idempotent`, `Severed`
and, as an action property, `RetryFindsReceipt`.

`NothingComesBack` speaks of what a fetch hands out now and of every acceptance of the
same envelope before, whose receipt may be gone. `HistoryInv` adds to `Inv` what is
remembered of each acceptance (`Remembered`): until the deadline that `submit` gave it
(`Until`), its receipt is there, and it is delivered once its recipient acknowledged
it; after that deadline the receipt may have been pruned and the envelope accepted
anew, which `submit` does only before creation + TTL. Hence `NothingReturns`: for every
TTL and skew, what was taken is handed out again only from acceptance + TTL to
creation + TTL, which differ by what the sender's clock was ahead.

*Types of the composition* (`DeliveryProofs`). One lemma per action, since the
journal's and the store's operators are shared.

*The promise* (`DeliveryPromiseProofs`). `DeliveredMeansDurable` is not inductive:
a receipt that is already travelling must be known to be genuine when it arrives,
and a late request may carry one that its sender has long forgotten. `PromiseInv`
says so wherever an envelope can be (outboxes, inboxes, pump memory, requests
in every stage, abandoned requests, the service): what travels is a written
message, or the receipt of a message that is durable at its recipient unless the
pair was blocked. Durability (`Durable`) only grows: `Holds` is stable under every
action but `Block`, which puts the pair into `cut`. The invariant gives
`DeliveredIsDurable`, and with it each action is shown to be a step of `Mailbox`
or a stutter under the mapping of `Delivery`: `PromiseKept`, the theorem
`Spec => KeepsPromise`.

*Keys* (`SignalKeysProofs`). `OneTime` needs to know why a publication cannot bring
back what was given out: in `KeyInv`, the conjunct `Spent` says that whatever was
granted since the owner registered is out of stock and at or below the high-water
mark, and that the stock is below the mark too. `FiniteStocks` makes sizes
numbers. `TypeCorrect` and `KeysAreGivenOnce` follow.

A first message can be opened, and a publication has room, because the device and
the service agree about numbers that neither tells the other. `KeeperInv`: a key pair
that was numbered is on the device or has opened a first message (`PairsAreKept`); the
service has and gave out only numbers that were drawn (`ServiceKnowsTheMade`); whoever
uses a key was given it (`UsersWereGranted`); and as long as the owner was never unlinked it
is registered (`RegisteredAtFirst`), and the batches of the pumps and those that come late
leave no number above the mark out (`PumpsLeaveNoGap`, `LateLeavesNoGap`), so that
`NothingSkipped` is kept. `FirstMessagesOpen` follows: a key that has gone from the device
opened a message of somebody it was granted to, and by `OneTime` that is the
correspondent whose ciphertext waits. `AllIsPublished` follows: stock and
additions are key pairs that are still on the device, hence at most `MaxLocal`, which
is at most `MaxPool`. (Checked on 1.7 million states of the scenes of `keys` and
`keys_pumps`.)

*Who has an envelope* (`DeliveryCustodyProofs`). The promise says that what travels
is genuine, not that there is only one of it. The proof goes up in five steps, each an
invariant that may use those before it.

* `KindInv`: ids of rows and envelopes are drawn and distinct (`RowsAreDistinct`,
  `NumbersAreDrawn`), a row that was never sealed is nowhere else (`UnsealedIsNowhere`),
  and any two envelopes that exist anywhere (`Extant`: requests in every stage, abandoned ones,
  spools, inboxes) and have one id or one message key are the same (`OneOfAKind`). Hence
  `OneSeal`: theorem `SealedOnce`.
* `AckedIsEffective`: what is acknowledged, wherever the acknowledgement is on its way,
  was committed by the recipient's engine. Hence `DroppedIsCommitted`.
* `OneEach`: a request carries one envelope, its owner's, or a change of blocks.
* `CustodyInv`: an envelope that is not expired and not cut off by a block is with the
  service or in the recipient's journal once it counts as uploaded (`UploadedIsKept`),
  and in the journal once it was acknowledged (`AckedIsKept`) or its message key was used
  (`OpenedIsKept`), also while an abandoned request may still be executed. `TimesAgree` relates the
  clocks of rows, envelopes and receipts, `BlocksAreCut` the service's blocks and those on
  their way to the blocks that users made. Hence `NothingIsLost`: theorem `Custody`.
* `AnswerInv`: as long as it matters, a shown message has its receipt in the outbox's
  history or a row that is not applied yet, and a row that is marked as receipted has it. Hence
  `ReceiptsArrive`: theorem `ReceiptOnItsWay`.

`WishInv` follows a block from the user's wish to the service. `BlocksAgree` proves
`BlocksSynchronised` under the condition that no abandoned request to block is executed
after a later one; that the condition is needed is what run `late_block` shows.
(The conjunction was checked on 1.3 million states of the scenes of `delivery`.)

*The service of the composition* (`DeliveryCustodyProofs`). `Delivery` shares the operators of
`DeliveryStore` with `DeliveryServer`; that it uses them as that module allows is the
theorem `ServiceIsMailbox`: under the mapping `Server`, whose envelopes are whatever the devices
may seal, each step of `Delivery` is a command of the mailbox, its clock, or a stutter. It
needs that a request carries at most one envelope (`OneEach`), also one that is executed
late. The theorems of `DeliveryServerProofs` then hold for the composition
(`ServiceKeepsItsWord`). TLC does not check this refinement: the set of envelopes is
infinite.

*Registration* (`ServiceProofs`). `RegistrationInv`: a device has one number
(`OneNumber`); every text is counted before it is asked for (`EachTextIsCounted`); the id of a
send that is awaited names nothing else (`SendsAreFresh`); the attempt that is kept for a
device is its newest, and a check under way is of the attempt of its id (`CodesAreKnown`). From
it `QuotaHolds`, `UnlinkLeavesNothing` and the action property `BindingEarned`.

*Pushes* (`ServiceProofs`). The worker reads a page, waits for the provider, and then acts on jobs
that may have gone. `PushInv` has `PushIsOwed` itself, that jobs are distinct and of
envelopes that are held (`JobsAreHeld`), and that an alert is asked for only when
the ring window is over (`AlertsFollowRings`). From it `NoPushIsLost` and the action
property `OnlyCurrentPushes`.

*Attachments* (`ServiceProofs`). `FileSomewhere` speaks of three tables that learn of each
other by answers that may be lost or late. `MediaInv`: a blob that is complete has every
part (`WholeWhenComplete`); what counts as uploaded at the sender, is about to, or was
announced, is complete or was complete at the service (`UploadedIsThere`); what the recipient gives
back, also by a request that is executed late, it has filed (`GivenBackIsFiled`). Then `FilesAreKept`:
the sender lets go of a file when it is uploaded, the service when it is given back.
(Checked on 10.1 million states with 2 files, 2 sending processes and 1 fault.)

*Request queue* (`ServiceProofs`). A bound on a window says nothing of what the bucket still
holds, so it is not inductive. `QueueInvariant` has it for every span up to a window: what was
started in the last `t` ticks and the tokens that are left come from one full bucket and the
refill from the bucket's last update on; if that update is older than `t`, nothing was
started (`RateInvariant`). Negotiating the larger bucket only raises the right side. A wait
that an urgent request sits through ends with the pause, or is one tick for the one missing token
(`UrgentInvariant`). From both `QueueIsPaced`, for every bucket, refill, reserve, pause and
window. (Checked on 215,000 states with a window of 3 ticks and 8 requests.)

*Direct calls* (`CallProofs`). `NoGhostRinging` speaks of one phone at one moment; an
accepted call may at that moment still have its invite in the pump's hands, in the
saved state that a restart reads, or on its way a second time. `CallInv` has the types, the
routes, that packets name their calls, and for each phone six parts: what it says,
projects and saves concerns it (`Spoken`); what it shows was placed (`Shown`); an invite that rings was
projected and no end of its call was, but for the one in hand (`RungOnce`); what was
projected is saved or in the history (`KeptOnTheWay`); a call that may ring has no outcome
yet (`RingingIsOpen`); and an answered call is known as such wherever its invite
may still be (`AnswersAreKept`). A step is of one phone; lemma `CallFrame` carries the parts of all
the others. Then `MicrophonesClose`, `EndedCallsAreSilent` and `InvitesStay`. (Checked
on 1.6 million states of the scenes of `calls`.)

*Group calls* (`CallProofs`). `GroupInv`: nobody but the host is in the call before it
was invited (`InvitedFirst`); a device has a stream only while it is in the call
(`StreamsAreLive`); a participant is ready because it said so (`ReadyBecauseAccepted`); and
readiness is answered and the answer known (`ReadinessIsAnswered`).
`ReadinessMeets` is proved for accepts that are projected after the invite, and
run `group_answer` shows what happens otherwise. A device whose answer could not be
enqueued is excepted (`Unanswered`): the code swallows the failure, and the timer of
the seat ends it.

*Media of a call* (`CallProofs`). `NegotiationInv`: until the callee answers, both ends
only ring and only the transport is negotiated, on both phones and on the wire
(`RingsUntilAnswered`); the call goes over the prepared connection or over a link, never both
(`OneWay`); and a new connection takes the place of the one before
(`OneAtATime`). Then `NothingBeforeTheAnswer` and `ConnectionsAreNotDoubled`. (Checked
on 425,000 states.)

*Engines* (`DeviceProofs`). `VaultInv`: whoever is within a statement or a transaction has
the lease and its assertion (`WorkIsCovered`), and a suspended stage is a suspended
connection (`SuspensionIsTold`). `NeverFrozen` follows. `PoolInv` adds the pool: phases agree
with connections (`PhasesAreShown`), generations follow each other
(`OneAfterTheOther`), the pool's session is the newest (`PoolKnowsTheOpen`), sessions leave by being retired
(`RetiredAreGone`), users are counted (`UsersAreCounted`), and who holds a lease holds it
of a ready session that is the current one or was suspended. `LeasesHold` follows.

*Conversations* (`DeviceProofs`). The properties say what copies agree on when every packet
was projected (`Quiet`), and nothing about the way there, on which packets overtake each
other and members come and go. `ConversationInv` has the types of tables and packets and four
parts, each of which relates all copies and all packets (`Told`) to the one phone
that decides.

* `TextInv`: nobody has a message before its author sent it (`SentByItsAuthor`); a row is
  shown as its last change says (`RowsFollowChanges`); no row and no packet is ahead of the author,
  and only its last change can be a deletion (`AuthorKnowsChanges`); its text and its last change were told
  to every member that stayed (`SteadyAreTold`), and what was projected left its trace
  (`ProjectedIsKnown`).
* `MembersInv`: the owner's revision is the newest (`OwnerLeads`), a revision has one set of
  members wherever it is (`OneSetOfMembers`), who stayed is in all of them
  (`SteadyAreMembers`), and the owner has a row for everyone it told (`RevisionsArrive`).
* `ReceiptInv`: marks and receipts say what happened (`ReceiptsSpeakTrue`), and the
  author expects those that come (`ReceiptsAreExpected`).
* `ReactionInv`: a reaction has a number and comes from who has the message
  (`ReactionsAreNumbered`), nobody is ahead of the one who reacts, whose last choice was
  told to who stayed (`OwnReactionLeads`), and projected ones were taken (`ReactionsArrive`).

The parts need each other: a receipt is taken because it is expected, a reaction
because the sender is a member in the recipient's copy and the message is there. A step writes the
row of one phone, so one lemma for each table says what it changes, and one for each part carries it over
(`ChangeTaken`, `RestStays`). Then `ConversationIsTyped`, `ReceiptsStayTrue` and the action property `DeletionStaysFinal`
follow; and since a phone that stayed refuses nothing for good, `Quiet` makes what was told
projected and what is newest arrive: `CopiesComeToAgree` and `OnlyThePartedStick`. Lemma
`ConversationStarts` covers every start, with messages already
deleted for everyone or forgotten. (Checked on 388,000 states from three starts, one of them with a
forgotten message, and on 2.1 million states of random behaviours with 14 operations.)

*Only model-checked.* The types of the proved modules, `OneReceiptPerKey` and
`DeliveredMeansDurable` are proved and not checked once more by a run; `KeepsPromise`
implies the last. Not proved:

* Liveness (`Confirmation`, `Restocked`, `SettingUpEnds`, `InviteSettles`,
  `AnswerConnects`, `FilesArrive`, `QueueDrains`, `OwedPushIsMade`), which is beyond
  the proof system's backends.

## 5. What is left out of the modelled components

* Retry delays (`signal_retries`) and the order of rows by priority: any pending
  row may be chosen next, which includes the order the code takes.
* Pages of 20 rows and their cursors: a page is the whole inbox.
* In `Delivery`, session set-up; in `SignalKeys`, pinned identities and their
  change, replies (a peer that answers ends the use of the first key), rows deleted
  by a block, and limits of requests per hour.
* Commands of builds without `delivery-sync` are special cases of `Sync`; the
  pump that issues them separately is not modelled.
* `Delivery` sends only messages and their receipts; what other packets do at their
  ends is in `Conversation`, `Calls`, `GroupCalls` and `MediaTransfer`, which take
  from `Delivery` that an enqueued packet arrives, in any order and perhaps twice.
* Byte and daily quotas of the mailbox; only the count of spooled envelopes per
  recipient is there.
* Phone checks of `canContact` beyond registration and blocks.
* Clocks of devices and service are equal in `Delivery`; `DeliveryServer` lets
  the sender's clock be off by any amount on either side.

* `Conversation`: blocks, direct chats, polls, several emoji per reaction, pages of 50
  and the cap of 1000 staged controls; media messages (`MediaTransfer`).
* `Delivery.Flush` queues one delivery in a step, where `flush` is a loop over up to 50
  that stops at the first that fails: every prefix of the loop is a sequence of steps.
  `Conversation` posts all packets an operation staged at once, where the code enqueues
  them one by one; as posted packets are projected in any order, each of them may still
  be the only one that has arrived.
* `MediaTransfer`: blocks and unlinks, upon which `MediaStore.block` and `unlink` drop
  the blobs of a pair or a key; byte and daily quotas and the other limits of `begin`
  (`MEDIA_CAPACITY`), which refuse it without a change of state; one blob per recipient of
  a group, encryption.
* `Calls`: blocks, the end of a tombstone's TTL, the cap of 16 terminal events and
  their 120 seconds, the prepared call (`CallMedia` has it), screen sharing, ringing receipts, reply
  and decline. `GroupCalls`: members removed during a call, the age of accepts; a decline
  or an end that cannot be enqueued (`finishTerminal` tries it again, so it is late, as any
  packet may be), and a link that cannot be begun, which is as one that fails.
* `CallMedia`: what a description contains, its signature and its expiry after 120
  seconds, which connect in the time the call has; ends from builds without prepared
  calls, which `prepareOutgoingMedia` serves; links of group calls; `stop` of the mesh. A
  description that travels twice, through mailbox and data channel, is a second copy.
* `RequestQueue`: a wall clock that is set back, which would prolong a pause.
* `Registration`: challenges and nonces, limits kept in memory, the access of app stores,
  discovery.
* `OwnedDatabase` and `DeviceEngines`: whether the app is in the foreground (the OS may
  take its time whenever an assertion is counted, and refuse it at any time), the
  content of statements, which fail or succeed freely; the connection of Android, which
  is never suspended; `acquireDeviceNetwork` and the bounded retries of `DeviceProvider`.
* `PushWorker`: the older `wake` path, rate limits, payloads. `ring_done` is written by
  the code and never read.

### Not modelled

The relay and the data channels of the peer mesh carry live sessions of the older direct
transport, whose state is gone with the socket. Push providers are HTTP calls whose answers are inputs of
`PushWorker`, the legacy backend no longer ships, and views and texts have no protocol
state.

## 6. Where the code and its documents disagree

* `late_block`. Blocks are said to have "revision-checked synchronization". The
  revision never reaches the service: a block that was abandoned and is executed
  after the unblock that replaced it stays.
* `group_answer`. A member is said to answer readiness once. Its answer is the same
  event as the accept it enqueued when it joined, and the journal leaves out an event
  it knows. A peer to which that accept was projected before it knew of the call does
  not hold the member ready, and no media flows between the two.
* `delete_everyone`. A deletion is said to reach all original recipients. It is sent to
  the recipients with a delivery row, and those of parted members were removed.

Seen while modelling and not made a run of its own:

* A receipt expires at min(accepted, created) + TTL, but `submit` accepts an envelope
  until created + TTL. A sender whose clock is ahead can submit again after its receipt
  was pruned, and is accepted as new, also when the recipient had taken the first one.
  `NothingComesBack` bounds that time by what the clock is ahead (5 minutes at most).
* After a block and an unblock by the sender, its message goes out again but the
  recipient's receipt is taken for one already uploaded: the delivery stays unconfirmed.
* Two devices whose outboxes and mailboxes are full wait for each other until the TTL
  ends, because marking a row applied needs room in the outbox.
* Unlinking deletes the high-water mark. After a new registration a leased key that its
  owner still holds is published and leased again.
* A batch of read receipts with one message that was deleted locally is refused for
  ever, and so are a reaction to a message whose deletion came first and a message of a
  removed member. Rows that were not applied are never pruned (`journal.ts:510-513`), so
  these stay in the inbox and count among the 1000 that may wait; the bound itself is not
  modelled (`OnlyPartedAreStuck` names these cases and excludes all others).
* A member that left a group stays left when its owner adds it again.
* A candidate that comes while the caller sets a description is not published by itself:
  `publish` refuses, and the next candidate or description carries it.
* An unlink that completes while a verification of the same key waits for its provider
  is undone by the bind that follows.

## 7. Plan

1. *Done:* mailbox, journal, pump, blocks and second process; proofs of types,
   the mailbox's invariants and the refinement of `Mailbox`.
2. *Done:* `SignalDirectory` and `SignalKeys`: publish, lease and replenish
   one-time keys; proof that no key is handed to two requests.
3. *Done, model-checked:* `Calls`, `GroupCalls`, `CallMedia`, `RequestQueue`, `Conversation`,
   `MediaTransfer`, `Registration`, `PushWorker`, `OwnedDatabase`, `DeviceEngines`.
4. *Done:* proofs of `Registration`, `PushWorker`, `MediaTransfer`, `RequestQueue`, `Calls`,
   `GroupCalls`, `CallMedia`, `OwnedDatabase`, `DeviceEngines` and `Conversation`; uniqueness of ids and keys
   in delivery, and from it the custody of envelopes, receipts and blocks; publications of
   one-time keys; the pace of requests; delivery's service as an implementation of `DeliveryServer`.
5. Left to TLC: the eight liveness properties (section 4).
6. The relay's replacement of sessions and the network shared by engines.

The order follows how much of a conversation depends on a part and how hard it
is to test.
