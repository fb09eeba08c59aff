---------------------------- MODULE MediaTransfer ----------------------------
(*****************************************************************************)
(* Attachments from one phone to another: the sender's MediaJournal and the  *)
(* uploads of its processes (MediaTransfer.uploadStep), the service's        *)
(* MediaStore, and the recipient's downloads, which ApplicationDelivery      *)
(* runs while it projects the message.                                       *)
(*                                                                           *)
(* Every command is an await of its own. An answer may be lost, and what     *)
(* was asked may then be executed later, or never. A process may die         *)
(* between any two steps. Blocks and unlinks, which remove blobs, and the    *)
(* capacity of the service are left out.                                     *)
(*****************************************************************************)
EXTENDS FiniteSets, Naturals

CONSTANTS Blobs,           \* encrypted attachments, one for each message
          Parts,           \* chunk numbers
          Hosts,           \* the sender's processes that run a pump
          Slots,           \* incomplete downloads a phone admits (20)
          MaxMediaFaults   \* bound: deaths and lost answers in a run

ASSUME MediaAssumption == Parts \subseteq Nat /\ MaxMediaFaults \in Nat

VARIABLES
    store,        \* the service's [Blobs -> [state, parts]]: cipher_blobs, cipher_chunks
    cipher,       \* [Blobs -> the sender's delivery_media_outbox row]
    uploads,      \* [Hosts -> [Blobs -> the uploadStep under way, or Resting]]
    announced,    \* blobs whose Signal envelope the service accepted
    inbox,        \* [Blobs -> the recipient's delivery_media_inbox row]
    chunks,       \* [Blobs -> SUBSET Parts]: the recipient's delivery_media_chunks
    intake,       \* the projection under way at the recipient, or NoIntake
    filed,        \* blobs whose message and file are in the recipient's history
    settled,      \* blobs whose message is applied in the recipient's journal
    late,         \* commands whose answer was lost and that may still be executed
    mediaExpired, \* the TTL of all of them is over
    mediaFaults   \* deaths and lost answers so far

mediaVars == <<store, cipher, uploads, announced, inbox, chunks, intake, filed, settled, late,
               mediaExpired, mediaFaults>>
------------------------------------------------------------------------------
Absent == [state |-> "none", parts |-> {}]
Resting == [step |-> "none", todo |-> {}, more |-> FALSE]
NoIntake == [blob |-> "none", step |-> "none", todo |-> {}, more |-> FALSE]

Command(op, b, part) == [op |-> op, blob |-> b, part |-> part]

\* missing.slice(0, 2)
FirstTwo(parts) == {i \in parts : Cardinality({j \in parts : j < i}) < 2}

sender == <<cipher, uploads, announced>>
recipient == <<inbox, chunks, intake, filed, settled>>
bounds == <<late, mediaExpired, mediaFaults>>

\* Of the files of a run, some may be on their way or gone, and some of its
\* faults spent.
MediaInit ==
    /\ cipher \in [Blobs -> {"none", "uploaded", "dropped"}]
    /\ announced = {b \in Blobs : cipher[b] = "uploaded"}
    /\ store = [b \in Blobs |-> IF b \in announced THEN [state |-> "complete", parts |-> Parts]
                                ELSE Absent]
    /\ uploads = [h \in Hosts |-> [b \in Blobs |-> Resting]]
    /\ inbox = [b \in Blobs |-> "none"] /\ chunks = [b \in Blobs |-> {}]
    /\ intake = NoIntake /\ filed = {} /\ settled = {}
    /\ late = {} /\ mediaExpired = FALSE /\ mediaFaults \in 0 .. MaxMediaFaults
------------------------------------------------------------------------------
(* MediaStore: what each command makes of the row, and when it throws.       *)

Usable(b) == store[b].state # "none" /\ ~mediaExpired

StoreAccepts(c) ==
    CASE c.op = "begin" -> ~mediaExpired
      [] c.op = "put" -> Usable(c.blob)
      [] c.op = "finish" -> Usable(c.blob)
            /\ (store[c.blob].state = "open" => store[c.blob].parts = Parts)
      [] c.op = "get" -> Usable(c.blob) /\ store[c.blob].state = "complete"
      [] OTHER -> TRUE

Executed(c) ==
    LET row == store[c.blob] IN
    CASE c.op = "begin" -> IF row = Absent THEN [row EXCEPT !.state = "open"] ELSE row
      [] c.op = "put" -> IF row.state = "open" THEN [row EXCEPT !.parts = @ \cup {c.part}] ELSE row
      [] c.op = "finish" -> IF row.state = "open" THEN [row EXCEPT !.state = "complete"] ELSE row
      [] c.op = "ack" -> IF row = Absent THEN row ELSE [state |-> "acked", parts |-> {}]
      [] OTHER -> row

\* A command that is executed and answered.
Answered(c) == StoreAccepts(c) /\ store' = [store EXCEPT ![c.blob] = Executed(c)]

Fault == mediaFaults < MaxMediaFaults /\ mediaFaults' = mediaFaults + 1

\* A command that throws at the client: it was refused, or it was lost, and then
\* it may be executed later on.
Fails(c) ==
    /\ \/ ~StoreAccepts(c) /\ UNCHANGED <<late, mediaFaults>>
       \/ Fault /\ late' = late \cup {c}
    /\ UNCHANGED <<store, mediaExpired>>

ExecuteLate(c) ==
    /\ c \in late
    /\ late' = late \ {c}
    /\ store' = IF StoreAccepts(c) THEN [store EXCEPT ![c.blob] = Executed(c)] ELSE store
    /\ UNCHANGED <<sender, recipient, mediaExpired, mediaFaults>>

\* prune, in the transaction of any begin.
PruneStore ==
    /\ mediaExpired /\ \E b \in Blobs : store[b] # Absent
    /\ store' = [b \in Blobs |-> Absent]
    /\ UNCHANGED <<sender, recipient, bounds>>

Expire ==
    /\ ~mediaExpired
    /\ mediaExpired' = TRUE
    /\ UNCHANGED <<store, sender, recipient, late, mediaFaults>>
------------------------------------------------------------------------------
(* The sender.                                                               *)

UploadAt(h, b, step) == uploads[h][b].step = step
Move(h, b, next) == uploads' = [uploads EXCEPT ![h][b] = next]
Rest(h, b) == Move(h, b, Resting)

\* prepare, before the message is enqueued.
Prepare(b) ==
    /\ cipher[b] = "none" /\ ~mediaExpired
    /\ cipher' = [cipher EXCEPT ![b] = "held"]
    /\ UNCHANGED <<store, uploads, announced, recipient, bounds>>

\* uploadStep: the row is read, begin is asked what is present.
UploadBegin(h, b) ==
    /\ UploadAt(h, b, "none") /\ cipher[b] = "held"
    /\ Answered(Command("begin", b, 0))
    /\ LET missing == Parts \ store[b].parts
           rest == [step |-> "put", todo |-> FirstTwo(missing), more |-> Cardinality(missing) > 2]
       IN Move(h, b, IF store[b].state \in {"complete", "acked"}
                     THEN [rest EXCEPT !.step = "mark"] ELSE rest)
    /\ UNCHANGED <<cipher, announced, recipient, bounds>>

\* The next chunk, then finish, or the end of a step that left more to do.
UploadPut(h, b) ==
    /\ UploadAt(h, b, "put") /\ uploads[h][b].todo # {}
    /\ LET part == CHOOSE i \in uploads[h][b].todo : \A j \in uploads[h][b].todo : i <= j IN
       /\ Answered(Command("put", b, part))
       /\ Move(h, b, [uploads[h][b] EXCEPT !.todo = @ \ {part}])
    /\ UNCHANGED <<cipher, announced, recipient, bounds>>

UploadPause(h, b) ==
    /\ UploadAt(h, b, "put") /\ uploads[h][b].todo = {} /\ uploads[h][b].more
    /\ Rest(h, b)
    /\ UNCHANGED <<store, cipher, announced, recipient, bounds>>

UploadFinish(h, b) ==
    /\ UploadAt(h, b, "put") /\ uploads[h][b].todo = {} /\ ~uploads[h][b].more
    /\ Answered(Command("finish", b, 0))
    /\ Move(h, b, [uploads[h][b] EXCEPT !.step = "mark"])
    /\ UNCHANGED <<cipher, announced, recipient, bounds>>

\* The command that comes next throws, and the step with it.
UploadFails(h, b) ==
    /\ \/ UploadAt(h, b, "none") /\ cipher[b] = "held" /\ Fails(Command("begin", b, 0))
       \/ \E i \in uploads[h][b].todo : UploadAt(h, b, "put") /\ Fails(Command("put", b, i))
       \/ UploadAt(h, b, "put") /\ uploads[h][b].todo = {} /\ Fails(Command("finish", b, 0))
    /\ Rest(h, b)
    /\ UNCHANGED <<cipher, announced, recipient>>

\* uploaded: the ciphertext goes.
Uploaded(h, b) ==
    /\ UploadAt(h, b, "mark")
    /\ cipher' = [cipher EXCEPT ![b] = IF @ = "held" THEN "uploaded" ELSE @]
    /\ Rest(h, b)
    /\ UNCHANGED <<store, announced, recipient, bounds>>

\* Defect: the message is sent beside the upload.
AnnounceEarly(b) ==
    /\ cipher[b] \in {"held", "uploaded"} /\ b \notin announced /\ ~mediaExpired
    /\ announced' = announced \cup {b}
    /\ UNCHANGED <<store, cipher, uploads, recipient, bounds>>

\* The envelope is sealed and submitted once uploadStep returned true.
Announce(b) ==
    /\ cipher[b] = "uploaded" /\ b \notin announced /\ ~mediaExpired
    /\ announced' = announced \cup {b}
    /\ UNCHANGED <<store, cipher, uploads, recipient, bounds>>

\* purgeDeliveryMessage by the sender, the ack of the recipient, or prune.
DropRow(b) ==
    /\ cipher[b] \in {"held", "uploaded"}
    /\ b \notin announced \/ b \in settled \/ mediaExpired
    /\ cipher' = [cipher EXCEPT ![b] = "dropped"]
    /\ UNCHANGED <<store, uploads, announced, recipient, bounds>>
------------------------------------------------------------------------------
(* The recipient: ApplicationDelivery.receive of a message with a file.      *)

Here(step) == intake.step = step
Partial == {b \in Blobs : inbox[b] = "partial"}

\* Defect: every step asks for the first chunks again.
BeginDownloadAnew(b) ==
    /\ intake = NoIntake /\ b \in announced \ settled
    /\ ~mediaExpired
    /\ inbox[b] = "none" => Cardinality(Partial) < Slots
    /\ inbox' = [inbox EXCEPT ![b] = IF @ = "none" THEN "partial" ELSE @]
    /\ intake' = [blob |-> b, step |-> IF b \in filed THEN "consume" ELSE "get",
                  todo |-> FirstTwo(Parts), more |-> Cardinality(Parts) > 2]
    /\ UNCHANGED <<store, sender, chunks, filed, settled, bounds>>

\* beginDownload takes a slot, hasReceivedMessage decides whether to download.
BeginDownload(b) ==
    /\ intake = NoIntake /\ b \in announced \ settled
    /\ ~mediaExpired
    /\ inbox[b] = "none" => Cardinality(Partial) < Slots
    /\ inbox' = [inbox EXCEPT ![b] = IF @ = "none" THEN "partial" ELSE @]
    /\ LET missing == Parts \ chunks[b] IN
       intake' = [blob |-> b, step |-> IF b \in filed THEN "consume" ELSE "get",
                  todo |-> FirstTwo(missing), more |-> Cardinality(missing) > 2]
    /\ UNCHANGED <<store, sender, chunks, filed, settled, bounds>>

\* downloadStep: one chunk is fetched and stored.
DownloadGet ==
    /\ Here("get") /\ intake.todo # {}
    /\ LET part == CHOOSE i \in intake.todo : \A j \in intake.todo : i <= j IN
       /\ Answered(Command("get", intake.blob, part))
       /\ chunks' = [chunks EXCEPT ![intake.blob] = @ \cup {part}]
       /\ intake' = [intake EXCEPT !.todo = @ \ {part}]
    /\ UNCHANGED <<sender, inbox, filed, settled, bounds>>

DownloadPause ==
    /\ Here("get") /\ intake.todo = {} /\ intake.more
    /\ intake' = NoIntake
    /\ UNCHANGED <<store, sender, inbox, chunks, filed, settled, bounds>>

DownloadFails ==
    /\ Here("get") /\ \E i \in intake.todo : Fails(Command("get", intake.blob, i))
    /\ intake' = NoIntake
    /\ UNCHANGED <<sender, inbox, chunks, filed, settled>>

\* plaintext, then engine.receive commits message and file.
FileMessage ==
    /\ Here("get") /\ intake.todo = {} /\ ~intake.more
    /\ inbox[intake.blob] = "partial" /\ chunks[intake.blob] = Parts
    /\ filed' = filed \cup {intake.blob}
    /\ intake' = [intake EXCEPT !.step = "consume"]
    /\ UNCHANGED <<store, sender, inbox, chunks, settled, bounds>>

\* consumed: the slot and the chunks are given back.
Consume ==
    /\ Here("consume")
    /\ inbox' = [inbox EXCEPT ![intake.blob] = IF @ = "partial" THEN "consumed" ELSE @]
    /\ chunks' = [chunks EXCEPT ![intake.blob] = {}]
    /\ intake' = [intake EXCEPT !.step = "settle"]
    /\ UNCHANGED <<store, sender, filed, settled, bounds>>

\* The journal row is applied.
Settle ==
    /\ Here("settle")
    /\ settled' = settled \cup {intake.blob}
    /\ intake' = NoIntake
    /\ UNCHANGED <<store, sender, inbox, chunks, filed, bounds>>

\* acknowledge, after the cycle.
AcknowledgeBlob(b) ==
    /\ intake = NoIntake /\ inbox[b] = "consumed"
    /\ \/ /\ Answered(Command("ack", b, 0))
          /\ inbox' = [inbox EXCEPT ![b] = "acked"]
          /\ UNCHANGED bounds
       \/ Fails(Command("ack", b, 0)) /\ UNCHANGED inbox
    /\ UNCHANGED <<sender, chunks, intake, filed, settled>>

\* prune: after the TTL no row holds a slot.
PruneInbox ==
    /\ intake = NoIntake /\ mediaExpired /\ \E b \in Blobs : inbox[b] # "none"
    /\ inbox' = [b \in Blobs |-> "none"] /\ chunks' = [b \in Blobs |-> {}]
    /\ UNCHANGED <<store, sender, intake, filed, settled, bounds>>
------------------------------------------------------------------------------
\* A process dies: what it was doing is gone.
SenderDies(h) ==
    /\ \E b \in Blobs : uploads[h][b] # Resting
    /\ Fault
    /\ uploads' = [uploads EXCEPT ![h] = [b \in Blobs |-> Resting]]
    /\ UNCHANGED <<store, cipher, announced, recipient, late, mediaExpired>>

RecipientDies ==
    /\ intake # NoIntake /\ Fault
    /\ intake' = NoIntake
    /\ UNCHANGED <<store, sender, inbox, chunks, filed, settled, late, mediaExpired>>

Upload(h, b) ==
    \/ UploadBegin(h, b) \/ UploadPut(h, b) \/ UploadPause(h, b)
    \/ UploadFinish(h, b) \/ Uploaded(h, b)

Download ==
    \/ \E b \in Blobs : BeginDownload(b)
    \/ DownloadGet \/ DownloadPause \/ FileMessage \/ Consume \/ Settle

MediaNext ==
    \/ \E b \in Blobs : Prepare(b) \/ Announce(b) \/ DropRow(b) \/ AcknowledgeBlob(b)
    \/ \E h \in Hosts, b \in Blobs : Upload(h, b) \/ UploadFails(h, b)
    \/ Download \/ DownloadFails \/ PruneInbox
    \/ PruneStore \/ Expire
    \/ \E h \in Hosts : SenderDies(h)
    \/ RecipientDies
    \/ \E c \in late : ExecuteLate(c)

MediaSpec == MediaInit /\ [][MediaNext]_mediaVars

\* Both pumps cycle: steps are begun again and commands are answered.
MediaFairness ==
    /\ \A h \in Hosts, b \in Blobs : WF_mediaVars(Upload(h, b))
    /\ \A b \in Blobs : WF_mediaVars(Announce(b))
    /\ WF_mediaVars(Download)
------------------------------------------------------------------------------
MediaTypeOK ==
    /\ store \in [Blobs -> [state: {"none", "open", "complete", "acked"}, parts: SUBSET Parts]]
    /\ cipher \in [Blobs -> {"none", "held", "uploaded", "dropped"}]
    /\ uploads \in [Hosts -> [Blobs ->
           [step: {"none", "put", "mark"}, todo: SUBSET Parts, more: BOOLEAN]]]
    /\ inbox \in [Blobs -> {"none", "partial", "consumed", "acked"}]
    /\ chunks \in [Blobs -> SUBSET Parts]
    /\ intake = NoIntake \/ intake \in [blob: Blobs, step: {"get", "consume", "settle"},
                                        todo: SUBSET Parts, more: BOOLEAN]
    /\ settled \subseteq filed /\ filed \subseteq announced /\ announced \subseteq Blobs
    /\ mediaExpired \in BOOLEAN /\ mediaFaults \in 0 .. MaxMediaFaults

\* Until the TTL is over, a file whose message is under way and not yet in the
\* recipient's history is whole at the sender or whole at the service: neither
\* clears its copy too early, whatever is lost, late or executed twice, and
\* nothing is announced before it can be fetched (media-journal uploaded,
\* media-store finish and acknowledge).
FileSomewhere ==
    ~mediaExpired => \A b \in Blobs \ filed :
        /\ b \in announced \/ cipher[b] = "uploaded" =>
               store[b] = [state |-> "complete", parts |-> Parts]
        /\ cipher[b] = "held" => store[b].state # "acked"

\* An announced file is in the recipient's history in the end, or the TTL is
\* over: a file that has a slot is completed and leaves it to the next.
FilesArrive == \A b \in Blobs : b \in announced ~> b \in filed \/ mediaExpired
=============================================================================
