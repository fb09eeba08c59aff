---------------------------- MODULE Conversation ----------------------------
(*****************************************************************************)
(* One group conversation as DeviceMessenger keeps it on every phone: the    *)
(* owner's membership snapshots, texts with their edits and deletions,       *)
(* reactions, and the receipts the author sees.                              *)
(*                                                                           *)
(* A packet that was enqueued is in post for ever: module Delivery shows     *)
(* that the pump brings it, in any order and perhaps twice. A packet whose   *)
(* projection throws stays unapplied and is tried again in a later cycle.    *)
(*****************************************************************************)
EXTENDS FiniteSets, Integers

CONSTANTS Phones,      \* devices, by identity key
          Owner,       \* the phone that created the group
          Msgs,        \* message ids
          Author,      \* [Msgs -> Phones]
          MaxOps       \* bound: operations of users and crashes in a run

ASSUME ConversationAssumption ==
    Owner \in Phones /\ Author \in [Msgs -> Phones] /\ MaxOps \in Nat

VARIABLES
    roster,           \* [Phones -> SUBSET Phones]: members
    groupRev,         \* [Phones -> chats.revision, 0 when there is no chat]
    leftGroup,        \* phones with chats.left_group = 1
    profileRev,       \* [Phones -> chats.group_profile_revision]
    groupDeliveries,  \* the owner's [Phones -> acknowledged revision, -1: no row]
    kinds,            \* [Phones -> [Msgs -> "none", "text", "deleted" or "forgotten"]]
    bodies,           \* [Phones -> [Msgs -> number of the edit shown]]
    changes,          \* [Phones -> [Msgs -> message_changes row of the author]]
    isRead,           \* [Phones -> SUBSET Msgs]
    deliveries,       \* the authors' [Msgs -> [Phones -> status of the row]]
    receiptInfo,      \* the authors' message_receipt_info, likewise
    reactions,        \* [Phones -> [Msgs -> SUBSET Phones]]: who reacts
    reactionVersions, \* [Phones -> [Msgs -> [Phones -> revision]]]
    controlOutbox,    \* [Phones -> staged packets]
    post,             \* packets durably enqueued
    projected,        \* packets applied at their addressee
    ops,              \* operations of users and crashes so far
    wasOut            \* history: phones that some time were no members

conversationVars ==
    <<roster, groupRev, leftGroup, profileRev, groupDeliveries, kinds, bodies, changes, isRead,
      deliveries, receiptInfo, reactions, reactionVersions, controlOutbox, post, projected, ops,
      wasOut>>
------------------------------------------------------------------------------
Statuses == <<"none", "due", "acked", "read">>
Rank(status) == CHOOSE i \in 1 .. 4 : Statuses[i] = status
Later(s, t) == IF Rank(s) < Rank(t) THEN t ELSE s

Nobody == [q \in Phones |-> "none"]
NoChange == [rev |-> 0, act |-> "none", body |-> 0]

\* A group that its first members were told of; each of them has deleted the
\* messages of gone, and used of the MaxOps operations are spent.
ConversationStart(first, gone, used) ==
    /\ Owner \in first /\ Cardinality(first) > 1
    /\ roster = [p \in Phones |-> IF p \in first THEN first ELSE {}]
    /\ groupRev = [p \in Phones |-> IF p \in first THEN 1 ELSE 0]
    /\ groupDeliveries = [q \in Phones |-> IF q \in first \ {Owner} THEN 1 ELSE -1]
    /\ wasOut = Phones \ first
    /\ leftGroup = {} /\ profileRev = [p \in Phones |-> 0]
    /\ kinds = [p \in Phones |-> [m \in Msgs |->
           IF m \in gone /\ p \in first THEN "forgotten" ELSE "none"]]
    /\ bodies = [p \in Phones |-> [m \in Msgs |-> 0]]
    /\ changes = [p \in Phones |-> [m \in Msgs |-> NoChange]]
    /\ isRead = [p \in Phones |-> {}]
    /\ deliveries = [m \in Msgs |-> Nobody] /\ receiptInfo = [m \in Msgs |-> Nobody]
    /\ reactions = [p \in Phones |-> [m \in Msgs |-> {}]]
    /\ reactionVersions = [p \in Phones |-> [m \in Msgs |-> [q \in Phones |-> 0]]]
    /\ controlOutbox = [p \in Phones |-> {}]
    /\ post = {} /\ projected = {} /\ ops = used

ConversationInit == \E first \in SUBSET Phones : ConversationStart(first, {}, 0)

group == <<roster, groupRev, leftGroup, profileRev, groupDeliveries, wasOut>>
texts == <<kinds, bodies, changes, isRead>>
receipts == <<deliveries, receiptInfo>>
reacted == <<reactions, reactionVersions>>
wires == <<post, projected>>

Use == ops < MaxOps /\ ops' = ops + 1
Stage(p, packets) == controlOutbox' = [controlOutbox EXCEPT ![p] = @ \cup packets]
------------------------------------------------------------------------------
(* Helpers of the database.                                                  *)

\* snapshotMessageRecipients
Snapshot(m) == [q \in Phones |-> Later(receiptInfo[m][q], deliveries[m][q])]

\* replaceMembers: a row of group_deliveries for everyone old or new, a new
\* revision, the receipts kept, the obsolete transport work deleted.
ReplaceMembers(next) ==
    /\ roster' = [roster EXCEPT ![Owner] = next]
    /\ groupRev' = [groupRev EXCEPT ![Owner] = @ + 1]
    /\ groupDeliveries' = [q \in Phones |->
           IF q \in (roster[Owner] \cup next) \ {Owner} /\ groupDeliveries[q] = -1
           THEN 0 ELSE groupDeliveries[q]]
    /\ receiptInfo' = [m \in Msgs |-> IF Author[m] = Owner THEN Snapshot(m) ELSE receiptInfo[m]]
    /\ deliveries' = [m \in Msgs |-> [q \in Phones |->
           IF Author[m] = Owner /\ q \notin next THEN "none" ELSE deliveries[m][q]]]
    /\ wasOut' = wasOut \cup (roster[Owner] \ next)

\* applyMessageChange, on the row that receiving c leaves of message m at p
Shown(p, m, kind, body, c) ==
    IF c.act = "edit" THEN [kind |-> kind, body |-> c.body, reactions |-> reactions[p][m]]
    ELSE IF c.act = "delete" THEN [kind |-> "deleted", body |-> 0, reactions |-> {}]
    ELSE [kind |-> kind, body |-> body, reactions |-> reactions[p][m]]

ShowMessage(p, m, kind, body, c) ==
    LET row == Shown(p, m, kind, body, c) IN
    /\ kinds' = [kinds EXCEPT ![p][m] = row.kind]
    /\ bodies' = [bodies EXCEPT ![p][m] = row.body]
    /\ reactions' = [reactions EXCEPT ![p][m] = row.reactions]
    /\ reactionVersions' = IF row.kind = "deleted"
           THEN [reactionVersions EXCEPT ![p][m] = [q \in Phones |-> 0]] ELSE reactionVersions
    /\ isRead' = [isRead EXCEPT ![p] = IF row.kind = "deleted" THEN @ \cup {m} ELSE @]

\* Defect: a change is remembered only for a message that is there.
TakeChangeOfShown(p, m, c) ==
    IF changes[p][m].act = "delete" \/ changes[p][m].rev >= c.rev \/ kinds[p][m] = "none"
    THEN UNCHANGED <<texts, reacted>>
    ELSE changes' = [changes EXCEPT ![p][m] = c] /\ ShowMessage(p, m, kinds[p][m], bodies[p][m], c)

\* receiveMessageChange after its checks: deletion is terminal, revisions ordered.
TakeChange(p, m, c) ==
    IF changes[p][m].act = "delete" \/ changes[p][m].rev >= c.rev
    THEN UNCHANGED <<texts, reacted>>
    ELSE /\ changes' = [changes EXCEPT ![p][m] = c]
         /\ IF kinds[p][m] = "none" THEN UNCHANGED <<kinds, bodies, isRead, reacted>>
            ELSE ShowMessage(p, m, kinds[p][m], bodies[p][m], c)

\* purgeDeliveryMessage: the packets of m that were not uploaded yet.
Unsent(p, m) == {pkt \in post \ projected : pkt.type = "message" /\ pkt.id = m /\ pkt.from = p}
------------------------------------------------------------------------------
(* Operations of the users.                                                  *)

Send(m) ==
    LET p == Author[m] IN
    /\ Use /\ kinds[p][m] = "none"
    /\ p \notin leftGroup /\ p \in roster[p] /\ Cardinality(roster[p]) > 1
    /\ kinds' = [kinds EXCEPT ![p][m] = "text"]
    /\ isRead' = [isRead EXCEPT ![p] = @ \cup {m}]
    /\ deliveries' = [deliveries EXCEPT ![m] = [q \in Phones |->
           IF q \in roster[p] \ {p} THEN "due" ELSE "none"]]
    /\ receiptInfo' = [receiptInfo EXCEPT ![m] = deliveries'[m]]
    /\ UNCHANGED <<group, bodies, changes, reacted, controlOutbox, wires>>

\* changeOwnMessage: the control is staged for the recipients that have a
\* delivery row; an edit only for those that are members still.
ChangeOwn(m, act) ==
    LET p == Author[m]
        c == [rev |-> changes[p][m].rev + 1, act |-> act,
              body |-> IF act = "edit" THEN bodies[p][m] + 1 ELSE 0]
        to == {q \in Phones : deliveries[m][q] # "none" /\ (act = "edit" => q \in roster[p])}
    IN
    /\ Use /\ kinds[p][m] = "text"
    /\ act = "edit" => p \notin leftGroup /\ p \in roster[p]
    /\ TakeChange(p, m, c)
    /\ Stage(p, {[type |-> "message_change", from |-> p, to |-> q, id |-> m, change |-> c]
                    : q \in to})
    /\ IF act = "edit" THEN UNCHANGED <<deliveries, wires>>
       ELSE /\ deliveries' = [deliveries EXCEPT ![m] = Nobody]
            /\ \E gone \in SUBSET Unsent(p, m) : post' = post \ gone
            /\ UNCHANGED projected
    /\ UNCHANGED <<group, receiptInfo>>

\* deleteLocalMessage: the rows go, the id is remembered, nobody is told.
DeleteLocal(p, m) ==
    /\ Use /\ kinds[p][m] \in {"text", "deleted"}
    /\ kinds' = [kinds EXCEPT ![p][m] = "forgotten"]
    /\ bodies' = [bodies EXCEPT ![p][m] = 0]
    /\ changes' = [changes EXCEPT ![p][m] = NoChange]
    /\ isRead' = [isRead EXCEPT ![p] = @ \ {m}]
    /\ reactions' = [reactions EXCEPT ![p][m] = {}]
    /\ reactionVersions' = [reactionVersions EXCEPT ![p][m] = [q \in Phones |-> 0]]
    /\ controlOutbox' = [controlOutbox EXCEPT ![p] =
           {c \in @ : ~(c.type = "reaction" /\ c.id = m)}]
    /\ IF Author[m] # p THEN UNCHANGED <<receipts, post>>
       ELSE /\ deliveries' = [deliveries EXCEPT ![m] = Nobody]
            /\ receiptInfo' = [receiptInfo EXCEPT ![m] = Nobody]
            /\ \E gone \in SUBSET Unsent(p, m) : post' = post \ gone
    /\ UNCHANGED <<group, projected>>

\* markRead: one read_ids control for each sender of unread messages.
MarkRead(p) ==
    LET unread(q) == {m \in Msgs : Author[m] = q /\ q # p /\ kinds[p][m] # "none"
                                    /\ kinds[p][m] # "forgotten" /\ m \notin isRead[p]}
        senders == {q \in Phones : unread(q) # {}}
    IN
    /\ Use /\ senders # {}
    /\ isRead' = [isRead EXCEPT ![p] = @ \cup UNION {unread(q) : q \in senders}]
    /\ Stage(p, {[type |-> "read_ids", from |-> p, to |-> q, ids |-> unread(q)] : q \in senders})
    /\ UNCHANGED <<group, kinds, bodies, changes, receipts, reacted, wires>>

\* react: toggles one's reaction under a new revision for every member.
React(p, m) ==
    LET active == p \notin reactions[p][m]
        rev == reactionVersions[p][m][p] + 1
    IN
    /\ Use /\ kinds[p][m] = "text"
    /\ reactions' = [reactions EXCEPT ![p][m] = IF active THEN @ \cup {p} ELSE @ \ {p}]
    /\ reactionVersions' = [reactionVersions EXCEPT ![p][m][p] = rev]
    /\ Stage(p, {[type |-> "reaction", from |-> p, to |-> q, id |-> m, active |-> active,
                  rev |-> rev] : q \in roster[p] \ {p}})
    /\ UNCHANGED <<group, texts, receipts, wires>>

\* mutateGroup: new members or details, and a group_profile that replaces those
\* still staged.
EditGroup(next) ==
    LET rev == groupRev[Owner] + 1 IN
    /\ Use
    /\ ReplaceMembers(next)
    /\ profileRev' = [profileRev EXCEPT ![Owner] = rev]
    /\ controlOutbox' = [controlOutbox EXCEPT ![Owner] =
           {c \in @ : c.type # "group_profile"} \cup
           {[type |-> "group_profile", from |-> Owner, to |-> q, rev |-> rev]
               : q \in next \ {Owner}}]
    /\ UNCHANGED <<leftGroup, texts, reacted, wires>>

\* leaveGroup: the history stays, the work of the deliveries does not.
LeaveGroup(p) ==
    /\ Use /\ p # Owner /\ groupRev[p] > 0 /\ p \notin leftGroup
    /\ leftGroup' = leftGroup \cup {p} /\ wasOut' = wasOut \cup {p}
    /\ receiptInfo' = [m \in Msgs |-> IF Author[m] = p THEN Snapshot(m) ELSE receiptInfo[m]]
    /\ deliveries' = [m \in Msgs |-> IF Author[m] = p THEN Nobody ELSE deliveries[m]]
    /\ UNCHANGED <<roster, groupRev, profileRev, groupDeliveries, texts, reacted, controlOutbox,
                   wires>>
------------------------------------------------------------------------------
(* flush. An event that is in the journal is not enqueued again.             *)

GroupState(q) == [type |-> "group", from |-> Owner, to |-> q, rev |-> groupRev[Owner],
                  members |-> roster[Owner]]

GroupLeave(p) == [type |-> "group_leave", from |-> p, to |-> Owner]
MessageTo(m, q) == [type |-> "message", from |-> Author[m], to |-> q, id |-> m,
                    body |-> bodies[Author[m]][m]]

Journalled(m, q) == \E pkt \in post : pkt.type = "message" /\ pkt.id = m /\ pkt.to = q

DueState(q) == groupDeliveries[q] \in 0 .. groupRev[Owner] - 1 /\ GroupState(q) \notin post
DueMessage(m, q) == /\ deliveries[m][q] = "due" /\ q \in roster[Author[m]]
                    /\ ~Journalled(m, q)
DueMessages(p) == {d \in Msgs \X Phones : Author[d[1]] = p /\ DueMessage(d[1], d[2])}

\* All that p has staged: the controls, the snapshots that are not acknowledged,
\* the leave, and the pending messages, the owner's after its snapshot.
Pending(p) ==
    controlOutbox[p]
    \cup (IF p = Owner THEN {GroupState(q) : q \in {r \in Phones : DueState(r)}} ELSE {})
    \cup (IF p \in leftGroup THEN {GroupLeave(p)} ELSE {})
    \cup {MessageTo(d[1], d[2]) : d \in DueMessages(p)}
    \cup (IF p = Owner THEN {GroupState(d[2]) : d \in DueMessages(p)} ELSE {})

Flush(p) ==
    /\ Pending(p) \ post # {}
    /\ post' = post \cup Pending(p)
    /\ controlOutbox' = [controlOutbox EXCEPT ![p] = {}]
    /\ UNCHANGED <<group, texts, receipts, reacted, projected, ops>>
------------------------------------------------------------------------------
(* receive, one operator for each type of packet. A packet whose guard is    *)
(* false threw, and stays unapplied.                                         *)

\* The journal commits the applied row and the receipt in one transaction,
\* after the engine's own: a crash between the two leaves the row unapplied.
Commit(pkt, receipt) ==
    \/ projected' = projected \cup {pkt} /\ post' = post \cup receipt /\ UNCHANGED ops
    \/ Use /\ UNCHANGED wires

BothMembers(p, q) == {p, q} \subseteq roster[p]

ChangeAllowed(pkt) ==
    LET p == pkt.to IN kinds[p][pkt.id] # "none" \/ BothMembers(p, pkt.from)

ReceiveChange(pkt) ==
    /\ ChangeAllowed(pkt)
    /\ IF kinds[pkt.to][pkt.id] = "forgotten" THEN UNCHANGED <<texts, reacted>>
       ELSE TakeChange(pkt.to, pkt.id, pkt.change)
    /\ Commit(pkt, {})
    /\ UNCHANGED <<group, receipts>>

\* message: inserted once, acknowledged every time.
MessageAllowed(pkt) ==
    LET p == pkt.to IN
    kinds[p][pkt.id] # "none" \/ (BothMembers(p, pkt.from) /\ p \notin leftGroup)

\* Defect: a message that was deleted here is taken for a new one.
ReceiveMessageAgain(pkt) ==
    LET p == pkt.to
        m == pkt.id
    IN /\ MessageAllowed(pkt)
       /\ IF kinds[p][m] \in {"text", "deleted"} THEN UNCHANGED <<kinds, bodies, isRead, reacted>>
          ELSE ShowMessage(p, m, "text", pkt.body, changes[p][m])
       /\ Commit(pkt, {[type |-> "ack", from |-> p, to |-> pkt.from, id |-> m]})
       /\ UNCHANGED <<group, changes, receipts>>

ReceiveMessage(pkt) ==
    LET p == pkt.to
        m == pkt.id
    IN /\ MessageAllowed(pkt)
       /\ IF kinds[p][m] # "none" THEN UNCHANGED <<kinds, bodies, isRead, reacted>>
          ELSE ShowMessage(p, m, "text", pkt.body, changes[p][m])
       /\ Commit(pkt, {[type |-> "ack", from |-> p, to |-> pkt.from, id |-> m]})
       /\ UNCHANGED <<group, changes, receipts>>

\* Defect: an acknowledgement counts for every recipient.
ObserveForAll(m, q, status) ==
    LET seen(row) == IF row = "none" THEN "none" ELSE Later(row, status) IN
    /\ receiptInfo' = [receiptInfo EXCEPT ![m] = [r \in Phones |-> seen(Snapshot(m)[r])]]
    /\ deliveries' = [deliveries EXCEPT ![m] = [r \in Phones |-> seen(@[r])]]

\* observeMessageDelivery and observeMessageRead, then the delivery row
Observe(m, q, status) ==
    LET seen(row) == IF row = "none" THEN "none" ELSE Later(row, status) IN
    /\ receiptInfo' = [receiptInfo EXCEPT ![m] = [Snapshot(m) EXCEPT ![q] = seen(@)]]
    /\ deliveries' = [deliveries EXCEPT ![m][q] = seen(@)]

ReceiveAck(pkt) ==
    /\ IF kinds[pkt.to][pkt.id] = "forgotten" THEN UNCHANGED receipts
       ELSE Observe(pkt.id, pkt.from, "acked")
    /\ Commit(pkt, {})
    /\ UNCHANGED <<group, texts, reacted>>

\* read_ids: all of the batch or nothing.
Seen(row) == IF row = "none" THEN "none" ELSE "read"
ReadAllowed(pkt) ==
    \A m \in pkt.ids : /\ kinds[pkt.to][m] # "forgotten"
                       /\ {deliveries[m][pkt.from], receiptInfo[m][pkt.from]} # {"none"}

ReceiveRead(pkt) ==
    /\ ReadAllowed(pkt)
    /\ receiptInfo' = [m \in Msgs |-> IF m \in pkt.ids
           THEN [Snapshot(m) EXCEPT ![pkt.from] = Seen(@)] ELSE receiptInfo[m]]
    /\ deliveries' = [m \in Msgs |-> IF m \in pkt.ids
           THEN [deliveries[m] EXCEPT ![pkt.from] = Seen(@)] ELSE deliveries[m]]
    /\ Commit(pkt, {})
    /\ UNCHANGED <<group, texts, reacted>>

\* reaction: the newest revision of each peer wins.
ReactionAllowed(pkt) ==
    kinds[pkt.to][pkt.id] \in {"text", "deleted"} /\ pkt.from \in roster[pkt.to]

ReceiveReaction(pkt) ==
    LET p == pkt.to
        m == pkt.id
    IN
    /\ ReactionAllowed(pkt)
    /\ IF kinds[p][m] = "deleted" \/ pkt.rev <= reactionVersions[p][m][pkt.from]
       THEN UNCHANGED reacted
       ELSE /\ reactionVersions' = [reactionVersions EXCEPT ![p][m][pkt.from] = pkt.rev]
            /\ reactions' = [reactions EXCEPT ![p][m] =
                   IF pkt.active THEN @ \cup {pkt.from} ELSE @ \ {pkt.from}]
    /\ Commit(pkt, {})
    /\ UNCHANGED <<group, texts, receipts>>

\* group: a full snapshot of the pinned owner, newer than what is held.
SnapshotAllowed(pkt) == groupRev[pkt.to] > 0 \/ pkt.to \in pkt.members

ReceiveGroup(pkt) ==
    LET p == pkt.to IN
    /\ SnapshotAllowed(pkt)
    /\ IF groupRev[p] > 0 /\ pkt.rev <= groupRev[p] THEN UNCHANGED <<roster, groupRev>>
       ELSE /\ roster' = [roster EXCEPT ![p] = pkt.members]
            /\ groupRev' = [groupRev EXCEPT ![p] = pkt.rev]
    /\ Commit(pkt, {[type |-> "group_ack", from |-> p, to |-> Owner, rev |-> pkt.rev]})
    /\ UNCHANGED <<leftGroup, profileRev, groupDeliveries, wasOut, texts, receipts, reacted>>

ReceiveGroupAck(pkt) ==
    /\ groupDeliveries' = [groupDeliveries EXCEPT ![pkt.from] =
           IF pkt.rev > @ /\ pkt.rev <= groupRev[Owner] THEN pkt.rev ELSE @]
    /\ Commit(pkt, {})
    /\ UNCHANGED <<roster, groupRev, leftGroup, profileRev, wasOut, texts, receipts, reacted>>

\* group_leave: a new revision without the sender, unless it is out already.
ReceiveLeave(pkt) ==
    /\ IF pkt.from \in roster[Owner] THEN ReplaceMembers(roster[Owner] \ {pkt.from})
       ELSE UNCHANGED <<roster, groupRev, groupDeliveries, wasOut, receipts>>
    /\ Commit(pkt, {})
    /\ UNCHANGED <<leftGroup, profileRev, texts, reacted>>

\* Defect: details wait for exactly their membership revision.
ProfileAllowedExactly(pkt) ==
    LET p == pkt.to IN groupRev[p] = pkt.rev /\ p \notin leftGroup /\ p \in roster[p]

\* group_profile: waits for its membership revision.
ProfileAllowed(pkt) ==
    LET p == pkt.to IN groupRev[p] >= pkt.rev /\ p \notin leftGroup /\ p \in roster[p]

ReceiveProfile(pkt) ==
    /\ ProfileAllowed(pkt)
    /\ profileRev' = [profileRev EXCEPT ![pkt.to] = IF pkt.rev > @ THEN pkt.rev ELSE @]
    /\ Commit(pkt, {})
    /\ UNCHANGED <<roster, groupRev, leftGroup, groupDeliveries, wasOut, texts, receipts, reacted>>

Receive(pkt) ==
    /\ \/ pkt.type = "message_change" /\ ReceiveChange(pkt)
       \/ pkt.type = "message" /\ ReceiveMessage(pkt)
       \/ pkt.type = "ack" /\ ReceiveAck(pkt)
       \/ pkt.type = "read_ids" /\ ReceiveRead(pkt)
       \/ pkt.type = "reaction" /\ ReceiveReaction(pkt)
       \/ pkt.type = "group" /\ ReceiveGroup(pkt)
       \/ pkt.type = "group_ack" /\ ReceiveGroupAck(pkt)
       \/ pkt.type = "group_leave" /\ ReceiveLeave(pkt)
       \/ pkt.type = "group_profile" /\ ReceiveProfile(pkt)
    /\ UNCHANGED controlOutbox
------------------------------------------------------------------------------
NextMembers == {roster[Owner]} \cup
               {roster[Owner] \cup {q} : q \in Phones} \cup {roster[Owner] \ {q} : q \in Phones \ {Owner}}

UserOperates ==
    \/ \E m \in Msgs : Send(m) \/ ChangeOwn(m, "edit") \/ ChangeOwn(m, "delete")
    \/ \E p \in Phones : MarkRead(p) \/ LeaveGroup(p)
                        \/ \E m \in Msgs : DeleteLocal(p, m) \/ React(p, m)
    \/ \E next \in NextMembers : EditGroup(next)

ConversationNext ==
    \/ UserOperates
    \/ \E p \in Phones : Flush(p)
    \/ \E pkt \in post \ projected : Receive(pkt)

ConversationSpec == ConversationInit /\ [][ConversationNext]_conversationVars
------------------------------------------------------------------------------
ConversationTypeOK ==
    LET status == {Statuses[i] : i \in 1 .. 4} IN
    /\ roster \in [Phones -> SUBSET Phones] /\ groupRev \in [Phones -> Nat]
    /\ leftGroup \subseteq Phones \ {Owner} /\ profileRev \in [Phones -> Nat]
    /\ groupDeliveries \in [Phones -> {-1} \cup Nat]
    /\ kinds \in [Phones -> [Msgs -> {"none", "text", "deleted", "forgotten"}]]
    /\ bodies \in [Phones -> [Msgs -> Nat]]
    /\ changes \in [Phones -> [Msgs -> [rev: Nat, act: {"none", "edit", "delete"}, body: Nat]]]
    /\ isRead \in [Phones -> SUBSET Msgs]
    /\ deliveries \in [Msgs -> [Phones -> status]] /\ receiptInfo \in [Msgs -> [Phones -> status]]
    /\ reactions \in [Phones -> [Msgs -> SUBSET Phones]]
    /\ reactionVersions \in [Phones -> [Msgs -> [Phones -> Nat]]]
    /\ \A p \in Phones : \A c \in controlOutbox[p] : c.from = p /\ c.to \in Phones \ {p}
    /\ projected \subseteq post /\ ops \in 0 .. MaxOps /\ wasOut \subseteq Phones

\* receive would not throw.
Allowed(pkt) ==
    CASE pkt.type = "message_change" -> ChangeAllowed(pkt)
      [] pkt.type = "message" -> MessageAllowed(pkt)
      [] pkt.type = "read_ids" -> ReadAllowed(pkt)
      [] pkt.type = "reaction" -> ReactionAllowed(pkt)
      [] pkt.type = "group" -> SnapshotAllowed(pkt)
      [] pkt.type = "group_profile" -> ProfileAllowed(pkt)
      [] OTHER -> TRUE

\* Every flush was done and every packet applied, or refused as it always will be.
Quiet ==
    /\ \A p \in Phones : Pending(p) \subseteq post
    /\ \A pkt \in post \ projected : ~Allowed(pkt)

Steady == Phones \ wasOut
Holds(p, m) == kinds[p][m] \in {"text", "deleted"}

\* Two phones at one revision have the same members, and in the end all that
\* were told of the group have the owner's snapshot and its members the owner's
\* details, in whatever order snapshots and details arrived (receive of group:
\* never roll back; group_profile: GROUP_NOT_READY).
SnapshotsAgree ==
    /\ \A p, q \in Phones : groupRev[p] = groupRev[q] /\ groupRev[p] > 0 => roster[p] = roster[q]
    /\ Quiet => \A p \in Phones :
           /\ groupRev[p] # 0 \/ p \in roster[Owner] => groupRev[p] = groupRev[Owner]
           /\ p \in roster[Owner] \ leftGroup => profileRev[p] = profileRev[Owner]

\* What the author is shown as delivered or read was inserted or read there,
\* and the owner never takes a phone for newer than it is: no receipt speaks for
\* a message that has not arrived (read_ids: exact ids, group_ack: MAX).
ReceiptsAreTrue ==
    /\ \A q \in Phones : groupDeliveries[q] <= groupRev[q]
    /\ \A m \in Msgs, q \in Phones :
           LET status == Later(deliveries[m][q], receiptInfo[m][q]) IN
           /\ status \in {"acked", "read"} => kinds[q][m] # "none"
           /\ status = "read" => m \in isRead[q] \/ kinds[q][m] = "forgotten"

\* In the end every phone that was a member all the time has every text its
\* author still has, in the author's last wording, and none that the author
\* deleted for everyone, whichever of text, edits and deletion came first.
TextsAgree ==
    Quiet => \A m \in Msgs, p \in Steady :
        LET a == Author[m] IN
        a \in Steady /\ Holds(a, m) =>
            /\ kinds[p][m] = "none" => kinds[a][m] = "deleted"
            /\ Holds(p, m) => kinds[p][m] = kinds[a][m] /\ bodies[p][m] = bodies[a][m]

\* In the end two such phones that show a text show the same reactions of theirs
\* to it: adds and removals that overtook each other do not stick.
ReactionsAgree ==
    Quiet => \A m \in Msgs, p, q \in Steady :
        kinds[p][m] = "text" /\ kinds[q][m] = "text" =>
            (p \in reactions[p][m] <=> p \in reactions[q][m])

\* In the end all copies of a conversation agree: members, texts, reactions
\* (engine.ts receive, in whatever order its packets arrive).
CopiesAgree == SnapshotsAgree /\ TextsAgree /\ ReactionsAgree

\* A packet that stays refused comes from or went to a phone that was out of the
\* group, or names a message of such a phone or one that was deleted at either end:
\* order alone never sticks. (What is refused stays in the inbox for good, and among
\* its 1000 rows that wait: journal.ts prune takes applied rows only.)
OnlyPartedAreStuck ==
    Quiet => \A pkt \in post \ projected :
        \/ {pkt.from, pkt.to} \cap wasOut # {}
        \/ pkt.type = "read_ids" /\ \E m \in pkt.ids : kinds[pkt.to][m] = "forgotten"
        \/ /\ pkt.type = "reaction"
           /\ \/ kinds[pkt.to][pkt.id] = "forgotten"
              \/ kinds[Author[pkt.id]][pkt.id] \in {"deleted", "forgotten"}
              \/ Author[pkt.id] \in wasOut

\* Deletion is terminal: no duplicate, no late edit and no late original brings
\* back a message that was deleted for everyone or here.
DeletionIsFinal ==
    [][\A p \in Phones, m \in Msgs :
           /\ kinds[p][m] = "deleted" => kinds'[p][m] \in {"deleted", "forgotten"}
           /\ kinds[p][m] = "forgotten" => kinds'[p][m] = "forgotten"]_conversationVars

\* In the end a message deleted for everyone is shown on none of the phones that
\* it was sent to.
DeletedForEveryone ==
    Quiet => \A m \in Msgs, p \in Phones :
        kinds[Author[m]][m] = "deleted" => kinds[p][m] # "text"
=============================================================================
