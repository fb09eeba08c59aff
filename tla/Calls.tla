-------------------------------- MODULE Calls --------------------------------
(*****************************************************************************)
(* Direct calls over the delivery mailbox: DeviceCalls (one call at a time,  *)
(* capture, ringing timer, terminal notification and record) and             *)
(* DeliveredCallControl (the projection of call packets into the database,   *)
(* its tombstones and its saved invites).                                    *)
(*                                                                           *)
(* A packet that was enqueued is in mail for ever: module Delivery shows     *)
(* that the pump brings it, once or several times and in any order.          *)
(* The age of a packet is one bit, old: CALL_RING_WINDOW_MS has passed.      *)
(*****************************************************************************)
EXTENDS FiniteSets, Naturals

CONSTANTS Phones,         \* devices
          Others,         \* phones whose own side of a call is not modelled
          CallIds,        \* uuids that calls are given
          StrayIds,       \* of these, the calls that Others make
          Dials,          \* bound: who calls whom, <<caller, callee>>
          BesideStray,    \* bound: likewise, beside such a call
          NoCall,         \* no call
          MaxTroubles     \* bound: crashes and failing enqueues and captures in a run

\* A device takes no contact with its own key (engine.ts trustPhoneContact, CONTACT_INVALID).
ASSUME CallsAssumption ==
    /\ Phones \cap Others = {} /\ NoCall \notin CallIds
    /\ \A x \in Dials \cup BesideStray : x[1] # x[2]
    /\ MaxTroubles \in Nat

VARIABLES
    route,     \* [CallIds -> <<caller, callee>>, or <<>> before the call]
    value,     \* [Phones -> the call on screen]: DeviceCalls.value
    capturing, \* [Phones -> SUBSET CallIds]: captureCall is awaited
    tracks,    \* [Phones -> SUBSET CallIds]: calls with a live local stream
    sends,     \* [Phones -> SUBSET Packets]: signaling.send is awaited
    books,     \* [Phones -> terminals whose outcome is not recorded yet]
    mail,      \* packets durably enqueued
    applied,   \* packets whose projection is complete at their addressee
    old,       \* packets created more than the ring window ago
    hand,      \* [Phones -> the packet in projection and its phase]
    saved,     \* [Phones -> [CallIds -> phase]]: delivered_call_invites
    tombs,     \* [Phones -> SUBSET CallIds]: delivered_call_ends
    history,   \* [Phones -> [CallIds -> outcome]]: messages of kind call
    restarting, \* phones that have not recovered their saved invites since a crash
    troubles   \* crashes, failing enqueues and captures so far

callVars == <<route, value, capturing, tracks, sends, books, mail, applied, old,
              hand, saved, tombs, history, restarting, troubles>>
------------------------------------------------------------------------------
Ringing == {"incoming", "ringing"}
LiveStatus == Ringing \cup {"connecting", "active"}
Outcomes == {"ended", "failed", "missed", "declined", "unanswered"}

Packet(c, act, to) == [call |-> c, act |-> act, to |-> to]
Packets == [call: CallIds, act: {"invite", "accept", "decline", "end"}, to: Phones \cup Others]

OffScreen == [call |-> NoCall, status |-> "none"]
NoHand == [packet |-> NoCall, phase |-> "none", completed |-> FALSE]

InCall(d) == value[d].status \in LiveStatus                 \* active()
On(d, c) == value[d].call = c /\ InCall(d)
At(d, c, status) == value[d] = [call |-> c, status |-> status]
Far(d, c) == IF route[c][1] = d THEN route[c][2] ELSE route[c][1]
Incoming(d, c) == route[c] # <<>> /\ route[c][2] = d

Placed == {c \in CallIds : route[c] # <<>>}

\* callOutcome
Outcome(status, failed, reason) ==
    CASE status = "incoming" -> IF reason \in {"local", "decline"} /\ ~failed
                                THEN "declined" ELSE "missed"
      [] status # "incoming" /\ reason = "decline" -> "declined"
      [] status = "ringing" /\ reason # "decline" /\ (reason # "local" \/ ~failed) -> "unanswered"
      [] OTHER -> IF failed THEN "failed" ELSE "ended"

\* Calls of Others may be on their way from the start.
CallInit ==
    /\ route \in {r \in [CallIds -> {<<>>} \cup (Others \X Phones)] :
                     \A c \in CallIds : r[c] # <<>> => c \in StrayIds}
    /\ mail = {Packet(c, "invite", route[c][2]) : c \in Placed}
    /\ value = [d \in Phones |-> OffScreen]
    /\ capturing = [d \in Phones |-> {}] /\ tracks = [d \in Phones |-> {}]
    /\ sends = [d \in Phones |-> {}] /\ books = [d \in Phones |-> {}]
    /\ applied = {} /\ old = {}
    /\ hand = [d \in Phones |-> NoHand]
    /\ saved = [d \in Phones |-> [c \in CallIds |-> "none"]]
    /\ tombs = [d \in Phones |-> {}]
    /\ history = [d \in Phones |-> [c \in CallIds |-> "none"]]
    /\ restarting = {} /\ troubles \in 0 .. MaxTroubles
------------------------------------------------------------------------------
(* DeviceCalls.                                                              *)

\* recordCall: an existing row wins, a new one deletes the saved invite.
RecordCall(d, c, outcome) ==
    IF history[d][c] # "none" THEN UNCHANGED <<history, saved>>
    ELSE /\ history' = [history EXCEPT ![d][c] = outcome]
         /\ saved' = [saved EXCEPT ![d][c] = "none"]

\* end: the streams stop, the last control is being sent, the outcome written.
\* The database runs one transaction after the other in the order they were
\* asked for (engine.ts transaction), so a record that waits for nothing comes
\* before all that follows; a durable one waits for the last control.
Finish(d, failed, notify, reason, durable) ==
    LET c == value[d].call
        last == Packet(c, IF value[d].status = "incoming" THEN "decline" ELSE "end", Far(d, c))
        outcome == Outcome(value[d].status, failed, reason)
    IN /\ value' = [value EXCEPT ![d].status = IF failed THEN "failed" ELSE "ended"]
       /\ tracks' = [tracks EXCEPT ![d] = @ \ {c}]
       /\ sends' = [sends EXCEPT ![d] = IF notify THEN @ \cup {last} ELSE @]
       /\ IF durable
          THEN /\ books' = [books EXCEPT ![d] = @ \cup {[outcome |-> outcome, after |-> last]}]
               /\ UNCHANGED <<history, saved>>
          ELSE RecordCall(d, c, outcome) /\ UNCHANGED books

stores == <<mail, applied, old, hand, tombs, restarting>>
records == <<saved, history>>

Dialled == IF Placed \cap StrayIds = {} THEN Dials ELSE BesideStray

\* start: the call rings locally, then the capture is awaited.
StartCall(d, e, c) ==
    /\ ~InCall(d) /\ <<d, e>> \in Dialled /\ c \notin StrayIds \cup Placed
    /\ route' = [route EXCEPT ![c] = <<d, e>>]
    /\ value' = [value EXCEPT ![d] = [call |-> c, status |-> "ringing"]]
    /\ capturing' = [capturing EXCEPT ![d] = @ \cup {c}]
    /\ UNCHANGED <<tracks, sends, books, stores, records, troubles>>

\* Defect: the stream is kept although the call ended while it was awaited.
CapturedAnyway(d, c) ==
    /\ c \in capturing[d]
    /\ capturing' = [capturing EXCEPT ![d] = @ \ {c}]
    /\ tracks' = [tracks EXCEPT ![d] = @ \cup {c}]
    /\ sends' = [sends EXCEPT ![d] =
           IF Incoming(d, c) THEN @ ELSE @ \cup {Packet(c, "invite", Far(d, c))}]
    /\ UNCHANGED <<route, value, books, stores, records, troubles>>

\* captureCall resolves: a call that ended meanwhile gives its stream back, a
\* caller sends the invite, a callee has sent its accept already.
Captured(d, c) ==
    /\ c \in capturing[d]
    /\ capturing' = [capturing EXCEPT ![d] = @ \ {c}]
    /\ IF On(d, c)
       THEN /\ tracks' = [tracks EXCEPT ![d] = @ \cup {c}]
            /\ sends' = [sends EXCEPT ![d] =
                   IF Incoming(d, c) THEN @ ELSE @ \cup {Packet(c, "invite", Far(d, c))}]
       ELSE UNCHANGED <<tracks, sends>>
    /\ UNCHANGED <<route, value, books, stores, records, troubles>>

\* captureCall rejects: the call that asked for it ends, if it is still there.
CaptureFails(d, c) ==
    /\ c \in capturing[d] /\ troubles < MaxTroubles
    /\ capturing' = [capturing EXCEPT ![d] = @ \ {c}]
    /\ troubles' = troubles + 1
    /\ IF On(d, c) THEN Finish(d, TRUE, TRUE, "local", FALSE)
                   ELSE UNCHANGED <<value, tracks, sends, books, records>>
    /\ UNCHANGED <<route, stores>>

\* Defect: the answer stays in memory.
Untracked(d, c, status) == UNCHANGED saved

\* track, whenever the call on screen changes: a saved invite follows the answer.
Tracked(d, c, status) ==
    saved' = [saved EXCEPT ![d][c] = IF @ # "none" /\ Incoming(d, c) THEN status ELSE @]

\* accept: the send of the acceptance and the capture run side by side.
Accept(d) ==
    LET c == value[d].call IN
    /\ value[d].status = "incoming"
    /\ value' = [value EXCEPT ![d].status = "connecting"]
    /\ sends' = [sends EXCEPT ![d] = @ \cup {Packet(c, "accept", Far(d, c))}]
    /\ capturing' = [capturing EXCEPT ![d] = @ \cup {c}]
    /\ Tracked(d, c, "connecting")
    /\ UNCHANGED <<route, tracks, books, stores, history, troubles>>

\* signaling.send resolves: the journal holds the packet, for the first time
\* or, by its event key, already.
Enqueued(d, p) ==
    /\ p \in sends[d]
    /\ sends' = [sends EXCEPT ![d] = @ \ {p}]
    /\ mail' = mail \cup {p}
    /\ UNCHANGED <<route, value, capturing, tracks, books, applied, old, hand, saved, tombs,
                   history, restarting, troubles>>

\* signaling.send rejects: an invite or an accept fails its call, a last
\* control or a busy decline is given up.
NotEnqueued(d, p) ==
    /\ p \in sends[d] /\ troubles < MaxTroubles
    /\ troubles' = troubles + 1
    /\ IF p.act \in {"invite", "accept"} /\ On(d, p.call)
       THEN LET c == p.call
                last == Packet(c, "end", p.to)
            IN /\ value' = [value EXCEPT ![d].status = "failed"]
               /\ tracks' = [tracks EXCEPT ![d] = @ \ {c}]
               /\ sends' = [sends EXCEPT ![d] = (@ \ {p}) \cup {last}]
               /\ RecordCall(d, c, Outcome(value[d].status, TRUE, "local"))
       ELSE /\ sends' = [sends EXCEPT ![d] = @ \ {p}]
            /\ UNCHANGED <<value, tracks, records>>
    /\ UNCHANGED <<route, capturing, books, stores>>

\* The user ends or declines, in the app or, durably, through the system.
HangUp(d, durable) ==
    /\ InCall(d)
    /\ Finish(d, FALSE, TRUE, "local", durable)
    /\ UNCHANGED <<route, capturing, stores, troubles>>

\* endFromSystem again after the last control was refused.
RetryEnd(d, b) ==
    /\ b \in books[d] /\ b.after \notin mail \cup sends[d]
    /\ sends' = [sends EXCEPT ![d] = @ \cup {b.after}]
    /\ UNCHANGED <<route, value, capturing, tracks, books, stores, records, troubles>>

\* finishTerminal writes the outcome of a durable end.
Record(d, b) ==
    /\ b \in books[d] /\ b.after \in mail
    /\ books' = [books EXCEPT ![d] = @ \ {b}]
    /\ RecordCall(d, b.after.call, b.outcome)
    /\ UNCHANGED <<route, value, capturing, tracks, sends, stores, troubles>>

\* Defect: the timer is cleared when the call is answered.
RingOutUnanswered(d) ==
    LET c == value[d].call IN
    /\ value[d].status \in Ringing
    /\ Packet(c, "invite", route[c][2]) \in mail \cap old
       \/ (~Incoming(d, c) /\ Packet(c, "invite", route[c][2]) \notin mail)
    /\ Finish(d, TRUE, TRUE, "timeout", FALSE)
    /\ UNCHANGED <<route, capturing, stores, troubles>>

\* expire: the timer of a ringing or connecting call, at the end of its window.
RingOut(d) ==
    LET c == value[d].call IN
    /\ InCall(d) /\ value[d].status # "active"
    /\ Packet(c, "invite", route[c][2]) \in mail \cap old
       \/ (~Incoming(d, c) /\ Packet(c, "invite", route[c][2]) \notin mail)
    /\ Finish(d, TRUE, TRUE, "timeout", FALSE)
    /\ UNCHANGED <<route, capturing, stores, troubles>>

\* connected: the media transport of both sides is up.
Connect(d) ==
    LET c == value[d].call IN
    /\ value[d].status = "connecting"
    /\ Far(d, c) \in Phones /\ c \in tracks[d] /\ c \in tracks[Far(d, c)]
    /\ value[Far(d, c)].call = c /\ value[Far(d, c)].status \in {"connecting", "active"}
    /\ value' = [value EXCEPT ![d].status = "active"]
    /\ Tracked(d, c, "active")
    /\ UNCHANGED <<route, capturing, tracks, sends, books, stores, history, troubles>>

\* failed: the media transport broke, as it does when the other side leaves.
MediaFails(d) ==
    /\ value[d].status \in {"connecting", "active"}
    /\ Far(d, value[d].call) \in Phones => ~On(Far(d, value[d].call), value[d].call)
    /\ Finish(d, TRUE, TRUE, "local", FALSE)
    /\ UNCHANGED <<route, capturing, stores, troubles>>

\* A packet passes the ring window; an accept is younger than its invite.
Age(p) ==
    /\ p \in mail \ old /\ p.act \in {"invite", "accept"}
    /\ p.act = "accept" => Packet(p.call, "invite", route[p.call][2]) \in old
    /\ old' = old \cup {p}
    /\ UNCHANGED <<route, value, capturing, tracks, sends, books, mail, applied, hand, saved,
                   tombs, history, restarting, troubles>>
------------------------------------------------------------------------------
(* DeliveredCallControl: one packet at a time, an await between the steps.   *)

local == <<route, capturing, mail, old, troubles>>
project == <<local, restarting>>

\* The projection of a packet begins, hasReceivedMessage is read.
ProjectPacket(d, p) ==
    /\ hand[d] = NoHand /\ d \notin restarting
    /\ p \in mail \ applied /\ p.to = d
    /\ hand' = [hand EXCEPT ![d] = [packet |-> p, phase |-> "screen",
                                    completed |-> history[d][p.call] # "none"]]
    /\ UNCHANGED <<project, value, tracks, sends, books, applied, saved, tombs, history>>

\* The tombstone transaction: ends and expired invites leave one, whatever has
\* one, or is old or in the history, goes no further.
Buries(p) == p.act \in {"end", "decline"} \/ (p.act = "invite" /\ p \in old)

\* Defect: an invite does not ask for a tombstone.
RefusedByAge(d, p) == p \in old \/ hand[d].completed

Refused(d, p) == p \in old \/ hand[d].completed \/ p.call \in tombs[d]

Screen(d) ==
    LET p == hand[d].packet IN
    /\ hand[d].phase = "screen"
    /\ tombs' = [tombs EXCEPT ![d] = IF Buries(p) THEN @ \cup {p.call} ELSE @]
    /\ hand' = [hand EXCEPT ![d].phase =
           IF p.act = "invite"
           THEN IF ~Refused(d, p) THEN "save" ELSE IF hand[d].completed THEN "done" ELSE "missed"
           ELSE IF p.act = "accept" /\ Refused(d, p) THEN "done" ELSE "pass"]
    /\ UNCHANGED <<project, value, tracks, sends, books, applied, saved, history>>

\* A refused invite, or one that found the line busy, is a missed call.
Miss(d) ==
    LET p == hand[d].packet IN
    /\ hand[d].phase = "missed"
    /\ Packet(p.call, "decline", Far(d, p.call)) \notin sends[d]
    /\ RecordCall(d, p.call, "missed")
    /\ hand' = [hand EXCEPT ![d].phase = "done"]
    /\ UNCHANGED <<project, value, tracks, sends, books, applied, tombs>>

\* The invite is saved before it rings.
Save(d) ==
    LET p == hand[d].packet IN
    /\ hand[d].phase = "save"
    /\ saved' = [saved EXCEPT ![d][p.call] = IF @ = "none" THEN "incoming" ELSE @]
    /\ hand' = [hand EXCEPT ![d].phase = "pass"]
    /\ UNCHANGED <<project, value, tracks, sends, books, applied, tombs, history>>

\* hand moves on to phase.
Goto(d, phase) == hand' = [hand EXCEPT ![d].phase = phase]

\* calls.receive of an invite: a repetition of the call on screen is ignored, a
\* busy line declines, a free one rings.
ReceiveInvite(d) ==
    LET p == hand[d].packet
        c == p.call
    IN
    /\ hand[d].phase = "pass" /\ p.act = "invite"
    /\ \/ /\ value[d].call = c
          /\ Goto(d, "done")
          /\ UNCHANGED <<value, sends>>
       \/ /\ value[d].call # c /\ InCall(d)
          /\ sends' = [sends EXCEPT ![d] = @ \cup {Packet(c, "decline", Far(d, c))}]
          /\ Goto(d, "missed")
          /\ UNCHANGED value
       \/ /\ value[d].call # c /\ ~InCall(d)
          /\ value' = [value EXCEPT ![d] = [call |-> c, status |-> "incoming"]]
          /\ Goto(d, "done")
          /\ UNCHANGED sends
    /\ UNCHANGED <<project, tracks, books, applied, saved, tombs, history>>

\* calls.receive of an accept: the ringing caller with its stream starts media.
ReceiveAccept(d) ==
    LET c == hand[d].packet.call IN
    /\ hand[d].phase = "pass" /\ hand[d].packet.act = "accept"
    /\ value' = IF At(d, c, "ringing") /\ c \in tracks[d]
                THEN [value EXCEPT ![d].status = "connecting"] ELSE value
    /\ Goto(d, "done")
    /\ UNCHANGED <<project, tracks, sends, books, applied, saved, tombs, history>>

\* calls.receive of an end or a decline, which waits for the record.
ReceiveEnd(d) ==
    LET p == hand[d].packet IN
    /\ hand[d].phase = "pass" /\ p.act \in {"end", "decline"}
    /\ IF On(d, p.call)
       THEN Finish(d, FALSE, FALSE, IF p.act = "decline" THEN "decline" ELSE "remote", FALSE)
       ELSE UNCHANGED <<value, tracks, sends, books, records>>
    /\ Goto(d, "done")
    /\ UNCHANGED <<project, applied, tombs>>

\* The projection is complete and the journal row applied.
Projected(d) ==
    LET p == hand[d].packet IN
    /\ hand[d].phase = "done"
    /\ applied' = applied \cup {p}
    /\ hand' = [hand EXCEPT ![d] = NoHand]
    /\ UNCHANGED <<project, value, tracks, sends, books, saved, tombs, history>>

\* Defect: only an unanswered invite is recovered.
RecoverUnanswered(d, c) ==
    /\ hand[d] = NoHand
    /\ saved[d][c] = "incoming" /\ value[d].call # c
    /\ IF history[d][c] # "none"
       THEN saved' = [saved EXCEPT ![d][c] = "none"] /\ UNCHANGED <<history, hand>>
       ELSE /\ hand' = [hand EXCEPT ![d] = [packet |-> Packet(c, "invite", d), phase |-> "screen",
                                            completed |-> FALSE]]
            /\ UNCHANGED <<saved, history>>
    /\ UNCHANGED <<project, value, tracks, sends, books, applied, tombs>>

\* recover, before a cycle: a saved invite without a call is forgotten, failed,
\* or projected again.
Recover(d, c) ==
    /\ hand[d] = NoHand
    /\ saved[d][c] # "none" /\ value[d].call # c
    /\ IF history[d][c] # "none"
       THEN saved' = [saved EXCEPT ![d][c] = "none"] /\ UNCHANGED <<history, hand>>
       ELSE IF saved[d][c] # "incoming"
       THEN RecordCall(d, c, "failed") /\ UNCHANGED hand
       ELSE /\ hand' = [hand EXCEPT ![d] = [packet |-> Packet(c, "invite", d), phase |-> "screen",
                                            completed |-> FALSE]]
            /\ UNCHANGED <<saved, history>>
    /\ UNCHANGED <<project, value, tracks, sends, books, applied, tombs>>

\* The first cycle after a start projects packets once it recovered the invites.
Restarted(d) ==
    /\ hand[d] = NoHand /\ d \in restarting
    /\ \A c \in CallIds : saved[d][c] # "none" => value[d].call = c
    /\ restarting' = restarting \ {d}
    /\ UNCHANGED <<local, value, tracks, sends, books, applied, hand, saved, tombs, history>>

\* recoverInvite: the intent process saves a young invite without ringing.
Peek(d, p) ==
    /\ p \in mail \ (applied \cup old) /\ p.to = d /\ p.act = "invite"
    /\ history[d][p.call] = "none"
    /\ IF p.call \in tombs[d] THEN RecordCall(d, p.call, "missed")
       ELSE saved' = [saved EXCEPT ![d][p.call] = IF @ = "none" THEN "incoming" ELSE @]
            /\ UNCHANGED history
    /\ UNCHANGED <<project, value, tracks, sends, books, applied, hand, tombs>>

\* The process dies: only the database and what was enqueued remain. A phone
\* without a call has nothing to lose.
CrashPhone(d) ==
    /\ troubles < MaxTroubles /\ \E c \in Placed : d \in {route[c][1], route[c][2]}
    /\ troubles' = troubles + 1
    /\ value' = [value EXCEPT ![d] = OffScreen]
    /\ capturing' = [capturing EXCEPT ![d] = {}] /\ tracks' = [tracks EXCEPT ![d] = {}]
    /\ sends' = [sends EXCEPT ![d] = {}] /\ books' = [books EXCEPT ![d] = {}]
    /\ hand' = [hand EXCEPT ![d] = NoHand] /\ restarting' = restarting \cup {d}
    /\ UNCHANGED <<route, mail, applied, old, saved, tombs, history>>

\* Another phone takes its call back.
OtherEnds(d, c) ==
    /\ route[c][1] \in Others /\ route[c][2] = d
    /\ mail' = mail \cup {Packet(c, "end", d)}
    /\ UNCHANGED <<route, value, capturing, tracks, sends, books, applied, old, hand, saved, tombs,
                   history, restarting, troubles>>
------------------------------------------------------------------------------
User(d) ==
    \/ \E e \in Phones \cup Others, c \in CallIds : StartCall(d, e, c)
    \/ Accept(d)
    \/ \E durable \in BOOLEAN : HangUp(d, durable)
    \/ \E b \in books[d] : RetryEnd(d, b)

Runtime(d) ==
    \/ \E c \in capturing[d] : Captured(d, c) \/ CaptureFails(d, c)
    \/ \E p \in sends[d] : Enqueued(d, p) \/ NotEnqueued(d, p)
    \/ \E b \in books[d] : Record(d, b)
    \/ RingOut(d) \/ Connect(d) \/ MediaFails(d)

Handle(d) ==
    \/ Screen(d) \/ Miss(d) \/ Save(d)
    \/ ReceiveInvite(d) \/ ReceiveAccept(d) \/ ReceiveEnd(d) \/ Projected(d)

Control(d) ==
    \/ \E p \in mail : ProjectPacket(d, p) \/ Peek(d, p)
    \/ Handle(d)
    \/ \E c \in CallIds : Recover(d, c)
    \/ Restarted(d)

CallNext ==
    \/ \E d \in Phones : User(d) \/ Runtime(d) \/ Control(d) \/ CrashPhone(d)
                       \/ \E c \in Placed : OtherEnds(d, c)
    \/ \E p \in mail : Age(p)

CallSpec == CallInit /\ [][CallNext]_callVars

\* Promises settle, a timer fires or a transport notices a side that left, the
\* loop of the pump projects. Nothing is owed by the user.
Settles(d) == (\E c \in capturing[d] : Captured(d, c)) \/ (\E p \in sends[d] : Enqueued(d, p))
Loop(d) ==
    \/ \E p \in mail : ProjectPacket(d, p)
    \/ \E c \in CallIds : Recover(d, c)
    \/ Handle(d) \/ Restarted(d)

CallFairness ==
    /\ \A d \in Phones : /\ WF_callVars(Settles(d)) /\ WF_callVars(Loop(d))
                        /\ WF_callVars(RingOut(d) \/ MediaFails(d))
    /\ WF_callVars(\E p \in mail : Age(p))
------------------------------------------------------------------------------
CallTypeOK ==
    /\ route \in [CallIds -> {<<>>} \cup ((Phones \cup Others) \X (Phones \cup Others))]
    /\ value \in [Phones -> [call: CallIds \cup {NoCall},
                             status: LiveStatus \cup {"none", "ended", "failed"}]]
    /\ capturing \in [Phones -> SUBSET CallIds]
    /\ tracks \in [Phones -> SUBSET CallIds]
    /\ sends \in [Phones -> SUBSET Packets]
    /\ books \in [Phones -> SUBSET [outcome: Outcomes, after: Packets]]
    /\ mail \subseteq Packets /\ applied \subseteq mail /\ old \subseteq mail
    /\ hand \in [Phones -> {NoHand} \cup
           [packet: Packets, phase: {"screen", "missed", "save", "pass", "done"}, completed: BOOLEAN]]
    /\ saved \in [Phones -> [CallIds -> {"none", "incoming", "connecting", "active"}]]
    /\ tombs \in [Phones -> SUBSET CallIds]
    /\ history \in [Phones -> [CallIds -> Outcomes \cup {"none"}]]
    /\ restarting \subseteq Phones
    /\ troubles \in 0 .. MaxTroubles

\* A microphone is open only for the call on screen, and never after it ended,
\* whatever capture resolved late (calls.ts: the checks after captureCall).
NoOpenMicrophone ==
    \A d \in Phones : \A c \in tracks[d] : On(d, c)

\* A call whose end was projected does not ring: at most the very projection
\* of that end is still on its way to the screen (call-control.ts tombstones).
NoGhostRinging ==
    \A d \in Phones, c \in CallIds :
        At(d, c, "incoming") /\ c \in tombs[d] =>
            hand[d] # NoHand /\ hand[d].packet.call = c

\* An invite whose projection is complete is on screen, saved for recovery,
\* about to be recorded, or in the history: no crash loses it.
InviteKept ==
    \A p \in applied : p.act = "invite" =>
        LET d == p.to IN
        \/ saved[d][p.call] # "none"
        \/ history[d][p.call] # "none"

\* A call whose answer is on its way, and no decline, is never filed as missed
\* or declined and does not ring again, whatever crashes.
AnsweredIsNotMissed ==
    \A d \in Phones, c \in CallIds :
        Incoming(d, c) /\ Packet(c, "accept", Far(d, c)) \in mail
            /\ Packet(c, "decline", Far(d, c)) \notin mail =>
            history[d][c] \notin {"missed", "declined"} /\ ~At(d, c, "incoming")

\* Every invite is filed, and as what became of it (call-control.ts).
InvitesAreFiled == InviteKept /\ AnsweredIsNotMissed

\* Nobody rings or connects for ever, whatever the user does not do.
SettingUpEnds ==
    \A d \in Phones, c \in CallIds :
        (On(d, c) /\ value[d].status # "active") ~> ~(On(d, c) /\ value[d].status # "active")

\* Every invite that was enqueued settles at its addressee: in the end the call is
\* in the history, or goes on, or waits for the last control of a durable end,
\* whatever crashes and whoever else calls.
InviteSettles ==
    \A d \in Phones, c \in CallIds :
        Packet(c, "invite", d) \in mail ~>
            \/ history[d][c] # "none"
            \/ At(d, c, "active")
            \/ \E b \in books[d] : b.after.call = c
=============================================================================
