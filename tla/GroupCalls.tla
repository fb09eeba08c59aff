------------------------------ MODULE GroupCalls ------------------------------
(*****************************************************************************)
(* One group call over the delivery mailbox: the readiness exchange of       *)
(* DeviceCalls.startGroup, receiveGroup, acceptGroup, connectParticipant,    *)
(* leaveParticipant and connected. Every pair of devices that joined links   *)
(* directly, the smaller key making the offer.                               *)
(*                                                                           *)
(* A control is enqueued once: the journal knows the event key of an equal   *)
(* packet to the same device (application.ts hasEvent), so what was posted   *)
(* is a set, and posting again changes nothing. An invite or an accept that  *)
(* cannot be enqueued is lost: it is not sent again but for another reason.  *)
(*****************************************************************************)
EXTENDS FiniteSets, Naturals

CONSTANTS Members,  \* keys, ordered like numbers
          Host,     \* the device that starts the call
          InOrder,  \* bound: no accept is projected before the invite
          MaxLost   \* bound: controls that cannot be enqueued

ASSUME GroupAssumption ==
    Members \subseteq Nat /\ Host \in Members /\ InOrder \in BOOLEAN /\ MaxLost \in Nat

VARIABLES
    gview,   \* [Members -> status of the call on screen]
    seat,    \* [Members -> [Members -> status of the participant]]
    glocal,  \* devices with a live local stream
    gready,  \* [Members -> SUBSET Members]: groupReady
    goffers, \* [Members -> SUBSET Members]: groupOffers
    garmed,  \* [Members -> SUBSET Members]: groupTimers
    gcapt,   \* devices awaiting captureCall
    gposted, \* controls enqueued
    glost,   \* history: controls that could not be enqueued when they were sent
    gdone,   \* controls projected
    gbanned, \* [Members -> SUBSET Members]: delivered_call_ends of this call
    gaged    \* the ring window of the invites has passed

gvars == <<gview, seat, glocal, gready, goffers, garmed, gcapt, gposted, glost, gdone, gbanned, gaged>>
------------------------------------------------------------------------------
GControl(from, to, act) == [from |-> from, to |-> to, act |-> act]
GControls == [from: Members, to: Members, act: {"invite", "accept", "decline", "end"}]
Peers(d) == Members \ {d}

GLive(d) == gview[d] \in {"incoming", "ringing", "connecting", "active"}
Over == {"left", "declined", "failed"}
Seated(d, e) == seat[d][e] \notin Over

GroupInit ==
    /\ gview = [d \in Members |-> "none"]
    /\ seat = [d \in Members |-> [e \in Members |-> "ringing"]]
    /\ gready = [d \in Members |-> {}] /\ goffers = [d \in Members |-> {}]
    /\ garmed = [d \in Members |-> {}] /\ gbanned = [d \in Members |-> {}]
    /\ glocal = {} /\ gcapt = {} /\ gposted = {} /\ glost = {} /\ gdone = {}
    /\ gaged = FALSE

\* end: the streams stop; whoever is told hears a decline or an end.
EndGroup(d, told) ==
    /\ gview' = [gview EXCEPT ![d] = "ended"]
    /\ glocal' = glocal \ {d}
    /\ garmed' = [garmed EXCEPT ![d] = {}]
    /\ gposted' = gposted \cup
           {GControl(d, e, IF gview[d] = "incoming" THEN "decline" ELSE "end") : e \in told}

\* leaveParticipant: the last one to leave ends the call.
LeaveSeat(d, e, status) ==
    /\ seat' = [seat EXCEPT ![d][e] = status]
    /\ gready' = [gready EXCEPT ![d] = @ \ {e}]
    /\ IF \A f \in Peers(d) \ {e} : seat[d][f] \in Over
       THEN EndGroup(d, {})
       ELSE /\ garmed' = [garmed EXCEPT ![d] = @ \ {e}]
            /\ UNCHANGED <<gview, glocal, gposted>>

\* connectParticipant for those of them that are ready and not linked yet.
Joinable(d, them) == {e \in them : seat[d][e] = "ringing" \/ seat[d][e] = "connecting"}
ConnectSeats(d, them) ==
    LET go == Joinable(d, them) IN
    /\ seat' = [seat EXCEPT ![d] = [e \in Members |-> IF e \in go THEN "connecting" ELSE @[e]]]
    /\ gview' = [gview EXCEPT ![d] = IF go # {} /\ @ # "active" THEN "connecting" ELSE @]
    /\ goffers' = [goffers EXCEPT ![d] = @ \cup {e \in go : d < e}]
------------------------------------------------------------------------------
\* startGroup.
StartGroup ==
    /\ gview[Host] = "none"
    /\ gview' = [gview EXCEPT ![Host] = "ringing"]
    /\ gcapt' = gcapt \cup {Host}
    /\ UNCHANGED <<seat, glocal, gready, goffers, garmed, gposted, gdone, gbanned, glost, gaged>>

\* d sends a control to each of them, and what goes to those of lost is lost.
Send(d, them, lost, act) ==
    /\ gposted' = gposted \cup {GControl(d, e, act) : e \in them \ lost}
    /\ glost' = glost \cup {GControl(d, e, act) : e \in lost}
    /\ Cardinality(glost') <= MaxLost

\* The host's stream is there: everybody is invited and timed. Whom no invite
\* can be sent to has left, and the last one to leave ends the call.
InviteAll ==
    /\ Host \in gcapt
    /\ gcapt' = gcapt \ {Host}
    /\ IF GLive(Host)
       THEN \E lost \in SUBSET Peers(Host) :
            /\ Send(Host, Peers(Host), lost, "invite")
            /\ seat' = [seat EXCEPT ![Host] = [e \in Members |-> IF e \in lost THEN "failed" ELSE @[e]]]
            /\ gready' = [gready EXCEPT ![Host] = @ \ lost]
            /\ IF lost # {} /\ \A e \in Peers(Host) \ lost : seat[Host][e] \in Over
               THEN /\ gview' = [gview EXCEPT ![Host] = "ended"]
                    /\ garmed' = [garmed EXCEPT ![Host] = {}]
                    /\ glocal' = glocal \ {Host}
               ELSE /\ glocal' = glocal \cup {Host}
                    /\ garmed' = [garmed EXCEPT ![Host] = Peers(Host) \ lost]
                    /\ UNCHANGED gview
       ELSE UNCHANGED <<gview, seat, glocal, gready, garmed, gposted, glost>>
    /\ UNCHANGED <<goffers, gdone, gbanned, gaged>>

\* accept, acceptGroup.
AcceptGroup(d) ==
    /\ gview[d] = "incoming"
    /\ gview' = [gview EXCEPT ![d] = "connecting"]
    /\ gcapt' = gcapt \cup {d}
    /\ UNCHANGED <<seat, glocal, gready, goffers, garmed, gposted, gdone, gbanned, glost, gaged>>

\* The stream of a device that answered is there: it tells everybody still
\* seated that it is ready, and connects those that said so before.
JoinAll(d) ==
    /\ d \in gcapt \ {Host}
    /\ gcapt' = gcapt \ {d}
    /\ IF GLive(d)
       THEN LET them == {e \in Peers(d) : Seated(d, e)} IN
            /\ glocal' = glocal \cup {d}
            /\ garmed' = [garmed EXCEPT ![d] = @ \cup {e \in them : seat[d][e] # "active"}]
            /\ \E lost \in SUBSET them : Send(d, them, lost, "accept")
            /\ ConnectSeats(d, gready[d])
       ELSE UNCHANGED <<glocal, garmed, gposted, glost, seat, gview, goffers>>
    /\ UNCHANGED <<gready, gdone, gbanned, gaged>>

\* Capture fails: the call ends.
GroupCaptureFails(d) ==
    /\ d \in gcapt
    /\ gcapt' = gcapt \ {d}
    /\ IF GLive(d) THEN EndGroup(d, Peers(d)) ELSE UNCHANGED <<gview, glocal, garmed, gposted>>
    /\ UNCHANGED <<seat, gready, goffers, gdone, gbanned, glost, gaged>>

\* A control for a device that is through with this call changes nothing and
\* is not followed further.
Through(d) == gview[d] \in {"ended", "missed"}
Arrives(c) ==
    /\ c \in gposted \ gdone /\ ~Through(c.to)
    /\ gdone' = gdone \cup {c}

\* DeliveredCallControl and receiveGroup of an invite: it rings once, unless it
\* is old or the host took it back.
ProjectInvite(c) ==
    /\ c.act = "invite" /\ Arrives(c)
    /\ gview' = [gview EXCEPT ![c.to] =
           IF @ # "none" THEN @
           ELSE IF gaged \/ Host \in gbanned[c.to] THEN "missed" ELSE "incoming"]
    /\ UNCHANGED <<seat, glocal, gready, goffers, garmed, gcapt, gposted, gbanned, glost, gaged>>

\* Defect: readiness is not answered.
ProjectAcceptOnly(c) ==
    LET d == c.to
        e == c.from
    IN
    /\ c.act = "accept" /\ Arrives(c)
    /\ InOrder /\ d # Host => GControl(Host, d, "invite") \in gdone
    /\ IF GLive(d) /\ Seated(d, e) /\ e \notin gbanned[d]
       THEN /\ gready' = [gready EXCEPT ![d] = @ \cup {e}]
            /\ IF d \in glocal THEN ConnectSeats(d, {e}) ELSE UNCHANGED <<seat, gview, goffers>>
       ELSE UNCHANGED <<gready, seat, gview, goffers>>
    /\ UNCHANGED <<gposted, glocal, garmed, gcapt, gbanned, glost, gaged>>

\* receiveGroup of an accept: readiness is noted, answered once, connected.
ProjectAccept(c) ==
    LET d == c.to
        e == c.from
    IN
    /\ c.act = "accept" /\ Arrives(c)
    /\ InOrder /\ d # Host => GControl(Host, d, "invite") \in gdone
    /\ IF GLive(d) /\ Seated(d, e) /\ e \notin gbanned[d]
       THEN /\ gready' = [gready EXCEPT ![d] = @ \cup {e}]
            /\ IF d \in glocal
               THEN /\ IF e \in gready[d] THEN UNCHANGED <<gposted, glost>>
                       ELSE \E lost \in SUBSET {e} : Send(d, {e}, lost, "accept")
                    /\ ConnectSeats(d, {e})
               ELSE UNCHANGED <<gposted, glost, seat, gview, goffers>>
       ELSE UNCHANGED <<gready, gposted, glost, seat, gview, goffers>>
    /\ UNCHANGED <<glocal, garmed, gcapt, gbanned, gaged>>

\* receiveGroup of an end or a decline.
ProjectLeave(c) ==
    LET d == c.to
        e == c.from
    IN
    /\ c.act \in {"decline", "end"} /\ Arrives(c)
    /\ gbanned' = [gbanned EXCEPT ![d] = @ \cup {e}]
    /\ IF ~GLive(d) \/ ~Seated(d, e)
       THEN UNCHANGED <<gview, seat, glocal, gready, garmed, gposted>>
       ELSE IF gview[d] = "incoming" /\ e = Host
       THEN EndGroup(d, {}) /\ UNCHANGED <<seat, gready>>
       ELSE LeaveSeat(d, e, IF c.act = "decline" THEN "declined" ELSE "left")
    /\ UNCHANGED <<goffers, gcapt, glost, gaged>>

\* Defect: the call itself is not looked at.
MediaAllowedBySeat(d, e) == seat[d][e] \in {"ringing", "connecting"} /\ e \in gready[d]

\* mediaAllowed
MediaAllowed(d, e) ==
    /\ GLive(d) /\ gview[d] # "incoming" /\ d \in glocal
    /\ seat[d][e] \in {"ringing", "connecting"} /\ e \in gready[d]

\* An offer meets a device that allows it: connected on both sides.
Link(d, e) ==
    /\ e \in goffers[d] /\ MediaAllowed(d, e) /\ MediaAllowed(e, d)
    /\ seat' = [seat EXCEPT ![d][e] = "active", ![e][d] = "active"]
    /\ gview' = [gview EXCEPT ![d] = "active", ![e] = "active"]
    /\ garmed' = [garmed EXCEPT ![d] = @ \ {e}, ![e] = @ \ {d}]
    /\ UNCHANGED <<glocal, gready, goffers, gcapt, gposted, gdone, gbanned, glost, gaged>>

\* failed: the transport to a device that left broke.
LinkFails(d, e) ==
    /\ GLive(d) /\ seat[d][e] \in {"connecting", "active"}
    /\ ~GLive(e) \/ ~Seated(e, d)
    /\ LeaveSeat(d, e, "failed")
    /\ UNCHANGED <<goffers, gcapt, gdone, gbanned, glost, gaged>>

\* The timer of a participant.
SeatTimer(d, e) ==
    /\ GLive(d) /\ e \in garmed[d]
    /\ LeaveSeat(d, e, "failed")
    /\ UNCHANGED <<goffers, gcapt, gdone, gbanned, glost, gaged>>

\* expire: the timer of the call, cleared when the first participant connects.
GroupRingOut(d) ==
    /\ GLive(d) /\ gview[d] # "active"
    /\ gaged \/ (d = Host /\ d \notin glocal)
    /\ EndGroup(d, Peers(d))
    /\ UNCHANGED <<seat, gready, goffers, gcapt, gdone, gbanned, glost, gaged>>

LeaveGroupCall(d) ==
    /\ GLive(d)
    /\ EndGroup(d, Peers(d))
    /\ UNCHANGED <<seat, gready, goffers, gcapt, gdone, gbanned, glost, gaged>>

GroupAge ==
    /\ ~gaged /\ gposted # {}
    /\ gaged' = TRUE
    /\ UNCHANGED <<gview, seat, glocal, gready, goffers, garmed, gcapt, gposted, glost, gdone, gbanned>>

GroupRuntime ==
    \/ InviteAll
    \/ \E d \in Members : JoinAll(d) \/ GroupCaptureFails(d) \/ GroupRingOut(d)
    \/ \E c \in gposted : ProjectInvite(c) \/ ProjectAccept(c) \/ ProjectLeave(c)
    \/ \E d, e \in Members : Link(d, e) \/ LinkFails(d, e) \/ SeatTimer(d, e)
    \/ GroupAge

GroupNext ==
    \/ StartGroup
    \/ \E d \in Members : AcceptGroup(d) \/ LeaveGroupCall(d)
    \/ GroupRuntime

GroupSpec == GroupInit /\ [][GroupNext]_gvars
------------------------------------------------------------------------------
GroupTypeOK ==
    /\ gview \in [Members -> {"none", "missed", "incoming", "ringing", "connecting", "active", "ended"}]
    /\ seat \in [Members -> [Members -> {"ringing", "connecting", "active"} \cup Over]]
    /\ glocal \subseteq Members /\ gcapt \subseteq Members
    /\ gready \in [Members -> SUBSET Members] /\ goffers \in [Members -> SUBSET Members]
    /\ garmed \in [Members -> SUBSET Members] /\ gbanned \in [Members -> SUBSET Members]
    /\ gposted \subseteq GControls /\ glost \subseteq GControls /\ gdone \subseteq gposted
    /\ gaged \in BOOLEAN

\* Media flows only between two devices whose users both joined this call: the
\* other side said so itself (calls.ts mediaAllowed).
ConsentBeforeMedia ==
    \A d, e \in Members :
        GLive(d) /\ seat[d][e] = "active" =>
            /\ d \in glocal
            /\ GControl(e, d, "accept") \in gposted

\* Once everything posted was projected, two devices that both joined and have
\* not parted know of each other's readiness, so their link can form, unless the
\* one that knows could not answer (the timer of the seat ends it then).
Uninvited(d) == d # Host /\ GControl(Host, d, "invite") \notin gposted
AllProjected == gcapt = {} /\ \A c \in gposted \ gdone : Through(c.to) \/ Uninvited(c.to)
Unanswered(d, e) == GControl(d, e, "accept") \in glost \ gposted
ReadyTogether ==
    AllProjected => \A d, e \in glocal :
        Seated(d, e) /\ Seated(e, d) /\ e \in gready[d] /\ ~Unanswered(d, e) => d \in gready[e]
=============================================================================
