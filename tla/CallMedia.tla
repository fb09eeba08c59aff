------------------------------ MODULE CallMedia ------------------------------
(*****************************************************************************)
(* The media of one direct call between two current devices: the connection  *)
(* that PreparedCall negotiates while it rings, without media, and adds the  *)
(* media to once both sides agreed, or else the link that PeerMesh           *)
(* negotiates after the answer; and the relay allocation that the callee     *)
(* reserves meanwhile. Module Calls has the call itself.                     *)
(*                                                                           *)
(* JavaScript runs to the next await: every await of the network, the        *)
(* database or the native connection ends a step. A description is told by   *)
(* its phase: transport and media over the prepared connection, plain over   *)
(* the link; the caller's are offers, the callee's answers. A description    *)
(* with more candidates replaces the one before and changes nothing else.    *)
(*****************************************************************************)
EXTENDS FiniteSets, Naturals

CONSTANTS MaxNews,     \* bound: times that the candidates of a prepared connection change, per end
          MaxCopies,   \* bound: second copies of controls and descriptions in a run
          MaxBreaks    \* bound: connections, sends and configurations that fail in a run

ASSUME NegotiationAssumption == MaxNews \in Nat /\ MaxCopies \in Nat /\ MaxBreaks \in Nat

VARIABLES
    status,   \* [Ends -> status of the call]: DeviceCalls.value
    mesh,     \* [Ends -> tables of PeerMesh]
    warm,     \* [Ends -> the prepared call]
    wire,     \* controls and descriptions on their way
    news,     \* [Ends -> changes of the candidates so far]
    copies,   \* second copies so far
    breaks,   \* failures so far
    said      \* history: the call was "answered", was "hung up", something "broke"

negotiationVars == <<status, mesh, warm, wire, news, copies, breaks, said>>
------------------------------------------------------------------------------
Ends == {"caller", "callee"}
FarEnd(e) == IF e = "caller" THEN "callee" ELSE "caller"

Going(e) == status[e] \in {"ringing", "connecting", "active"}
Consents(e) == status[e] \in {"connecting", "active"}

To(e, what) == [to |-> e, what |-> what]
From(e, what) == To(FarEnd(e), what)

\* Whether the capture is in the call; what is awaited; what is being made
\* (incomingPreparation, preparingCall, pendingMedia); the native connections
\* that are not closed; how far the link of mediaLinks is; deferredCallSignal.
NoTables == [captured |-> FALSE, awaits |-> {}, wants |-> {}, open |-> {},
             link |-> "none", deferred |-> FALSE]

\* Its selection; whether the tracks are added; phase, remotePhase; pending;
\* signals; what the serialized work awaits and for which phase; how far the
\* activation is; what publish awaits, the candidates or the send of a phase,
\* and whether offer called it; sent; whether the transport is connected.
NoWarm == [stage |-> "none", selected |-> FALSE, tracks |-> FALSE,
           phase |-> "transport", far |-> "none", kept |-> FALSE, signals |-> {},
           job |-> "idle", on |-> "none", offer |-> "no",
           pub |-> "idle", opener |-> FALSE, sent |-> "none", up |-> FALSE]

NegotiationInit ==
    /\ status = [e \in Ends |-> IF e = "caller" THEN "ringing" ELSE "none"]
    /\ mesh = [e \in Ends |-> IF e = "callee" THEN NoTables
                              ELSE [NoTables EXCEPT !.captured = TRUE, !.awaits = {"invite"}]]
    /\ warm = [e \in Ends |-> NoWarm]
    /\ wire = {To("callee", "invite")}
    /\ \E n \in 0 .. MaxNews : news = [e \in Ends |-> n]
    /\ copies \in 0 .. MaxCopies /\ breaks \in 0 .. MaxBreaks /\ said = {}
------------------------------------------------------------------------------
(* PreparedCall, on the record w of end e.                                   *)

LiveWarm(e) == warm[e].stage = "live" /\ Going(e)
Negotiating(w) == w.job \in {"opening", "remote", "answer", "offer"}
Described(e, w) == IF e = "caller" THEN w.job # "opening" ELSE w.far # "none"
Sending(w) == w.pub \in {"transport", "media"}

\* close: what is being sent goes out all the same.
CloseWarm(w) == [NoWarm EXCEPT !.stage = "closed", !.pub = IF Sending(w) THEN w.pub ELSE "idle"]

\* publish is called; it gathers candidates first.
Publish(e, w) ==
    IF w.pub = "idle" /\ ~Negotiating(w) /\ Described(e, w) THEN [w EXCEPT !.pub = "gather"] ELSE w

\* publish goes on after an await: it sends another description or is through.
PublishOn(e, w) ==
    IF /\ ~Negotiating(w) /\ w.sent # w.phase
       /\ w.phase = "media" => w.selected /\ Consents(e)
    THEN [w EXCEPT !.pub = w.phase, !.sent = w.phase]
    ELSE [w EXCEPT !.pub = "idle", !.opener = FALSE, !.job = IF @ = "publishing" THEN "idle" ELSE @]

\* activate: the tracks are added; a callee takes up the description that waited
\* for them, a caller queues the media offer, once, if the transport is stable.
Activate(e, w) ==
    IF e = "callee"
    THEN [w EXCEPT !.tracks = TRUE, !.kept = FALSE,
                   !.signals = IF w.kept THEN @ \cup {"media"} ELSE @]
    ELSE [w EXCEPT !.tracks = TRUE,
                   !.offer = IF w.far = w.phase /\ @ = "no" THEN "queued" ELSE @]

\* finish: the media of both sides is negotiated and the transport is up.
Complete(e, w) ==
    /\ w.selected /\ w.tracks /\ Consents(e) /\ w.up
    /\ w.phase = "media" /\ w.far = "media" /\ w.job # "answer"

Become(e, w) == warm' = [warm EXCEPT ![e] = w]
BecomeFinished(e, w) ==
    /\ Become(e, w)
    /\ status' = [status EXCEPT ![e] = IF Complete(e, w) THEN "active" ELSE @]
------------------------------------------------------------------------------
(* The end of a call and of its connections.                                 *)

\* end and endMedia: everything of the call is closed and forgotten.
EndCall(e) ==
    /\ status' = [status EXCEPT ![e] = "over"]
    /\ mesh' = [mesh EXCEPT ![e].wants = {}, ![e].open = {}, ![e].link = "none", ![e].deferred = FALSE]
    /\ Become(e, CloseWarm(warm[e]))

EndAndTell(e) == EndCall(e) /\ wire' = wire \cup {From(e, "end")}

\* The user hangs up or declines, a timer of module Calls fires, a capture fails.
Quit(e) ==
    /\ Going(e) /\ EndAndTell(e)
    /\ said' = said \cup {"hung up"}
    /\ UNCHANGED <<news, copies, breaks>>

\* Something fails, or nothing does.
Break == breaks < MaxBreaks /\ breaks' = breaks + 1 /\ said' = said \cup {"broke"}
Unbroken == UNCHANGED <<breaks, said>>

\* The prepared call is closed, the call goes on.
DropWarm(e) ==
    /\ Become(e, CloseWarm(warm[e]))
    /\ mesh' = [mesh EXCEPT ![e].open = @ \ {"warm"}]
    /\ UNCHANGED <<status, wire>>

\* fail: a prepared call that was selected takes the call along.
FailWarm(e) == IF warm[e].selected THEN EndAndTell(e) ELSE DropWarm(e)

\* The prepared connection fails, as it does when the far side closed it, or
\* its deadline passes.
WarmBreaks(e) ==
    /\ LiveWarm(e)
    /\ Break \/ (warm[e].up /\ "warm" \notin mesh[FarEnd(e)].open /\ Unbroken)
    /\ FailWarm(e)
    /\ UNCHANGED <<news, copies>>

\* Likewise the link.
LinkBreaks(e) ==
    /\ Going(e) /\ mesh[e].link # "none"
    /\ Break \/ (status[e] = "active" /\ mesh[FarEnd(e)].link = "none" /\ Unbroken)
    /\ EndAndTell(e)
    /\ UNCHANGED <<news, copies>>

\* hooks.send rejects: if offer called publish, the prepared call is only closed.
SendBreaks(e) ==
    /\ LiveWarm(e) /\ Sending(warm[e]) /\ Break
    /\ IF warm[e].opener
       THEN Become(e, [CloseWarm(warm[e]) EXCEPT !.pub = "idle"])
            /\ mesh' = [mesh EXCEPT ![e].open = @ \ {"warm"}] /\ UNCHANGED <<status, wire>>
       ELSE FailWarm(e)
    /\ UNCHANGED <<news, copies>>

\* A configuration cannot be had: only a link takes the call along.
ConfigurationBreaks(e, making) ==
    /\ making \in mesh[e].awaits \cap mesh[e].wants /\ Break
    /\ IF making = "link"
       THEN /\ status' = [status EXCEPT ![e] = "over"]
            /\ mesh' = [mesh EXCEPT ![e] =
                           [NoTables EXCEPT !.captured = mesh[e].captured, !.awaits = mesh[e].awaits \ {"link"}]]
            /\ Become(e, CloseWarm(warm[e]))
            /\ wire' = wire \cup {From(e, "end")}
       ELSE /\ mesh' = [mesh EXCEPT ![e].awaits = @ \ {making}, ![e].wants = @ \ {making}]
            /\ UNCHANGED <<status, warm, wire>>
    /\ UNCHANGED <<news, copies>>
------------------------------------------------------------------------------
(* The prepared connection.                                                  *)

warmOnly == <<status, mesh, wire, news, copies, breaks, said>>
finishOnly == <<mesh, wire, news, copies, breaks, said>>

\* start goes on after the invite was enqueued: publishPreparedMedia.
InviteSent ==
    /\ "invite" \in mesh["caller"].awaits
    /\ LET begun == IF Going("caller") THEN {"warm"} ELSE {}
       IN mesh' = [mesh EXCEPT !["caller"].awaits = (@ \ {"invite"}) \cup begun,
                               !["caller"].wants = @ \cup begun]
    /\ UNCHANGED <<status, warm, wire, news, copies, breaks, said>>

\* Defect: the connection is made beside the one of the pool.
PreparedBeside(e) ==
    /\ "warm" \in mesh[e].awaits
    /\ mesh' = [mesh EXCEPT ![e].awaits = @ \ {"warm"}, ![e].wants = @ \ {"warm"},
                            ![e].open = IF "warm" \in mesh[e].wants THEN @ \cup {"warm"} ELSE @]
    /\ UNCHANGED <<status, warm, wire, news, copies, breaks, said>>

\* prepareCallTransport goes on: the call may have been answered or be over.
\* The callee takes over the allocation of its pool, and has the offer that
\* began this.
Prepared(e) ==
    LET m == mesh[e] IN
    /\ "warm" \in m.awaits
    /\ "pool" \in m.wants => "pool" \notin m.awaits
    /\ IF "warm" \in m.wants /\ status[e] = "ringing"
       THEN /\ Become(e, [NoWarm EXCEPT !.stage = "live",
                              !.job = IF e = "caller" THEN "opening" ELSE "idle",
                              !.signals = IF e = "callee" THEN {"transport"} ELSE {}])
            /\ mesh' = [mesh EXCEPT ![e].awaits = @ \ {"warm"}, ![e].wants = @ \ {"pool", "warm"},
                                    ![e].open = (@ \ {"pool"}) \cup {"warm"}]
       ELSE /\ mesh' = [mesh EXCEPT ![e].awaits = @ \ {"warm"}, ![e].wants = @ \ {"warm"}]
            /\ UNCHANGED warm
    /\ UNCHANGED <<status, wire, news, copies, breaks, said>>

\* apply, the next signal of the receive loop, transport before media.
Apply(e) ==
    LET w == warm[e]
        what == IF "transport" \in w.signals THEN "transport" ELSE "media"
        rest == [w EXCEPT !.signals = @ \ {what}]
        ignored == \/ what = "transport" /\ w.far = "media"
                   \/ what = "media" /\ ~(w.selected /\ Consents(e))
        known == what = w.far \/ (e = "caller" /\ what # w.phase)
    IN
    /\ LiveWarm(e) /\ w.job = "idle" /\ w.signals # {}
    /\ Become(e, IF ignored THEN rest
                 ELSE IF what = "media" /\ ~w.tracks THEN [rest EXCEPT !.kept = TRUE]
                 ELSE IF known THEN rest
                 ELSE [rest EXCEPT !.job = "remote", !.on = what])
    /\ UNCHANGED warmOnly

\* Defect: the transport answer does not go on to the media.
RemoteSetQuietly(e) ==
    LET w == [warm[e] EXCEPT !.far = warm[e].on, !.on = "none", !.job = "idle"] IN
    /\ LiveWarm(e) /\ warm[e].job = "remote"
    /\ IF e = "callee"
       THEN Become(e, [w EXCEPT !.phase = w.far, !.sent = "none", !.job = "answer"]) /\ UNCHANGED status
       ELSE BecomeFinished(e, w)
    /\ UNCHANGED finishOnly

\* Defect: the media follows as soon as the transport is answered.
RemoteSetEagerly(e) ==
    LET w == [warm[e] EXCEPT !.far = warm[e].on, !.on = "none", !.job = "idle"] IN
    /\ LiveWarm(e) /\ warm[e].job = "remote"
    /\ IF e = "callee"
       THEN Become(e, [w EXCEPT !.phase = w.far, !.sent = "none", !.job = "answer"]) /\ UNCHANGED status
       ELSE BecomeFinished(e, IF w.far = "transport" THEN Activate(e, w) ELSE w)
    /\ UNCHANGED finishOnly

\* setRemoteDescription resolves: a callee answers, a caller that was accepted
\* meanwhile goes on to the media.
RemoteSet(e) ==
    LET w == [warm[e] EXCEPT !.far = warm[e].on, !.on = "none", !.job = "idle"] IN
    /\ LiveWarm(e) /\ warm[e].job = "remote"
    /\ IF e = "callee"
       THEN Become(e, [w EXCEPT !.phase = w.far, !.sent = "none", !.job = "answer"]) /\ UNCHANGED status
       ELSE BecomeFinished(e, IF w.far = "transport" /\ w.tracks THEN Activate(e, w) ELSE w)
    /\ UNCHANGED finishOnly

\* The queued activation has its turn.
OfferMedia(e) ==
    /\ LiveWarm(e) /\ Consents(e)
    /\ warm[e].job = "idle" /\ warm[e].offer = "queued"
    /\ Become(e, [warm[e] EXCEPT !.job = "offer", !.offer = "made"])
    /\ UNCHANGED warmOnly

\* setLocalDescription resolves: the work awaits publish, unless that runs
\* already and will go on to the new description by itself.
LocalSet(e) ==
    LET job == warm[e].job
        w == IF job = "offer" THEN [warm[e] EXCEPT !.phase = "media", !.sent = "none", !.job = "idle"]
                              ELSE [warm[e] EXCEPT !.job = "idle"]
        v == Publish(e, w)
    IN
    /\ LiveWarm(e) /\ job \in {"opening", "answer", "offer"}
    /\ IF v = w THEN BecomeFinished(e, w)
       ELSE Become(e, IF job = "opening" THEN [v EXCEPT !.opener = TRUE] ELSE [v EXCEPT !.job = "publishing"])
            /\ UNCHANGED status
    /\ UNCHANGED finishOnly

\* The candidates change: publish is called, which may be running or barred.
Candidate(e) ==
    /\ LiveWarm(e) /\ Described(e, warm[e]) /\ news[e] < MaxNews
    /\ news' = [news EXCEPT ![e] = @ + 1]
    /\ Become(e, Publish(e, [warm[e] EXCEPT !.sent = "none"]))
    /\ UNCHANGED <<status, mesh, wire, copies, breaks, said>>

\* publish goes on; the work that awaits it finishes when it is through.
Published(e) ==
    LET w == PublishOn(e, warm[e]) IN
    IF warm[e].job = "publishing" /\ w.job = "idle" THEN BecomeFinished(e, w)
                                                   ELSE Become(e, w) /\ UNCHANGED status

Gathered(e) ==
    /\ LiveWarm(e) /\ warm[e].pub = "gather"
    /\ Published(e)
    /\ UNCHANGED finishOnly

\* hooks.send resolves: the description is enqueued if the call goes on.
Sent(e) ==
    LET w == warm[e] IN
    /\ Sending(w)
    /\ wire' = IF Going(e) THEN wire \cup {From(e, w.pub)} ELSE wire
    /\ IF LiveWarm(e) THEN Published(e)
                      ELSE Become(e, [w EXCEPT !.pub = "idle"]) /\ UNCHANGED status
    /\ UNCHANGED <<mesh, news, copies, breaks, said>>

\* The transport of the prepared connection is up at this end.
TransportUp(e) ==
    /\ LiveWarm(e) /\ ~warm[e].up
    /\ warm["caller"].far # "none" /\ warm[FarEnd(e)].stage = "live"
    /\ BecomeFinished(e, [warm[e] EXCEPT !.up = TRUE])
    /\ UNCHANGED finishOnly
------------------------------------------------------------------------------
(* The pool and the link.                                                    *)

meshOnly == <<status, warm, wire, news, copies, breaks, said>>

\* prepareIncomingMedia goes on.
Pooled ==
    LET m == mesh["callee"] IN
    /\ "pool" \in m.awaits
    /\ mesh' = [mesh EXCEPT !["callee"].awaits = @ \ {"pool"},
                            !["callee"].open = IF "pool" \in m.wants THEN @ \cup {"pool"} ELSE @]
    /\ UNCHANGED meshOnly

\* createMedia goes on: it has the tracks added and negotiates a description.
Linked(e) ==
    LET m == mesh[e] IN
    /\ "link" \in m.awaits /\ "pool" \notin m.awaits
    /\ mesh' = IF "link" \in m.wants /\ status[e] = "connecting"
               THEN [mesh EXCEPT ![e].awaits = @ \ {"link"}, ![e].wants = @ \ {"pool", "link"},
                                 ![e].open = (@ \ {"pool"}) \cup {"link"}, ![e].link = "made"]
               ELSE [mesh EXCEPT ![e].awaits = @ \ {"link"}, ![e].wants = @ \ {"link"}]
    /\ UNCHANGED meshOnly

\* publishMedia: the description of the link is enqueued.
LinkPublished(e) ==
    /\ Going(e) /\ mesh[e].link = "made"
    /\ mesh' = [mesh EXCEPT ![e].link = "sent"]
    /\ wire' = wire \cup {From(e, "plain")}
    /\ UNCHANGED <<status, warm, news, copies, breaks, said>>

\* The link is connected at this end.
LinkUp(e) ==
    /\ status[e] = "connecting" /\ mesh[e].link # "none"
    /\ mesh["caller"].link = "answered" /\ mesh["callee"].link = "sent"
    /\ status' = [status EXCEPT ![e] = "active"]
    /\ UNCHANGED finishOnly /\ UNCHANGED warm
------------------------------------------------------------------------------
(* The callee answers.                                                       *)

\* accept: over the prepared connection if it has the caller's offer, and what
\* there is of the other way is discarded; or the other way round.
PickUp ==
    LET w == warm["callee"]
        prepared == w.stage = "live" /\ w.far = "transport"
    IN
    /\ status["callee"] = "ringing"
    /\ status' = [status EXCEPT !["callee"] = "connecting"]
    /\ said' = said \cup {"answered"}
    /\ wire' = wire \cup {From("callee", IF prepared THEN "accept prepared" ELSE "accept")}
    /\ IF prepared
       THEN /\ Become("callee", [w EXCEPT !.selected = TRUE])
            /\ mesh' = [mesh EXCEPT !["callee"].awaits = @ \cup {"capture"},
                                    !["callee"].wants = @ \ {"pool", "link"},
                                    !["callee"].open = @ \ {"pool", "link"},
                                    !["callee"].deferred = FALSE]
       ELSE /\ Become("callee", IF w.stage = "live" THEN CloseWarm(w) ELSE w)
            /\ mesh' = [mesh EXCEPT !["callee"].awaits = @ \cup {"capture"},
                                    !["callee"].wants = @ \ {"warm"},
                                    !["callee"].open = @ \ {"warm"}]
    /\ UNCHANGED <<news, copies, breaks>>

\* The capture of the callee is in the call, which resumes after an await.
CaptureReady ==
    /\ "capture" \in mesh["callee"].awaits
    /\ mesh' = IF Going("callee")
               THEN [mesh EXCEPT !["callee"].awaits = (@ \ {"capture"}) \cup {"resume"},
                                 !["callee"].captured = TRUE]
               ELSE [mesh EXCEPT !["callee"].awaits = @ \ {"capture"}]
    /\ UNCHANGED meshOnly

\* resumeCallMedia: the tracks go to the prepared call, or the offer that waited
\* for the capture is taken up.
Resume ==
    LET m == mesh["callee"]
        offered == m.deferred /\ status["callee"] = "connecting"
    IN
    /\ "resume" \in m.awaits
    /\ IF LiveWarm("callee") /\ warm["callee"].selected
       THEN /\ Become("callee", Activate("callee", warm["callee"]))
            /\ mesh' = [mesh EXCEPT !["callee"].awaits = @ \ {"resume"}]
       ELSE /\ mesh' = [mesh EXCEPT !["callee"].deferred = FALSE,
                            !["callee"].awaits = (@ \ {"resume"}) \cup (IF offered THEN {"link"} ELSE {}),
                            !["callee"].wants = IF offered THEN @ \cup {"link"} ELSE @]
            /\ UNCHANGED warm
    /\ UNCHANGED <<status, wire, news, copies, breaks, said>>
------------------------------------------------------------------------------
(* What arrives, over the prepared connection and through the mailbox.       *)

\* m leaves the wire, or a second copy of it is still to come; more is sent.
Take(m, more) ==
    /\ m \in wire
    /\ \/ wire' = (wire \ {m}) \cup more /\ UNCHANGED copies
       \/ copies < MaxCopies /\ copies' = copies + 1 /\ wire' = wire \cup more
    /\ UNCHANGED <<news, breaks, said>>

\* receive of an invite rings, and prepareIncomingMedia reserves a connection.
InviteArrives ==
    /\ Take(To("callee", "invite"), {})
    /\ IF status["callee"] = "none"
       THEN /\ status' = [status EXCEPT !["callee"] = "ringing"]
            /\ mesh' = [mesh EXCEPT !["callee"].awaits = {"pool"}, !["callee"].wants = {"pool"}]
       ELSE UNCHANGED <<status, mesh>>
    /\ UNCHANGED warm

\* receive of an end or a decline.
EndArrives(e) ==
    /\ Take(To(e, "end"), {})
    /\ IF status[e] = "over" THEN UNCHANGED <<status, mesh, warm>> ELSE EndCall(e)

\* receive of an accept over the prepared connection: a caller that lost it ends.
AcceptPrepared ==
    LET w == warm["caller"]
        usable == w.stage = "live" /\ Described("caller", w)
        m == To("caller", "accept prepared")
    IN
    \/ /\ status["caller"] = "ringing" /\ usable
       /\ Take(m, {})
       /\ status' = [status EXCEPT !["caller"] = "connecting"]
       /\ Become("caller", Activate("caller", [w EXCEPT !.selected = TRUE]))
       /\ UNCHANGED mesh
    \/ status["caller"] = "ringing" /\ ~usable /\ Take(m, {From("caller", "end")}) /\ EndCall("caller")
    \/ status["caller"] # "ringing" /\ Take(m, {}) /\ UNCHANGED <<status, mesh, warm>>

\* receive of an ordinary accept: startMedia gives the prepared connection up.
AcceptPlain ==
    /\ Take(To("caller", "accept"), {})
    /\ IF status["caller"] = "ringing"
       THEN /\ status' = [status EXCEPT !["caller"] = "connecting"]
            /\ Become("caller", IF warm["caller"].stage = "live" THEN CloseWarm(warm["caller"])
                                                                ELSE warm["caller"])
            /\ mesh' = [mesh EXCEPT !["caller"].wants = {"link"},
                                    !["caller"].open = @ \ {"warm"},
                                    !["caller"].awaits = @ \cup {"link"}]
       ELSE UNCHANGED <<status, mesh, warm>>

\* receiveCallSignal of a prepared description: an offer while it rings begins
\* the preparation, what finds no prepared call is dropped.
SignalArrives(e, what) ==
    LET m == mesh[e] IN
    /\ Take(To(e, what), {})
    /\ IF /\ warm[e].stage = "none" /\ what = "transport"
          /\ e = "callee" /\ status[e] = "ringing" /\ "warm" \notin m.wants
       THEN mesh' = [mesh EXCEPT ![e].wants = @ \cup {"warm"}, ![e].awaits = @ \cup {"warm"}]
       ELSE UNCHANGED mesh
    /\ IF LiveWarm(e) THEN Become(e, [warm[e] EXCEPT !.signals = @ \cup {what}]) ELSE UNCHANGED warm
    /\ UNCHANGED status

\* mediaSignal: an offer waits for the answer and the capture; with them it
\* begins a link, unless there is one. An answer completes the caller's link.
PlainArrives(e) ==
    LET m == mesh[e]
        early == status[e] = "ringing" \/ ~m.captured
    IN
    /\ Take(To(e, "plain"), {})
    /\ IF ~Going(e) \/ (LiveWarm(e) /\ warm[e].selected) THEN UNCHANGED mesh
       ELSE IF early THEN mesh' = [mesh EXCEPT ![e].deferred = TRUE]
       ELSE IF e = "caller"
       THEN mesh' = [mesh EXCEPT ![e].link = IF @ = "sent" THEN "answered" ELSE @]
       ELSE IF m.link = "none" /\ "link" \notin m.wants /\ status[e] = "connecting"
       THEN mesh' = [mesh EXCEPT ![e].wants = @ \cup {"link"}, ![e].awaits = @ \cup {"link"},
                                 ![e].deferred = FALSE]
       ELSE mesh' = [mesh EXCEPT ![e].deferred = FALSE]
    /\ UNCHANGED <<status, warm>>

Arrival(e) ==
    \/ EndArrives(e) \/ PlainArrives(e)
    \/ \E what \in {"transport", "media"} : SignalArrives(e, what)

ControlArrives == InviteArrives \/ AcceptPrepared \/ AcceptPlain
------------------------------------------------------------------------------
\* Promises settle and native connections come up.
Proceeds(e) ==
    \/ Prepared(e) \/ Apply(e) \/ RemoteSet(e) \/ OfferMedia(e) \/ LocalSet(e)
    \/ Gathered(e) \/ Sent(e) \/ TransportUp(e)
    \/ Linked(e) \/ LinkPublished(e) \/ LinkUp(e)
    \/ Arrival(e)

NegotiationProceeds ==
    \/ InviteSent \/ Pooled \/ CaptureReady \/ Resume \/ ControlArrives
    \/ \E e \in Ends : Proceeds(e)

NegotiationNext ==
    \/ NegotiationProceeds \/ PickUp
    \/ \E e \in Ends : \/ Candidate(e) \/ Quit(e)
                       \/ WarmBreaks(e) \/ LinkBreaks(e) \/ SendBreaks(e)
                       \/ \E making \in mesh[e].awaits : ConfigurationBreaks(e, making)

\* Whatever was begun goes on. Nothing can go round for ever: the candidates, the
\* copies and the failures of a call are finite.
NegotiationFairness == WF_negotiationVars(NegotiationProceeds)

NegotiationSpec == NegotiationInit /\ [][NegotiationNext]_negotiationVars
------------------------------------------------------------------------------
NegotiationTypeOK ==
    /\ status \in [Ends -> {"none", "ringing", "connecting", "active", "over"}]
    /\ mesh \in [Ends -> [captured: BOOLEAN, awaits: SUBSET {"invite", "capture", "resume", "pool", "warm", "link"},
                          wants: SUBSET {"pool", "warm", "link"}, open: SUBSET {"pool", "warm", "link"},
                          link: {"none", "made", "sent", "answered"}, deferred: BOOLEAN]]
    /\ warm \in [Ends -> [stage: {"none", "live", "closed"}, selected: BOOLEAN, tracks: BOOLEAN,
                          phase: {"transport", "media"}, far: {"none", "transport", "media"}, kept: BOOLEAN,
                          signals: SUBSET {"transport", "media"},
                          job: {"idle", "opening", "remote", "answer", "offer", "publishing"},
                          on: {"none", "transport", "media"}, offer: {"no", "queued", "made"},
                          pub: {"idle", "gather", "transport", "media"}, opener: BOOLEAN,
                          sent: {"none", "transport", "media"}, up: BOOLEAN]]
    /\ wire \subseteq [to: Ends, what: {"invite", "accept", "accept prepared", "end", "transport", "media", "plain"}]
    /\ news \in [Ends -> 0 .. MaxNews] /\ copies \in 0 .. MaxCopies /\ breaks \in 0 .. MaxBreaks
    /\ said \subseteq {"answered", "hung up", "broke"}

\* A phone holds one native connection for a call at most, and none once the call
\* is over, whatever was awaited meanwhile; and two phones that are both in the
\* call negotiate its media the same way (peer-mesh.ts prepareCallTransport,
\* prepareIncomingMedia, createMedia, discardLegacyMedia).
OneTransport ==
    \A e \in Ends :
        /\ mesh[e].open # {} => Going(e) /\ Cardinality(mesh[e].open) = 1
        /\ mesh[e].link # "none" /\ Going(FarEnd(e)) => ~warm[FarEnd(e)].selected

\* No track is added and no link made before the callee answered, nor is there
\* a description with media on the wire.
MediaAfterAnswer ==
    \/ "answered" \in said
    \/ /\ \A e \in Ends : ~warm[e].tracks /\ mesh[e].link = "none"
       /\ \A m \in wire : m.what \notin {"media", "plain"}

\* A call that was answered connects at both ends if nobody hangs up and
\* nothing breaks, however the answer crosses what is negotiated.
AnswerConnects ==
    "answered" \in said ~>
        \/ \A e \in Ends : status[e] = "active"
        \/ said \cap {"hung up", "broke"} # {}
=============================================================================
