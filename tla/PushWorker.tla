------------------------------- MODULE PushWorker -------------------------------
(*****************************************************************************)
(* The pushes that announce queued envelopes: delivery_notifications of      *)
(* DeliveryStore, DeliveryNotificationWorker, WakeService.deliverQueued and  *)
(* the push routes of WakeRegistry.                                          *)
(*                                                                           *)
(* A job is written in the transaction that accepts its envelope, and goes   *)
(* with it. The worker reads a page of due jobs and asks the provider for a  *)
(* batch of them at a time; between the read and the request, and while the  *)
(* provider is asked, anything happens. The service may die at any time.     *)
(* Time passes in ticks, one of which is the pause of an idle worker.        *)
(*****************************************************************************)
EXTENDS FiniteSets, SequencesExt, Naturals

CONSTANTS Pushes,       \* envelopes that ask for a push, each to a recipient of its own
          CallPushes,   \* of these, the invites of calls
          Page,         \* jobs the worker reads (20)
          Batch,        \* requests side by side (4)
          RingTicks,    \* ticks an invite rings (60 s)
          LongestBackoff, \* ticks between two attempts at most (60 s)
          Registrations,  \* bound: registrations of a route in a run
          MaxDeaths     \* bound: deaths of the service in a run

ASSUME PushAssumption ==
    /\ CallPushes \subseteq Pushes
    /\ {Page, Batch, RingTicks, LongestBackoff} \subseteq Nat \ {0} /\ Batch <= Page
    /\ {Registrations, MaxDeaths} \subseteq Nat

VARIABLES
    spool,     \* [Pushes -> "unsent", "held" or "gone"]: the envelope
    line,      \* jobs in the order of next_attempt
    wait,      \* [Pushes -> ticks until next_attempt]
    tries,     \* [Pushes -> attempts]
    ringLeft,  \* [Pushes -> ticks that the invite rings]
    page,      \* rest of the page that the cycle read
    asked,     \* requests under way
    worker,    \* "idle" or "running"
    timer,     \* "soon" or "later", of an idle worker
    wakePending, \* wakeNow was called during the cycle
    routeAt,     \* [Pushes -> updated of the recipient's push_routes row, 0: no row]
    token,     \* [Pushes -> token of that row]
    clock,     \* registrations so far, the time of the last one
    alerted,   \* history: envelopes whose alert the provider accepted
    deaths     \* deaths so far

pushVars == <<spool, line, wait, tries, ringLeft, page, asked, worker, timer, wakePending, routeAt,
              token, clock, alerted, deaths>>
------------------------------------------------------------------------------
Tokens == {"old", "new"}
Jobs == ToSet(line)
Requests == [push: Pushes, ringing: BOOLEAN, at: 0 .. Registrations, token: Tokens,
             dead: 0 .. Registrations]

Smaller(a, b) == IF a < b THEN a ELSE b

envelopes == <<spool, ringLeft>>
loop == <<page, worker, timer, wakePending>>
routes == <<routeAt, token, clock>>

PushInit ==
    /\ spool = [e \in Pushes |-> "unsent"] /\ line = <<>>
    /\ wait = [e \in Pushes |-> 0] /\ tries = [e \in Pushes |-> 0]
    /\ ringLeft = [e \in Pushes |-> IF e \in CallPushes THEN RingTicks ELSE 0]
    /\ page = <<>> /\ asked = {} /\ worker = "idle" /\ timer = "soon" /\ wakePending = FALSE
    /\ clock \in {0, 1} /\ clock <= Registrations
    /\ routeAt = [e \in Pushes |-> clock] /\ token = [e \in Pushes |-> "old"]
    /\ alerted = {} /\ deaths = 0

\* wakeNow, after a submission.
WakeNow == IF worker = "running" THEN wakePending' = TRUE /\ UNCHANGED timer
           ELSE timer' = "soon" /\ UNCHANGED wakePending

\* The job of an envelope is deleted; it may be gone already.
Delete(e) ==
    IF e \notin Jobs THEN UNCHANGED line
    ELSE \E i \in 1 .. Len(line) : line[i] = e /\ line' = RemoveAt(line, i)

\* A new job is due at once, behind those that are.
SubmitPush(e) ==
    /\ spool[e] = "unsent"
    /\ spool' = [spool EXCEPT ![e] = "held"]
    /\ \E i \in 1 .. Len(line) + 1 :
          /\ \A j \in 1 .. Len(line) : j < i <=> wait[line[j]] = 0
          /\ line' = InsertAt(line, i, e)
    /\ WakeNow
    /\ UNCHANGED <<wait, tries, ringLeft, page, asked, worker, routes, alerted, deaths>>

\* The recipient's ACK, a block, an unlink and the expiry all remove the ciphertext
\* and, by its foreign key, the job.
Consumed(e) ==
    /\ spool[e] = "held"
    /\ spool' = [spool EXCEPT ![e] = "gone"]
    /\ Delete(e)
    /\ UNCHANGED <<wait, tries, ringLeft, loop, asked, routes, alerted, deaths>>
------------------------------------------------------------------------------
(* The worker.                                                               *)

\* tick: the first jobs that are due.
StartCycle ==
    /\ worker = "idle" /\ timer = "soon"
    /\ worker' = "running"
    /\ \E n \in 0 .. Smaller(Page, Len(line)) :
          /\ \A i \in 1 .. n : wait[line[i]] = 0
          /\ n < Smaller(Page, Len(line)) => wait[line[n + 1]] > 0
          /\ page' = SubSeq(line, 1, n)
    /\ UNCHANGED <<envelopes, line, wait, tries, asked, timer, wakePending, routes, alerted, deaths>>

\* Defect: the page is believed.
AskForPage ==
    LET batch == {page[i] : i \in 1 .. Smaller(Batch, Len(page))} IN
    /\ worker = "running" /\ asked = {} /\ page # <<>>
    /\ page' = SubSeq(page, Batch + 1, Len(page))
    /\ asked' = {[push |-> e, ringing |-> ringLeft[e] > 0, at |-> routeAt[e], token |-> token[e],
                dead |-> 0] : e \in batch}
    /\ UNCHANGED <<envelopes, line, wait, tries, worker, timer, wakePending, routes, alerted, deaths>>

\* The next batch: a job whose envelope is gone is removed, for the others the
\* provider is asked, as a ring or, after the ring window, as an alert.
Ask ==
    LET batch == {page[i] : i \in 1 .. Smaller(Batch, Len(page))} IN
    /\ worker = "running" /\ asked = {} /\ page # <<>>
    /\ page' = SubSeq(page, Batch + 1, Len(page))
    /\ LET left == {e \in batch \cap Jobs : spool[e] # "held"} IN
       IF left = {} THEN UNCHANGED line ELSE line' = SelectSeq(line, LAMBDA e : e \notin left)
    /\ asked' = {[push |-> e, ringing |-> ringLeft[e] > 0, at |-> routeAt[e], token |-> token[e],
                dead |-> 0]
                    : e \in {f \in batch : spool[f] = "held"}}
    /\ UNCHANGED <<envelopes, wait, tries, worker, timer, wakePending, routes, alerted, deaths>>

\* notificationResult with a later attempt; the job may be gone. Jobs with the
\* same time are in any order.
Reschedule(e, ticks) ==
    IF e \notin Jobs THEN UNCHANGED <<line, wait>>
    ELSE /\ wait' = [wait EXCEPT ![e] = ticks]
         /\ \E was, i \in 1 .. Len(line) :
               LET others == RemoveAt(line, was) IN
               /\ line[was] = e
               /\ \A j \in 1 .. Len(others) :
                     /\ j < i => wait[others[j]] <= ticks
                     /\ j >= i => wait[others[j]] >= ticks
               /\ line' = InsertAt(others, i, e)

\* Defect: a ring that was accepted is the end of the job.
RangOnce(r) ==
    /\ r \in asked /\ r.ringing /\ r.at > 0
    /\ asked' = asked \ {r}
    /\ Delete(r.push)
    /\ UNCHANGED <<envelopes, wait, tries, loop, routes, alerted, deaths>>

\* A ring that was accepted comes up again when its window ends.
Rang(r) ==
    /\ r \in asked /\ r.ringing /\ r.at > 0
    /\ asked' = asked \ {r}
    /\ Reschedule(r.push, ringLeft[r.push])
    /\ UNCHANGED <<envelopes, tries, loop, routes, alerted, deaths>>

\* An alert that was accepted is the last.
Alerted(r) ==
    /\ r \in asked /\ ~r.ringing /\ r.at > 0
    /\ asked' = asked \ {r}
    /\ Delete(r.push)
    /\ alerted' = alerted \cup {r.push}
    /\ UNCHANGED <<envelopes, wait, tries, loop, routes, deaths>>

\* Defect: a refused job stays where it is.
PutOffAtOnce(r) ==
    /\ r \in asked
    /\ asked' = asked \ {r}
    /\ UNCHANGED <<line, wait, tries, envelopes, loop, alerted, deaths>>

\* No route, a limit, a failure of the provider: later again.
PutOff(r) ==
    /\ r \in asked
    /\ asked' = asked \ {r}
    /\ Reschedule(r.push, Smaller(tries[r.push] + 1, LongestBackoff))
    /\ tries' = [tries EXCEPT ![r.push] =
           IF r.push \in Jobs THEN Smaller(@ + 1, LongestBackoff) ELSE @]
    /\ UNCHANGED <<envelopes, loop, alerted, deaths>>

\* invalidate: a row of that token that is no younger than the invalidation.
Invalidate(e, tok, since) ==
    /\ routeAt' = [routeAt EXCEPT ![e] = IF token[e] = tok /\ @ <= since THEN 0 ELSE @]
    /\ UNCHANGED <<token, clock>>

\* The provider finds that the token went out of use, and says so later.
Unregistered(r) ==
    /\ r \in asked /\ r.at > 0 /\ r.dead = 0
    /\ asked' = (asked \ {r}) \cup {[r EXCEPT !.dead = clock]}
    /\ UNCHANGED <<envelopes, line, wait, tries, loop, routes, alerted, deaths>>

Refusal(r) ==
    /\ PutOff(r)
    /\ IF r.dead = 0 THEN UNCHANGED routes ELSE Invalidate(r.push, r.token, r.dead)

\* The end of the cycle. Due work and a wake resume at once.
EndCycle ==
    /\ worker = "running" /\ page = <<>> /\ asked = {}
    /\ worker' = "idle" /\ wakePending' = FALSE
    /\ timer' = IF wakePending \/ \E e \in Jobs : wait[e] = 0 THEN "soon" ELSE "later"
    /\ UNCHANGED <<envelopes, line, wait, tries, page, asked, routes, alerted, deaths>>
------------------------------------------------------------------------------
\* push-register: a token of its own, or the one it has.
RegisterRoute(e, tok) ==
    /\ clock < Registrations /\ clock' = clock + 1
    /\ routeAt' = [routeAt EXCEPT ![e] = clock + 1] /\ token' = [token EXCEPT ![e] = tok]
    /\ UNCHANGED <<envelopes, line, wait, tries, loop, asked, alerted, deaths>>

\* A tick is longer than what is to be done at once.
PushTick ==
    /\ worker = "running" \/ timer = "later"
    /\ wait' = [e \in Pushes |-> IF wait[e] > 0 THEN wait[e] - 1 ELSE 0]
    /\ ringLeft' = [e \in Pushes |-> IF spool[e] # "unsent" /\ ringLeft[e] > 0
                                     THEN ringLeft[e] - 1 ELSE ringLeft[e]]
    /\ timer' = "soon"
    /\ UNCHANGED <<spool, line, tries, page, asked, worker, wakePending, routes, alerted, deaths>>

\* The service dies and starts again: the database remains.
ServiceDies ==
    /\ deaths < MaxDeaths /\ deaths' = deaths + 1
    /\ page' = <<>> /\ asked' = {} /\ worker' = "idle" /\ timer' = "soon" /\ wakePending' = FALSE
    /\ UNCHANGED <<envelopes, line, wait, tries, routes, alerted>>

Accepted(r) == r.dead = 0 /\ (Rang(r) \/ Alerted(r))

PushNext ==
    \/ \E e \in Pushes : SubmitPush(e) \/ Consumed(e)
    \/ StartCycle \/ Ask \/ EndCycle
    \/ \E r \in asked : Accepted(r) \/ Refusal(r) \/ Unregistered(r)
    \/ \E e \in Pushes, tok \in Tokens : RegisterRoute(e, tok)
    \/ PushTick \/ ServiceDies

PushSpec == PushInit /\ [][PushNext]_pushVars

\* The provider answers, and does not refuse for ever what it could accept.
PushFairness ==
    /\ WF_pushVars(StartCycle) /\ WF_pushVars(Ask) /\ WF_pushVars(EndCycle) /\ WF_pushVars(PushTick)
    /\ WF_pushVars(\E r \in asked : Accepted(r) \/ Refusal(r))
    /\ SF_pushVars(\E r \in asked : Accepted(r))
------------------------------------------------------------------------------
PushTypeOK ==
    /\ spool \in [Pushes -> {"unsent", "held", "gone"}]
    /\ Jobs \subseteq Pushes /\ Len(line) = Cardinality(Jobs)
    /\ wait \in [Pushes -> 0 .. RingTicks + LongestBackoff] /\ tries \in [Pushes -> 0 .. LongestBackoff]
    /\ ringLeft \in [Pushes -> 0 .. RingTicks]
    /\ Len(page) <= Page /\ ToSet(page) \subseteq Pushes
    /\ asked \subseteq Requests /\ Cardinality(asked) <= Batch
    /\ worker \in {"idle", "running"} /\ timer \in {"soon", "later"} /\ wakePending \in BOOLEAN
    /\ routeAt \in [Pushes -> 0 .. Registrations] /\ token \in [Pushes -> Tokens]
    /\ clock \in 0 .. Registrations
    /\ alerted \subseteq Pushes /\ deaths \in 0 .. MaxDeaths

\* An envelope that waits for its recipient has a push that is owed, or its alert
\* was accepted: no failure, ring or restart loses the intent, and a call whose
\* ring was accepted still owes the missed call.
PushIsOwed == \A e \in Pushes : spool[e] = "held" => e \in Jobs \/ e \in alerted

\* However long the page and the provider keep the worker waiting, nothing stale
\* is acted upon: the provider is not asked to announce what its recipient took,
\* or to ring after the window or the missed call, and a registration younger
\* than an invalidation survives it, also when it brings the same token back.
PushesAreCurrent ==
    [][/\ \A r \in asked' : r.push \notin {q.push : q \in asked} =>
              /\ spool[r.push] = "held"
              /\ r.ringing => ringLeft[r.push] > 0 /\ r.push \notin alerted
       /\ \A e \in Pushes : routeAt[e] > 0 /\ routeAt'[e] = 0 =>
              \E r \in asked \ asked' : r.push = e /\ r.token = token[e] /\ routeAt[e] <= r.dead]_pushVars

\* A push that is owed to a recipient with a route is done in the end, also behind
\* more jobs that fail for ever than fit a page.
OwedPushIsMade ==
    \A e \in Pushes : e \in Jobs /\ routeAt[e] > 0 ~> e \notin Jobs \/ routeAt[e] = 0
=============================================================================
