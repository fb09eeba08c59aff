---------------------------- MODULE RequestQueue ----------------------------
(*****************************************************************************)
(* PhoneRequestQueue: all commands of a device to the service, one at a      *)
(* time, under a token bucket with a reserve for urgent ones, a pause when   *)
(* the service limits the rate, and the larger bucket that an answer         *)
(* negotiates. Time passes in ticks and is kept relative; a tick refills     *)
(* whole tokens.                                                             *)
(*****************************************************************************)
EXTENDS Integers, FiniteSetsExt

CONSTANTS Capacity,     \* [BOOLEAN -> tokens]: before and after enableDeliverySync (24, 48)
          Refill,       \* [BOOLEAN -> tokens for each tick] (72 and 240 a minute)
          BulkNeeds,    \* tokens that must be there for a bulk request (5)
          Burst,        \* urgent requests in a row before a bulk one is preferred (4)
          Pause,        \* ticks of pause after PHONE_RATE_LIMITED (60 s)
          LongestWait,  \* ticks a single wait lasts at most (60 s)
          Window,       \* ticks of the service's rate window (60 s)
          MaxRequests   \* bound: requests in a run

ASSUME QueueAssumption ==
    /\ \A m \in BOOLEAN : Refill[m] \in Nat \ {0} /\ Capacity[m] \in Nat /\ Capacity[m] >= BulkNeeds
    /\ Capacity[FALSE] <= Capacity[TRUE] /\ Refill[FALSE] <= Refill[TRUE]
    /\ {BulkNeeds, Burst, Pause, LongestWait, Window, MaxRequests} \subseteq Nat \ {0}

VARIABLES
    waitingFor,  \* [{"bulk", "urgent"} -> pending requests]
    drain,       \* the loop: "idle", "ready", "waiting" or "running"
    tokens,      \* tokens at the last update
    since,       \* ticks since that update
    synced,      \* enableDeliverySync was called
    paused,      \* ticks until pausedUntil
    waitFor,     \* ticks until the wait ends
    inRow,       \* urgentCount
    started,     \* [0 .. Window -> requests started at most that many ticks ago]
    requested    \* requests so far

queueVars == <<waitingFor, drain, tokens, since, synced, paused, waitFor, inRow, started, requested>>
------------------------------------------------------------------------------
Least(a, b) == IF a < b THEN a ELSE b
CeilDiv(a, b) == (a + b - 1) \div b
Needs(kind) == IF kind = "urgent" THEN 1 ELSE BulkNeeds

\* Defect: a pass counts the tokens of the last one.
BalanceOfLastPass == tokens

\* The balance that the next update finds.
Balance == Least(Capacity[synced], tokens + since * Refill[synced])

\* After so long a time the bucket is full.
LongSince == CeilDiv(Capacity[TRUE], Refill[FALSE])

\* The queue is made now, or was long ago.
QueueInit ==
    /\ waitingFor = [kind \in {"bulk", "urgent"} |-> 0]
    /\ drain = "idle" /\ tokens = Capacity[FALSE] /\ since \in {0, LongSince} /\ synced = FALSE
    /\ paused = 0 /\ waitFor = 0 /\ inRow = 0
    /\ started = [t \in 0 .. Window |-> 0] /\ requested = 0

\* Defect: an urgent request does not wake the wait.
RequestQuietly(kind) ==
    /\ requested < MaxRequests /\ requested' = requested + 1
    /\ waitingFor' = [waitingFor EXCEPT ![kind] = @ + 1]
    /\ IF drain = "idle" THEN drain' = "ready" /\ waitFor' = 0 ELSE UNCHANGED <<drain, waitFor>>
    /\ inRow' = IF drain = "idle" THEN 0 ELSE inRow
    /\ UNCHANGED <<tokens, since, synced, paused, started>>

\* run: an urgent request wakes a wait, an idle loop begins.
Request(kind) ==
    /\ requested < MaxRequests /\ requested' = requested + 1
    /\ waitingFor' = [waitingFor EXCEPT ![kind] = @ + 1]
    /\ IF drain = "idle" \/ (drain = "waiting" /\ kind = "urgent")
       THEN drain' = "ready" /\ waitFor' = 0 ELSE UNCHANGED <<drain, waitFor>>
    /\ inRow' = IF drain = "idle" THEN 0 ELSE inRow
    /\ UNCHANGED <<tokens, since, synced, paused, started>>

\* The request that a pass of the loop picks, with balance left.
Preferred == IF inRow < Burst THEN "urgent" ELSE "bulk"
Present(kind) == IF waitingFor[kind] > 0 THEN kind
                 ELSE CHOOSE other \in {"bulk", "urgent"} : other # kind

Picked(balance) ==
    IF Present(Preferred) = "bulk" /\ balance < BulkNeeds THEN Present("urgent")
    ELSE Present(Preferred)

Delay(kind, balance) ==
    Max({paused, CeilDiv(Max({Needs(kind) - balance, 0}), Refill[synced])})

\* One pass of the loop, up to its await.
Pass ==
    LET kind == Picked(Balance)
        delay == Delay(kind, Balance)
    IN
    /\ drain = "ready"
    /\ IF waitingFor["bulk"] + waitingFor["urgent"] = 0
       THEN /\ drain' = "idle"
            /\ UNCHANGED <<tokens, since, waitingFor, waitFor, inRow, started>>
       ELSE IF delay > 0
       THEN /\ drain' = "waiting" /\ waitFor' = Least(LongestWait, delay)
            /\ tokens' = Balance /\ since' = 0
            /\ UNCHANGED <<waitingFor, inRow, started>>
       ELSE /\ drain' = "running" /\ tokens' = Balance - 1 /\ since' = 0
            /\ waitingFor' = [waitingFor EXCEPT ![kind] = @ - 1]
            /\ inRow' = IF kind = "urgent" THEN Least(inRow + 1, Burst) ELSE 0
            /\ started' = [t \in 0 .. Window |-> started[t] + 1]
            /\ UNCHANGED waitFor
    /\ UNCHANGED <<synced, paused, requested>>

\* The request is answered or rejected.
Completes(limited, sync) ==
    /\ drain = "running"
    /\ drain' = "ready"
    /\ paused' = IF limited THEN Pause ELSE paused
    /\ synced' = (synced \/ sync)
    /\ UNCHANGED <<waitingFor, tokens, since, waitFor, inRow, started, requested>>

WaitEnds ==
    /\ drain = "waiting" /\ waitFor = 0
    /\ drain' = "ready"
    /\ UNCHANGED <<waitingFor, tokens, since, synced, paused, waitFor, inRow, started, requested>>

QueueTick ==
    /\ since' = Least(since + 1, LongSince)
    /\ paused' = Max({paused - 1, 0}) /\ waitFor' = Max({waitFor - 1, 0})
    /\ started' = [t \in 0 .. Window |-> IF t = 0 THEN 0 ELSE started[t - 1]]
    /\ UNCHANGED <<waitingFor, drain, tokens, synced, inRow, requested>>

QueueNext ==
    \/ \E kind \in {"bulk", "urgent"} : Request(kind)
    \/ Pass \/ WaitEnds \/ QueueTick
    \/ \E limited, sync \in BOOLEAN : Completes(limited, sync)

QueueSpec == QueueInit /\ [][QueueNext]_queueVars

\* Timers fire, and every command is answered or fails by its timeout.
QueueFairness ==
    /\ WF_queueVars(Pass) /\ WF_queueVars(WaitEnds) /\ WF_queueVars(QueueTick)
    /\ WF_queueVars(\E limited, sync \in BOOLEAN : Completes(limited, sync))
------------------------------------------------------------------------------
QueueTypeOK ==
    /\ waitingFor \in [{"bulk", "urgent"} -> 0 .. MaxRequests]
    /\ drain \in {"idle", "ready", "waiting", "running"}
    /\ tokens \in 0 .. Capacity[TRUE] /\ since \in 0 .. LongSince /\ synced \in BOOLEAN
    /\ paused \in 0 .. Pause /\ waitFor \in 0 .. LongestWait /\ inRow \in 0 .. Burst
    /\ started \in [0 .. Window -> 0 .. MaxRequests] /\ requested \in 0 .. MaxRequests

\* Whatever the mix of requests, pauses and renegotiations, a window of the
\* service never sees more commands than the burst and the refill of the bucket:
\* asking for the larger bucket again mints nothing.
WithinRate == started[Window] <= Capacity[synced] + Window * Refill[synced]

\* An urgent request waits for the pause and for one token only: never for the
\* budget of a bulk request, also when it arrives in the middle of such a wait.
UrgentIsNotHeld ==
    drain = "waiting" /\ waitingFor["urgent"] > 0 =>
        waitFor <= Max({paused, CeilDiv(Max({1 - Balance, 0}), Refill[synced])})

\* The budget is not exceeded, and what is reserved for urgent requests is
\* theirs (phone-request-queue.ts run).
RequestsArePaced == WithinRate /\ UrgentIsNotHeld

\* Everything requested is started and the loop comes to rest.
QueueDrains == drain # "idle" ~> drain = "idle"
=============================================================================
