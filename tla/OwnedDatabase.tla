------------------------------ MODULE OwnedDatabase ------------------------------
(*****************************************************************************)
(* The connection to the encrypted history that an iPhone app owns: the      *)
(* serial queue of MneloDatabase, its OS assertion and the expiry of it, and *)
(* the adapter of openOwnedDatabase in JavaScript.                           *)
(*                                                                           *)
(* Every opening makes a generation. A statement runs in steps, so that the  *)
(* OS can take its time back between any two of them; an assertion is ended  *)
(* on the main thread, some time after the queue gave it up. An app in the   *)
(* background that has no assertion is frozen, and killed if it holds a lock *)
(* of the shared file then.                                                  *)
(*****************************************************************************)
EXTENDS FiniteSets, Naturals

CONSTANT MaxOpenings \* bound: generations in a run

ASSUME VaultAssumption == MaxOpenings \in Nat

Gens == 1 .. MaxOpenings

VARIABLES
    handle,     \* [Gens -> "none", "open" or "closed"]: the SQLite pointer
    suspended,  \* generations whose time expired
    leased,     \* generations that hold the lease of their assertion
    tasks,      \* generations with an assertion that the OS counts
    ended,      \* of these, the ones whose assertion the main thread is asked to end
    midway,     \* generations with a transaction that is open
    sql,        \* [Gens -> statement that JavaScript awaits, or "none"]
    stage,      \* [Gens -> where it is]
    cleanup,    \* generations with a close queued by their expiry
    events,     \* expiries that JavaScript is to hear of
    closing,    \* [Gens -> "no", "asked" or "done"]: close of the adapter
    noticed     \* generations whose adapter knows that they are suspended

nativeVars == <<handle, suspended, leased, tasks, ended, midway, cleanup, events>>
adapterVars == <<closing, noticed>>
vaultVars == <<nativeVars, adapterVars, sql, stage>>
------------------------------------------------------------------------------
Statements == {"open", "setup", "begin", "write", "commit", "rollback"}
Results == {"ok", "failed", "suspended"}
Stages == {"none", "called", "done", "broken"} \cup Results

\* In the block of queue.sync: no other work of the queue is between.
OnQueue(g) == stage[g] \in {"done", "broken"}

\* The generations of opened are open and rest, the others were not opened yet.
VaultStart(opened) ==
    /\ handle = [g \in Gens |-> IF g \in opened THEN "open" ELSE "none"]
    /\ suspended = {} /\ leased = {} /\ tasks = {} /\ ended = {} /\ midway = {}
    /\ cleanup = {} /\ events = {}
    /\ sql = [g \in Gens |-> "none"] /\ stage = [g \in Gens |-> "none"]
    /\ closing = [g \in Gens |-> "no"] /\ noticed = {}

\* isSuspended of the adapter. The registry forgets a generation that is closed.
IsSuspended(g) == g \in noticed \/ (closing[g] = "no" /\ g \in suspended)

\* expire: of the lease that is held, once.
Expire(g) ==
    IF g \in leased /\ handle[g] # "closed" /\ g \notin suspended
    THEN suspended' = suspended \cup {g} /\ cleanup' = cleanup \cup {g}
    ELSE UNCHANGED <<suspended, cleanup>>

\* SQLite, with the lease. A statement that fails may end its transaction, and one
\* that is done may be answered with the interruption.
Execute(g) ==
    \/ /\ stage' = [stage EXCEPT ![g] = "done"]
       /\ handle' = [handle EXCEPT ![g] = "open"]
       /\ midway' = CASE sql[g] = "begin" -> midway \cup {g}
                      [] sql[g] \in {"commit", "rollback"} -> midway \ {g}
                      [] OTHER -> midway
    \/ /\ stage' = [stage EXCEPT ![g] = "broken"]
       /\ \E m \in {midway, midway \ {g}} : midway' = m
       /\ UNCHANGED handle

\* requireActive and acquireLease. The OS may refuse its time to an app in the
\* background: then nothing of the file is touched, and an opening closes itself.
Enter(g) ==
    /\ stage[g] = "called"
    /\ \/ /\ g \in suspended \/ handle[g] = "closed"
          /\ stage' = [stage EXCEPT ![g] = IF g \in suspended THEN "suspended" ELSE "failed"]
          /\ UNCHANGED <<leased, tasks, suspended, cleanup, handle, midway>>
       \/ /\ g \notin suspended /\ handle[g] # "closed" /\ g \in leased
          /\ Execute(g)
          /\ UNCHANGED <<leased, tasks, suspended, cleanup>>
       \/ /\ g \notin suspended /\ handle[g] # "closed" /\ g \notin leased \cup tasks
          /\ \/ /\ leased' = leased \cup {g} /\ tasks' = tasks \cup {g}
                /\ Execute(g)
                /\ UNCHANGED <<suspended, cleanup>>
             \/ /\ suspended' = suspended \cup {g} /\ cleanup' = cleanup \cup {g}
                /\ stage' = [stage EXCEPT ![g] = "suspended"]
                /\ leased' = IF sql[g] = "open" THEN leased ELSE leased \cup {g}
                /\ handle' = IF sql[g] = "open" THEN [handle EXCEPT ![g] = "closed"] ELSE handle
                /\ UNCHANGED <<tasks, midway>>
    /\ UNCHANGED <<ended, events, adapterVars, sql>>

GiveUp(g) == leased' = leased \ {g} /\ ended' = ended \cup ({g} \cap tasks \cap leased)

\* Defect: the lease is given up after every statement.
ReleaseAlways(g) == IF g \in suspended THEN UNCHANGED <<leased, ended>> ELSE GiveUp(g)

\* releaseIfIdle: a transaction keeps the lease while JavaScript is awaited.
ReleaseIfIdle(g) == IF g \in midway' \cup suspended THEN UNCHANGED <<leased, ended>> ELSE GiveUp(g)

\* closeOnQueue: what is open is rolled back before the assertion is given up.
CloseOnQueue(g) ==
    /\ handle' = [handle EXCEPT ![g] = "closed"]
    /\ midway' = midway \ {g}
    /\ GiveUp(g)

\* The end of the block. What is done may be checked before its time expires, and
\* is answered then. An opening that is not answered closes what it opened.
Leave(g) ==
    /\ stage[g] \in {"done", "broken"}
    /\ \E checked \in BOOLEAN :
          LET answer == CASE stage[g] = "done" /\ (g \notin suspended \/ checked) -> "ok"
                          [] stage[g] = "broken" /\ g \notin suspended -> "failed"
                          [] OTHER -> "suspended"
          IN  /\ stage' = [stage EXCEPT ![g] = answer]
              /\ IF sql[g] = "open" /\ answer # "ok"
                 THEN CloseOnQueue(g)
                 ELSE UNCHANGED <<handle, midway>> /\ ReleaseIfIdle(g)
    /\ UNCHANGED <<suspended, tasks, cleanup, events, adapterVars, sql>>

\* The work that an expiry queued.
CleanUp(g) ==
    /\ g \in cleanup /\ ~OnQueue(g)
    /\ cleanup' = cleanup \ {g} /\ events' = events \cup {g}
    /\ CloseOnQueue(g)
    /\ UNCHANGED <<suspended, tasks, adapterVars, sql, stage>>

\* databaseClose.
NativeClose(g) ==
    /\ closing[g] = "asked" /\ ~OnQueue(g)
    /\ closing' = [closing EXCEPT ![g] = "done"]
    /\ CloseOnQueue(g)
    /\ UNCHANGED <<suspended, tasks, cleanup, events, noticed, sql, stage>>

\* The main thread ends an assertion, always before it begins the next one.
EndTask(g) ==
    /\ g \in ended
    /\ tasks' = tasks \ {g} /\ ended' = ended \ {g}
    /\ UNCHANGED <<handle, suspended, leased, midway, cleanup, events, adapterVars, sql, stage>>
------------------------------------------------------------------------------
\* The OS takes its time back from an app in the background, perhaps of a lease
\* that was given up meanwhile.
OsExpires(g) ==
    /\ g \in tasks
    /\ UNCHANGED leased /\ Expire(g)
    /\ UNCHANGED <<handle, tasks, ended, midway, events, adapterVars, sql, stage>>

VaultStep ==
    \E g \in Gens :
        \/ Enter(g) \/ Leave(g) \/ CleanUp(g) \/ NativeClose(g)
        \/ EndTask(g) \/ OsExpires(g)
------------------------------------------------------------------------------
VaultTypeOK ==
    /\ handle \in [Gens -> {"none", "open", "closed"}]
    /\ suspended \subseteq Gens /\ leased \subseteq Gens
    /\ tasks \subseteq Gens /\ ended \subseteq tasks
    /\ midway \subseteq Gens /\ cleanup \subseteq suspended /\ events \subseteq suspended
    /\ sql \in [Gens -> Statements \cup {"none"}] /\ stage \in [Gens -> Stages]
    /\ closing \in [Gens -> {"no", "asked", "done"}] /\ noticed \subseteq suspended

\* The OS may freeze the app wherever it counts no assertion of it. There the app
\* has no transaction and no statement under way, so no lock of the file that it
\* shares with its extensions, whatever was awaited when its time ended.
NeverFrozenMidway == tasks = {} => midway = {} /\ \A g \in Gens : ~OnQueue(g)
=============================================================================
