------------------------------ MODULE DeviceEngines ------------------------------
(*****************************************************************************)
(* The engines of the app over the connection it owns: DeviceEnginePool,     *)
(* with the transactions that DeviceMessenger runs one after the other.      *)
(*                                                                           *)
(* An engine belongs to one generation of the database. Those who use it     *)
(* hold leases. A suspended connection is retired with its engine, and the   *)
(* next one is opened when the old one is closed; the work and the releases  *)
(* of the old engine may come at any time after that.                        *)
(*****************************************************************************)
EXTENDS OwnedDatabase

CONSTANTS Users,      \* those who acquire the engine, each once or until it is refused
          MaxWorks    \* bound: transactions in a run

ASSUME PoolAssumption == IsFiniteSet(Users) /\ MaxWorks \in Nat

VARIABLES
    phase,     \* [Gens -> how far the promise of the session is]
    after,     \* [Gens -> generation whose close the session waits for, 0: none]
    current,   \* the session of the pool, 0: null
    last,      \* the generation that closing waits for, 0: it is resolved
    recovery,  \* recovery
    retired,   \* sessions that are retired
    watched,   \* sessions that hear of the expiry (stop is not called)
    disposing, \* engines whose close waits for the tail
    users,     \* [Gens -> users]
    hold,      \* [Users -> [of: session, at: "none", "waiting", "held" or "released"]]
    works      \* transactions so far

poolVars == <<phase, after, current, last, recovery, retired, watched, disposing, users, hold, works>>
engineVars == <<vaultVars, poolVars>>
------------------------------------------------------------------------------
Phases == {"unused", "waiting", "opening", "setup", "ready", "closing", "failed"}

\* The users of holders share the engine of the first generation.
PoolStart(holders) ==
    LET first == IF holders = {} THEN {} ELSE {1} IN
    /\ VaultStart(first)
    /\ phase = [g \in Gens |-> IF g \in first THEN "ready" ELSE "unused"]
    /\ after = [g \in Gens |-> 0]
    /\ current = Cardinality(first) /\ last = 0 /\ recovery = FALSE
    /\ retired = {} /\ watched = first /\ disposing = {}
    /\ users = [g \in Gens |-> IF g \in first THEN Cardinality(holders) ELSE 0]
    /\ hold = [u \in Users |-> IF u \in holders THEN [of |-> 1, at |-> "held"]
                                                ELSE [of |-> 0, at |-> "none"]]
    /\ works = 0

PoolInit == PoolStart({})

\* The promise whose end g stands for is settled.
Settled(g) == IF g = 0 THEN TRUE ELSE closing[g] = "done"

AskClose(S) == closing' = [g \in Gens |-> IF g \in S /\ closing[g] = "no" THEN "asked" ELSE closing[g]]

\* suspend, and the dispose that follows the promise of the session. Opened is
\* false of a session that has no database.
Suspend(g, opened) ==
    IF g \in retired THEN UNCHANGED <<retired, watched, current, recovery, last, disposing>>
    ELSE /\ retired' = retired \cup {g} /\ watched' = watched \ {g}
         /\ IF current = g
            THEN /\ current' = 0 /\ recovery' = TRUE
                 /\ last' = IF opened THEN g ELSE 0
                 /\ disposing' = IF phase[g] = "ready" THEN disposing \cup {g} ELSE disposing
            ELSE UNCHANGED <<current, recovery, last, disposing>>

\* close of the database in suspend.
ClosedBySuspend(g) == IF g \notin retired /\ current = g THEN {g} ELSE {}

\* notify: the adapter learns of the suspension; the session, when it listens.
Notify(g) ==
    /\ noticed' = IF closing[g] = "no" THEN noticed \cup {g} ELSE noticed
    /\ IF closing[g] = "no" /\ g \notin noticed /\ g \in watched
       THEN Suspend(g, TRUE) /\ AskClose(ClosedBySuspend(g))
       ELSE UNCHANGED <<retired, watched, current, recovery, last, disposing, closing>>
------------------------------------------------------------------------------
\* Defect: the new session does not wait for the old one.
CreateAtOnce(g) ==
    /\ phase[g] = "unused" /\ \A h \in Gens : h < g => phase[h] # "unused"
    /\ phase' = [phase EXCEPT ![g] = "waiting"]
    /\ after' = [after EXCEPT ![g] = 0]
    /\ current' = g

\* create.
Create(g) ==
    /\ phase[g] = "unused" /\ \A h \in Gens : h < g => phase[h] # "unused"
    /\ phase' = [phase EXCEPT ![g] = "waiting"]
    /\ after' = [after EXCEPT ![g] = last]
    /\ current' = g

\* acquire, until it awaits the session.
Acquire(u) ==
    /\ hold[u].at = "none"
    /\ \E g \in Gens :
          /\ IF current = 0 THEN Create(g) ELSE g = current /\ UNCHANGED <<phase, after, current>>
          /\ users' = [users EXCEPT ![g] = @ + 1]
          /\ hold' = [hold EXCEPT ![u] = [of |-> g, at |-> "waiting"]]
    /\ UNCHANGED <<last, recovery, retired, watched, disposing, works, vaultVars>>

\* acquire, when the session is there or failed.
Acquired(u) ==
    LET g == hold[u].of IN
    /\ hold[u].at = "waiting" /\ phase[g] \in {"ready", "failed"}
    /\ IF phase[g] = "ready" /\ g \notin retired
       THEN hold' = [hold EXCEPT ![u].at = "held"] /\ UNCHANGED <<users, current>>
       ELSE /\ hold' = [hold EXCEPT ![u] = [of |-> 0, at |-> "none"]]
            /\ users' = [users EXCEPT ![g] = @ - 1]
            /\ current' = IF current = g THEN 0 ELSE current
    /\ UNCHANGED <<phase, after, last, recovery, retired, watched, disposing, works, vaultVars>>

\* release: the last user of the session of the pool closes it. A lease of an
\* older session counts down that session only, and a second call does nothing.
Release(u) ==
    LET g == hold[u].of
        lastUser == users[g] = 1 /\ current = g IN
    /\ hold[u].at = "held"
    /\ hold' = [hold EXCEPT ![u].at = "released"]
    /\ users' = [users EXCEPT ![g] = @ - 1]
    /\ current' = IF lastUser THEN 0 ELSE current
    /\ last' = IF lastUser THEN g ELSE last
    /\ retired' = IF lastUser THEN retired \cup {g} ELSE retired
    /\ watched' = IF lastUser THEN watched \ {g} ELSE watched
    /\ disposing' = IF lastUser THEN disposing \cup {g} ELSE disposing
    /\ UNCHANGED <<phase, after, recovery, works, vaultVars>>

\* needsForeground: a suspension whose event did not come yet.
CheckForeground ==
    /\ current # 0 /\ handle[current] # "none" /\ IsSuspended(current)
    /\ phase[current] \notin {"waiting", "opening"}
    /\ Suspend(current, TRUE) /\ AskClose({current})
    /\ UNCHANGED <<nativeVars, noticed, sql, stage, phase, after, users, hold, works>>
------------------------------------------------------------------------------
(* The promise of a session.                                                 *)

\* The old one is closed: databaseOpen.
OpenNext(g) ==
    /\ phase[g] = "waiting" /\ Settled(after[g])
    /\ phase' = [phase EXCEPT ![g] = "opening"]
    /\ sql' = [sql EXCEPT ![g] = "open"] /\ stage' = [stage EXCEPT ![g] = "called"]
    /\ UNCHANGED <<nativeVars, adapterVars, after, current, last, recovery, retired, watched,
                   disposing, users, hold, works>>

\* The database is there, perhaps suspended already, or the opening failed.
Opened(g) ==
    LET ready == stage[g] = "ok" /\ ~IsSuspended(g) IN
    /\ phase[g] = "opening" /\ stage[g] \in Results
    /\ stage' = [stage EXCEPT ![g] = IF ready THEN "called" ELSE "none"]
    /\ sql' = [sql EXCEPT ![g] = IF ready THEN "setup" ELSE "none"]
    /\ phase' = [phase EXCEPT ![g] = IF ready THEN "setup"
                                     ELSE IF stage[g] = "ok" THEN "closing" ELSE "failed"]
    /\ CASE ready ->
              /\ watched' = watched \cup {g}
              /\ UNCHANGED <<closing, retired, current, recovery, last, disposing>>
         [] stage[g] = "ok" /\ ~ready -> Suspend(g, TRUE) /\ AskClose({g})
         [] stage[g] = "suspended" -> Suspend(g, FALSE) /\ UNCHANGED closing
         [] stage[g] = "failed" ->
              UNCHANGED <<closing, watched, retired, current, recovery, last, disposing>>
    /\ UNCHANGED <<nativeVars, noticed, after, users, hold, works>>

\* The key could not be given to the extensions: openDeviceDatabase closes again.
KeyNotShared(g) ==
    /\ phase[g] = "opening" /\ stage[g] = "ok"
    /\ stage' = [stage EXCEPT ![g] = "none"] /\ sql' = [sql EXCEPT ![g] = "none"]
    /\ phase' = [phase EXCEPT ![g] = "closing"]
    /\ AskClose({g})
    /\ UNCHANGED <<nativeVars, noticed, after, current, last, recovery, retired, watched, disposing,
                   users, hold, works>>

\* initialize is done or failed. A session that was suspended meanwhile is not
\* handed out; its database is closed before the promise is rejected.
SetUp(g) ==
    /\ phase[g] = "setup" /\ stage[g] \in Results
    /\ stage' = [stage EXCEPT ![g] = "none"] /\ sql' = [sql EXCEPT ![g] = "none"]
    /\ noticed' = IF stage[g] = "suspended" /\ closing[g] = "no" THEN noticed \cup {g} ELSE noticed
    /\ IF stage[g] = "ok" /\ g \notin retired /\ ~IsSuspended(g)
       THEN /\ phase' = [phase EXCEPT ![g] = "ready"] /\ recovery' = FALSE
            /\ UNCHANGED <<closing, retired, watched, current, last, disposing>>
       ELSE /\ phase' = [phase EXCEPT ![g] = "closing"]
            /\ AskClose({g})
            /\ IF stage[g] = "failed" /\ ~IsSuspended(g)
               THEN watched' = watched \ {g} /\ UNCHANGED <<retired, current, recovery, last, disposing>>
               ELSE Suspend(g, TRUE)
    /\ UNCHANGED <<nativeVars, after, users, hold, works>>

Rejected(g) ==
    /\ phase[g] = "closing" /\ closing[g] = "done"
    /\ phase' = [phase EXCEPT ![g] = "failed"]
    /\ UNCHANGED <<vaultVars, after, current, last, recovery, retired, watched, disposing, users,
                   hold, works>>
------------------------------------------------------------------------------
(* The engine.                                                               *)

\* A transaction reaches the head of the tail, perhaps one of an old engine.
StartWork(g) ==
    /\ phase[g] = "ready" /\ sql[g] = "none" /\ works < MaxWorks
    /\ works' = works + 1
    /\ sql' = [sql EXCEPT ![g] = "begin"]
    /\ UNCHANGED <<nativeVars, adapterVars, stage, phase, after, current, last, recovery, retired,
                   watched, disposing, users, hold>>

\* What the transaction does after the answer to a statement.
Following(s, ok) ==
    CASE s = "begin" -> IF ok THEN "write" ELSE "none"
      [] s = "write" -> IF ok THEN "commit" ELSE "rollback"
      [] s = "commit" -> IF ok THEN "none" ELSE "rollback"
      [] OTHER -> "none"

InWork(g) == phase[g] = "ready" /\ sql[g] # "none"

\* run of the adapter: to the connection of its own generation, or refused.
CallStatement(g) ==
    /\ InWork(g) /\ stage[g] = "none"
    /\ IF closing[g] # "no" \/ IsSuspended(g)
       THEN sql' = [sql EXCEPT ![g] = Following(@, FALSE)] /\ Notify(g) /\ UNCHANGED stage
       ELSE /\ stage' = [stage EXCEPT ![g] = "called"]
            /\ UNCHANGED <<sql, adapterVars, retired, watched, current, recovery, last, disposing>>
    /\ UNCHANGED <<nativeVars, phase, after, users, hold, works>>

Answer(g) ==
    /\ InWork(g) /\ stage[g] \in Results
    /\ stage' = [stage EXCEPT ![g] = "none"]
    /\ sql' = [sql EXCEPT ![g] = Following(@, stage[g] = "ok")]
    /\ IF stage[g] = "suspended" \/ (stage[g] = "failed" /\ IsSuspended(g))
       THEN Notify(g)
       ELSE UNCHANGED <<adapterVars, retired, watched, current, recovery, last, disposing>>
    /\ UNCHANGED <<nativeVars, phase, after, users, hold, works>>

\* close of the engine: after the tail.
Dispose(g) ==
    /\ g \in disposing /\ sql[g] = "none"
    /\ disposing' = disposing \ {g}
    /\ AskClose({g})
    /\ UNCHANGED <<nativeVars, noticed, sql, stage, phase, after, current, last, recovery, retired,
                   watched, users, hold, works>>

\* databaseExpired.
HearExpired(g) ==
    /\ g \in events
    /\ events' = events \ {g}
    /\ Notify(g)
    /\ UNCHANGED <<handle, suspended, leased, tasks, ended, midway, cleanup, sql, stage, phase,
                   after, users, hold, works>>

EngineStep ==
    \/ \E u \in Users : Acquire(u) \/ Acquired(u) \/ Release(u)
    \/ CheckForeground
    \/ \E g \in Gens : OpenNext(g) \/ Opened(g) \/ KeyNotShared(g) \/ SetUp(g) \/ Rejected(g) \/ Dispose(g)
                       \/ StartWork(g) \/ CallStatement(g) \/ Answer(g) \/ HearExpired(g)

EnginesNext == EngineStep \/ (VaultStep /\ UNCHANGED poolVars)

EnginesSpec == PoolInit /\ [][EnginesNext]_engineVars
------------------------------------------------------------------------------
PoolTypeOK ==
    /\ VaultTypeOK
    /\ phase \in [Gens -> Phases] /\ after \in [Gens -> Gens \cup {0}]
    /\ {current, last} \subseteq Gens \cup {0} /\ recovery \in BOOLEAN
    /\ retired \cup watched \cup disposing \subseteq Gens
    /\ users \in [Gens -> 0 .. Cardinality(Users)]
    /\ hold \in [Users -> [of : Gens \cup {0}, at : {"none", "waiting", "held", "released"}]]
    /\ works \in 0 .. MaxWorks

\* Two connections are never open at once; and who holds a lease works with the
\* connection that is open, as long as the OS has not taken it, whatever others
\* released, and how often, and whichever engine was retired or failed before.
LeasesHoldTheVault ==
    /\ \A g, h \in Gens : handle[g] = "open" /\ handle[h] = "open" => g = h
    /\ \A u \in Users : hold[u].at = "held" =>
          LET g == hold[u].of IN
          \/ g \in suspended
          \/ current = g /\ closing[g] = "no" /\ handle[g] = "open"
=============================================================================
