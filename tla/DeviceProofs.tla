------------------------------ MODULE DeviceProofs ------------------------------
(*****************************************************************************)
(* What is proved about the engines of a device and the connection they run  *)
(* on, for any number of users, openings and transactions, and about a group *)
(* conversation that the engines of its members keep in their databases, for *)
(* any number of members, messages and operations.                           *)
(*****************************************************************************)
EXTENDS DeviceEngines, Conversation, FiniteSetTheorems, TLAPS

------------------------------------------------------------------------------
(* The connection: the invariant                                             *)

\* An assertion that was asked to end is not leased, a lease that was not
\* suspended has its assertion, and whoever is within a statement or a
\* transaction has both.
WorkIsCovered ==
    /\ leased \cap ended = {} /\ leased \ suspended \subseteq tasks
    /\ midway \subseteq leased \cap tasks
    /\ \A g \in Gens : OnQueue(g) => g \in leased \cap tasks

SuspensionIsTold == \A g \in Gens : stage[g] = "suspended" => g \in suspended

VaultInv == VaultTypeOK /\ WorkIsCovered /\ SuspensionIsTold

------------------------------------------------------------------------------
(* The pool: the invariant                                                   *)

Untouched(g) ==
    handle[g] = "none" /\ closing[g] = "no" /\ g \notin suspended \cup leased

\* How far a generation is, and what its connection shows of it.
Unopened(g) ==
    phase[g] \in {"unused", "waiting"} => Untouched(g) /\ sql[g] = "none" /\ stage[g] = "none"

Opening(g) ==
    phase[g] = "opening" =>
        /\ sql[g] = "open" /\ stage[g] # "none" /\ closing[g] = "no"
        /\ stage[g] = "called" => Untouched(g)
        /\ stage[g] = "done" => handle[g] = "open"
        /\ stage[g] = "ok" => handle[g] = "open" \/ g \in suspended
        /\ stage[g] \in {"failed", "suspended"} => handle[g] = "closed"

Open(g) ==
    /\ phase[g] = "setup" => sql[g] = "setup"
    /\ phase[g] = "ready" => sql[g] \notin {"open", "setup"}
    /\ phase[g] \in {"setup", "ready"} =>
           handle[g] = "open" \/ g \in suspended \/ closing[g] = "done"

Closing(g) ==
    /\ phase[g] \in {"closing", "failed"} => sql[g] = "none" /\ stage[g] = "none"
    /\ phase[g] = "failed" => handle[g] = "closed"
    /\ closing[g] = "done" => handle[g] = "closed"

PhasesAreShown == \A g \in Gens : Unopened(g) /\ Opening(g) /\ Open(g) /\ Closing(g)

\* Generations are used in their order, and all before the last one are closed,
\* unless it still waits for the one before.
OneAfterTheOther ==
    \A g, h \in Gens : h < g /\ phase[g] # "unused" =>
        /\ phase[h] # "unused"
        /\ handle[h] = "closed" \/ (phase[g] = "waiting" /\ after[g] = h)

\* The session of the pool is the newest one. When there is none, only the one
\* that the next session will wait for is not closed yet.
PoolKnowsTheOpen ==
    /\ current # 0 => phase[current] # "unused" /\ \A h \in Gens : h > current => phase[h] = "unused"
    /\ current = 0 => \A h \in Gens : phase[h] = "unused" \/ handle[h] = "closed" \/ last = h

\* Sessions leave the pool by being retired, and no other is asked to close.
RetiredAreGone ==
    /\ current \notin retired /\ disposing \subseteq retired
    /\ \A g \in Gens :
          /\ g \in retired => phase[g] # "unused"
          /\ phase[g] \in {"waiting", "opening"} => current = g
          /\ phase[g] \in {"setup", "ready"} /\ g \notin retired => current = g /\ closing[g] = "no"
          /\ g \in watched => phase[g] \notin {"unused", "waiting", "opening"}

Using(g) == {u \in Users : hold[u].of = g /\ hold[u].at \in {"waiting", "held"}}

UsersAreCounted == \A g \in Gens : users[g] = Cardinality(Using(g))

LeasesAreSessions ==
    \A u \in Users :
        /\ hold[u].at \in {"waiting", "held"} => hold[u].of # 0 /\ phase[hold[u].of] # "unused"
        /\ hold[u].at = "held" => phase[hold[u].of] = "ready"

LeasesAreCurrent ==
    \A u \in Users : hold[u].at = "held" =>
        \/ hold[u].of \in suspended
        \/ current = hold[u].of /\ closing[hold[u].of] = "no" /\ handle[hold[u].of] = "open"

PoolInv ==
    /\ PoolTypeOK /\ VaultInv
    /\ PhasesAreShown /\ OneAfterTheOther /\ PoolKnowsTheOpen /\ RetiredAreGone
    /\ UsersAreCounted /\ LeasesAreSessions /\ LeasesAreCurrent
------------------------------------------------------------------------------
(* The connection: its own steps                                             *)

LEMMA ConnectionStart ==
  ASSUME NEW opened, VaultStart(opened)
  PROVE  VaultInv
BY DEF VaultStart, VaultInv, VaultTypeOK, WorkIsCovered, SuspensionIsTold, OnQueue, Statements, Stages, Results

\* Between calls, nothing of the connection moves but what JavaScript knows.
LEMMA CallKeepsVault ==
  ASSUME VaultInv, UNCHANGED <<handle, suspended, leased, tasks, ended, midway, cleanup>>,
         events' \subseteq events, noticed' \subseteq suspended,
         sql' \in [Gens -> Statements \cup {"none"}], stage' \in [Gens -> Stages],
         closing' \in [Gens -> {"no", "asked", "done"}],
         \A g \in Gens : stage'[g] \in {stage[g], "none", "called"}
  PROVE  VaultInv'
<1>1. VaultTypeOK'
  BY DEF VaultInv, VaultTypeOK
<1>2. WorkIsCovered'
  BY DEF VaultInv, WorkIsCovered, OnQueue
<1>3. SuspensionIsTold'
  BY DEF VaultInv, SuspensionIsTold
<1> QED
  BY <1>1, <1>2, <1>3 DEF VaultInv

\* SQLite, under a lease and an assertion that are there.
LEMMA ExecuteEffect ==
  ASSUME VaultTypeOK, NEW g \in Gens, Execute(g)
  PROVE  /\ handle' \in [Gens -> {"none", "open", "closed"}] /\ stage' \in [Gens -> Stages]
         /\ midway' \subseteq midway \cup {g}
         /\ \A h \in Gens : h # g => handle'[h] = handle[h] /\ stage'[h] = stage[h]
         /\ \/ stage'[g] = "done" /\ handle'[g] = "open"
            \/ stage'[g] = "broken" /\ handle'[g] = handle[g]
BY DEF Execute, VaultTypeOK, Stages

LEMMA EnterKeepsVault ==
  ASSUME VaultInv, NEW g \in Gens, Enter(g)
  PROVE  VaultInv'
<1> USE DEF VaultInv
<1>0. stage[g] = "called" /\ UNCHANGED <<ended, events, adapterVars, sql>>
  BY DEF Enter
<1>1. CASE /\ g \in suspended \/ handle[g] = "closed"
           /\ stage' = [stage EXCEPT ![g] = IF g \in suspended THEN "suspended" ELSE "failed"]
           /\ UNCHANGED <<leased, tasks, suspended, cleanup, handle, midway>>
  BY <1>0, <1>1 DEF VaultTypeOK, WorkIsCovered, SuspensionIsTold, OnQueue, Stages, Results, adapterVars
<1>2. CASE /\ g \notin suspended /\ handle[g] # "closed" /\ g \in leased
           /\ Execute(g)
           /\ UNCHANGED <<leased, tasks, suspended, cleanup>>
  <2>1. g \in tasks
    BY <1>2 DEF WorkIsCovered
  <2>2. VaultTypeOK'
    BY <1>0, <1>2, ExecuteEffect DEF VaultTypeOK, adapterVars
  <2>3. WorkIsCovered' /\ SuspensionIsTold'
    BY <1>0, <1>2, <2>1, ExecuteEffect DEF VaultTypeOK, WorkIsCovered, SuspensionIsTold, OnQueue
  <2> QED
    BY <2>2, <2>3
<1>3. CASE /\ g \notin suspended /\ handle[g] # "closed" /\ g \notin leased \cup tasks
           /\ leased' = leased \cup {g} /\ tasks' = tasks \cup {g}
           /\ Execute(g)
           /\ UNCHANGED <<suspended, cleanup>>
  <2>1. g \notin ended
    BY <1>3 DEF VaultTypeOK
  <2>2. VaultTypeOK'
    BY <1>0, <1>3, ExecuteEffect DEF VaultTypeOK, adapterVars
  <2>3. WorkIsCovered' /\ SuspensionIsTold'
    BY <1>0, <1>3, <2>1, ExecuteEffect DEF VaultTypeOK, WorkIsCovered, SuspensionIsTold, OnQueue
  <2> QED
    BY <2>2, <2>3
<1>4. CASE /\ g \notin suspended /\ handle[g] # "closed" /\ g \notin leased \cup tasks
           /\ suspended' = suspended \cup {g} /\ cleanup' = cleanup \cup {g}
           /\ stage' = [stage EXCEPT ![g] = "suspended"]
           /\ leased' = IF sql[g] = "open" THEN leased ELSE leased \cup {g}
           /\ handle' = IF sql[g] = "open" THEN [handle EXCEPT ![g] = "closed"] ELSE handle
           /\ UNCHANGED <<tasks, midway>>
  <2>1. g \notin ended
    BY <1>4 DEF VaultTypeOK
  <2>2. VaultTypeOK'
    BY <1>0, <1>4 DEF VaultTypeOK, adapterVars, Stages, Results
  <2>3. WorkIsCovered' /\ SuspensionIsTold'
    BY <1>0, <1>4, <2>1 DEF VaultTypeOK, WorkIsCovered, SuspensionIsTold, OnQueue
  <2> QED
    BY <2>2, <2>3
<1> QED
  BY <1>1, <1>2, <1>3, <1>4 DEF Enter

LEMMA LeaveKeepsVault ==
  ASSUME VaultInv, NEW g \in Gens, Leave(g)
  PROVE  VaultInv'
<1> USE DEF VaultInv
<1>1. /\ g \in leased \cap tasks /\ UNCHANGED <<suspended, tasks, cleanup, events, adapterVars, sql>>
      /\ stage' \in [Gens -> Stages] /\ stage'[g] \in {"ok", "failed", "suspended"}
      /\ stage'[g] = "suspended" => g \in suspended
      /\ \A h \in Gens : h # g => stage'[h] = stage[h]
  BY DEF Leave, WorkIsCovered, OnQueue, VaultTypeOK, Stages, Results
<1>2. /\ handle' \in [Gens -> {"none", "open", "closed"}] /\ midway' \subseteq midway
      /\ \/ leased' = leased /\ ended' = ended
         \/ leased' = leased \ {g} /\ ended' = ended \cup {g} /\ g \notin midway'
  BY <1>1 DEF Leave, CloseOnQueue, ReleaseIfIdle, GiveUp, VaultTypeOK
<1>3. VaultTypeOK'
  BY <1>1, <1>2 DEF VaultTypeOK, adapterVars
<1>4. WorkIsCovered' /\ SuspensionIsTold'
  BY <1>1, <1>2 DEF VaultTypeOK, WorkIsCovered, SuspensionIsTold, OnQueue
<1> QED
  BY <1>3, <1>4

\* What is closed on the queue while no statement is on it.
LEMMA CloseKeepsVault ==
  ASSUME VaultInv, NEW g \in Gens, CloseOnQueue(g), ~OnQueue(g),
         UNCHANGED <<suspended, tasks, sql, stage, noticed>>,
         cleanup' \subseteq suspended, events' \subseteq suspended,
         closing' \in [Gens -> {"no", "asked", "done"}]
  PROVE  VaultInv'
<1> USE DEF VaultInv
<1>1. /\ handle' \in [Gens -> {"none", "open", "closed"}] /\ midway' = midway \ {g}
      /\ leased' = leased \ {g} /\ ended' = ended \cup ({g} \cap tasks \cap leased)
  BY DEF CloseOnQueue, GiveUp, VaultTypeOK
<1>2. VaultTypeOK'
  BY <1>1 DEF VaultTypeOK
<1>3. WorkIsCovered' /\ SuspensionIsTold'
  BY <1>1 DEF VaultTypeOK, WorkIsCovered, SuspensionIsTold, OnQueue
<1> QED
  BY <1>2, <1>3

LEMMA VaultStepKeepsVault ==
  ASSUME VaultInv, VaultStep
  PROVE  VaultInv'
<1>1. PICK g \in Gens : Enter(g) \/ Leave(g) \/ CleanUp(g) \/ NativeClose(g) \/ EndTask(g) \/ OsExpires(g)
  BY DEF VaultStep
<1>2. CASE CleanUp(g)
  <2>1. /\ CloseOnQueue(g) /\ ~OnQueue(g) /\ UNCHANGED <<suspended, tasks, sql, stage, noticed, closing>>
        /\ cleanup' = cleanup \ {g} /\ events' = events \cup {g} /\ g \in cleanup
    BY <1>2 DEF CleanUp, adapterVars
  <2>2. /\ cleanup' \subseteq suspended /\ events' \subseteq suspended
        /\ closing' \in [Gens -> {"no", "asked", "done"}]
    BY <2>1 DEF VaultInv, VaultTypeOK
  <2> QED
    BY <2>1, <2>2, CloseKeepsVault
<1>3. CASE NativeClose(g)
  <2>1. /\ CloseOnQueue(g) /\ ~OnQueue(g) /\ UNCHANGED <<suspended, tasks, sql, stage, noticed, cleanup, events>>
        /\ closing' = [closing EXCEPT ![g] = "done"]
    BY <1>3 DEF NativeClose
  <2>2. /\ cleanup' \subseteq suspended /\ events' \subseteq suspended
        /\ closing' \in [Gens -> {"no", "asked", "done"}]
    BY <2>1 DEF VaultInv, VaultTypeOK
  <2> QED
    BY <2>1, <2>2, CloseKeepsVault
<1>4. CASE EndTask(g)
  BY <1>4 DEF EndTask, VaultInv, VaultTypeOK, WorkIsCovered, SuspensionIsTold, OnQueue, adapterVars
<1>5. CASE OsExpires(g)
  BY <1>5 DEF OsExpires, Expire, VaultInv, VaultTypeOK, WorkIsCovered, SuspensionIsTold, OnQueue, adapterVars
<1> QED
  BY <1>1, <1>2, <1>3, <1>4, <1>5, EnterKeepsVault, LeaveKeepsVault
------------------------------------------------------------------------------
(* The pool: the steps of the connection                                     *)

\* One generation goes on as its phase allows; what is closed stays closed, and
\* an open connection is lost only to the OS, to its close, or while opening.
LEMMA ConnectionKeepsPool ==
  ASSUME PoolInv, VaultInv', UNCHANGED poolVars, NEW g \in Gens,
         suspended \subseteq suspended' /\ suspended' \subseteq suspended \cup {g},
         leased' \subseteq leased \cup {g}, UNCHANGED sql,
         \A h \in Gens : h # g => handle'[h] = handle[h] /\ stage'[h] = stage[h] /\ closing'[h] = closing[h],
         Unopened(g)', Opening(g)', Open(g)', Closing(g)',
         handle[g] = "closed" => handle'[g] = "closed",
         closing[g] = "no" => closing'[g] = "no",
         phase[g] # "opening" /\ handle[g] = "open" => g \in suspended' \/ closing[g] # "no" \/ handle'[g] = "open"
  PROVE  PoolInv'
<1> USE DEF PoolInv, poolVars
<1>1. PoolTypeOK'
  BY DEF PoolTypeOK, VaultInv
<1>2. PhasesAreShown'
  <2> SUFFICES ASSUME NEW h \in Gens, h # g
               PROVE  (Unopened(h) /\ Opening(h) /\ Open(h) /\ Closing(h))'
    BY DEF PhasesAreShown
  <2> QED
    BY DEF PhasesAreShown, Unopened, Opening, Open, Closing, Untouched
<1>3. OneAfterTheOther'
  <2>1. \A h \in Gens : handle[h] = "closed" => handle'[h] = "closed"
    OBVIOUS
  <2> QED
    BY <2>1 DEF OneAfterTheOther
<1>4. PoolKnowsTheOpen'
  <2>1. \A h \in Gens : handle[h] = "closed" => handle'[h] = "closed"
    OBVIOUS
  <2> QED
    BY <2>1 DEF PoolKnowsTheOpen
<1>5. RetiredAreGone'
  <2>1. \A h \in Gens : closing[h] = "no" => closing'[h] = "no"
    OBVIOUS
  <2> QED
    BY <2>1 DEF RetiredAreGone
<1>6. UsersAreCounted' /\ LeasesAreSessions'
  BY DEF UsersAreCounted, LeasesAreSessions, Using
<1>7. LeasesAreCurrent'
  <2> SUFFICES ASSUME NEW u \in Users, hold[u].at = "held"
               PROVE  \/ hold[u].of \in suspended'
                      \/ current = hold[u].of /\ closing'[hold[u].of] = "no" /\ handle'[hold[u].of] = "open"
    BY DEF LeasesAreCurrent
  <2>1. hold[u].of \in Gens /\ phase[hold[u].of] = "ready"
    BY DEF PoolTypeOK, LeasesAreSessions
  <2>2. \/ hold[u].of \in suspended
        \/ current = hold[u].of /\ closing[hold[u].of] = "no" /\ handle[hold[u].of] = "open"
    BY DEF LeasesAreCurrent
  <2> QED
    BY <2>1, <2>2
<1> QED
  BY <1>1, <1>2, <1>3, <1>4, <1>5, <1>6, <1>7

LEMMA EnterKeepsPool ==
  ASSUME PoolInv, NEW g \in Gens, Enter(g), UNCHANGED poolVars, VaultInv'
  PROVE  PoolInv'
<1>1. stage[g] = "called" /\ UNCHANGED <<closing, sql, phase>>
  BY DEF Enter, adapterVars, poolVars
<1>2. Unopened(g) /\ Opening(g) /\ Open(g) /\ Closing(g) /\ phase[g] \in Phases /\ VaultTypeOK
  BY DEF PoolInv, PoolTypeOK, PhasesAreShown, VaultInv
<1>3. phase[g] \in {"opening", "setup", "ready"}
  BY <1>1, <1>2 DEF Unopened, Closing, Phases
<1>4. /\ suspended \subseteq suspended' /\ suspended' \subseteq suspended \cup {g} /\ leased' \subseteq leased \cup {g}
      /\ \A h \in Gens : h # g => handle'[h] = handle[h] /\ stage'[h] = stage[h]
      /\ handle[g] = "closed" => handle'[g] = "closed"
      /\ \/ handle'[g] = handle[g] /\ stage'[g] \in {"failed", "suspended"} /\ (g \in suspended \/ handle[g] = "closed")
         \/ handle'[g] = "open" /\ stage'[g] = "done"
         \/ handle'[g] = handle[g] /\ stage'[g] = "broken"
         \/ /\ g \in suspended' /\ stage'[g] = "suspended" /\ handle[g] # "closed"
            /\ handle'[g] = IF sql[g] = "open" THEN "closed" ELSE handle[g]
  <2>1. CASE /\ g \in suspended \/ handle[g] = "closed"
             /\ stage' = [stage EXCEPT ![g] = IF g \in suspended THEN "suspended" ELSE "failed"]
             /\ UNCHANGED <<leased, tasks, suspended, cleanup, handle, midway>>
    BY <1>2, <2>1 DEF VaultTypeOK
  <2>2. CASE /\ g \notin suspended /\ handle[g] # "closed" /\ leased' \subseteq leased \cup {g}
             /\ Execute(g)
             /\ UNCHANGED <<suspended, cleanup>>
    BY <1>2, <2>2, ExecuteEffect
  <2>3. CASE /\ g \notin suspended /\ handle[g] # "closed"
             /\ suspended' = suspended \cup {g} /\ cleanup' = cleanup \cup {g}
             /\ stage' = [stage EXCEPT ![g] = "suspended"]
             /\ leased' = IF sql[g] = "open" THEN leased ELSE leased \cup {g}
             /\ handle' = IF sql[g] = "open" THEN [handle EXCEPT ![g] = "closed"] ELSE handle
    BY <1>2, <2>3 DEF VaultTypeOK
  <2> QED
    BY <2>1, <2>2, <2>3 DEF Enter
<1>5. Unopened(g)' /\ Closing(g)'
  BY <1>1, <1>2, <1>3, <1>4 DEF Unopened, Closing
<1>6. Opening(g)'
  BY <1>1, <1>2, <1>4 DEF Opening, Untouched
<1>7. Open(g)'
  BY <1>1, <1>2, <1>4 DEF Open
<1>8. phase[g] # "opening" /\ handle[g] = "open" => handle'[g] = "open"
  BY <1>2, <1>3, <1>4 DEF Open
<1> QED
  BY <1>1, <1>4, <1>5, <1>6, <1>7, <1>8, ConnectionKeepsPool

LEMMA LeaveKeepsPool ==
  ASSUME PoolInv, NEW g \in Gens, Leave(g), UNCHANGED poolVars, VaultInv'
  PROVE  PoolInv'
<1>1. stage[g] \in {"done", "broken"} /\ UNCHANGED <<suspended, closing, sql, phase>>
  BY DEF Leave, adapterVars, poolVars
<1>2. Unopened(g) /\ Opening(g) /\ Open(g) /\ Closing(g) /\ phase[g] \in Phases /\ VaultTypeOK
  BY DEF PoolInv, PoolTypeOK, PhasesAreShown, VaultInv
<1>3. phase[g] \in {"opening", "setup", "ready"}
  BY <1>1, <1>2 DEF Unopened, Closing, Phases
<1>4. /\ leased' \subseteq leased
      /\ \A h \in Gens : h # g => handle'[h] = handle[h] /\ stage'[h] = stage[h]
      /\ \/ stage'[g] = "ok" /\ stage[g] = "done" /\ handle'[g] = handle[g]
         \/ /\ (stage'[g] = "suspended" /\ g \in suspended) \/ stage'[g] = "failed"
            /\ handle'[g] = IF sql[g] = "open" THEN "closed" ELSE handle[g]
  BY <1>1, <1>2 DEF Leave, CloseOnQueue, ReleaseIfIdle, GiveUp, VaultTypeOK
<1>5. Unopened(g)' /\ Closing(g)'
  BY <1>1, <1>2, <1>3, <1>4 DEF Unopened, Closing
<1>6. Opening(g)'
  BY <1>1, <1>2, <1>4 DEF Opening, Untouched
<1>7. phase[g] # "opening" => sql[g] # "open"
  BY <1>2, <1>3 DEF Open
<1>8. Open(g)'
  BY <1>1, <1>2, <1>4, <1>7 DEF Open
<1> QED
  BY <1>1, <1>4, <1>5, <1>6, <1>7, <1>8, ConnectionKeepsPool

LEMMA CloseKeepsPool ==
  ASSUME PoolInv, NEW g \in Gens, CleanUp(g) \/ NativeClose(g), UNCHANGED poolVars, VaultInv'
  PROVE  PoolInv'
<1>1. /\ ~OnQueue(g) /\ UNCHANGED <<suspended, sql, stage, phase>>
      /\ \/ g \in suspended /\ closing' = closing
         \/ closing[g] = "asked" /\ closing' = [closing EXCEPT ![g] = "done"]
  BY DEF CleanUp, NativeClose, adapterVars, poolVars, PoolInv, VaultInv, VaultTypeOK
<1>2. Unopened(g) /\ Opening(g) /\ Open(g) /\ Closing(g) /\ phase[g] \in Phases /\ VaultTypeOK
  BY DEF PoolInv, PoolTypeOK, PhasesAreShown, VaultInv
<1>3. handle' = [handle EXCEPT ![g] = "closed"] /\ leased' \subseteq leased
  BY DEF CleanUp, NativeClose, CloseOnQueue, GiveUp
<1>4. /\ handle'[g] = "closed" /\ \A h \in Gens : h # g => handle'[h] = handle[h] /\ closing'[h] = closing[h]
      /\ closing'[g] = closing[g] \/ closing'[g] = "done"
  BY <1>1, <1>2, <1>3 DEF VaultTypeOK
<1>5. g \in suspended \/ closing[g] = "asked"
  BY <1>1
<1>6. phase[g] \notin {"unused", "waiting"}
  BY <1>2, <1>5 DEF Unopened, Untouched
<1>7. Unopened(g)' /\ Closing(g)'
  BY <1>1, <1>2, <1>4, <1>6 DEF Unopened, Closing
<1>8. Opening(g)'
  <2>1. phase[g] = "opening" => /\ closing'[g] = "no" /\ g \in suspended /\ stage[g] # "done" /\ stage[g] # "called"
                                /\ sql[g] = "open" /\ stage[g] # "none"
    BY <1>1, <1>2 DEF Opening, OnQueue, Untouched
  <2> QED
    BY <1>1, <1>4, <2>1 DEF Opening
<1>9. Open(g)'
  BY <1>1, <1>2, <1>4 DEF Open, VaultTypeOK
<1>10. closing[g] = "no" => closing'[g] = "no"
  BY <1>1
<1> QED
  BY <1>1, <1>3, <1>4, <1>5, <1>7, <1>8, <1>9, <1>10, ConnectionKeepsPool

LEMMA VaultStepKeepsPool ==
  ASSUME PoolInv, VaultStep, UNCHANGED poolVars
  PROVE  PoolInv'
<1>1. VaultInv'
  BY VaultStepKeepsVault DEF PoolInv
<1>2. PICK g \in Gens : Enter(g) \/ Leave(g) \/ CleanUp(g) \/ NativeClose(g) \/ EndTask(g) \/ OsExpires(g)
  BY DEF VaultStep
<1>3. Unopened(g) /\ Opening(g) /\ Open(g) /\ Closing(g) /\ phase[g] \in Phases /\ VaultTypeOK
  BY DEF PoolInv, PoolTypeOK, PhasesAreShown, VaultInv
<1>4. CASE EndTask(g)
  <2>1. UNCHANGED <<handle, suspended, leased, closing, sql, stage, phase>>
    BY <1>4 DEF EndTask, adapterVars, poolVars
  <2>2. Unopened(g)' /\ Opening(g)' /\ Open(g)' /\ Closing(g)'
    BY <1>3, <2>1 DEF Unopened, Opening, Open, Closing, Untouched
  <2> QED
    BY <1>1, <2>1, <2>2, ConnectionKeepsPool
<1>5. CASE OsExpires(g)
  <2>1. /\ UNCHANGED <<handle, leased, closing, sql, stage, phase>>
        /\ suspended' = suspended \/ (suspended' = suspended \cup {g} /\ g \in leased)
    BY <1>5 DEF OsExpires, Expire, adapterVars, poolVars
  <2>2. Unopened(g)' /\ Opening(g)' /\ Open(g)' /\ Closing(g)'
    BY <1>3, <2>1 DEF Unopened, Opening, Open, Closing, Untouched
  <2> QED
    BY <1>1, <2>1, <2>2, ConnectionKeepsPool
<1> QED
  BY <1>1, <1>2, <1>4, <1>5, EnterKeepsPool, LeaveKeepsPool, CloseKeepsPool
------------------------------------------------------------------------------
(* The pool: a session goes on, and may be retired                           *)

Retires(g, opened) ==
    /\ retired' = retired \cup {g} /\ watched' \subseteq watched
    /\ current' = IF current = g THEN 0 ELSE current
    /\ last' = IF current = g THEN (IF opened THEN g ELSE 0) ELSE last
    /\ disposing' \subseteq disposing \cup {g} /\ recovery' \in BOOLEAN

Stays(g) ==
    /\ watched' \subseteq watched \cup {g} /\ recovery' \in BOOLEAN
    /\ disposing' \subseteq disposing /\ UNCHANGED <<retired, current, last>>

LEMMA SuspendRetires ==
  ASSUME PoolInv, NEW g \in Gens, NEW opened \in BOOLEAN, Suspend(g, opened)
  PROVE  Retires(g, opened)
<1>1. current \notin retired /\ recovery \in BOOLEAN
  BY DEF PoolInv, RetiredAreGone, PoolTypeOK
<1>2. CASE g \in retired
  BY <1>1, <1>2 DEF Suspend, Retires
<1>3. CASE g \notin retired
  BY <1>1, <1>3 DEF Suspend, Retires
<1> QED
  BY <1>2, <1>3

\* What a session that was opened, or is being opened, does for itself.
LEMMA SessionKeepsPool ==
  ASSUME PoolInv, VaultInv', NEW g \in Gens, NEW opened \in BOOLEAN,
         UNCHANGED <<handle, suspended, leased, after, users, hold>>,
         works' \in 0 .. MaxWorks,
         Retires(g, opened) \/ Stays(g),
         phase[g] \notin {"unused", "waiting"},
         phase' \in [Gens -> Phases], phase'[g] \notin {"unused", "waiting"},
         phase'[g] = "opening" => phase[g] = "opening" /\ UNCHANGED <<sql, stage, closing, watched, current>>,
         \A h \in Gens : h # g => phase'[h] = phase[h] /\ sql'[h] = sql[h] /\ stage'[h] = stage[h]
                                                       /\ closing'[h] = closing[h],
         Open(g)', Closing(g)',
         phase[g] = "ready" => phase'[g] = "ready",
         phase'[g] \in {"setup", "ready"} /\ g \notin retired' => phase[g] # "closing" /\ phase[g] # "failed"
                                                                /\ closing'[g] = "no",
         Retires(g, opened) => phase[g] # "ready" \/ g \in suspended \/ closing[g] # "no" \/ current # g,
         closing'[g] = closing[g] \/ phase[g] # "ready" \/ g \in suspended \cup retired,
         Retires(g, opened) /\ ~opened => handle[g] = "closed"
  PROVE  PoolInv'
<1> USE DEF PoolInv
<1>0. handle' = handle /\ suspended' = suspended /\ leased' = leased /\ after' = after /\ users' = users /\ hold' = hold
  OBVIOUS
<1>1. /\ current' \in {current, 0} /\ current \notin retired /\ disposing \subseteq retired
      /\ 0 \notin Gens /\ current \in Gens \cup {0}
  BY VaultAssumption DEF RetiredAreGone, PoolTypeOK, Retires, Stays, Gens
<1>2. PoolTypeOK'
  BY <1>0, <1>1 DEF PoolTypeOK, VaultInv, Retires, Stays
<1>3. PhasesAreShown'
  <2>1. (Unopened(g) /\ Opening(g) /\ Open(g) /\ Closing(g))'
    BY <1>0 DEF PhasesAreShown, Unopened, Opening, Untouched
  <2>2. ASSUME NEW h \in Gens, h # g
        PROVE  (Unopened(h) /\ Opening(h) /\ Open(h) /\ Closing(h))'
    BY <1>0, <2>2 DEF PhasesAreShown, Unopened, Opening, Open, Closing, Untouched
  <2> QED
    BY <2>1, <2>2 DEF PhasesAreShown
<1>4. OneAfterTheOther'
  BY <1>0 DEF OneAfterTheOther
<1>5. PoolKnowsTheOpen'
  <2>1. current' # 0 => phase'[current'] # "unused" /\ \A h \in Gens : h > current' => phase'[h] = "unused"
    <3> HAVE current' # 0
    <3>1. current' = current /\ current # 0
      BY <1>1
    <3>2. phase[current] # "unused" /\ \A h \in Gens : h > current => phase[h] = "unused"
      BY <3>1 DEF PoolKnowsTheOpen
    <3> QED
      BY <1>1, <3>1, <3>2
  <2>2. ASSUME current' = 0, NEW h \in Gens
        PROVE  phase'[h] = "unused" \/ handle'[h] = "closed" \/ last' = h
    <3>1. CASE current = 0
      <4>1. last' = last
        BY <1>1, <3>1 DEF Retires, Stays
      <4> QED
        BY <1>0, <3>1, <4>1 DEF PoolKnowsTheOpen
    <3>2. CASE current # 0
      <4>1. current = g /\ Retires(g, opened)
        BY <2>2, <3>2 DEF Retires, Stays
      <4>2. CASE h > g
        BY <1>1, <4>1, <4>2 DEF PoolKnowsTheOpen, Gens
      <4>3. CASE h < g
        BY <1>0, <4>3 DEF OneAfterTheOther
      <4>4. CASE h = g
        BY <1>0, <4>1, <4>4 DEF Retires
      <4> QED
        BY <4>2, <4>3, <4>4 DEF Gens
    <3> QED
      BY <3>1, <3>2
  <2> QED
    BY <2>1, <2>2 DEF PoolKnowsTheOpen
<1>6. RetiredAreGone'
  <2>1. current' \notin retired' /\ disposing' \subseteq retired'
    <3>1. CASE Stays(g)
      BY <1>1, <3>1 DEF Stays
    <3>2. CASE Retires(g, opened)
      <4>1. 0 \notin retired
        BY <1>1 DEF PoolTypeOK
      <4> QED
        BY <1>1, <3>2, <4>1 DEF Retires
    <3> QED
      BY <3>1, <3>2
  <2>2. ASSUME NEW h \in Gens
        PROVE  /\ h \in retired' => phase'[h] # "unused"
               /\ phase'[h] \in {"waiting", "opening"} => current' = h
               /\ phase'[h] \in {"setup", "ready"} /\ h \notin retired' => current' = h /\ closing'[h] = "no"
               /\ h \in watched' => phase'[h] \notin {"unused", "waiting", "opening"}
    <3>1. /\ h \in retired => phase[h] # "unused"
          /\ phase[h] \in {"waiting", "opening"} => current = h
          /\ phase[h] \in {"setup", "ready"} /\ h \notin retired => current = h /\ closing[h] = "no"
          /\ h \in watched => phase[h] \notin {"unused", "waiting", "opening"}
      BY DEF RetiredAreGone
    <3>2. CASE h # g
      <4>1. /\ h \in retired' <=> h \in retired
            /\ h \in watched' => h \in watched
            /\ current = h => current' = h
        BY <3>2 DEF Retires, Stays
      <4> QED
        BY <3>1, <3>2, <4>1
    <3>3. CASE h = g
      <4>1. phase'[g] \in {"setup", "ready"} /\ g \notin retired' => g \notin retired /\ current' = current
        BY DEF Retires, Stays
      <4>2. phase[g] \in Phases
        BY DEF PoolTypeOK
      <4> QED
        BY <3>1, <3>3, <4>1, <4>2 DEF Phases
    <3> QED
      BY <3>2, <3>3
  <2> QED
    BY <2>1, <2>2 DEF RetiredAreGone
<1>7. UsersAreCounted'
  <2>1. \A h \in Gens : Using(h)' = Using(h)
    BY <1>0 DEF Using
  <2> QED
    BY <1>0, <2>1 DEF UsersAreCounted
<1>8. LeasesAreSessions'
  <2> SUFFICES ASSUME NEW u \in Users
               PROVE  /\ hold[u].at \in {"waiting", "held"} => hold[u].of # 0 /\ phase'[hold[u].of] # "unused"
                      /\ hold[u].at = "held" => phase'[hold[u].of] = "ready"
    BY <1>0 DEF LeasesAreSessions
  <2>1. hold[u].of \in Gens \cup {0}
    BY DEF PoolTypeOK
  <2>2. /\ hold[u].at \in {"waiting", "held"} => hold[u].of # 0 /\ phase[hold[u].of] # "unused"
        /\ hold[u].at = "held" => phase[hold[u].of] = "ready"
    BY DEF LeasesAreSessions
  <2> QED
    BY <2>1, <2>2
<1>9. LeasesAreCurrent'
  <2> SUFFICES ASSUME NEW u \in Users, hold[u].at = "held", hold[u].of \notin suspended
               PROVE  current' = hold[u].of /\ closing'[hold[u].of] = "no" /\ handle[hold[u].of] = "open"
    BY <1>0 DEF LeasesAreCurrent
  <2>1. hold[u].of \in Gens /\ phase[hold[u].of] = "ready"
    BY DEF PoolTypeOK, LeasesAreSessions
  <2>2. current = hold[u].of /\ closing[hold[u].of] = "no" /\ handle[hold[u].of] = "open"
    BY DEF LeasesAreCurrent
  <2>3. CASE hold[u].of = g
    <3>1. Stays(g)
      BY <2>1, <2>2, <2>3
    <3>2. closing'[g] = closing[g]
      BY <1>1, <2>1, <2>2, <2>3
    <3> QED
      BY <2>2, <2>3, <3>1, <3>2 DEF Stays
  <2>4. CASE hold[u].of # g
    <3>1. current' = current
      BY <2>2, <2>4 DEF Stays, Retires
    <3> QED
      BY <2>1, <2>2, <2>4, <3>1
  <2> QED
    BY <2>3, <2>4
<1> QED
  BY <1>2, <1>3, <1>4, <1>5, <1>6, <1>7, <1>8, <1>9
LEMMA NotifyEffect ==
  ASSUME PoolInv, NEW g \in Gens, Notify(g), closing[g] # "no" \/ g \in suspended
  PROVE  /\ noticed' \subseteq suspended
         /\ closing' \in [Gens -> {"no", "asked", "done"}]
         /\ \A h \in Gens : h # g => closing'[h] = closing[h]
         /\ closing'[g] = closing[g] \/ (closing[g] = "no" /\ closing'[g] = "asked" /\ g \in suspended)
         /\ Stays(g) \/ (Retires(g, TRUE) /\ g \in watched)
         /\ closing'[g] # closing[g] => Retires(g, TRUE)
<1>1. VaultTypeOK /\ PoolTypeOK
  BY DEF PoolInv, VaultInv
<1>2. noticed' \subseteq suspended
  BY <1>1 DEF Notify, VaultTypeOK
<1>3. CASE closing[g] = "no" /\ g \notin noticed /\ g \in watched
  <2>1. Suspend(g, TRUE) /\ closing' = [h \in Gens |-> IF h \in ClosedBySuspend(g) /\ closing[h] = "no" THEN "asked" ELSE closing[h]]
    BY <1>3 DEF Notify, AskClose
  <2>2. Retires(g, TRUE)
    BY <2>1, SuspendRetires
  <2>3. ClosedBySuspend(g) \subseteq {g}
    BY DEF ClosedBySuspend
  <2> QED
    BY <1>1, <1>2, <1>3, <2>1, <2>2, <2>3 DEF VaultTypeOK
<1>4. CASE ~(closing[g] = "no" /\ g \notin noticed /\ g \in watched)
  <2>1. UNCHANGED <<retired, watched, current, recovery, last, disposing, closing>>
    BY <1>4 DEF Notify
  <2> QED
    BY <1>1, <1>2, <2>1 DEF Stays, PoolTypeOK, VaultTypeOK
<1> QED
  BY <1>3, <1>4

LEMMA OpenedKeepsPool ==
  ASSUME PoolInv, NEW g \in Gens, Opened(g)
  PROVE  PoolInv'
<1> DEFINE ready == stage[g] = "ok" /\ ~IsSuspended(g)
           shut == stage[g] = "ok" /\ IsSuspended(g)
<1>1. /\ phase[g] = "opening" /\ stage[g] \in Results
      /\ UNCHANGED <<nativeVars, noticed, after, users, hold, works>>
      /\ stage' = [stage EXCEPT ![g] = IF ready THEN "called" ELSE "none"]
      /\ sql' = [sql EXCEPT ![g] = IF ready THEN "setup" ELSE "none"]
      /\ phase' = [phase EXCEPT ![g] = IF ready THEN "setup"
                                       ELSE IF stage[g] = "ok" THEN "closing" ELSE "failed"]
  BY DEF Opened
<1>2. Opening(g) /\ VaultTypeOK /\ PoolTypeOK /\ VaultInv
  BY DEF PoolInv, PhasesAreShown, VaultInv
<1>3. closing[g] = "no" /\ (stage[g] = "ok" => handle[g] = "open" \/ g \in suspended)
                        /\ (stage[g] # "ok" => handle[g] = "closed")
  BY <1>1, <1>2 DEF Opening, Results
<1>4. \/ ~shut /\ closing' = closing /\ (Stays(g) \/ (stage[g] = "suspended" /\ Retires(g, FALSE)))
      \/ shut /\ closing' = [closing EXCEPT ![g] = "asked"] /\ Retires(g, TRUE)
  <2>1. CASE ready
    BY <1>2, <2>1 DEF Opened, Stays, PoolTypeOK
  <2>2. CASE shut
    <3>1. Suspend(g, TRUE) /\ AskClose({g})
      BY <2>2 DEF Opened
    <3>2. closing' = [closing EXCEPT ![g] = "asked"]
      BY <1>2, <1>3, <3>1 DEF AskClose, VaultTypeOK
    <3> QED
      BY <2>2, <3>1, <3>2, SuspendRetires
  <2>3. CASE stage[g] = "suspended"
    <3>1. Suspend(g, FALSE) /\ closing' = closing
      BY <2>3 DEF Opened
    <3> QED
      BY <2>3, <3>1, SuspendRetires
  <2>4. CASE stage[g] = "failed"
    BY <1>2, <2>4 DEF Opened, Stays, PoolTypeOK
  <2> QED
    BY <1>1, <2>1, <2>2, <2>3, <2>4 DEF Results
<1>5. /\ closing' \in [Gens -> {"no", "asked", "done"}]
      /\ closing'[g] = IF shut THEN "asked" ELSE "no"
      /\ \A h \in Gens : h # g => closing'[h] = closing[h]
  BY <1>2, <1>3, <1>4 DEF VaultTypeOK
<1>6. /\ VaultInv' /\ works' \in 0 .. MaxWorks
  BY <1>1, <1>2, <1>5, CallKeepsVault
  DEF VaultTypeOK, PoolTypeOK, nativeVars, Statements, Stages, Results
<1>7. UNCHANGED <<handle, suspended, leased>>
  BY <1>1 DEF nativeVars
<1>8. /\ phase' \in [Gens -> Phases] /\ phase'[g] \notin {"unused", "waiting", "opening", "ready"}
      /\ \A h \in Gens : h # g => phase'[h] = phase[h] /\ sql'[h] = sql[h] /\ stage'[h] = stage[h]
      /\ ready => phase'[g] = "setup" /\ sql'[g] = "setup" /\ stage'[g] = "called"
      /\ shut => phase'[g] = "closing" /\ sql'[g] = "none" /\ stage'[g] = "none"
      /\ stage[g] # "ok" => phase'[g] = "failed" /\ sql'[g] = "none" /\ stage'[g] = "none"
  BY <1>1, <1>2 DEF VaultTypeOK, PoolTypeOK, Phases
<1>9. (Open(g) /\ Closing(g))'
  BY <1>3, <1>5, <1>7, <1>8 DEF Open, Closing
<1>10. phase'[g] = "setup" => closing'[g] = "no"
  BY <1>5, <1>8
<1> HIDE DEF ready, shut
<1>11. CASE Stays(g)
  BY <1>1, <1>3, <1>5, <1>6, <1>7, <1>8, <1>9, <1>10, <1>11, SessionKeepsPool
<1>12. CASE Retires(g, TRUE)
  BY <1>1, <1>3, <1>5, <1>6, <1>7, <1>8, <1>9, <1>10, <1>12, SessionKeepsPool
<1>13. CASE stage[g] = "suspended" /\ Retires(g, FALSE)
  BY <1>1, <1>3, <1>5, <1>6, <1>7, <1>8, <1>9, <1>10, <1>13, SessionKeepsPool
<1> QED
  BY <1>4, <1>11, <1>12, <1>13

LEMMA KeyNotSharedKeepsPool ==
  ASSUME PoolInv, NEW g \in Gens, KeyNotShared(g)
  PROVE  PoolInv'
<1>1. /\ phase[g] = "opening" /\ stage[g] = "ok"
      /\ UNCHANGED <<nativeVars, noticed, after, users, hold, works>>
      /\ UNCHANGED <<retired, watched, current, recovery, last, disposing>>
      /\ stage' = [stage EXCEPT ![g] = "none"] /\ sql' = [sql EXCEPT ![g] = "none"]
      /\ phase' = [phase EXCEPT ![g] = "closing"] /\ AskClose({g})
  BY DEF KeyNotShared
<1>2. Opening(g) /\ VaultTypeOK /\ PoolTypeOK /\ VaultInv
  BY DEF PoolInv, PhasesAreShown, VaultInv
<1>3. /\ closing' \in [Gens -> {"no", "asked", "done"}] /\ closing[g] = "no" /\ closing'[g] = "asked"
      /\ \A h \in Gens : h # g => closing'[h] = closing[h]
  BY <1>1, <1>2 DEF AskClose, VaultTypeOK, Opening
<1>4. /\ VaultInv' /\ works' \in 0 .. MaxWorks
  BY <1>1, <1>2, <1>3, CallKeepsVault
  DEF VaultTypeOK, PoolTypeOK, nativeVars, Statements, Stages, Results
<1>5. UNCHANGED <<handle, suspended, leased>>
  BY <1>1 DEF nativeVars
<1>6. /\ phase' \in [Gens -> Phases] /\ phase'[g] = "closing" /\ sql'[g] = "none" /\ stage'[g] = "none"
      /\ \A h \in Gens : h # g => phase'[h] = phase[h] /\ sql'[h] = sql[h] /\ stage'[h] = stage[h]
  BY <1>1, <1>2 DEF VaultTypeOK, PoolTypeOK, Phases
<1>7. (Open(g) /\ Closing(g))'
  BY <1>3, <1>5, <1>6 DEF Open, Closing
<1>8. Stays(g)
  BY <1>1, <1>2 DEF Stays, PoolTypeOK
<1> QED
  BY <1>1, <1>3, <1>4, <1>5, <1>6, <1>7, <1>8, SessionKeepsPool

LEMMA SetUpKeepsPool ==
  ASSUME PoolInv, NEW g \in Gens, SetUp(g)
  PROVE  PoolInv'
<1>1. /\ phase[g] = "setup" /\ stage[g] \in Results
      /\ UNCHANGED <<nativeVars, after, users, hold, works>>
      /\ stage' = [stage EXCEPT ![g] = "none"] /\ sql' = [sql EXCEPT ![g] = "none"]
      /\ noticed' = IF stage[g] = "suspended" /\ closing[g] = "no" THEN noticed \cup {g} ELSE noticed
  BY DEF SetUp
<1>2. Open(g) /\ Closing(g) /\ VaultTypeOK /\ PoolTypeOK /\ VaultInv /\ SuspensionIsTold
  BY DEF PoolInv, PhasesAreShown, VaultInv
<1>3. UNCHANGED <<handle, suspended, leased>>
  BY <1>1 DEF nativeVars
<1>4. CASE stage[g] = "ok" /\ g \notin retired /\ ~IsSuspended(g)
  <2>1. /\ phase' = [phase EXCEPT ![g] = "ready"] /\ recovery' = FALSE
        /\ UNCHANGED <<closing, retired, watched, current, last, disposing>>
    BY <1>4 DEF SetUp
  <2>2. /\ VaultInv' /\ works' \in 0 .. MaxWorks
    BY <1>1, <1>2, <1>4, <2>1, CallKeepsVault
    DEF VaultTypeOK, PoolTypeOK, nativeVars, Statements, Stages, Results
  <2>3. /\ phase' \in [Gens -> Phases] /\ phase'[g] = "ready" /\ sql'[g] = "none" /\ stage'[g] = "none"
        /\ \A h \in Gens : h # g => phase'[h] = phase[h] /\ sql'[h] = sql[h] /\ stage'[h] = stage[h]
    BY <1>1, <1>2, <2>1 DEF VaultTypeOK, PoolTypeOK, Phases
  <2>4. (Open(g) /\ Closing(g))'
    BY <1>1, <1>2, <1>3, <2>1, <2>3 DEF Open, Closing
  <2>5. Stays(g)
    BY <1>2, <2>1 DEF Stays, PoolTypeOK
  <2>6. closing[g] = "no"
    BY <1>1, <1>4 DEF PoolInv, RetiredAreGone
  <2> QED
    BY <1>1, <1>3, <2>1, <2>2, <2>3, <2>4, <2>5, <2>6, SessionKeepsPool
<1>5. CASE ~(stage[g] = "ok" /\ g \notin retired /\ ~IsSuspended(g))
  <2>1. /\ phase' = [phase EXCEPT ![g] = "closing"] /\ AskClose({g})
        /\ IF stage[g] = "failed" /\ ~IsSuspended(g)
           THEN watched' = watched \ {g} /\ UNCHANGED <<retired, current, recovery, last, disposing>>
           ELSE Suspend(g, TRUE)
    BY <1>5 DEF SetUp
  <2>2. /\ closing' \in [Gens -> {"no", "asked", "done"}] /\ closing'[g] # "no"
        /\ closing'[g] = "done" => closing[g] = "done"
        /\ \A h \in Gens : h # g => closing'[h] = closing[h]
    BY <1>2, <2>1 DEF AskClose, VaultTypeOK
  <2>3. noticed' \subseteq suspended
    BY <1>1, <1>2 DEF VaultTypeOK, SuspensionIsTold
  <2>4. /\ VaultInv' /\ works' \in 0 .. MaxWorks
    BY <1>1, <1>2, <2>2, <2>3, CallKeepsVault
    DEF VaultTypeOK, PoolTypeOK, nativeVars, Statements, Stages, Results
  <2>5. /\ phase' \in [Gens -> Phases] /\ phase'[g] = "closing" /\ sql'[g] = "none" /\ stage'[g] = "none"
        /\ \A h \in Gens : h # g => phase'[h] = phase[h] /\ sql'[h] = sql[h] /\ stage'[h] = stage[h]
    BY <1>1, <1>2, <2>1 DEF VaultTypeOK, PoolTypeOK, Phases
  <2>6. (Open(g) /\ Closing(g))'
    BY <1>2, <1>3, <2>2, <2>5 DEF Open, Closing
  <2>7. Stays(g) \/ Retires(g, TRUE)
    BY <1>2, <2>1, SuspendRetires DEF Stays, PoolTypeOK
  <2> QED
    BY <1>1, <1>3, <2>2, <2>4, <2>5, <2>6, <2>7, SessionKeepsPool
<1> QED
  BY <1>4, <1>5

LEMMA RejectedKeepsPool ==
  ASSUME PoolInv, NEW g \in Gens, Rejected(g)
  PROVE  PoolInv'
<1>1. /\ phase[g] = "closing" /\ closing[g] = "done"
      /\ UNCHANGED <<vaultVars, after, users, hold, works>>
      /\ UNCHANGED <<retired, watched, current, recovery, last, disposing>>
      /\ phase' = [phase EXCEPT ![g] = "failed"]
  BY DEF Rejected
<1>2. Closing(g) /\ VaultTypeOK /\ PoolTypeOK /\ VaultInv
  BY DEF PoolInv, PhasesAreShown, VaultInv
<1>3. UNCHANGED <<nativeVars, adapterVars, sql, stage>>
  BY <1>1 DEF vaultVars
<1>4. /\ VaultInv' /\ works' \in 0 .. MaxWorks
  BY <1>1, <1>2, <1>3, CallKeepsVault DEF VaultTypeOK, PoolTypeOK, nativeVars, adapterVars
<1>5. UNCHANGED <<handle, suspended, leased, closing>>
  BY <1>3 DEF nativeVars, adapterVars
<1>6. /\ phase' \in [Gens -> Phases] /\ phase'[g] = "failed" /\ \A h \in Gens : h # g => phase'[h] = phase[h]
  BY <1>1, <1>2 DEF PoolTypeOK, Phases
<1>7. (Open(g) /\ Closing(g))'
  BY <1>1, <1>2, <1>3, <1>5, <1>6 DEF Open, Closing
<1>8. Stays(g)
  BY <1>1, <1>2 DEF Stays, PoolTypeOK
<1> QED
  BY <1>1, <1>3, <1>4, <1>5, <1>6, <1>7, <1>8, SessionKeepsPool
\* A step of an engine between its statements, perhaps after a suspension.
LEMMA EngineKeepsPool ==
  ASSUME PoolInv, NEW g \in Gens, NEW sent \in Stages, NEW next \in Statements \cup {"none"},
         phase[g] = "ready", next \notin {"open", "setup"},
         sent \in {stage[g], "none", "called"}, stage' = [stage EXCEPT ![g] = sent],
         sql' = [sql EXCEPT ![g] = next], UNCHANGED <<nativeVars, phase, after, users, hold>>,
         works' \in 0 .. MaxWorks,
         \/ UNCHANGED <<adapterVars, retired, watched, current, recovery, last, disposing>>
         \/ Notify(g) /\ (closing[g] # "no" \/ g \in suspended)
  PROVE  PoolInv'
<1>1. Open(g) /\ Closing(g) /\ VaultTypeOK /\ PoolTypeOK /\ VaultInv
  BY DEF PoolInv, PhasesAreShown, VaultInv
<1>2. UNCHANGED <<handle, suspended, leased>>
  BY DEF nativeVars
<1>3. /\ noticed' \subseteq suspended
      /\ closing' \in [Gens -> {"no", "asked", "done"}]
      /\ \A h \in Gens : h # g => closing'[h] = closing[h]
      /\ closing'[g] = closing[g] \/ (closing[g] = "no" /\ closing'[g] = "asked" /\ g \in suspended)
      /\ Stays(g) \/ (Retires(g, TRUE) /\ (closing[g] # "no" \/ g \in suspended))
      /\ closing'[g] # closing[g] => Retires(g, TRUE)
  <2>1. CASE UNCHANGED <<adapterVars, retired, watched, current, recovery, last, disposing>>
    BY <1>1, <2>1 DEF adapterVars, VaultTypeOK, PoolTypeOK, Stays
  <2>2. CASE Notify(g) /\ (closing[g] # "no" \/ g \in suspended)
    BY <2>2, NotifyEffect
  <2> QED
    BY <2>1, <2>2
<1>4. VaultInv'
  BY <1>1, <1>3, CallKeepsVault DEF VaultTypeOK, nativeVars
<1>5. /\ sql'[g] = next /\ stage'[g] = sent /\ phase' \in [Gens -> Phases] /\ phase'[g] = "ready"
      /\ \A h \in Gens : h # g => phase'[h] = phase[h] /\ sql'[h] = sql[h] /\ stage'[h] = stage[h]
  BY <1>1 DEF VaultTypeOK, PoolTypeOK
<1>6. (Open(g) /\ Closing(g))'
  BY <1>1, <1>2, <1>3, <1>5 DEF Open, Closing
<1>7. g \notin retired' => closing'[g] = "no"
  <2>1. g \notin retired => closing[g] = "no"
    BY DEF PoolInv, RetiredAreGone
  <2> QED
    BY <1>3, <2>1 DEF Stays, Retires
<1>8. after' = after /\ users' = users /\ hold' = hold
  OBVIOUS
<1>9. CASE Stays(g) /\ closing'[g] = closing[g]
  <2>1. Retires(g, TRUE) => current # g
    BY <1>9 DEF Stays, Retires, PoolInv, RetiredAreGone
  <2> QED
    BY <1>2, <1>3, <1>4, <1>5, <1>6, <1>7, <1>8, <1>9, <2>1, SessionKeepsPool
<1>10. CASE Retires(g, TRUE) /\ (closing[g] # "no" \/ g \in suspended)
  BY <1>2, <1>3, <1>4, <1>5, <1>6, <1>7, <1>8, <1>10, SessionKeepsPool
<1> QED
  BY <1>3, <1>9, <1>10

LEMMA WorkKeepsPool ==
  ASSUME PoolInv, NEW g \in Gens, StartWork(g) \/ CallStatement(g) \/ Answer(g)
  PROVE  PoolInv'
<1>1. Open(g) /\ VaultTypeOK /\ PoolTypeOK /\ SuspensionIsTold
  BY DEF PoolInv, PhasesAreShown, VaultInv
<1>2. noticed \subseteq suspended
  BY <1>1 DEF VaultTypeOK
<1>3. IsSuspended(g) => g \in suspended
  BY <1>2 DEF IsSuspended
<1>4. CASE StartWork(g)
  <2>1. /\ phase[g] = "ready" /\ works < MaxWorks /\ works' = works + 1
        /\ sql' = [sql EXCEPT ![g] = "begin"] /\ stage' = [stage EXCEPT ![g] = stage[g]]
        /\ UNCHANGED <<nativeVars, phase, after, users, hold>>
        /\ UNCHANGED <<adapterVars, retired, watched, current, recovery, last, disposing>>
    BY <1>1, <1>4 DEF StartWork, VaultTypeOK
  <2>2. works' \in 0 .. MaxWorks
    BY <1>1, <2>1, PoolAssumption DEF PoolTypeOK
  <2>3. stage[g] \in Stages /\ "begin" \in Statements
    BY <1>1 DEF VaultTypeOK, Statements
  <2> QED
    BY <2>1, <2>2, <2>3, EngineKeepsPool
<1>5. ASSUME NEW ok \in BOOLEAN, phase[g] = "ready", sql[g] # "none"
      PROVE  Following(sql[g], ok) \in (Statements \cup {"none"}) \ {"open", "setup"}
  BY DEF Following, Statements
<1>6. CASE CallStatement(g)
  <2>1. /\ phase[g] = "ready" /\ sql[g] # "none" /\ UNCHANGED <<nativeVars, phase, after, users, hold, works>>
    BY <1>6 DEF CallStatement, InWork
  <2>2. works' \in 0 .. MaxWorks
    BY <1>1, <2>1 DEF PoolTypeOK
  <2>3. CASE closing[g] # "no" \/ IsSuspended(g)
    <3>1. /\ sql' = [sql EXCEPT ![g] = Following(sql[g], FALSE)] /\ Notify(g)
          /\ stage' = [stage EXCEPT ![g] = stage[g]] /\ stage[g] \in Stages
      BY <1>1, <1>6, <2>3 DEF CallStatement, VaultTypeOK
    <3>2. closing[g] # "no" \/ g \in suspended
      BY <1>3, <2>3
    <3> QED
      BY <1>5, <2>1, <2>2, <3>1, <3>2, EngineKeepsPool
  <2>4. CASE ~(closing[g] # "no" \/ IsSuspended(g))
    <3>1. /\ stage' = [stage EXCEPT ![g] = "called"] /\ sql' = [sql EXCEPT ![g] = sql[g]]
          /\ UNCHANGED <<adapterVars, retired, watched, current, recovery, last, disposing>>
      BY <1>1, <1>6, <2>4 DEF CallStatement, VaultTypeOK
    <3>2. "called" \in Stages /\ sql[g] \in (Statements \cup {"none"}) \ {"open", "setup"}
      BY <1>1, <2>1 DEF Stages, VaultTypeOK, Open
    <3> QED
      BY <2>1, <2>2, <3>1, <3>2, EngineKeepsPool
  <2> QED
    BY <2>3, <2>4
<1>7. CASE Answer(g)
  <2>1. /\ phase[g] = "ready" /\ sql[g] # "none" /\ UNCHANGED <<nativeVars, phase, after, users, hold, works>>
        /\ stage' = [stage EXCEPT ![g] = "none"]
        /\ sql' = [sql EXCEPT ![g] = Following(sql[g], stage[g] = "ok")]
    BY <1>7 DEF Answer, InWork
  <2>2. works' \in 0 .. MaxWorks /\ "none" \in Stages
    BY <1>1, <2>1 DEF PoolTypeOK, Stages
  <2>3. \/ UNCHANGED <<adapterVars, retired, watched, current, recovery, last, disposing>>
        \/ Notify(g) /\ g \in suspended
    BY <1>1, <1>3, <1>7 DEF Answer, SuspensionIsTold
  <2>4. Following(sql[g], stage[g] = "ok") \in (Statements \cup {"none"}) \ {"open", "setup"}
    <3>1. (stage[g] = "ok") \in BOOLEAN
      OBVIOUS
    <3> QED
      BY <1>5, <2>1, <3>1
  <2> QED
    BY <2>1, <2>2, <2>3, <2>4, EngineKeepsPool
<1> QED
  BY <1>4, <1>6, <1>7

LEMMA DisposeKeepsPool ==
  ASSUME PoolInv, NEW g \in Gens, Dispose(g)
  PROVE  PoolInv'
<1>1. /\ g \in disposing /\ disposing' = disposing \ {g} /\ AskClose({g})
      /\ UNCHANGED <<nativeVars, noticed, sql, stage, phase, after, users, hold, works>>
      /\ UNCHANGED <<retired, watched, current, recovery, last>>
  BY DEF Dispose
<1>2. /\ Unopened(g) /\ Opening(g) /\ Open(g) /\ Closing(g) /\ VaultTypeOK /\ PoolTypeOK /\ VaultInv
      /\ g \in retired /\ current # g /\ phase[g] # "unused" /\ phase[g] \notin {"waiting", "opening"}
  BY <1>1 DEF PoolInv, PhasesAreShown, VaultInv, RetiredAreGone
<1>3. /\ closing' \in [Gens -> {"no", "asked", "done"}] /\ closing'[g] # "no"
      /\ closing'[g] = "done" <=> closing[g] = "done"
      /\ \A h \in Gens : h # g => closing'[h] = closing[h]
  BY <1>1, <1>2 DEF AskClose, VaultTypeOK
<1>4. /\ VaultInv' /\ works' \in 0 .. MaxWorks
  BY <1>1, <1>2, <1>3, CallKeepsVault DEF VaultTypeOK, PoolTypeOK, nativeVars
<1>5. UNCHANGED <<handle, suspended, leased>>
  BY <1>1 DEF nativeVars
<1>6. (Open(g) /\ Closing(g))'
  BY <1>1, <1>2, <1>3, <1>5 DEF Open, Closing
<1>7. Stays(g)
  BY <1>1, <1>2 DEF Stays, PoolTypeOK
<1>8. phase' \in [Gens -> Phases]
  BY <1>1, <1>2 DEF PoolTypeOK
<1> QED
  BY <1>1, <1>2, <1>3, <1>4, <1>5, <1>6, <1>7, <1>8, SessionKeepsPool

LEMMA HearExpiredKeepsPool ==
  ASSUME PoolInv, NEW g \in Gens, HearExpired(g)
  PROVE  PoolInv'
<1>1. /\ g \in events /\ events' = events \ {g} /\ Notify(g)
      /\ UNCHANGED <<handle, suspended, leased, tasks, ended, midway, cleanup, sql, stage, phase,
                     after, users, hold, works>>
  BY DEF HearExpired
<1>2. /\ Unopened(g) /\ Opening(g) /\ Open(g) /\ Closing(g) /\ VaultTypeOK /\ PoolTypeOK /\ VaultInv
      /\ g \in suspended
  BY <1>1 DEF PoolInv, PhasesAreShown, VaultInv, VaultTypeOK
<1>3. phase[g] \notin {"unused", "waiting"}
  BY <1>2 DEF Unopened, Untouched
<1>4. /\ noticed' \subseteq suspended
      /\ closing' \in [Gens -> {"no", "asked", "done"}]
      /\ \A h \in Gens : h # g => closing'[h] = closing[h]
      /\ closing'[g] = closing[g] \/ (closing[g] = "no" /\ closing'[g] = "asked" /\ g \in suspended)
      /\ Stays(g) \/ (Retires(g, TRUE) /\ g \in watched)
      /\ closing'[g] # closing[g] => Retires(g, TRUE)
  BY <1>1, <1>2, NotifyEffect
<1>5. /\ VaultInv' /\ works' \in 0 .. MaxWorks
  BY <1>1, <1>2, <1>4, CallKeepsVault DEF VaultTypeOK, PoolTypeOK
<1>6. (Open(g) /\ Closing(g))'
  BY <1>1, <1>2, <1>4 DEF Open, Closing
<1>7. phase' \in [Gens -> Phases] /\ phase' = phase
  BY <1>1, <1>2 DEF PoolTypeOK
<1>8. phase[g] \in {"setup", "ready"} /\ g \notin retired' => closing'[g] = "no"
  <2>1. phase[g] \in {"setup", "ready"} /\ g \notin retired => closing[g] = "no"
    BY DEF PoolInv, RetiredAreGone
  <2> QED
    BY <1>4, <2>1 DEF Stays, Retires
<1>9. CASE phase[g] = "opening"
  <2>1. g \notin watched
    BY <1>9 DEF PoolInv, RetiredAreGone
  <2>2. UNCHANGED <<retired, watched, current, recovery, last, disposing, closing>>
    BY <1>1, <2>1 DEF Notify
  <2>3. Stays(g)
    BY <1>2, <2>2 DEF Stays, PoolTypeOK
  <2> QED
    BY <1>1, <1>2, <1>3, <1>4, <1>5, <1>6, <1>7, <1>8, <1>9, <2>2, <2>3, SessionKeepsPool
<1>10. CASE phase[g] # "opening"
  BY <1>1, <1>2, <1>3, <1>4, <1>5, <1>6, <1>7, <1>8, <1>10, SessionKeepsPool
<1> QED
  BY <1>9, <1>10

LEMMA ForegroundKeepsPool ==
  ASSUME PoolInv, CheckForeground
  PROVE  PoolInv'
<1>0. current \in Gens
  BY DEF CheckForeground, PoolInv, PoolTypeOK
<1> SUFFICES ASSUME NEW g \in Gens, g = current
             PROVE  PoolInv'
  BY <1>0
<1>1. /\ g # 0 /\ handle[g] # "none" /\ IsSuspended(g) /\ phase[g] \notin {"waiting", "opening"}
      /\ Suspend(g, TRUE) /\ AskClose({g})
      /\ UNCHANGED <<nativeVars, noticed, sql, stage, phase, after, users, hold, works>>
  BY DEF CheckForeground
<1>3. /\ Open(g) /\ Closing(g) /\ VaultTypeOK /\ PoolTypeOK /\ VaultInv /\ phase[g] # "unused"
  BY <1>1 DEF PoolInv, PhasesAreShown, VaultInv, PoolKnowsTheOpen
<1>4. g \in suspended
  BY <1>1, <1>3 DEF IsSuspended, VaultTypeOK
<1>5. /\ closing' \in [Gens -> {"no", "asked", "done"}] /\ closing'[g] # "no"
      /\ closing'[g] = "done" <=> closing[g] = "done"
      /\ \A h \in Gens : h # g => closing'[h] = closing[h]
  BY <1>1, <1>3 DEF AskClose, VaultTypeOK
<1>6. /\ VaultInv' /\ works' \in 0 .. MaxWorks
  BY <1>1, <1>3, <1>5, CallKeepsVault DEF VaultTypeOK, PoolTypeOK, nativeVars
<1>7. UNCHANGED <<handle, suspended, leased>>
  BY <1>1 DEF nativeVars
<1>8. (Open(g) /\ Closing(g))'
  BY <1>1, <1>3, <1>5, <1>7 DEF Open, Closing
<1>9. phase' \in [Gens -> Phases] /\ phase' = phase
  BY <1>1, <1>3 DEF PoolTypeOK
<1>10. Retires(g, TRUE) /\ g \in retired'
  BY <1>1, SuspendRetires DEF Retires
<1> QED
  BY <1>1, <1>3, <1>4, <1>5, <1>6, <1>7, <1>8, <1>9, <1>10, SessionKeepsPool
------------------------------------------------------------------------------
(* The pool: sessions begin, and users come and go                           *)

LEMMA OpenNextKeepsPool ==
  ASSUME PoolInv, NEW g \in Gens, OpenNext(g)
  PROVE  PoolInv'
<1> USE DEF PoolInv
<1>1. /\ phase[g] = "waiting" /\ Settled(after[g])
      /\ phase' = [phase EXCEPT ![g] = "opening"]
      /\ sql' = [sql EXCEPT ![g] = "open"] /\ stage' = [stage EXCEPT ![g] = "called"]
      /\ UNCHANGED <<nativeVars, adapterVars, after, current, last, recovery, retired, watched,
                     disposing, users, hold, works>>
  BY DEF OpenNext
<1>2. VaultTypeOK /\ PoolTypeOK /\ Unopened(g)
  BY DEF PhasesAreShown, VaultInv
<1>3. UNCHANGED <<handle, suspended, leased, closing>>
  BY <1>1 DEF nativeVars, adapterVars
<1>4. VaultInv'
  BY <1>1, <1>2, CallKeepsVault DEF VaultTypeOK, nativeVars, adapterVars, Statements, Stages
<1>5. /\ phase' \in [Gens -> Phases] /\ phase'[g] = "opening" /\ sql'[g] = "open" /\ stage'[g] = "called"
      /\ \A h \in Gens : h # g => phase'[h] = phase[h] /\ sql'[h] = sql[h] /\ stage'[h] = stage[h]
  BY <1>1, <1>2 DEF VaultTypeOK, PoolTypeOK, Phases
<1>6. PoolTypeOK'
  BY <1>1, <1>2, <1>4, <1>5 DEF PoolTypeOK, VaultInv
<1>7. PhasesAreShown'
  <2>1. (Unopened(g) /\ Opening(g) /\ Open(g) /\ Closing(g))'
    BY <1>1, <1>2, <1>3, <1>5 DEF Unopened, Opening, Open, Closing, Untouched
  <2>2. ASSUME NEW h \in Gens, h # g
        PROVE  (Unopened(h) /\ Opening(h) /\ Open(h) /\ Closing(h))'
    BY <1>3, <1>5, <2>2 DEF PhasesAreShown, Unopened, Opening, Open, Closing, Untouched
  <2> QED
    BY <2>1, <2>2 DEF PhasesAreShown
<1>8. OneAfterTheOther'
  <2>1. ASSUME NEW h \in Gens, after[g] = h
        PROVE  handle[h] = "closed"
    <3>1. h # 0
      BY DEF Gens
    <3>2. closing[h] = "done"
      BY <1>1, <2>1, <3>1 DEF Settled
    <3> QED
      BY <3>2 DEF PhasesAreShown, Closing
  <2>2. ASSUME NEW x \in Gens, NEW h \in Gens, h < x, phase'[x] # "unused"
        PROVE  /\ phase'[h] # "unused"
               /\ handle'[h] = "closed" \/ (phase'[x] = "waiting" /\ after'[x] = h)
    <3>1. phase[x] # "unused"
      BY <1>1, <1>5, <2>2
    <3>2. /\ phase[h] # "unused"
          /\ handle[h] = "closed" \/ (phase[x] = "waiting" /\ after[x] = h)
      BY <2>2, <3>1 DEF OneAfterTheOther
    <3> QED
      BY <1>1, <1>3, <1>5, <2>1, <3>2
  <2> QED
    BY <2>2 DEF OneAfterTheOther
<1>9. PoolKnowsTheOpen'
  BY <1>1, <1>2, <1>3, <1>5 DEF PoolKnowsTheOpen, PoolTypeOK
<1>10. RetiredAreGone'
  <2>1. current = g /\ g \notin retired /\ g \notin watched
    BY <1>1 DEF RetiredAreGone
  <2> QED
    BY <1>1, <1>3, <1>5, <2>1 DEF RetiredAreGone
<1>11. UsersAreCounted'
  <2>1. \A h \in Gens : Using(h)' = Using(h)
    BY <1>1 DEF Using
  <2> QED
    BY <1>1, <2>1 DEF UsersAreCounted
<1>12. LeasesAreSessions'
  BY <1>1, <1>2, <1>5 DEF LeasesAreSessions, PoolTypeOK
<1>13. LeasesAreCurrent'
  BY <1>1, <1>3 DEF LeasesAreCurrent
<1> QED
  BY <1>4, <1>6, <1>7, <1>8, <1>9, <1>10, <1>11, <1>12, <1>13

\* One user comes to a session or leaves one.
LEMMA OneMoreUser ==
  ASSUME PoolInv, NEW u \in Users, NEW g \in Gens,
         hold[u].at \notin {"waiting", "held"}, hold' = [hold EXCEPT ![u] = [of |-> g, at |-> "waiting"]],
         users' = [users EXCEPT ![g] = users[g] + 1]
  PROVE  UsersAreCounted' /\ users' \in [Gens -> 0 .. Cardinality(Users)]
<1>1. /\ hold \in [Users -> [of : Gens \cup {0}, at : {"none", "waiting", "held", "released"}]]
      /\ users \in [Gens -> 0 .. Cardinality(Users)] /\ UsersAreCounted
  BY DEF PoolInv, PoolTypeOK
<1>2. hold'[u].of = g /\ hold'[u].at = "waiting" /\ \A v \in Users : v # u => hold'[v] = hold[v]
  BY <1>1
<1>3. Using(g)' = Using(g) \cup {u} /\ u \notin Using(g)
  BY <1>2 DEF Using
<1>4. \A h \in Gens : h # g => Using(h)' = Using(h)
  BY <1>2 DEF Using
<1>5. \A h \in Gens : Using(h) \subseteq Users /\ IsFiniteSet(Using(h))
  BY FS_Subset, PoolAssumption DEF Using
<1>6. Cardinality(Using(g)') = Cardinality(Using(g)) + 1
  BY <1>3, <1>5, FS_AddElement
<1>7. UsersAreCounted'
  BY <1>1, <1>4, <1>6 DEF UsersAreCounted
<1>8. Using(g)' \subseteq Users
  BY <1>3, <1>5
<1>9. Cardinality(Using(g)') <= Cardinality(Users)
  BY <1>8, FS_Subset, PoolAssumption
<1>10. Cardinality(Users) \in Nat
  BY PoolAssumption, FS_CardinalityType
<1>11. users'[g] \in 0 .. Cardinality(Users)
  <2>1. users'[g] = Cardinality(Using(g)')
    BY <1>1, <1>6 DEF UsersAreCounted
  <2>2. users'[g] \in Nat
    BY <1>1, <1>10
  <2> QED
    BY <1>9, <1>10, <2>1, <2>2
<1> QED
  BY <1>1, <1>7, <1>11

LEMMA OneUserLess ==
  ASSUME PoolInv, NEW u \in Users, NEW g \in Gens, NEW of \in Gens \cup {0},
         NEW at \in {"none", "released"},
         hold[u].of = g, hold[u].at \in {"waiting", "held"},
         hold' = [hold EXCEPT ![u] = [of |-> of, at |-> at]],
         users' = [users EXCEPT ![g] = users[g] - 1]
  PROVE  /\ UsersAreCounted' /\ users' \in [Gens -> 0 .. Cardinality(Users)]
         /\ users[g] = 1 => \A v \in Users : hold[v].of = g /\ hold[v].at \in {"waiting", "held"} => v = u
<1>1. /\ hold \in [Users -> [of : Gens \cup {0}, at : {"none", "waiting", "held", "released"}]]
      /\ users \in [Gens -> 0 .. Cardinality(Users)] /\ UsersAreCounted
  BY DEF PoolInv, PoolTypeOK
<1>2. hold'[u].at = at /\ \A v \in Users : v # u => hold'[v] = hold[v]
  BY <1>1
<1>3. Using(g)' = Using(g) \ {u} /\ u \in Using(g)
  BY <1>2 DEF Using
<1>4. \A h \in Gens : h # g => Using(h)' = Using(h)
  BY <1>2 DEF Using
<1>5. \A h \in Gens : Using(h) \subseteq Users /\ IsFiniteSet(Using(h))
  BY FS_Subset, PoolAssumption DEF Using
<1>6. Cardinality(Using(g)') = Cardinality(Using(g)) - 1
  BY <1>3, <1>5, FS_RemoveElement
<1>7. UsersAreCounted'
  BY <1>1, <1>4, <1>6 DEF UsersAreCounted
<1>8. Cardinality(Users) \in Nat /\ IsFiniteSet(Using(g)') /\ Cardinality(Using(g)') \in Nat
  BY <1>3, <1>5, PoolAssumption, FS_CardinalityType, FS_RemoveElement
<1>9. users'[g] \in 0 .. Cardinality(Users)
  <2>1. users'[g] = Cardinality(Using(g)') /\ users'[g] = users[g] - 1
    BY <1>1, <1>6 DEF UsersAreCounted
  <2> QED
    BY <1>1, <1>8, <2>1
<1>10. users[g] = 1 => \A v \in Users : hold[v].of = g /\ hold[v].at \in {"waiting", "held"} => v = u
  <2> HAVE users[g] = 1
  <2>1. Cardinality(Using(g)') = 0
    BY <1>1, <1>6 DEF UsersAreCounted
  <2>2. Using(g)' = {}
    BY <1>8, <2>1, FS_EmptySet
  <2> QED
    BY <1>3, <2>2 DEF Using
<1> QED
  BY <1>1, <1>7, <1>9, <1>10
\* What users do leaves the connections alone.
LEMMA UsersKeepVault ==
  ASSUME VaultInv, UNCHANGED vaultVars
  PROVE  /\ VaultInv'
         /\ UNCHANGED <<handle, suspended, leased, closing, sql, stage>>
<1>1. UNCHANGED <<nativeVars, adapterVars, sql, stage>>
  BY DEF vaultVars
<1>2. VaultInv'
  BY <1>1, CallKeepsVault DEF VaultInv, VaultTypeOK, nativeVars, adapterVars
<1> QED
  BY <1>1, <1>2 DEF nativeVars, adapterVars

LEMMA AcquireKeepsPool ==
  ASSUME PoolInv, NEW u \in Users, Acquire(u)
  PROVE  PoolInv'
<1> USE DEF PoolInv
<1>1. PICK g \in Gens :
         /\ IF current = 0 THEN Create(g) ELSE g = current /\ UNCHANGED <<phase, after, current>>
         /\ users' = [users EXCEPT ![g] = users[g] + 1]
         /\ hold' = [hold EXCEPT ![u] = [of |-> g, at |-> "waiting"]]
  BY DEF Acquire, PoolTypeOK
<1>2. /\ hold[u].at = "none"
      /\ UNCHANGED <<last, recovery, retired, watched, disposing, works, vaultVars>>
  BY DEF Acquire
<1>3. /\ VaultInv' /\ UNCHANGED <<handle, suspended, leased, closing, sql, stage>>
  BY <1>2, UsersKeepVault
<1>4. UsersAreCounted' /\ users' \in [Gens -> 0 .. Cardinality(Users)]
  BY <1>1, <1>2, OneMoreUser
<1>5. PoolTypeOK
  OBVIOUS
<1>6. /\ hold' \in [Users -> [of : Gens \cup {0}, at : {"none", "waiting", "held", "released"}]]
      /\ hold'[u].of = g /\ hold'[u].at = "waiting" /\ \A v \in Users : v # u => hold'[v] = hold[v]
  <2> DEFINE new == [of |-> g, at |-> "waiting"]
  <2>1. new \in [of : Gens \cup {0}, at : {"none", "waiting", "held", "released"}]
    OBVIOUS
  <2>2. new.of = g /\ new.at = "waiting" /\ hold' = [hold EXCEPT ![u] = new]
    BY <1>1
  <2> HIDE DEF new
  <2> QED
    BY <1>5, <2>1, <2>2 DEF PoolTypeOK
<1>7. g # 0 /\ g \in Nat
  BY DEF Gens
<1>8. CASE current # 0
  <2>1. g = current /\ UNCHANGED <<phase, after, current>>
    BY <1>1, <1>8
  <2>2. PoolTypeOK'
    BY <1>2, <1>3, <1>4, <1>5, <1>6, <2>1 DEF PoolTypeOK, VaultInv
  <2>3. PhasesAreShown'
    BY <1>3, <2>1 DEF PhasesAreShown, Unopened, Opening, Open, Closing, Untouched
  <2>4. OneAfterTheOther' /\ PoolKnowsTheOpen' /\ RetiredAreGone'
    BY <1>2, <1>3, <2>1 DEF OneAfterTheOther, PoolKnowsTheOpen, RetiredAreGone
  <2>5. phase[g] # "unused"
    BY <1>8, <2>1 DEF PoolKnowsTheOpen
  <2>6. LeasesAreSessions'
    BY <1>6, <1>7, <2>1, <2>5 DEF LeasesAreSessions
  <2>7. LeasesAreCurrent'
    BY <1>3, <1>6, <2>1 DEF LeasesAreCurrent
  <2> QED
    BY <1>3, <1>4, <2>2, <2>3, <2>4, <2>6, <2>7
<1>9. CASE current = 0
  <2>1. /\ phase[g] = "unused" /\ \A h \in Gens : h < g => phase[h] # "unused"
        /\ phase' = [phase EXCEPT ![g] = "waiting"]
        /\ after' = [after EXCEPT ![g] = last] /\ current' = g
    BY <1>1, <1>9 DEF Create
  <2>2. /\ phase' \in [Gens -> Phases] /\ after' \in [Gens -> Gens \cup {0}]
        /\ phase'[g] = "waiting" /\ after'[g] = last
        /\ \A h \in Gens : h # g => phase'[h] = phase[h] /\ after'[h] = after[h]
    BY <1>5, <2>1 DEF PoolTypeOK, Phases
  <2>3. PoolTypeOK'
    BY <1>2, <1>3, <1>4, <1>5, <1>6, <2>1, <2>2 DEF PoolTypeOK, VaultInv
  <2>4. PhasesAreShown'
    <3> SUFFICES ASSUME NEW h \in Gens
                 PROVE  (Unopened(h) /\ Opening(h) /\ Open(h) /\ Closing(h))'
      BY DEF PhasesAreShown
    <3>1. Unopened(h) /\ Opening(h) /\ Open(h) /\ Closing(h)
      BY DEF PhasesAreShown
    <3>2. phase'[h] = phase[h] \/ (phase[h] = "unused" /\ phase'[h] = "waiting")
      BY <2>1, <2>2
    <3> QED
      BY <1>3, <3>1, <3>2 DEF Unopened, Opening, Open, Closing, Untouched
  <2>5. \A h \in Gens : h > g => phase[h] = "unused"
    BY <2>1 DEF OneAfterTheOther, Gens
  <2>6. OneAfterTheOther'
    <3> SUFFICES ASSUME NEW x \in Gens, NEW h \in Gens, h < x, phase'[x] # "unused"
                 PROVE  /\ phase'[h] # "unused"
                        /\ handle[h] = "closed" \/ (phase'[x] = "waiting" /\ after'[x] = h)
      BY <1>3 DEF OneAfterTheOther
    <3>1. CASE x = g
      <4>1. h # g /\ phase[h] # "unused"
        BY <2>1, <3>1 DEF Gens
      <4>2. handle[h] = "closed" \/ last = h
        BY <1>9, <4>1 DEF PoolKnowsTheOpen
      <4> QED
        BY <2>2, <3>1, <4>1, <4>2
    <3>2. CASE x # g
      <4>1. phase[x] # "unused"
        BY <2>2, <3>2
      <4>2. /\ phase[h] # "unused"
            /\ handle[h] = "closed" \/ (phase[x] = "waiting" /\ after[x] = h)
        BY <4>1 DEF OneAfterTheOther
      <4> QED
        BY <2>1, <2>2, <3>2, <4>1, <4>2
    <3> QED
      BY <3>1, <3>2
  <2>7. PoolKnowsTheOpen'
    BY <1>7, <2>1, <2>2, <2>5 DEF PoolKnowsTheOpen, Gens
  <2>8. RetiredAreGone'
    <3>1. g \notin retired /\ g \notin watched
      BY <2>1 DEF RetiredAreGone
    <3>2. ASSUME NEW h \in Gens, h # g
          PROVE  phase[h] \notin {"waiting", "opening"} /\ (phase[h] \in {"setup", "ready"} => h \in retired)
      <4>1. 0 \notin Gens
        BY DEF Gens
      <4> QED
        BY <1>9, <4>1 DEF RetiredAreGone
    <3>3. /\ current' = g /\ retired' = retired /\ watched' = watched /\ disposing' = disposing
          /\ disposing \subseteq retired
      BY <1>2, <2>1 DEF RetiredAreGone
    <3>4. ASSUME NEW h \in Gens
          PROVE  /\ h \in retired => phase'[h] # "unused"
                 /\ phase'[h] \in {"waiting", "opening"} => g = h
                 /\ phase'[h] \in {"setup", "ready"} /\ h \notin retired => g = h /\ closing'[h] = "no"
                 /\ h \in watched => phase'[h] \notin {"unused", "waiting", "opening"}
      <4>1. CASE h = g
        BY <2>2, <3>1, <4>1
      <4>2. CASE h # g
        <5>1. /\ h \in retired => phase[h] # "unused"
              /\ h \in watched => phase[h] \notin {"unused", "waiting", "opening"}
          BY DEF RetiredAreGone
        <5> QED
          BY <2>2, <3>2, <4>2, <5>1
      <4> QED
        BY <4>1, <4>2
    <3> QED
      BY <3>1, <3>3, <3>4 DEF RetiredAreGone
  <2>9. LeasesAreSessions'
    <3> SUFFICES ASSUME NEW v \in Users
                 PROVE  /\ hold'[v].at \in {"waiting", "held"} => hold'[v].of # 0 /\ phase'[hold'[v].of] # "unused"
                        /\ hold'[v].at = "held" => phase'[hold'[v].of] = "ready"
      BY DEF LeasesAreSessions
    <3>1. CASE v = u
      BY <1>6, <1>7, <2>2, <3>1
    <3>2. CASE v # u
      <4>1. hold'[v] = hold[v] /\ hold[v].of \in Gens \cup {0}
        BY <1>5, <1>6, <3>2 DEF PoolTypeOK
      <4>2. /\ hold[v].at \in {"waiting", "held"} => hold[v].of # 0 /\ phase[hold[v].of] # "unused"
            /\ hold[v].at = "held" => phase[hold[v].of] = "ready"
        BY DEF LeasesAreSessions
      <4> QED
        BY <2>1, <2>2, <4>1, <4>2
    <3> QED
      BY <3>1, <3>2
  <2>10. LeasesAreCurrent'
    <3> SUFFICES ASSUME NEW v \in Users, hold'[v].at = "held"
                 PROVE  hold'[v].of \in suspended
      BY <1>3 DEF LeasesAreCurrent
    <3>1. v # u /\ hold'[v] = hold[v]
      BY <1>6
    <3>2. hold[v].of # 0
      BY <3>1 DEF LeasesAreSessions
    <3> QED
      BY <1>9, <3>1, <3>2 DEF LeasesAreCurrent
  <2> QED
    BY <1>3, <1>4, <2>3, <2>4, <2>6, <2>7, <2>8, <2>9, <2>10
<1> QED
  BY <1>8, <1>9
LEMMA AcquiredKeepsPool ==
  ASSUME PoolInv, NEW u \in Users, Acquired(u)
  PROVE  PoolInv'
<1> USE DEF PoolInv
<1>1. PICK g \in Gens : g = hold[u].of
  BY DEF Acquired, PoolTypeOK, LeasesAreSessions
<1>2. /\ hold[u].at = "waiting" /\ phase[g] \in {"ready", "failed"}
      /\ UNCHANGED <<phase, after, last, recovery, retired, watched, disposing, works, vaultVars>>
  BY <1>1 DEF Acquired
<1>3. /\ VaultInv' /\ UNCHANGED <<handle, suspended, leased, closing, sql, stage>>
  BY <1>2, UsersKeepVault
<1>4. PoolTypeOK
  OBVIOUS
<1>5. PhasesAreShown' /\ OneAfterTheOther'
  BY <1>2, <1>3 DEF PhasesAreShown, Unopened, Opening, Open, Closing, Untouched, OneAfterTheOther
<1>6. CASE phase[g] = "ready" /\ g \notin retired
  <2>1. hold' = [hold EXCEPT ![u].at = "held"] /\ UNCHANGED <<users, current>>
    BY <1>1, <1>6 DEF Acquired
  <2>2. /\ hold' \in [Users -> [of : Gens \cup {0}, at : {"none", "waiting", "held", "released"}]]
        /\ hold'[u].of = g /\ hold'[u].at = "held" /\ \A v \in Users : v # u => hold'[v] = hold[v]
    BY <1>1, <1>4, <2>1 DEF PoolTypeOK
  <2>3. PoolTypeOK'
    BY <1>2, <1>3, <1>4, <2>1, <2>2 DEF PoolTypeOK, VaultInv
  <2>4. PoolKnowsTheOpen' /\ RetiredAreGone'
    BY <1>2, <1>3, <2>1 DEF PoolKnowsTheOpen, RetiredAreGone
  <2>5. UsersAreCounted'
    <3>1. \A h \in Gens : Using(h)' = Using(h)
      BY <1>1, <1>2, <2>2 DEF Using
    <3> QED
      BY <2>1, <3>1 DEF UsersAreCounted
  <2>6. LeasesAreSessions'
    BY <1>1, <1>2, <1>6, <2>2 DEF LeasesAreSessions
  <2>7. LeasesAreCurrent'
    <3>1. current = g /\ closing[g] = "no"
      BY <1>6 DEF RetiredAreGone
    <3>2. handle[g] = "open" \/ g \in suspended
      BY <1>6, <3>1 DEF PhasesAreShown, Open
    <3> QED
      BY <1>3, <2>1, <2>2, <3>1, <3>2 DEF LeasesAreCurrent
  <2> QED
    BY <1>3, <1>5, <2>3, <2>4, <2>5, <2>6, <2>7
<1>7. CASE ~(phase[g] = "ready" /\ g \notin retired)
  <2>1. /\ hold' = [hold EXCEPT ![u] = [of |-> 0, at |-> "none"]]
        /\ users' = [users EXCEPT ![g] = users[g] - 1]
        /\ current' = IF current = g THEN 0 ELSE current
    BY <1>1, <1>7 DEF Acquired
  <2>2. UsersAreCounted' /\ users' \in [Gens -> 0 .. Cardinality(Users)]
    BY <1>1, <1>2, <2>1, OneUserLess
  <2>3. /\ hold' \in [Users -> [of : Gens \cup {0}, at : {"none", "waiting", "held", "released"}]]
        /\ hold'[u].at = "none" /\ \A v \in Users : v # u => hold'[v] = hold[v]
    BY <1>4, <2>1 DEF PoolTypeOK
  <2>4. PoolTypeOK'
    BY <1>2, <1>3, <1>4, <2>1, <2>2, <2>3 DEF PoolTypeOK, VaultInv
  <2>5. current = g => phase[g] = "failed" /\ handle[g] = "closed"
    BY <1>2, <1>7 DEF RetiredAreGone, PhasesAreShown, Closing
  <2>6. PoolKnowsTheOpen'
    <3>1. CASE current # g
      BY <1>2, <1>3, <2>1, <3>1 DEF PoolKnowsTheOpen
    <3>2. CASE current = g
      <4>1. current' = 0 /\ current # 0
        BY <2>1, <3>2 DEF Gens
      <4>2. ASSUME NEW h \in Gens
            PROVE  phase[h] = "unused" \/ handle[h] = "closed"
        <5>1. h > g \/ h = g \/ h < g
          BY DEF Gens
        <5> QED
          BY <2>5, <3>2, <4>1, <5>1 DEF PoolKnowsTheOpen, OneAfterTheOther
      <4> QED
        BY <1>2, <1>3, <4>1, <4>2 DEF PoolKnowsTheOpen
    <3> QED
      BY <3>1, <3>2
  <2>7. RetiredAreGone'
    <3>1. 0 \notin retired
      BY <1>4 DEF PoolTypeOK, Gens
    <3>2. current' \notin retired
      BY <2>1, <3>1 DEF RetiredAreGone
    <3>3. \A h \in Gens : phase[h] \in {"waiting", "opening", "setup", "ready"} /\ current = h => current' = h
      BY <2>1, <2>5
    <3> QED
      BY <1>2, <1>3, <3>2, <3>3 DEF RetiredAreGone
  <2>8. LeasesAreSessions'
    BY <1>2, <2>3 DEF LeasesAreSessions
  <2>9. LeasesAreCurrent'
    <3> SUFFICES ASSUME NEW v \in Users, hold'[v].at = "held", hold'[v].of \notin suspended
                 PROVE  current' = hold'[v].of /\ closing[hold'[v].of] = "no" /\ handle[hold'[v].of] = "open"
      BY <1>3 DEF LeasesAreCurrent
    <3>1. hold'[v] = hold[v]
      BY <2>3
    <3>2. current = hold[v].of /\ closing[hold[v].of] = "no" /\ handle[hold[v].of] = "open"
      BY <3>1 DEF LeasesAreCurrent
    <3>3. phase[hold[v].of] = "ready"
      BY <3>1 DEF LeasesAreSessions
    <3>4. current' = current
      BY <2>1, <2>5, <3>2, <3>3
    <3> QED
      BY <3>1, <3>2, <3>4
  <2> QED
    BY <1>3, <1>5, <2>2, <2>4, <2>6, <2>7, <2>8, <2>9
<1> QED
  BY <1>6, <1>7

LEMMA ReleaseKeepsPool ==
  ASSUME PoolInv, NEW u \in Users, Release(u)
  PROVE  PoolInv'
<1> USE DEF PoolInv
<1>1. PICK g \in Gens : g = hold[u].of /\ phase[g] = "ready"
  BY DEF Release, PoolTypeOK, LeasesAreSessions
<1> DEFINE lastUser == users[g] = 1 /\ current = g
<1>2. /\ hold[u].at = "held"
      /\ hold' = [hold EXCEPT ![u].at = "released"]
      /\ users' = [users EXCEPT ![g] = users[g] - 1]
      /\ current' = IF lastUser THEN 0 ELSE current
      /\ last' = IF lastUser THEN g ELSE last
      /\ retired' = IF lastUser THEN retired \cup {g} ELSE retired
      /\ watched' = IF lastUser THEN watched \ {g} ELSE watched
      /\ disposing' = IF lastUser THEN disposing \cup {g} ELSE disposing
      /\ UNCHANGED <<phase, after, recovery, works, vaultVars>>
  BY <1>1 DEF Release
<1>3. /\ VaultInv' /\ UNCHANGED <<handle, suspended, leased, closing, sql, stage>>
  BY <1>2, UsersKeepVault
<1>4. PoolTypeOK
  OBVIOUS
<1>5. PhasesAreShown' /\ OneAfterTheOther'
  BY <1>2, <1>3 DEF PhasesAreShown, Unopened, Opening, Open, Closing, Untouched, OneAfterTheOther
<1>6. /\ hold' \in [Users -> [of : Gens \cup {0}, at : {"none", "waiting", "held", "released"}]]
      /\ hold'[u].at = "released" /\ \A v \in Users : v # u => hold'[v] = hold[v]
      /\ hold' = [hold EXCEPT ![u] = [of |-> g, at |-> "released"]]
  <2>1. hold \in [Users -> [of : Gens \cup {0}, at : {"none", "waiting", "held", "released"}]]
    BY <1>4 DEF PoolTypeOK
  <2>2. [hold[u] EXCEPT !.at = "released"] = [of |-> g, at |-> "released"]
    BY <1>1, <2>1
  <2>3. hold' = [hold EXCEPT ![u] = [of |-> g, at |-> "released"]]
    BY <1>2, <2>2
  <2> QED
    BY <2>1, <2>3
<1>7. /\ UsersAreCounted' /\ users' \in [Gens -> 0 .. Cardinality(Users)]
      /\ users[g] = 1 => \A v \in Users : hold[v].of = g /\ hold[v].at \in {"waiting", "held"} => v = u
  <2>1. hold[u].of = g /\ hold[u].at \in {"waiting", "held"} /\ users' = [users EXCEPT ![g] = users[g] - 1]
    BY <1>1, <1>2
  <2>2. hold' = [hold EXCEPT ![u] = [of |-> g, at |-> "released"]]
    BY <1>6
  <2> HIDE <1>1, <1>2, <1>3, <1>4, <1>5, <1>6
  <2> QED
    BY <2>1, <2>2, OneUserLess
<1>8. PoolTypeOK'
  BY <1>2, <1>3, <1>4, <1>6, <1>7 DEF PoolTypeOK, VaultInv
<1>9. PoolKnowsTheOpen'
  <2>1. CASE ~lastUser
    BY <1>2, <1>3, <2>1 DEF PoolKnowsTheOpen
  <2>2. CASE lastUser
    <3>1. current' = 0 /\ last' = g /\ current = g /\ current # 0
      BY <1>2, <2>2 DEF Gens
    <3>2. ASSUME NEW h \in Gens
          PROVE  phase[h] = "unused" \/ handle[h] = "closed" \/ h = g
      <4>1. h > g \/ h = g \/ h < g
        BY DEF Gens
      <4> QED
        BY <1>1, <3>1, <4>1 DEF PoolKnowsTheOpen, OneAfterTheOther
    <3> QED
      BY <1>2, <1>3, <3>1, <3>2 DEF PoolKnowsTheOpen
  <2> QED
    BY <2>1, <2>2
<1>10. RetiredAreGone'
  <2>1. CASE ~lastUser
    BY <1>2, <1>3, <2>1 DEF RetiredAreGone
  <2>2. CASE lastUser
    <3>1. 0 \notin retired /\ g # 0
      BY <1>4 DEF PoolTypeOK, Gens
    <3>2. current' \notin retired' /\ disposing' \subseteq retired'
      BY <1>2, <2>2, <3>1 DEF RetiredAreGone
    <3>3. ASSUME NEW h \in Gens
          PROVE  /\ h \in retired' => phase[h] # "unused"
                 /\ phase[h] \in {"waiting", "opening"} => current' = h
                 /\ phase[h] \in {"setup", "ready"} /\ h \notin retired' => current' = h /\ closing[h] = "no"
                 /\ h \in watched' => phase[h] \notin {"unused", "waiting", "opening"}
      <4>1. /\ h \in retired => phase[h] # "unused"
            /\ phase[h] \in {"waiting", "opening"} => current = h
            /\ phase[h] \in {"setup", "ready"} /\ h \notin retired => current = h /\ closing[h] = "no"
            /\ h \in watched => phase[h] \notin {"unused", "waiting", "opening"}
        BY DEF RetiredAreGone
      <4> QED
        BY <1>1, <1>2, <2>2, <4>1
    <3> QED
      BY <1>2, <1>3, <3>2, <3>3 DEF RetiredAreGone
  <2> QED
    BY <2>1, <2>2
<1>11. LeasesAreSessions'
  BY <1>2, <1>6 DEF LeasesAreSessions
<1>12. LeasesAreCurrent'
  <2> SUFFICES ASSUME NEW v \in Users, hold'[v].at = "held", hold'[v].of \notin suspended
               PROVE  current' = hold'[v].of /\ closing[hold'[v].of] = "no" /\ handle[hold'[v].of] = "open"
    BY <1>3 DEF LeasesAreCurrent
  <2>1. v # u /\ hold'[v] = hold[v]
    BY <1>6
  <2>2. current = hold[v].of /\ closing[hold[v].of] = "no" /\ handle[hold[v].of] = "open"
    BY <2>1 DEF LeasesAreCurrent
  <2>3. ~lastUser
    BY <1>7, <2>1, <2>2
  <2> QED
    BY <1>2, <2>1, <2>2, <2>3
<1> QED
  BY <1>3, <1>5, <1>7, <1>8, <1>9, <1>10, <1>11, <1>12
------------------------------------------------------------------------------
(* The engines: what is promised                                             *)

LEMMA PoolBegins ==
  ASSUME NEW holders \in SUBSET Users, PoolStart(holders), holders # {} => MaxOpenings > 0
  PROVE  PoolInv
<1> DEFINE first == IF holders = {} THEN {} ELSE {1}
<1> USE VaultAssumption, PoolAssumption
<1>1. /\ VaultStart(first)
      /\ phase = [g \in Gens |-> IF g \in first THEN "ready" ELSE "unused"]
      /\ after = [g \in Gens |-> 0]
      /\ current = Cardinality(first) /\ last = 0 /\ recovery = FALSE
      /\ retired = {} /\ watched = first /\ disposing = {}
      /\ users = [g \in Gens |-> IF g \in first THEN Cardinality(holders) ELSE 0]
      /\ hold = [u \in Users |-> IF u \in holders THEN [of |-> 1, at |-> "held"]
                                                  ELSE [of |-> 0, at |-> "none"]]
      /\ works = 0
  BY DEF PoolStart
<1>2. first \subseteq Gens /\ (holders # {} => 1 \in Gens)
  BY DEF Gens
<1>3. current = IF holders = {} THEN 0 ELSE 1
  BY <1>1, FS_EmptySet, FS_Singleton
<1>4. VaultInv
  BY <1>1, ConnectionStart
<1>5. /\ handle = [g \in Gens |-> IF g \in first THEN "open" ELSE "none"]
      /\ suspended = {} /\ leased = {}
      /\ sql = [g \in Gens |-> "none"] /\ stage = [g \in Gens |-> "none"]
      /\ closing = [g \in Gens |-> "no"]
  BY <1>1 DEF VaultStart
<1>6. /\ Cardinality(Users) \in Nat /\ IsFiniteSet(holders) /\ Cardinality(holders) \in Nat
      /\ Cardinality(holders) <= Cardinality(Users)
  BY FS_Subset, FS_CardinalityType
<1>7. /\ hold \in [Users -> [of : Gens \cup {0}, at : {"none", "waiting", "held", "released"}]]
      /\ \A u \in Users : /\ u \in holders => hold[u].of = 1 /\ hold[u].at = "held"
                          /\ u \notin holders => hold[u].of = 0 /\ hold[u].at = "none"
  BY <1>1, <1>2
<1>8. PoolTypeOK
  <2>1. users \in [Gens -> 0 .. Cardinality(Users)]
    BY <1>1, <1>6
  <2>2. phase \in [Gens -> Phases]
    BY <1>1 DEF Phases
  <2>3. current \in Gens \cup {0}
    BY <1>2, <1>3
  <2>4. retired \cup watched \cup disposing \subseteq Gens
    BY <1>1, <1>2
  <2>5. after \in [Gens -> Gens \cup {0}] /\ last = 0 /\ recovery \in BOOLEAN /\ works \in 0 .. MaxWorks
    <3>1. after = [g \in Gens |-> 0] /\ last = 0 /\ recovery = FALSE /\ works = 0
      BY <1>1
    <3>2. recovery \in BOOLEAN
      BY <3>1
    <3> QED
      BY <3>1, <3>2
  <2>6. {current, last} \subseteq Gens \cup {0}
    BY <2>3, <2>5
  <2> HIDE <1>1, <1>2, <1>3
  <2> QED
    BY <1>4, <1>7, <2>1, <2>2, <2>4, <2>5, <2>6 DEF PoolTypeOK, VaultInv
<1>9. PhasesAreShown
  BY <1>1, <1>5 DEF PhasesAreShown, Unopened, Opening, Open, Closing, Untouched
<1>10. OneAfterTheOther
  BY <1>1, <1>2 DEF OneAfterTheOther, Gens
<1>11. PoolKnowsTheOpen
  BY <1>1, <1>2, <1>3 DEF PoolKnowsTheOpen
<1>12. RetiredAreGone
  BY <1>1, <1>2, <1>3, <1>5 DEF RetiredAreGone
<1>13. UsersAreCounted
  <2>1. ASSUME NEW g \in Gens
        PROVE  users[g] = Cardinality(Using(g))
    <3>1. CASE g \in first
      <4>1. Using(g) = holders
        BY <1>7, <3>1 DEF Using
      <4> QED
        BY <1>1, <3>1, <4>1
    <3>2. CASE g \notin first
      <4>1. Using(g) = {}
        BY <1>7, <3>2 DEF Using
      <4> QED
        BY <1>1, <3>2, <4>1, FS_EmptySet
    <3> QED
      BY <3>1, <3>2
  <2> QED
    BY <2>1 DEF UsersAreCounted
<1>14. LeasesAreSessions /\ LeasesAreCurrent
  BY <1>1, <1>2, <1>3, <1>5, <1>7 DEF LeasesAreSessions, LeasesAreCurrent
<1> QED
  BY <1>4, <1>8, <1>9, <1>10, <1>11, <1>12, <1>13, <1>14 DEF PoolInv

LEMMA StepKeepsPool ==
  ASSUME PoolInv, [EnginesNext]_engineVars
  PROVE  PoolInv'
<1>1. CASE EngineStep
  <2>1. CASE \E u \in Users : Acquire(u) \/ Acquired(u) \/ Release(u)
    BY <2>1, AcquireKeepsPool, AcquiredKeepsPool, ReleaseKeepsPool
  <2>2. CASE CheckForeground
    BY <2>2, ForegroundKeepsPool
  <2>3. CASE \E g \in Gens : OpenNext(g) \/ Opened(g) \/ KeyNotShared(g) \/ SetUp(g) \/ Rejected(g) \/ Dispose(g)
                             \/ StartWork(g) \/ CallStatement(g) \/ Answer(g) \/ HearExpired(g)
    BY <2>3, OpenNextKeepsPool, OpenedKeepsPool, KeyNotSharedKeepsPool, SetUpKeepsPool, RejectedKeepsPool,
       DisposeKeepsPool, WorkKeepsPool, HearExpiredKeepsPool
  <2> QED
    BY <1>1, <2>1, <2>2, <2>3 DEF EngineStep
<1>2. CASE VaultStep /\ UNCHANGED poolVars
  BY <1>2, VaultStepKeepsPool
<1>3. CASE UNCHANGED engineVars
  <2>1. UNCHANGED <<handle, suspended, leased, tasks, ended, midway, cleanup, events, closing, noticed, sql, stage>>
    BY <1>3 DEF engineVars, vaultVars, nativeVars, adapterVars
  <2>2. UNCHANGED poolVars
    BY <1>3 DEF engineVars
  <2>3. VaultInv'
    BY <2>1, CallKeepsVault DEF PoolInv, VaultInv, VaultTypeOK
  <2> QED
    BY <2>1, <2>2, <2>3
    DEF PoolInv, PoolTypeOK, VaultInv, poolVars, PhasesAreShown, Unopened, Opening, Open, Closing, Untouched,
        OneAfterTheOther, PoolKnowsTheOpen, RetiredAreGone, UsersAreCounted, Using, LeasesAreSessions, LeasesAreCurrent
<1> QED
  BY <1>1, <1>2, <1>3 DEF EnginesNext

LEMMA PoolHolds == EnginesSpec => []PoolInv
<1>1. PoolInit => PoolInv
  BY PoolBegins DEF PoolInit
<1> QED
  BY <1>1, StepKeepsPool, PTL DEF EnginesSpec

\* The connections, their adapters and the pool keep their types.
THEOREM EnginesAreTyped == EnginesSpec => []PoolTypeOK
<1>1. PoolInv => PoolTypeOK
  BY DEF PoolInv
<1> QED
  BY <1>1, PoolHolds, PTL

\* Wherever the OS may freeze the app there is no transaction and no statement
\* under way, for any number of openings, users and transactions (MneloDatabase
\* acquireLease, releaseIfIdle, closeOnQueue).
THEOREM NeverFrozen == EnginesSpec => []NeverFrozenMidway
<1>1. PoolInv => NeverFrozenMidway
  BY DEF PoolInv, VaultInv, WorkIsCovered, NeverFrozenMidway
<1> QED
  BY <1>1, PoolHolds, PTL

\* Two connections are never open at once, and a lease is one of the session
\* whose connection is open, unless the OS took it (DeviceEnginePool acquire,
\* release, suspend).
THEOREM LeasesHold == EnginesSpec => []LeasesHoldTheVault
<1>1. ASSUME PoolInv
      PROVE  LeasesHoldTheVault
  <2>1. ASSUME NEW g \in Gens, NEW h \in Gens, handle[g] = "open", handle[h] = "open", h < g
        PROVE  FALSE
    <3>1. phase[g] \notin {"unused", "waiting"}
      BY <1>1, <2>1 DEF PoolInv, PhasesAreShown, Unopened, Untouched
    <3> QED
      BY <1>1, <2>1, <3>1 DEF PoolInv, OneAfterTheOther
  <2>2. \A g, h \in Gens : handle[g] = "open" /\ handle[h] = "open" => g = h
    <3> SUFFICES ASSUME NEW g \in Gens, NEW h \in Gens, handle[g] = "open", handle[h] = "open"
                 PROVE  g = h
      OBVIOUS
    <3>1. h < g \/ g < h \/ g = h
      BY DEF Gens
    <3> QED
      BY <2>1, <3>1
  <2>3. LeasesAreCurrent
    BY <1>1 DEF PoolInv
  <2> QED
    BY <2>2, <2>3 DEF LeasesHoldTheVault, LeasesAreCurrent
<1> QED
  BY <1>1, PoolHolds, PTL

------------------------------------------------------------------------------
(* A group conversation: the types                                           *)

Marks == {"none", "due", "acked", "read"}
ChangeRows == [rev: Nat, act: {"none", "edit", "delete"}, body: Nat]

\* Changes are numbered from 1, an edit shows its own number, a deletion nothing.
Formed(c) ==
    /\ c \in ChangeRows
    /\ c.act = "none" <=> c.rev = 0
    /\ c.act \in {"none", "edit"} => c.body = c.rev
    /\ c.act = "delete" => c.body = 0

\* A packet has its type's fields, comes from whom it may come from and does not
\* go to its sender.
Formal(pkt) ==
    /\ pkt.from \in Phones /\ pkt.to \in Phones \ {pkt.from}
    /\ pkt.type \in {"message_change", "message", "ack", "read_ids", "reaction", "group", "group_ack",
                     "group_leave", "group_profile"}
    /\ pkt.type \in {"message_change", "message", "ack", "reaction"} => pkt.id \in Msgs
    /\ pkt.type = "message_change" =>
           pkt.from = Author[pkt.id] /\ Formed(pkt.change) /\ pkt.change.rev > 0
    /\ pkt.type = "message" => pkt.from = Author[pkt.id] /\ pkt.body \in Nat
    /\ pkt.type = "ack" => pkt.to = Author[pkt.id]
    /\ pkt.type = "read_ids" => pkt.ids \subseteq Msgs /\ \A m \in pkt.ids : Author[m] = pkt.to
    /\ pkt.type = "reaction" => pkt.active \in BOOLEAN /\ pkt.rev \in Nat
    /\ pkt.type = "group" => pkt.from = Owner /\ pkt.rev \in Nat /\ pkt.members \subseteq Phones
    /\ pkt.type = "group_ack" => pkt.rev \in Nat /\ pkt.to = Owner
    /\ pkt.type = "group_leave" => pkt.to = Owner
    /\ pkt.type = "group_profile" => pkt.from = Owner /\ pkt.rev \in Nat

\* All packets that were staged or enqueued and are not given up.
Told == post \cup UNION {controlOutbox[p] : p \in Phones}

RowsAreTyped ==
    /\ kinds \in [Phones -> [Msgs -> {"none", "text", "deleted", "forgotten"}]]
    /\ bodies \in [Phones -> [Msgs -> Nat]]
    /\ changes \in [Phones -> [Msgs -> ChangeRows]]
    /\ isRead \in [Phones -> SUBSET Msgs]
    /\ reactions \in [Phones -> [Msgs -> SUBSET Phones]]
    /\ reactionVersions \in [Phones -> [Msgs -> [Phones -> Nat]]]

MembersAreTyped ==
    /\ roster \in [Phones -> SUBSET Phones] /\ groupRev \in [Phones -> Nat]
    /\ leftGroup \subseteq Phones \ {Owner} /\ profileRev \in [Phones -> Nat]
    /\ groupDeliveries \in [Phones -> Nat \cup {-1}]
    /\ wasOut \subseteq Phones

MarksAreTyped ==
    deliveries \in [Msgs -> [Phones -> Marks]] /\ receiptInfo \in [Msgs -> [Phones -> Marks]]

TablesAreTyped == RowsAreTyped /\ MembersAreTyped /\ MarksAreTyped /\ projected \subseteq post

PacketsAreTyped ==
    /\ DOMAIN controlOutbox = Phones
    /\ \A pkt \in Told : Formal(pkt)
    /\ \A p \in Phones : \A pkt \in controlOutbox[p] :
           pkt.from = p /\ pkt.type \in {"message_change", "read_ids", "reaction", "group_profile"}

\* A message is nowhere before its author sent it, and has no change.
SentByItsAuthor ==
    \A m \in Msgs :
        LET a == Author[m] IN
        /\ \A p \in Phones : kinds[p][m] = "none" => bodies[p][m] = 0
        /\ kinds[a][m] = "none" =>
               /\ \A p \in Phones : kinds[p][m] \in {"none", "forgotten"} /\ changes[p][m] = NoChange
               /\ \A pkt \in Told :
                      /\ pkt.type \in {"message_change", "message", "reaction"} => pkt.id # m
                      /\ pkt.type = "read_ids" => m \notin pkt.ids

\* A row is shown as its last change says.
RowsFollowChanges ==
    \A p \in Phones, m \in Msgs :
        /\ Formed(changes[p][m])
        /\ kinds[p][m] = "deleted" => changes[p][m].act = "delete" /\ bodies[p][m] = 0
        /\ kinds[p][m] = "text" =>
               /\ changes[p][m].act # "delete"
               /\ changes[p][m].act = "edit" => bodies[p][m] = changes[p][m].body
        /\ kinds[p][m] = "text" /\ Author[m] = p => bodies[p][m] = changes[p][m].rev

\* What anyone knows of the changes of a message its author has, the author knows.
Known(m, c) ==
    LET own == changes[Author[m]][m] IN
    c.rev <= own.rev /\ (c.rev = own.rev => c = own) /\ (c.act = "delete" => c.rev = own.rev)

AuthorKnowsChanges ==
    \A m \in Msgs : Holds(Author[m], m) =>
        /\ \A p \in Phones : Known(m, changes[p][m])
        /\ \A pkt \in Told : pkt.type = "message_change" /\ pkt.id = m => Known(m, pkt.change)
        /\ kinds[Author[m]][m] = "text" =>
               /\ \A pkt \in Told : pkt.type = "message" /\ pkt.id = m =>
                      pkt.body <= changes[Author[m]][m].rev
               /\ \A p \in Phones : kinds[p][m] = "text" => bodies[p][m] <= changes[Author[m]][m].rev

\* Nobody who was a member all the time is forgotten: as the recipient of a text, or of
\* its last change.
TextFor(p, m) == p \in Steady \ {Author[m]} /\ Author[m] \in Steady
ChangeFor(p, m) == [type |-> "message_change", from |-> Author[m], to |-> p, id |-> m,
                    change |-> changes[Author[m]][m]]

SteadyAreTold ==
    \A m \in Msgs, p \in Phones : TextFor(p, m) =>
        /\ kinds[Author[m]][m] = "text" => deliveries[m][p] # "none"
        /\ Holds(Author[m], m) /\ changes[Author[m]][m].rev > 0 => ChangeFor(p, m) \in Told

ProjectedIsKnown ==
    \A pkt \in projected :
        /\ pkt.type = "message" => kinds[pkt.to][pkt.id] # "none"
        /\ pkt.type = "message_change" =>
               \/ kinds[pkt.to][pkt.id] = "forgotten"
               \/ changes[pkt.to][pkt.id].rev >= pkt.change.rev
               \/ changes[pkt.to][pkt.id].act = "delete"

TextInv ==
    /\ SentByItsAuthor /\ RowsFollowChanges /\ AuthorKnowsChanges /\ SteadyAreTold
    /\ ProjectedIsKnown

\* The owner's revision is the newest, and a revision has one set of members.
OwnerLeads ==
    /\ groupRev[Owner] > 0
    /\ \A p \in Phones : groupRev[p] <= groupRev[Owner] /\ profileRev[p] <= profileRev[Owner]
    /\ profileRev[Owner] <= groupRev[Owner]
    /\ \A pkt \in Told :
           /\ pkt.type = "group" => pkt.rev \in 1 .. groupRev[Owner]
           /\ pkt.type = "group_profile" => pkt.rev <= profileRev[Owner]

OneSetOfMembers ==
    /\ \A p, q \in Phones : groupRev[p] = groupRev[q] /\ groupRev[p] > 0 => roster[p] = roster[q]
    /\ \A pkt \in Told : pkt.type = "group" =>
           /\ \A p \in Phones : groupRev[p] = pkt.rev => roster[p] = pkt.members
           /\ \A other \in Told : other.type = "group" /\ other.rev = pkt.rev =>
                  other.members = pkt.members

SteadyAreMembers ==
    /\ leftGroup \subseteq wasOut
    /\ \A p \in Steady : groupRev[p] > 0
    /\ \A p \in Phones : groupRev[p] > 0 => Steady \subseteq roster[p]
    /\ \A pkt \in Told : pkt.type = "group" => Steady \subseteq pkt.members

\* The owner has a row for everyone it told, counts only what was acknowledged,
\* and its details are on their way to every member.
RevisionsArrive ==
    /\ groupDeliveries[Owner] = -1
    /\ \A q \in Phones :
           /\ groupDeliveries[q] <= groupRev[q]
           /\ q # Owner /\ (groupRev[q] > 0 \/ q \in roster[Owner]) => groupDeliveries[q] >= 0
           /\ q \in roster[Owner] \ {Owner} /\ profileRev[Owner] > 0 =>
                  [type |-> "group_profile", from |-> Owner, to |-> q, rev |-> profileRev[Owner]] \in Told
    /\ \A pkt \in Told :
           /\ pkt.type = "group" => groupDeliveries[pkt.to] >= 0
           /\ pkt.type = "group_ack" => pkt.rev <= groupRev[pkt.from]
    /\ \A pkt \in projected :
           /\ pkt.type = "group" => groupRev[pkt.to] >= pkt.rev
           /\ pkt.type = "group_profile" => profileRev[pkt.to] >= pkt.rev

MembersInv == OwnerLeads /\ OneSetOfMembers /\ SteadyAreMembers /\ RevisionsArrive

\* Receipts say what happened.
TrueMark(m, q, mark) ==
    /\ mark \in {"acked", "read"} => kinds[q][m] # "none"
    /\ mark = "read" => m \in isRead[q] \/ kinds[q][m] = "forgotten"

ReceiptsSpeakTrue ==
    /\ \A m \in Msgs, q \in Phones :
           TrueMark(m, q, deliveries[m][q]) /\ TrueMark(m, q, receiptInfo[m][q])
    /\ \A pkt \in Told :
           /\ pkt.type = "ack" => TrueMark(pkt.id, pkt.from, "acked")
           /\ pkt.type = "read_ids" => \A m \in pkt.ids : TrueMark(m, pkt.from, "read")

\* The author expects receipts of those it sent a message to, as long as it has it.
Expected(m, q) == kinds[Author[m]][m] = "forgotten" \/ receiptInfo[m][q] # "none"

ReceiptsAreExpected ==
    /\ \A m \in Msgs, q \in Phones :
           /\ deliveries[m][q] # "none" => /\ q # Author[m] /\ kinds[Author[m]][m] = "text"
                                           /\ receiptInfo[m][q] # "none"
           /\ q # Author[m] /\ Holds(q, m) => Expected(m, q)
    /\ \A pkt \in Told :
           /\ pkt.type = "message" => Expected(pkt.id, pkt.to)
           /\ pkt.type = "read_ids" => \A m \in pkt.ids : Expected(m, pkt.from)

ReceiptInv == ReceiptsSpeakTrue /\ ReceiptsAreExpected

\* Reactions.
ReactionFor(p, q, m) ==
    [type |-> "reaction", from |-> p, to |-> q, id |-> m, active |-> p \in reactions[p][m],
     rev |-> reactionVersions[p][m][p]]

ReactionsAreNumbered ==
    \A p, q \in Phones, m \in Msgs :
        /\ reactionVersions[q][m][p] = 0 => p \notin reactions[q][m]
        /\ kinds[p][m] = "none" => /\ reactionVersions[p][m][q] = 0 /\ reactionVersions[q][m][p] = 0
                                   /\ \A pkt \in Told : pkt.type = "reaction" /\ pkt.id = m => pkt.from # p

OwnReactionLeads ==
    \A p \in Phones, m \in Msgs : kinds[p][m] = "text" =>
        /\ \A q \in Phones : kinds[q][m] = "text" =>
               /\ reactionVersions[q][m][p] <= reactionVersions[p][m][p]
               /\ reactionVersions[q][m][p] = reactionVersions[p][m][p] =>
                      (p \in reactions[q][m] <=> p \in reactions[p][m])
        /\ \A pkt \in Told : pkt.type = "reaction" /\ pkt.from = p /\ pkt.id = m =>
               /\ pkt.rev <= reactionVersions[p][m][p]
               /\ pkt.rev = reactionVersions[p][m][p] => (pkt.active <=> p \in reactions[p][m])
        /\ reactionVersions[p][m][p] > 0 /\ p \in Steady =>
               \A q \in Steady \ {p} : ReactionFor(p, q, m) \in Told

ReactionsArrive ==
    /\ \A pkt \in Told : pkt.type = "reaction" => pkt.rev > 0
    /\ \A pkt \in projected : pkt.type = "reaction" =>
           \/ kinds[pkt.to][pkt.id] \in {"deleted", "forgotten"}
           \/ /\ kinds[pkt.to][pkt.id] = "text"
              /\ reactionVersions[pkt.to][pkt.id][pkt.from] >= pkt.rev

ReactionInv == ReactionsAreNumbered /\ OwnReactionLeads /\ ReactionsArrive

ConversationInv ==
    /\ TablesAreTyped /\ PacketsAreTyped /\ TextInv /\ MembersInv /\ ReceiptInv /\ ReactionInv
------------------------------------------------------------------------------
(* Statuses and packets                                                      *)

LEMMA RankOf ==
    /\ Rank("none") = 1 /\ Rank("due") = 2 /\ Rank("acked") = 3 /\ Rank("read") = 4
<1>1. /\ Statuses[1] = "none" /\ Statuses[2] = "due" /\ Statuses[3] = "acked" /\ Statuses[4] = "read"
      /\ \A i \in 1 .. 4 : i = 1 \/ i = 2 \/ i = 3 \/ i = 4
  BY DEF Statuses
<1>2. Rank("none") = 1
  BY <1>1 DEF Rank
<1>3. Rank("due") = 2
  BY <1>1 DEF Rank
<1>4. Rank("acked") = 3
  BY <1>1 DEF Rank
<1>5. Rank("read") = 4
  BY <1>1 DEF Rank
<1> QED BY <1>2, <1>3, <1>4, <1>5

\* The later of two statuses is one of them, and no earlier than either.
LEMMA LaterIsOne ==
    ASSUME NEW s \in Marks, NEW t \in Marks
    PROVE  /\ Later(s, t) \in {s, t}
           /\ Later(s, t) = "none" <=> s = "none" /\ t = "none"
           /\ Later(s, t) = "read" <=> s = "read" \/ t = "read"
           /\ Later(s, t) \in {"acked", "read"} => s \in {"acked", "read"} \/ t \in {"acked", "read"}
<1>1. Later(s, t) = IF Rank(s) < Rank(t) THEN t ELSE s
  BY DEF Later
<1>2. CASE s = "none"
  BY <1>1, <1>2, RankOf DEF Marks
<1>3. CASE s = "due"
  BY <1>1, <1>3, RankOf DEF Marks
<1>4. CASE s = "acked"
  BY <1>1, <1>4, RankOf DEF Marks
<1>5. CASE s = "read"
  BY <1>1, <1>5, RankOf DEF Marks
<1> QED BY <1>2, <1>3, <1>4, <1>5 DEF Marks

LEMMA SnapshotMarks ==
    ASSUME ConversationInv, NEW m \in Msgs
    PROVE  /\ Snapshot(m) \in [Phones -> Marks]
           /\ \A q \in Phones :
                  /\ Snapshot(m)[q] \in {receiptInfo[m][q], deliveries[m][q]}
                  /\ Snapshot(m)[q] = "none" => receiptInfo[m][q] = "none"
<1>1. \A q \in Phones : receiptInfo[m][q] \in Marks /\ deliveries[m][q] \in Marks
  BY DEF ConversationInv, TablesAreTyped, MarksAreTyped
<1>2. \A q \in Phones : Snapshot(m)[q] = Later(receiptInfo[m][q], deliveries[m][q])
  BY DEF Snapshot
<1>3. \A q \in Phones : /\ Snapshot(m)[q] \in {receiptInfo[m][q], deliveries[m][q]}
                        /\ Snapshot(m)[q] = "none" => receiptInfo[m][q] = "none"
  BY <1>1, <1>2, LaterIsOne
<1>4. Snapshot(m) \in [Phones -> Marks]
  BY <1>1, <1>3 DEF Snapshot
<1> QED BY <1>3, <1>4

LEMMA StagedIsTold ==
    ASSUME NEW p \in Phones, NEW pkt \in controlOutbox[p]
    PROVE  pkt \in Told
  BY DEF Told

LEMMA ToldIsSomewhere ==
    ASSUME NEW pkt \in Told
    PROVE  pkt \in post \/ \E p \in Phones : pkt \in controlOutbox[p]
  BY DEF Told

\* Staging adds its packets, and nothing else.
LEMMA StageTells ==
    ASSUME PacketsAreTyped, NEW p \in Phones, NEW packets, Stage(p, packets)
    PROVE  /\ \A pkt : pkt \in Told' => pkt \in packets \/ pkt \in post' \/ pkt \in Told
           /\ packets \subseteq Told'
           /\ \A pkt \in Told : pkt \in Told' \/ pkt \in post \ post'
           /\ DOMAIN controlOutbox' = Phones
           /\ \A q \in Phones : controlOutbox'[q] = IF q = p THEN controlOutbox[p] \cup packets ELSE controlOutbox[q]
<1>1. /\ DOMAIN controlOutbox' = Phones
      /\ \A q \in Phones : controlOutbox'[q] = IF q = p THEN controlOutbox[p] \cup packets ELSE controlOutbox[q]
  BY DEF Stage, PacketsAreTyped
<1> QED BY <1>1 DEF Told
------------------------------------------------------------------------------
(* What a step makes of a row                                                *)

OtherRowsStay(p, m) ==
    \A q \in Phones, n \in Msgs : q # p \/ n # m =>
        /\ kinds'[q][n] = kinds[q][n] /\ bodies'[q][n] = bodies[q][n]
        /\ changes'[q][n] = changes[q][n]
        /\ n \in isRead'[q] <=> n \in isRead[q]
        /\ reactions'[q][n] = reactions[q][n] /\ reactionVersions'[q][n] = reactionVersions[q][n]

\* The row of a text, or of a message that comes, after change c.
RowAfter(p, m, body, c) ==
    /\ m \in isRead[p] => m \in isRead'[p]
    /\ c.act = "delete" =>
           /\ kinds'[p][m] = "deleted" /\ bodies'[p][m] = 0 /\ reactions'[p][m] = {}
           /\ \A q \in Phones : reactionVersions'[p][m][q] = 0
    /\ c.act # "delete" =>
           /\ kinds'[p][m] = "text"
           /\ bodies'[p][m] = IF c.act = "edit" THEN c.body ELSE body
           /\ reactions'[p][m] = reactions[p][m] /\ reactionVersions'[p][m] = reactionVersions[p][m]

RowStays(p, m) ==
    /\ kinds'[p][m] = kinds[p][m] /\ bodies'[p][m] = bodies[p][m]
    /\ m \in isRead'[p] <=> m \in isRead[p]
    /\ reactions'[p][m] = reactions[p][m] /\ reactionVersions'[p][m] = reactionVersions[p][m]

LEMMA MessageShown ==
    ASSUME RowsAreTyped, NEW p \in Phones, NEW m \in Msgs, NEW kind, kind = "text", NEW body \in Nat,
           NEW c \in ChangeRows, ShowMessage(p, m, kind, body, c), NEW given \in [Phones -> [Msgs -> ChangeRows]],
           changes' = given, \A q \in Phones, n \in Msgs : q # p \/ n # m => given[q][n] = changes[q][n]
    PROVE  RowsAreTyped' /\ OtherRowsStay(p, m) /\ RowAfter(p, m, body, c)
<1> DEFINE row == Shown(p, m, kind, body, c)
           zero == [q \in Phones |-> 0]
<1>1. /\ row.kind = IF c.act = "delete" THEN "deleted" ELSE "text"
      /\ row.body = IF c.act = "edit" THEN c.body ELSE IF c.act = "delete" THEN 0 ELSE body
      /\ row.reactions = IF c.act = "delete" THEN {} ELSE reactions[p][m]
  BY DEF Shown, ChangeRows
<1>2. /\ row.body \in Nat /\ row.reactions \in SUBSET Phones
      /\ row.kind \in {"none", "text", "deleted", "forgotten"}
  BY <1>1 DEF RowsAreTyped, ChangeRows
<1>3. zero \in [Phones -> Nat] /\ \A q \in Phones : zero[q] = 0
  OBVIOUS
<1>4. /\ kinds' = [kinds EXCEPT ![p][m] = row.kind]
      /\ bodies' = [bodies EXCEPT ![p][m] = row.body]
      /\ reactions' = [reactions EXCEPT ![p][m] = row.reactions]
      /\ reactionVersions' = IF row.kind = "deleted"
             THEN [reactionVersions EXCEPT ![p][m] = zero] ELSE reactionVersions
      /\ isRead' = [isRead EXCEPT ![p] = IF row.kind = "deleted" THEN @ \cup {m} ELSE @]
  BY DEF ShowMessage
<1> HIDE DEF row, zero
<1>5. RowsAreTyped'
  BY <1>2, <1>3, <1>4 DEF RowsAreTyped
<1>6. OtherRowsStay(p, m)
  BY <1>4 DEF RowsAreTyped, OtherRowsStay
<1>7. RowAfter(p, m, body, c)
  BY <1>1, <1>3, <1>4 DEF RowsAreTyped, RowAfter
<1> QED BY <1>5, <1>6, <1>7

\* A change that is not newer, or comes after a deletion, changes nothing.
LEMMA ChangeTaken ==
    ASSUME ConversationInv, NEW p \in Phones, NEW m \in Msgs, NEW c, Formed(c), c.rev > 0,
           kinds[p][m] # "forgotten", TakeChange(p, m, c)
    PROVE  /\ RowsAreTyped' /\ OtherRowsStay(p, m)
           /\ \/ /\ changes[p][m].act = "delete" \/ changes[p][m].rev >= c.rev
                 /\ RowStays(p, m) /\ changes'[p][m] = changes[p][m]
              \/ /\ changes[p][m].act # "delete" /\ changes[p][m].rev < c.rev
                 /\ changes'[p][m] = c /\ kinds[p][m] \in {"none", "text"}
                 /\ kinds[p][m] = "none" => RowStays(p, m)
                 /\ kinds[p][m] = "text" => RowAfter(p, m, bodies[p][m], c)
<1>1. RowsAreTyped
  BY DEF ConversationInv, TablesAreTyped
<1>2. kinds[p][m] \in {"none", "text", "deleted"} /\ bodies[p][m] \in Nat /\ c \in ChangeRows
  BY <1>1 DEF RowsAreTyped, Formed
<1>3. CASE changes[p][m].act = "delete" \/ changes[p][m].rev >= c.rev
  <2>1. UNCHANGED <<texts, reacted>>
    BY <1>3 DEF TakeChange
  <2> QED BY <1>1, <1>3, <2>1 DEF texts, reacted, RowsAreTyped, OtherRowsStay, RowStays
<1>4. CASE ~(changes[p][m].act = "delete" \/ changes[p][m].rev >= c.rev)
  <2>1. changes' = [changes EXCEPT ![p][m] = c]
    BY <1>4 DEF TakeChange
  <2>2. /\ changes' \in [Phones -> [Msgs -> ChangeRows]] /\ changes'[p][m] = c
        /\ \A q \in Phones, n \in Msgs : q # p \/ n # m => changes'[q][n] = changes[q][n]
    BY <1>1, <1>2, <2>1 DEF RowsAreTyped
  <2>3. changes[p][m].rev < c.rev /\ changes[p][m].act # "delete" /\ kinds[p][m] # "deleted"
    BY <1>1, <1>2, <1>4 DEF RowsAreTyped, ChangeRows, ConversationInv, TextInv, RowsFollowChanges
  <2>4. CASE kinds[p][m] = "none"
    <3>1. UNCHANGED <<kinds, bodies, isRead, reacted>>
      BY <1>4, <2>4 DEF TakeChange
    <3>2. RowsAreTyped' /\ OtherRowsStay(p, m) /\ RowStays(p, m)
      BY <1>1, <2>2, <3>1 DEF reacted, RowsAreTyped, OtherRowsStay, RowStays
    <3> QED BY <2>2, <2>3, <2>4, <3>2
  <2>5. CASE kinds[p][m] = "text"
    <3>1. ShowMessage(p, m, kinds[p][m], bodies[p][m], c)
      BY <1>4, <2>5 DEF TakeChange
    <3>2. PICK given \in [Phones -> [Msgs -> ChangeRows]] : changes' = given
      BY <2>2
    <3>3. RowsAreTyped' /\ OtherRowsStay(p, m) /\ RowAfter(p, m, bodies[p][m], c)
      BY <1>1, <1>2, <2>2, <2>5, <3>1, <3>2, MessageShown
    <3> QED BY <2>2, <2>3, <2>5, <3>3
  <2> QED BY <1>2, <2>3, <2>4, <2>5
<1> QED BY <1>3, <1>4
------------------------------------------------------------------------------
(* What leaves the parts of the invariant                                    *)

LEMMA MembersFrame ==
    ASSUME ConversationInv, UNCHANGED group,
           \A pkt \in Told' : pkt.type \in {"group", "group_ack", "group_profile"} => pkt \in Told,
           \A pkt \in Told : pkt.type = "group_profile" => pkt \in Told',
           \A pkt \in projected' : pkt.type \in {"group", "group_profile"} => pkt \in projected
    PROVE  MembersInv'
<1>1. MembersInv /\ UNCHANGED <<roster, groupRev, leftGroup, profileRev, groupDeliveries, wasOut>>
  BY DEF ConversationInv, group
<1>2. OwnerLeads'
  BY <1>1 DEF MembersInv, OwnerLeads
<1>3. OneSetOfMembers'
  BY <1>1 DEF MembersInv, OneSetOfMembers
<1>4. SteadyAreMembers'
  BY <1>1 DEF MembersInv, SteadyAreMembers, Steady
<1>5. RevisionsArrive'
  <2>1. \A q \in Phones : q \in roster[Owner] \ {Owner} /\ profileRev[Owner] > 0 =>
            [type |-> "group_profile", from |-> Owner, to |-> q, rev |-> profileRev[Owner]] \in Told'
    BY <1>1 DEF MembersInv, RevisionsArrive
  <2> QED BY <1>1, <2>1 DEF MembersInv, RevisionsArrive
<1> QED BY <1>2, <1>3, <1>4, <1>5 DEF MembersInv

LEMMA TextFrame ==
    ASSUME ConversationInv, UNCHANGED <<kinds, bodies, changes>>, wasOut \subseteq wasOut',
           \A m \in Msgs, p \in Phones :
               p \notin wasOut' /\ Author[m] \notin wasOut' /\ deliveries[m][p] # "none" => deliveries'[m][p] # "none",
           \A pkt \in Told' : pkt.type = "message_change" => pkt \in Told,
           \A pkt \in Told' : pkt.type = "message" =>
               \/ pkt \in Told
               \/ /\ kinds[Author[pkt.id]][pkt.id] # "none"
                  /\ pkt.body <= changes[Author[pkt.id]][pkt.id].rev,
           \A pkt \in Told' : pkt.type = "reaction" =>
               pkt \in Told \/ kinds[Author[pkt.id]][pkt.id] # "none",
           \A pkt \in Told' : pkt.type = "read_ids" =>
               pkt \in Told \/ \A m \in pkt.ids : kinds[Author[m]][m] # "none",
           \A pkt \in Told : pkt.type = "message_change" => pkt \in Told',
           \A pkt \in projected' : pkt.type \in {"message", "message_change"} => pkt \in projected
    PROVE  TextInv'
<1>1. TextInv
  BY DEF ConversationInv
<1>2. SentByItsAuthor'
  BY <1>1 DEF TextInv, SentByItsAuthor
<1>3. RowsFollowChanges'
  BY <1>1 DEF TextInv, RowsFollowChanges
<1>4. AuthorKnowsChanges'
  BY <1>1 DEF TextInv, AuthorKnowsChanges, Known, Holds
<1>5. SteadyAreTold'
  <2> SUFFICES ASSUME NEW m \in Msgs, NEW p \in Phones, TextFor(p, m)'
               PROVE  /\ kinds[Author[m]][m] = "text" => deliveries'[m][p] # "none"
                      /\ Holds(Author[m], m) /\ changes[Author[m]][m].rev > 0 => ChangeFor(p, m) \in Told'
    BY DEF SteadyAreTold, Holds, ChangeFor
  <2>1. TextFor(p, m) /\ p \notin wasOut' /\ Author[m] \notin wasOut'
    BY DEF TextFor, Steady
  <2>2. ChangeFor(p, m).type = "message_change"
    BY DEF ChangeFor
  <2> QED BY <1>1, <2>1, <2>2 DEF TextInv, SteadyAreTold
<1>6. ProjectedIsKnown'
  BY <1>1 DEF TextInv, ProjectedIsKnown
<1> QED BY <1>2, <1>3, <1>4, <1>5, <1>6 DEF TextInv

LEMMA ReceiptFrame ==
    ASSUME ConversationInv, PacketsAreTyped', UNCHANGED kinds,
           \A p \in Phones : isRead[p] \subseteq isRead'[p],
           \A m \in Msgs, q \in Phones :
               /\ TrueMark(m, q, deliveries[m][q])' /\ TrueMark(m, q, receiptInfo[m][q])'
               /\ deliveries'[m][q] # "none" => deliveries[m][q] # "none"
               /\ receiptInfo'[m][q] = "none" => receiptInfo[m][q] = "none",
           \A pkt \in Told' : pkt.type = "ack" => pkt \in Told \/ kinds[pkt.from][pkt.id] # "none",
           \A pkt \in Told' : pkt.type = "read_ids" => pkt \in Told \/ \A m \in pkt.ids :
               kinds[pkt.from][m] # "none" /\ m \in isRead'[pkt.from] /\ Expected(m, pkt.from),
           \A pkt \in Told' : pkt.type = "message" => pkt \in Told \/ Expected(pkt.id, pkt.to)
    PROVE  ReceiptInv'
<1>1. ReceiptInv /\ PacketsAreTyped
  BY DEF ConversationInv
<1>2. \A m \in Msgs, q \in Phones : Expected(m, q) => Expected(m, q)'
  BY DEF Expected
<1>3. \A pkt \in Told' : Formal(pkt)
  BY DEF PacketsAreTyped
<1>4. ReceiptsSpeakTrue'
  <2>1. ASSUME NEW pkt \in Told', pkt.type = "ack"
        PROVE  TrueMark(pkt.id, pkt.from, "acked")'
    BY <1>1, <2>1 DEF ReceiptInv, ReceiptsSpeakTrue, TrueMark
  <2>2. ASSUME NEW pkt \in Told', pkt.type = "read_ids", NEW m \in pkt.ids
        PROVE  TrueMark(m, pkt.from, "read")'
    <3>1. pkt.from \in Phones
      BY <1>3 DEF Formal
    <3> QED BY <1>1, <2>2, <3>1 DEF ReceiptInv, ReceiptsSpeakTrue, TrueMark
  <2> QED BY <2>1, <2>2 DEF ReceiptsSpeakTrue
<1>5. ReceiptsAreExpected'
  <2>1. \A m \in Msgs, q \in Phones :
           /\ deliveries'[m][q] # "none" => /\ q # Author[m] /\ kinds[Author[m]][m] = "text"
                                            /\ receiptInfo'[m][q] # "none"
           /\ q # Author[m] /\ Holds(q, m) => Expected(m, q)'
    BY <1>1, <1>2 DEF ReceiptInv, ReceiptsAreExpected
  <2>2. ASSUME NEW pkt \in Told', pkt.type = "message"
        PROVE  kinds[Author[pkt.id]][pkt.id] = "forgotten" \/ receiptInfo'[pkt.id][pkt.to] # "none"
    <3>1. Expected(pkt.id, pkt.to) /\ pkt.id \in Msgs /\ pkt.to \in Phones
      BY <1>1, <2>2 DEF ReceiptInv, ReceiptsAreExpected, PacketsAreTyped, Formal
    <3> QED BY <3>1 DEF Expected
  <2>3. ASSUME NEW pkt \in Told', pkt.type = "read_ids", NEW m \in pkt.ids
        PROVE  kinds[Author[m]][m] = "forgotten" \/ receiptInfo'[m][pkt.from] # "none"
    <3>1. Expected(m, pkt.from) /\ m \in Msgs /\ pkt.from \in Phones
      BY <1>1, <1>3, <2>3 DEF ReceiptInv, ReceiptsAreExpected, Formal
    <3> QED BY <3>1 DEF Expected
  <2> QED BY <2>1, <2>2, <2>3 DEF ReceiptsAreExpected, Expected, Holds
<1> QED BY <1>4, <1>5 DEF ReceiptInv

LEMMA ReactionFrame ==
    ASSUME ConversationInv, UNCHANGED <<kinds, reacted>>, wasOut \subseteq wasOut',
           \A pkt : pkt.type = "reaction" => (pkt \in Told' <=> pkt \in Told),
           \A pkt \in projected' : pkt.type = "reaction" => pkt \in projected
    PROVE  ReactionInv'
<1>1. ReactionInv /\ UNCHANGED <<reactions, reactionVersions>>
  BY DEF ConversationInv, reacted
<1>2. ReactionsAreNumbered'
  BY <1>1 DEF ReactionInv, ReactionsAreNumbered
<1>3. OwnReactionLeads'
  <2> SUFFICES ASSUME NEW p \in Phones, NEW m \in Msgs, kinds[p][m] = "text"
               PROVE  /\ \A pkt \in Told' : pkt.type = "reaction" /\ pkt.from = p /\ pkt.id = m =>
                             /\ pkt.rev <= reactionVersions[p][m][p]
                             /\ pkt.rev = reactionVersions[p][m][p] => (pkt.active <=> p \in reactions[p][m])
                      /\ reactionVersions[p][m][p] > 0 /\ p \in Steady' =>
                             \A q \in Steady' \ {p} : ReactionFor(p, q, m) \in Told'
    BY <1>1 DEF ReactionInv, OwnReactionLeads, ReactionFor
  <2>1. \A pkt \in Told' : pkt.type = "reaction" /\ pkt.from = p /\ pkt.id = m =>
            /\ pkt.rev <= reactionVersions[p][m][p]
            /\ pkt.rev = reactionVersions[p][m][p] => (pkt.active <=> p \in reactions[p][m])
    BY <1>1 DEF ReactionInv, OwnReactionLeads
  <2>2. ASSUME reactionVersions[p][m][p] > 0, p \in Steady', NEW q \in Steady' \ {p}
        PROVE  ReactionFor(p, q, m) \in Told'
    <3>1. ReactionFor(p, q, m) \in Told
      BY <1>1, <2>2 DEF ReactionInv, OwnReactionLeads, Steady
    <3>2. ReactionFor(p, q, m).type = "reaction"
      BY DEF ReactionFor
    <3> QED BY <3>1, <3>2
  <2> QED BY <2>1, <2>2
<1>4. ReactionsArrive'
  BY <1>1 DEF ReactionInv, ReactionsArrive
<1> QED BY <1>2, <1>3, <1>4 DEF ReactionInv
------------------------------------------------------------------------------
(* The operations of users                                                   *)

LEMMA MarkReadKeeps ==
    ASSUME ConversationInv, NEW p \in Phones, MarkRead(p)
    PROVE  ConversationInv'
<1> DEFINE unread(q) == {m \in Msgs : Author[m] = q /\ q # p /\ kinds[p][m] # "none"
                                       /\ kinds[p][m] # "forgotten" /\ m \notin isRead[p]}
           senders == {q \in Phones : unread(q) # {}}
           packets == {[type |-> "read_ids", from |-> p, to |-> q, ids |-> unread(q)] : q \in senders}
<1>1. /\ isRead' = [isRead EXCEPT ![p] = @ \cup UNION {unread(q) : q \in senders}]
      /\ Stage(p, packets)
      /\ UNCHANGED <<group, kinds, bodies, changes, receipts, reacted, wires>>
  BY DEF MarkRead
<1>2. \A pkt \in packets :
          /\ pkt.type = "read_ids" /\ pkt.from = p /\ Formal(pkt)
          /\ \A m \in pkt.ids : m \in isRead'[p] /\ Holds(p, m) /\ Author[m] # p /\ m \in Msgs
  <2> SUFFICES ASSUME NEW q \in senders
               PROVE  LET pkt == [type |-> "read_ids", from |-> p, to |-> q, ids |-> unread(q)] IN
                      /\ pkt.type = "read_ids" /\ pkt.from = p /\ Formal(pkt)
                      /\ \A m \in pkt.ids : m \in isRead'[p] /\ Holds(p, m) /\ Author[m] # p /\ m \in Msgs
    OBVIOUS
  <2>1. q \in Phones /\ q # p
    OBVIOUS
  <2>2. unread(q) \subseteq isRead'[p]
    BY <1>1 DEF ConversationInv, TablesAreTyped, RowsAreTyped
  <2>3. \A m \in unread(q) : Holds(p, m) /\ Author[m] = q /\ m \in Msgs
    BY DEF Holds, ConversationInv, TablesAreTyped, RowsAreTyped
  <2> HIDE DEF unread, senders
  <2> QED BY <2>1, <2>2, <2>3 DEF Formal
<1>3. isRead' \in [Phones -> SUBSET Msgs] /\ \A q \in Phones : isRead[q] \subseteq isRead'[q]
  BY <1>1 DEF ConversationInv, TablesAreTyped, RowsAreTyped
<1> HIDE DEF unread, senders, packets
<1>4. /\ \A pkt : pkt \in Told' => pkt \in packets \/ pkt \in Told
      /\ Told \subseteq Told'
      /\ DOMAIN controlOutbox' = Phones
      /\ \A q \in Phones : controlOutbox'[q] = IF q = p THEN controlOutbox[p] \cup packets ELSE controlOutbox[q]
  BY <1>1, StageTells DEF ConversationInv, wires, Told
<1>5. TablesAreTyped'
  BY <1>1, <1>3 DEF ConversationInv, TablesAreTyped, RowsAreTyped, MembersAreTyped, MarksAreTyped, group,
                    receipts, reacted, wires
<1>6. PacketsAreTyped'
  BY <1>2, <1>4 DEF ConversationInv, PacketsAreTyped
<1>7. MembersInv'
  BY <1>1, <1>2, <1>4, MembersFrame DEF wires
<1>8. TextInv'
  <2>1. \A pkt \in packets : \A m \in pkt.ids : kinds[Author[m]][m] # "none"
    BY <1>2, ConversationAssumption DEF ConversationInv, TextInv, SentByItsAuthor, Holds
  <2>2. UNCHANGED <<kinds, bodies, changes, wasOut, deliveries, projected>>
    BY <1>1 DEF group, receipts, wires
  <2> QED BY <1>2, <1>4, <2>1, <2>2, TextFrame
<1>9. ReceiptInv'
  <2>1. \A pkt \in packets : \A m \in pkt.ids :
            kinds[pkt.from][m] # "none" /\ m \in isRead'[pkt.from] /\ Expected(m, pkt.from)
    BY <1>2 DEF ConversationInv, ReceiptInv, ReceiptsAreExpected, Holds
  <2>2. UNCHANGED <<kinds, deliveries, receiptInfo>>
    BY <1>1 DEF receipts
  <2>3. \A m \in Msgs, q \in Phones : TrueMark(m, q, deliveries[m][q])' /\ TrueMark(m, q, receiptInfo[m][q])'
    BY <1>3, <2>2 DEF ConversationInv, ReceiptInv, ReceiptsSpeakTrue, TrueMark
  <2> QED BY <1>2, <1>3, <1>4, <1>6, <2>1, <2>2, <2>3, ReceiptFrame
<1>10. ReactionInv'
  BY <1>1, <1>2, <1>4, ReactionFrame DEF group, wires
<1> QED BY <1>5, <1>6, <1>7, <1>8, <1>9, <1>10 DEF ConversationInv

LEMMA LeaveGroupKeeps ==
    ASSUME ConversationInv, NEW p \in Phones, LeaveGroup(p)
    PROVE  ConversationInv'
<1>1. /\ p # Owner /\ leftGroup' = leftGroup \cup {p} /\ wasOut' = wasOut \cup {p}
      /\ receiptInfo' = [m \in Msgs |-> IF Author[m] = p THEN Snapshot(m) ELSE receiptInfo[m]]
      /\ deliveries' = [m \in Msgs |-> IF Author[m] = p THEN Nobody ELSE deliveries[m]]
      /\ UNCHANGED <<roster, groupRev, profileRev, groupDeliveries, texts, reacted, controlOutbox, wires>>
  BY DEF LeaveGroup
<1>2. Told' = Told /\ projected' = projected
  BY <1>1 DEF Told, wires
<1>3. MarksAreTyped'
  BY <1>1, SnapshotMarks DEF ConversationInv, TablesAreTyped, MarksAreTyped, Nobody, Marks
<1>4. TablesAreTyped' /\ PacketsAreTyped'
  BY <1>1, <1>2, <1>3 DEF ConversationInv, TablesAreTyped, RowsAreTyped, MembersAreTyped, texts, reacted, wires,
                          PacketsAreTyped
<1>5. MembersInv'
  <2>1. OwnerLeads' /\ OneSetOfMembers' /\ RevisionsArrive'
    BY <1>1, <1>2 DEF ConversationInv, MembersInv, OwnerLeads, OneSetOfMembers, RevisionsArrive
  <2>2. SteadyAreMembers'
    BY <1>1, <1>2 DEF ConversationInv, MembersInv, SteadyAreMembers, Steady
  <2> QED BY <2>1, <2>2 DEF MembersInv
<1>6. TextInv'
  <2>1. \A m \in Msgs, q \in Phones :
            q \notin wasOut' /\ Author[m] \notin wasOut' /\ deliveries[m][q] # "none" => deliveries'[m][q] # "none"
    BY <1>1
  <2> QED BY <1>1, <1>2, <2>1, TextFrame DEF texts
<1>7. ReceiptInv'
  <2>1. \A m \in Msgs, q \in Phones :
            /\ deliveries'[m][q] \in {deliveries[m][q], "none"}
            /\ receiptInfo'[m][q] \in {deliveries[m][q], receiptInfo[m][q]}
            /\ receiptInfo'[m][q] = "none" => receiptInfo[m][q] = "none"
    BY <1>1, SnapshotMarks DEF Nobody
  <2>2. \A m \in Msgs, q \in Phones : TrueMark(m, q, deliveries[m][q])' /\ TrueMark(m, q, receiptInfo[m][q])'
    BY <1>1, <2>1 DEF ConversationInv, ReceiptInv, ReceiptsSpeakTrue, TrueMark, texts
  <2> QED BY <1>1, <1>2, <1>4, <2>1, <2>2, ReceiptFrame DEF texts
<1>8. ReactionInv'
  BY <1>1, <1>2, ReactionFrame DEF texts
<1> QED BY <1>4, <1>5, <1>6, <1>7, <1>8 DEF ConversationInv

LEMMA ReactKeeps ==
    ASSUME ConversationInv, NEW p \in Phones, NEW m \in Msgs, React(p, m)
    PROVE  ConversationInv'
<1> DEFINE active == p \notin reactions[p][m]
           rev == reactionVersions[p][m][p] + 1
           packets == {[type |-> "reaction", from |-> p, to |-> q, id |-> m, active |-> active, rev |-> rev]
                         : q \in roster[p] \ {p}}
<1>1. /\ kinds[p][m] = "text"
      /\ reactions' = [reactions EXCEPT ![p][m] = IF active THEN @ \cup {p} ELSE @ \ {p}]
      /\ reactionVersions' = [reactionVersions EXCEPT ![p][m][p] = rev]
      /\ Stage(p, packets)
      /\ UNCHANGED <<group, texts, receipts, wires>>
  BY DEF React
<1>2. rev \in Nat /\ rev = reactionVersions[p][m][p] + 1 /\ reactionVersions[p][m][p] \in Nat
  BY DEF ConversationInv, TablesAreTyped, RowsAreTyped
<1>3. \A pkt \in packets : /\ pkt.type = "reaction" /\ pkt.from = p /\ pkt.id = m /\ Formal(pkt)
                           /\ pkt.rev = rev /\ (pkt.active <=> active)
  <2> SUFFICES ASSUME NEW q \in roster[p] \ {p}
               PROVE  LET pkt == [type |-> "reaction", from |-> p, to |-> q, id |-> m, active |-> active,
                                  rev |-> rev] IN
                      /\ pkt.type = "reaction" /\ pkt.from = p /\ pkt.id = m /\ Formal(pkt)
                      /\ pkt.rev = rev /\ (pkt.active <=> active)
    OBVIOUS
  <2>1. q \in Phones \ {p} /\ active \in BOOLEAN
    BY DEF ConversationInv, TablesAreTyped, MembersAreTyped
  <2> HIDE DEF active, rev
  <2> QED BY <1>2, <2>1 DEF Formal
<1>4. /\ reactions' \in [Phones -> [Msgs -> SUBSET Phones]]
      /\ reactionVersions' \in [Phones -> [Msgs -> [Phones -> Nat]]]
      /\ \A q, r \in Phones, n \in Msgs :
             /\ reactionVersions'[q][n][r] =
                    IF q = p /\ n = m /\ r = p THEN rev ELSE reactionVersions[q][n][r]
             /\ r \in reactions'[q][n] <=> IF q = p /\ n = m /\ r = p THEN active ELSE r \in reactions[q][n]
  <2>1. /\ reactionVersions' \in [Phones -> [Msgs -> [Phones -> Nat]]]
        /\ \A q, r \in Phones, n \in Msgs :
               reactionVersions'[q][n][r] =
                    IF q = p /\ n = m /\ r = p THEN rev ELSE reactionVersions[q][n][r]
    <3> HIDE DEF rev
    <3> QED BY <1>1, <1>2 DEF ConversationInv, TablesAreTyped, RowsAreTyped
  <2>2. /\ reactions' \in [Phones -> [Msgs -> SUBSET Phones]]
        /\ \A q, r \in Phones, n \in Msgs :
               r \in reactions'[q][n] <=> IF q = p /\ n = m /\ r = p THEN active ELSE r \in reactions[q][n]
    BY <1>1 DEF ConversationInv, TablesAreTyped, RowsAreTyped
  <2> QED BY <2>1, <2>2
<1>5. \A q \in roster[p] \ {p} : ReactionFor(p, q, m)' \in packets
  <2>1. reactionVersions'[p][m][p] = rev /\ (p \in reactions'[p][m]) = active
    BY <1>4
  <2> QED BY <2>1 DEF ReactionFor
<1> HIDE DEF packets, rev, active
<1>6. /\ \A pkt : pkt \in Told' => pkt \in packets \/ pkt \in Told
      /\ Told \subseteq Told' /\ packets \subseteq Told'
      /\ DOMAIN controlOutbox' = Phones
      /\ \A q \in Phones : controlOutbox'[q] = IF q = p THEN controlOutbox[p] \cup packets ELSE controlOutbox[q]
  BY <1>1, StageTells DEF ConversationInv, wires, Told
<1>7. TablesAreTyped'
  BY <1>1, <1>4 DEF ConversationInv, TablesAreTyped, RowsAreTyped, MembersAreTyped, MarksAreTyped, group,
                    receipts, texts, wires
<1>8. PacketsAreTyped'
  BY <1>3, <1>6 DEF ConversationInv, PacketsAreTyped
<1>9. MembersInv'
  BY <1>1, <1>3, <1>6, MembersFrame DEF wires
<1>10. TextInv'
  <2>1. kinds[Author[m]][m] # "none"
    BY <1>1, ConversationAssumption DEF ConversationInv, TextInv, SentByItsAuthor
  <2>2. UNCHANGED <<kinds, bodies, changes, wasOut, deliveries, projected>>
    BY <1>1 DEF group, texts, receipts, wires
  <2> QED BY <1>3, <1>6, <2>1, <2>2, TextFrame
<1>11. ReceiptInv'
  <2>1. UNCHANGED <<kinds, isRead, deliveries, receiptInfo>>
    BY <1>1 DEF texts, receipts
  <2>2. \A n \in Msgs, q \in Phones : TrueMark(n, q, deliveries[n][q])' /\ TrueMark(n, q, receiptInfo[n][q])'
    BY <2>1 DEF ConversationInv, ReceiptInv, ReceiptsSpeakTrue, TrueMark
  <2> QED BY <1>3, <1>6, <1>8, <2>1, <2>2, ReceiptFrame
<1>12. ReactionInv'
  <2>1. ReactionInv /\ UNCHANGED <<kinds, wasOut, projected>>
    BY <1>1 DEF ConversationInv, texts, group, wires
  <2>2. ReactionsAreNumbered'
    BY <1>1, <1>2, <1>3, <1>4, <1>6, <2>1 DEF ReactionInv, ReactionsAreNumbered
  <2>3. ReactionsArrive'
    <3>1. \A pkt \in projected : pkt.type = "reaction" =>
              pkt.to \in Phones /\ pkt.from \in Phones /\ pkt.id \in Msgs /\ pkt.rev \in Nat
      BY DEF ConversationInv, PacketsAreTyped, TablesAreTyped, Told, Formal
    <3>2. \A q, r \in Phones, n \in Msgs :
              reactionVersions'[q][n][r] >= reactionVersions[q][n][r]
              /\ reactionVersions[q][n][r] \in Nat /\ reactionVersions'[q][n][r] \in Nat
      <4>1. \A q, r \in Phones, n \in Msgs :
                reactionVersions[q][n][r] \in Nat /\ reactionVersions'[q][n][r] \in Nat
        BY <1>4 DEF ConversationInv, TablesAreTyped, RowsAreTyped
      <4>2. ASSUME NEW q \in Phones, NEW r \in Phones, NEW n \in Msgs
            PROVE  reactionVersions'[q][n][r] >= reactionVersions[q][n][r]
        <5>1. CASE q = p /\ n = m /\ r = p
          BY <1>2, <1>4, <5>1
        <5>2. CASE ~(q = p /\ n = m /\ r = p)
          BY <1>4, <4>1, <5>2
        <5> QED BY <5>1, <5>2
      <4> QED BY <4>1, <4>2
    <3>3. \A pkt \in Told' : pkt.type = "reaction" => pkt.rev > 0
      BY <1>2, <1>3, <1>6, <2>1 DEF ReactionInv, ReactionsArrive
    <3>4. ASSUME NEW pkt \in projected, pkt.type = "reaction"
          PROVE  \/ kinds[pkt.to][pkt.id] \in {"deleted", "forgotten"}
                 \/ /\ kinds[pkt.to][pkt.id] = "text"
                    /\ reactionVersions'[pkt.to][pkt.id][pkt.from] >= pkt.rev
      BY <2>1, <3>1, <3>2, <3>4 DEF ReactionInv, ReactionsArrive
    <3> QED BY <2>1, <3>3, <3>4 DEF ReactionsArrive
  <2>4. OwnReactionLeads'
    <3> SUFFICES ASSUME NEW r \in Phones, NEW n \in Msgs, kinds[r][n] = "text"
                 PROVE  /\ \A q \in Phones : kinds[q][n] = "text" =>
                               /\ reactionVersions'[q][n][r] <= reactionVersions'[r][n][r]
                               /\ reactionVersions'[q][n][r] = reactionVersions'[r][n][r] =>
                                      (r \in reactions'[q][n] <=> r \in reactions'[r][n])
                        /\ \A pkt \in Told' : pkt.type = "reaction" /\ pkt.from = r /\ pkt.id = n =>
                               /\ pkt.rev <= reactionVersions'[r][n][r]
                               /\ pkt.rev = reactionVersions'[r][n][r] => (pkt.active <=> r \in reactions'[r][n])
                        /\ reactionVersions'[r][n][r] > 0 /\ r \in Steady =>
                               \A q \in Steady \ {r} : ReactionFor(r, q, n)' \in Told'
      BY <2>1 DEF OwnReactionLeads, ReactionFor, Steady
    <3>1. /\ \A q \in Phones : kinds[q][n] = "text" =>
                 /\ reactionVersions[q][n][r] <= reactionVersions[r][n][r]
                 /\ reactionVersions[q][n][r] = reactionVersions[r][n][r] =>
                        (r \in reactions[q][n] <=> r \in reactions[r][n])
          /\ \A pkt \in Told : pkt.type = "reaction" /\ pkt.from = r /\ pkt.id = n =>
                 /\ pkt.rev <= reactionVersions[r][n][r]
                 /\ pkt.rev = reactionVersions[r][n][r] => (pkt.active <=> r \in reactions[r][n])
          /\ reactionVersions[r][n][r] > 0 /\ r \in Steady =>
                 \A q \in Steady \ {r} : ReactionFor(r, q, n) \in Told
      BY <2>1 DEF ReactionInv, OwnReactionLeads
    <3>2. /\ \A q \in Phones : reactionVersions[q][n][r] \in Nat
          /\ \A pkt \in Told : pkt.type = "reaction" => pkt.rev \in Nat
      BY DEF ConversationInv, TablesAreTyped, RowsAreTyped, PacketsAreTyped, Formal
    <3>3. CASE r = p /\ n = m
      <4>1. \A q \in Phones : kinds[q][n] = "text" =>
                /\ reactionVersions'[q][n][r] <= reactionVersions'[r][n][r]
                /\ reactionVersions'[q][n][r] = reactionVersions'[r][n][r] =>
                       (r \in reactions'[q][n] <=> r \in reactions'[r][n])
        BY <1>2, <1>4, <3>1, <3>2, <3>3
      <4>2. \A pkt \in Told' : pkt.type = "reaction" /\ pkt.from = r /\ pkt.id = n =>
                /\ pkt.rev <= reactionVersions'[r][n][r]
                /\ pkt.rev = reactionVersions'[r][n][r] => (pkt.active <=> r \in reactions'[r][n])
        BY <1>2, <1>3, <1>4, <1>6, <3>1, <3>2, <3>3
      <4>3. r \in Steady => Steady \subseteq roster[p]
        BY <3>3 DEF ConversationInv, MembersInv, SteadyAreMembers
      <4> QED BY <1>5, <1>6, <3>3, <4>1, <4>2, <4>3
    <3>4. CASE ~(r = p /\ n = m)
      <4>1. /\ \A q \in Phones : reactionVersions'[q][n][r] = reactionVersions[q][n][r]
                                 /\ (r \in reactions'[q][n] <=> r \in reactions[q][n])
        BY <1>4, <3>4
      <4>2. \A q \in Phones : ReactionFor(r, q, n)' = ReactionFor(r, q, n)
        BY <4>1 DEF ReactionFor
      <4> QED BY <1>3, <1>6, <3>1, <3>4, <4>1, <4>2 DEF Steady
    <3> QED BY <3>3, <3>4
  <2> QED BY <2>2, <2>3, <2>4 DEF ReactionInv
<1> QED BY <1>7, <1>8, <1>9, <1>10, <1>11, <1>12 DEF ConversationInv

\* New members make a new revision, and lose nobody who was a member all the time.
LEMMA MembersReplaced ==
    ASSUME ConversationInv, NEW next \in SUBSET Phones, ReplaceMembers(next)
    PROVE  /\ roster' \in [Phones -> SUBSET Phones] /\ groupRev' \in [Phones -> Nat]
           /\ groupDeliveries' \in [Phones -> Nat \cup {-1}] /\ wasOut' \subseteq Phones
           /\ MarksAreTyped'
           /\ wasOut' = wasOut \cup (roster[Owner] \ next) /\ Steady' \subseteq next
           /\ \A p \in Phones :
                  /\ roster'[p] = IF p = Owner THEN next ELSE roster[p]
                  /\ groupRev'[p] = IF p = Owner THEN groupRev[Owner] + 1 ELSE groupRev[p]
                  /\ groupDeliveries'[p] = IF p \in (roster[Owner] \cup next) \ {Owner} /\ groupDeliveries[p] = -1
                                           THEN 0 ELSE groupDeliveries[p]
           /\ \A m \in Msgs, p \in Phones :
                  /\ deliveries'[m][p] \in {deliveries[m][p], "none"}
                  /\ receiptInfo'[m][p] \in {deliveries[m][p], receiptInfo[m][p]}
                  /\ receiptInfo'[m][p] = "none" => receiptInfo[m][p] = "none"
                  /\ p \notin wasOut' => deliveries'[m][p] = deliveries[m][p]
<1>1. /\ Owner \in Phones /\ groupRev[Owner] > 0 /\ Steady \subseteq roster[Owner]
      /\ roster \in [Phones -> SUBSET Phones] /\ groupRev \in [Phones -> Nat] /\ wasOut \subseteq Phones
      /\ groupDeliveries \in [Phones -> Nat \cup {-1}]
  BY ConversationAssumption DEF ConversationInv, TablesAreTyped, MembersAreTyped, MembersInv, OwnerLeads,
                                SteadyAreMembers
<1>2. /\ roster' = [roster EXCEPT ![Owner] = next]
      /\ groupRev' = [groupRev EXCEPT ![Owner] = @ + 1]
      /\ groupDeliveries' = [q \in Phones |->
             IF q \in (roster[Owner] \cup next) \ {Owner} /\ groupDeliveries[q] = -1
             THEN 0 ELSE groupDeliveries[q]]
      /\ receiptInfo' = [m \in Msgs |-> IF Author[m] = Owner THEN Snapshot(m) ELSE receiptInfo[m]]
      /\ deliveries' = [m \in Msgs |-> [q \in Phones |->
             IF Author[m] = Owner /\ q \notin next THEN "none" ELSE deliveries[m][q]]]
      /\ wasOut' = wasOut \cup (roster[Owner] \ next)
  BY DEF ReplaceMembers
<1>3. /\ roster' \in [Phones -> SUBSET Phones] /\ groupRev' \in [Phones -> Nat]
      /\ groupDeliveries' \in [Phones -> Nat \cup {-1}] /\ wasOut' \subseteq Phones
      /\ Steady' \subseteq next
  BY <1>1, <1>2 DEF Steady
<1>4. \A p \in Phones :
          /\ roster'[p] = IF p = Owner THEN next ELSE roster[p]
          /\ groupRev'[p] = IF p = Owner THEN groupRev[Owner] + 1 ELSE groupRev[p]
          /\ groupDeliveries'[p] = IF p \in (roster[Owner] \cup next) \ {Owner} /\ groupDeliveries[p] = -1
                                   THEN 0 ELSE groupDeliveries[p]
  BY <1>1, <1>2
<1>5. \A m \in Msgs : deliveries[m] \in [Phones -> Marks] /\ receiptInfo[m] \in [Phones -> Marks]
  BY DEF ConversationInv, TablesAreTyped, MarksAreTyped
<1>6. deliveries' \in [Msgs -> [Phones -> Marks]]
  BY <1>2, <1>5 DEF Marks
<1>7. receiptInfo' \in [Msgs -> [Phones -> Marks]]
  BY <1>2, <1>5, SnapshotMarks
<1>8. \A m \in Msgs, p \in Phones :
          /\ deliveries'[m][p] \in {deliveries[m][p], "none"}
          /\ receiptInfo'[m][p] \in {deliveries[m][p], receiptInfo[m][p]}
          /\ receiptInfo'[m][p] = "none" => receiptInfo[m][p] = "none"
          /\ p \notin wasOut' => deliveries'[m][p] = deliveries[m][p]
  <2>1. \A m \in Msgs, p \in Phones :
            /\ deliveries'[m][p] = IF Author[m] = Owner /\ p \notin next THEN "none" ELSE deliveries[m][p]
            /\ p \notin wasOut' => p \in next
    BY <1>2, <1>3 DEF Steady
  <2>2. \A m \in Msgs, p \in Phones :
            /\ receiptInfo'[m][p] \in {deliveries[m][p], receiptInfo[m][p]}
            /\ receiptInfo'[m][p] = "none" => receiptInfo[m][p] = "none"
    BY <1>2, SnapshotMarks
  <2> QED BY <2>1, <2>2
<1> QED BY <1>2, <1>3, <1>4, <1>6, <1>7, <1>8 DEF MarksAreTyped

\* What a new revision leaves of the rest, when rows stay and no packet but those of
\* the group comes or goes.
LEMMA ReplacedKeepsRest ==
    ASSUME ConversationInv, NEW next \in SUBSET Phones, ReplaceMembers(next), UNCHANGED <<texts, reacted>>,
           PacketsAreTyped',
           \A pkt : pkt.type \in {"message_change", "message", "ack", "read_ids", "reaction"} =>
               (pkt \in Told' <=> pkt \in Told),
           \A pkt \in projected' :
               pkt.type \in {"message_change", "message", "reaction"} => pkt \in projected
    PROVE  TextInv' /\ ReceiptInv' /\ ReactionInv'
<1>1. /\ wasOut \subseteq wasOut'
      /\ \A m \in Msgs, p \in Phones :
             /\ deliveries'[m][p] \in {deliveries[m][p], "none"}
             /\ receiptInfo'[m][p] \in {deliveries[m][p], receiptInfo[m][p]}
             /\ receiptInfo'[m][p] = "none" => receiptInfo[m][p] = "none"
             /\ p \notin wasOut' => deliveries'[m][p] = deliveries[m][p]
  BY MembersReplaced
<1>2. UNCHANGED <<kinds, bodies, changes, isRead>>
  BY DEF texts
<1>3. TextInv'
  BY <1>1, <1>2, TextFrame
<1>4. ReceiptInv'
  <2>1. \A m \in Msgs, q \in Phones : TrueMark(m, q, deliveries[m][q])' /\ TrueMark(m, q, receiptInfo[m][q])'
    BY <1>1, <1>2 DEF ConversationInv, ReceiptInv, ReceiptsSpeakTrue, TrueMark
  <2> QED BY <1>1, <1>2, <2>1, ReceiptFrame
<1>5. ReactionInv'
  BY <1>1, <1>2, ReactionFrame
<1> QED BY <1>3, <1>4, <1>5

LEMMA EditGroupKeeps ==
    ASSUME ConversationInv, NEW next \in NextMembers, EditGroup(next)
    PROVE  ConversationInv'
<1> DEFINE rev == groupRev[Owner] + 1
           packets == {[type |-> "group_profile", from |-> Owner, to |-> q, rev |-> rev] : q \in next \ {Owner}}
<1>1. /\ ReplaceMembers(next)
      /\ profileRev' = [profileRev EXCEPT ![Owner] = rev]
      /\ controlOutbox' = [controlOutbox EXCEPT ![Owner] = {c \in @ : c.type # "group_profile"} \cup packets]
      /\ UNCHANGED <<leftGroup, texts, reacted, wires>>
  BY DEF EditGroup
<1>2. next \in SUBSET Phones /\ Owner \in Phones
  BY ConversationAssumption DEF NextMembers, ConversationInv, TablesAreTyped, MembersAreTyped
<1>3. /\ rev = groupRev[Owner] + 1 /\ rev \in Nat /\ groupRev[Owner] \in Nat
      /\ \A p \in Phones : profileRev[p] \in Nat /\ groupRev[p] \in Nat /\ groupDeliveries[p] \in Nat \cup {-1}
  BY <1>2 DEF ConversationInv, TablesAreTyped, MembersAreTyped
<1>4. /\ \A pkt \in packets : pkt.type = "group_profile" /\ pkt.from = Owner /\ pkt.rev = rev /\ Formal(pkt)
      /\ \A q \in next \ {Owner} :
             [type |-> "group_profile", from |-> Owner, to |-> q, rev |-> rev] \in packets
  <2> HIDE DEF rev
  <2> QED BY <1>2, <1>3 DEF Formal
<1>5. profileRev' \in [Phones -> Nat] /\ \A p \in Phones : profileRev'[p] = IF p = Owner THEN rev ELSE profileRev[p]
  <2> HIDE DEF rev
  <2> QED BY <1>1, <1>3 DEF ConversationInv, TablesAreTyped, MembersAreTyped
<1> HIDE DEF rev, packets
<1>6. /\ DOMAIN controlOutbox' = Phones
      /\ \A q \in Phones : controlOutbox'[q] =
             IF q = Owner THEN {c \in controlOutbox[Owner] : c.type # "group_profile"} \cup packets
             ELSE controlOutbox[q]
  BY <1>1 DEF ConversationInv, PacketsAreTyped
<1>7. /\ \A pkt : pkt \in Told' => pkt \in packets \/ pkt \in Told
      /\ packets \subseteq Told'
      /\ \A pkt \in Told : pkt \in Told' \/ pkt.type = "group_profile"
  <2>1. post' = post
    BY <1>1 DEF wires
  <2> QED BY <1>2, <1>6, <2>1 DEF Told
<1>8. /\ roster' \in [Phones -> SUBSET Phones] /\ groupRev' \in [Phones -> Nat]
      /\ groupDeliveries' \in [Phones -> Nat \cup {-1}] /\ wasOut' \subseteq Phones
      /\ MarksAreTyped'
      /\ wasOut' = wasOut \cup (roster[Owner] \ next) /\ Steady' \subseteq next
      /\ \A p \in Phones :
             /\ roster'[p] = IF p = Owner THEN next ELSE roster[p]
             /\ groupRev'[p] = IF p = Owner THEN groupRev[Owner] + 1 ELSE groupRev[p]
             /\ groupDeliveries'[p] = IF p \in (roster[Owner] \cup next) \ {Owner} /\ groupDeliveries[p] = -1
                                      THEN 0 ELSE groupDeliveries[p]
  BY <1>1, <1>2, MembersReplaced
<1>9. TablesAreTyped' /\ PacketsAreTyped'
  <2>1. TablesAreTyped'
    BY <1>1, <1>5, <1>8 DEF ConversationInv, TablesAreTyped, RowsAreTyped, MembersAreTyped, texts, reacted, wires
  <2>2. PacketsAreTyped'
    BY <1>4, <1>6, <1>7 DEF ConversationInv, PacketsAreTyped
  <2> QED BY <2>1, <2>2
<1>10. MembersInv'
  <2>1. OwnerLeads /\ OneSetOfMembers /\ SteadyAreMembers /\ RevisionsArrive /\ projected' = projected
    BY <1>1 DEF ConversationInv, MembersInv, wires
  <2>2. /\ \A pkt \in Told : pkt.type = "group" => pkt.rev \in Nat /\ pkt.to \in Phones \ {Owner} /\ pkt.members \in SUBSET Phones
        /\ \A pkt \in Told : pkt.type = "group_ack" => pkt.rev \in Nat /\ pkt.from \in Phones
        /\ \A pkt \in Told : pkt.type = "group_profile" => pkt.rev \in Nat /\ pkt.to \in Phones \ {Owner}
        /\ projected \subseteq Told
    BY DEF ConversationInv, TablesAreTyped, PacketsAreTyped, Formal, Told
  <2>3. OwnerLeads'
    BY <1>2, <1>3, <1>4, <1>5, <1>7, <1>8, <2>1, <2>2 DEF OwnerLeads
  <2>4. OneSetOfMembers'
    BY <1>2, <1>3, <1>4, <1>7, <1>8, <2>1, <2>2 DEF OneSetOfMembers, OwnerLeads
  <2>5. SteadyAreMembers'
    BY <1>1, <1>2, <1>3, <1>4, <1>7, <1>8, <2>1 DEF SteadyAreMembers, Steady
  <2>6. RevisionsArrive'
    <3>1. \A q \in Phones :
              /\ groupDeliveries'[q] <= groupRev'[q]
              /\ q # Owner /\ (groupRev'[q] > 0 \/ q \in roster'[Owner]) => groupDeliveries'[q] >= 0
      <4> SUFFICES ASSUME NEW q \in Phones
                   PROVE  /\ groupDeliveries'[q] <= groupRev'[q]
                          /\ q # Owner /\ (groupRev'[q] > 0 \/ q \in roster'[Owner]) => groupDeliveries'[q] >= 0
        OBVIOUS
      <4>1. /\ groupDeliveries[q] <= groupRev[q]
            /\ q # Owner /\ (groupRev[q] > 0 \/ q \in roster[Owner]) => groupDeliveries[q] >= 0
        BY <2>1 DEF RevisionsArrive
      <4>2. CASE q = Owner
        BY <1>2, <1>3, <1>8, <4>1, <4>2
      <4>3. CASE q # Owner /\ groupDeliveries[q] = -1
        BY <1>2, <1>3, <1>8, <4>1, <4>3
      <4>4. CASE q # Owner /\ groupDeliveries[q] # -1
        BY <1>2, <1>3, <1>8, <4>1, <4>4
      <4> QED BY <4>2, <4>3, <4>4
    <3>2. \A q \in Phones : q \in roster'[Owner] \ {Owner} /\ profileRev'[Owner] > 0 =>
              [type |-> "group_profile", from |-> Owner, to |-> q, rev |-> profileRev'[Owner]] \in Told'
      BY <1>2, <1>4, <1>5, <1>7, <1>8
    <3>3. \A pkt \in Told' :
              /\ pkt.type = "group" => groupDeliveries'[pkt.to] >= 0
              /\ pkt.type = "group_ack" => pkt.rev <= groupRev'[pkt.from]
      BY <1>2, <1>3, <1>4, <1>7, <1>8, <2>1, <2>2 DEF RevisionsArrive
    <3>4. \A pkt \in projected' :
              /\ pkt.type = "group" => groupRev'[pkt.to] >= pkt.rev
              /\ pkt.type = "group_profile" => profileRev'[pkt.to] >= pkt.rev
      BY <1>2, <1>3, <1>5, <1>8, <2>1, <2>2 DEF RevisionsArrive
    <3>5. groupDeliveries'[Owner] = -1
      BY <1>2, <1>8, <2>1 DEF RevisionsArrive
    <3> QED BY <3>1, <3>2, <3>3, <3>4, <3>5 DEF RevisionsArrive
  <2> QED BY <2>3, <2>4, <2>5, <2>6 DEF MembersInv
<1>11. TextInv' /\ ReceiptInv' /\ ReactionInv'
  <2>1. projected' = projected
    BY <1>1 DEF wires
  <2> QED BY <1>1, <1>2, <1>4, <1>7, <1>9, <2>1, ReplacedKeepsRest
<1> QED BY <1>9, <1>10, <1>11 DEF ConversationInv
------------------------------------------------------------------------------
(* The flush                                                                 *)

GroupStateOf(pkt, q) ==
    /\ pkt = GroupState(q) /\ q \in Phones \ {Owner} /\ groupDeliveries[q] >= 0

LEMMA PendingPackets ==
    ASSUME ConversationInv, NEW p \in Phones, NEW pkt \in Pending(p)
    PROVE  \/ pkt \in controlOutbox[p]
           \/ \E q \in Phones : GroupStateOf(pkt, q)
           \/ pkt = GroupLeave(p) /\ p # Owner
           \/ \E m \in Msgs, q \in Phones : pkt = MessageTo(m, q) /\ deliveries[m][q] # "none"
<1>1. CASE pkt \in controlOutbox[p]
  BY <1>1
<1>2. ASSUME NEW q \in Phones, DueState(q), pkt = GroupState(q)
      PROVE  GroupStateOf(pkt, q)
  <2>1. groupDeliveries[q] >= 0 /\ q # Owner
    BY <1>2 DEF DueState, ConversationInv, MembersInv, RevisionsArrive, TablesAreTyped, MembersAreTyped
  <2> QED BY <1>2, <2>1 DEF GroupStateOf
<1>3. CASE p \in leftGroup /\ pkt = GroupLeave(p)
  BY <1>3 DEF ConversationInv, TablesAreTyped, MembersAreTyped
<1>4. ASSUME NEW d \in DueMessages(p)
      PROVE  /\ d[1] \in Msgs /\ d[2] \in Phones /\ Author[d[1]] = p
             /\ deliveries[d[1]][d[2]] = "due" /\ d[2] \in roster[p] \ {p}
  BY <1>4 DEF DueMessages, DueMessage, ConversationInv, ReceiptInv, ReceiptsAreExpected
<1>5. CASE \E d \in DueMessages(p) : pkt = MessageTo(d[1], d[2])
  BY <1>4, <1>5
<1>6. ASSUME p = Owner, NEW d \in DueMessages(p), pkt = GroupState(d[2])
      PROVE  GroupStateOf(pkt, d[2])
  <2>1. groupDeliveries[d[2]] >= 0
    BY <1>4, <1>6 DEF ConversationInv, MembersInv, RevisionsArrive
  <2> QED BY <1>4, <1>6, <2>1 DEF GroupStateOf
<1>7. \/ pkt \in controlOutbox[p]
      \/ \E q \in Phones : DueState(q) /\ pkt = GroupState(q)
      \/ p \in leftGroup /\ pkt = GroupLeave(p)
      \/ \E d \in DueMessages(p) : pkt = MessageTo(d[1], d[2])
      \/ p = Owner /\ \E d \in DueMessages(p) : pkt = GroupState(d[2])
  BY DEF Pending
<1> QED BY <1>1, <1>2, <1>3, <1>4, <1>5, <1>6, <1>7

LEMMA FlushKeeps ==
    ASSUME ConversationInv, NEW p \in Phones, Flush(p)
    PROVE  ConversationInv'
<1>1. /\ post' = post \cup Pending(p)
      /\ controlOutbox' = [controlOutbox EXCEPT ![p] = {}]
      /\ UNCHANGED <<group, texts, receipts, reacted, projected>>
  BY DEF Flush
<1>2. controlOutbox[p] \subseteq Pending(p)
  BY DEF Pending
<1>3. /\ DOMAIN controlOutbox' = Phones
      /\ \A q \in Phones : controlOutbox'[q] = IF q = p THEN {} ELSE controlOutbox[q]
  BY <1>1 DEF ConversationInv, PacketsAreTyped
<1>4. /\ \A pkt \in Told' : pkt \in Told \/ pkt \in Pending(p)
      /\ Told \subseteq Told'
  BY <1>1, <1>2, <1>3 DEF Told
<1>5. \A pkt \in Told' :
          \/ pkt \in Told
          \/ \E q \in Phones : GroupStateOf(pkt, q)
          \/ pkt = GroupLeave(p) /\ p # Owner
          \/ \E m \in Msgs, q \in Phones : pkt = MessageTo(m, q) /\ deliveries[m][q] # "none"
  BY <1>4, PendingPackets, StagedIsTold
<1>6. \A pkt, q : GroupStateOf(pkt, q) =>
          /\ pkt.type = "group" /\ pkt.from = Owner /\ pkt.to = q /\ q \in Phones \ {Owner}
          /\ pkt.rev = groupRev[Owner] /\ pkt.members = roster[Owner] /\ groupDeliveries[q] >= 0
  BY DEF GroupStateOf, GroupState
<1>7. GroupLeave(p).type = "group_leave" /\ GroupLeave(p).from = p /\ GroupLeave(p).to = Owner
  BY DEF GroupLeave
<1>8. \A m \in Msgs, q \in Phones : deliveries[m][q] # "none" =>
          LET pkt == MessageTo(m, q) IN
          /\ pkt.type = "message" /\ pkt.from = Author[m] /\ pkt.to = q /\ q # Author[m] /\ pkt.id = m
          /\ pkt.body = bodies[Author[m]][m] /\ kinds[Author[m]][m] = "text" /\ receiptInfo[m][q] # "none"
  BY DEF MessageTo, ConversationInv, ReceiptInv, ReceiptsAreExpected
<1>9. /\ Owner \in Phones /\ \A m \in Msgs : Author[m] \in Phones
      /\ groupRev[Owner] \in Nat /\ roster[Owner] \in SUBSET Phones
      /\ \A m \in Msgs : bodies[Author[m]][m] \in Nat
  BY ConversationAssumption DEF ConversationInv, TablesAreTyped, RowsAreTyped, MembersAreTyped
<1>10. PacketsAreTyped'
  <2>1. ASSUME NEW pkt \in Told'
        PROVE  Formal(pkt)
    <3>1. CASE pkt \in Told
      BY <3>1 DEF ConversationInv, PacketsAreTyped
    <3>2. ASSUME NEW q \in Phones, GroupStateOf(pkt, q)
          PROVE  Formal(pkt)
      BY <1>6, <1>9, <3>2 DEF Formal
    <3>3. CASE pkt = GroupLeave(p) /\ p # Owner
      BY <1>7, <1>9, <3>3 DEF Formal
    <3>4. ASSUME NEW m \in Msgs, NEW q \in Phones, pkt = MessageTo(m, q), deliveries[m][q] # "none"
          PROVE  Formal(pkt)
      BY <1>8, <1>9, <3>4 DEF Formal
    <3> QED BY <1>5, <3>1, <3>2, <3>3, <3>4
  <2> QED BY <1>3, <2>1 DEF ConversationInv, PacketsAreTyped
<1>11. TablesAreTyped'
  BY <1>1 DEF ConversationInv, TablesAreTyped, RowsAreTyped, MembersAreTyped, MarksAreTyped, group, texts,
              receipts, reacted
<1>12. \A pkt \in Told' :
           /\ pkt.type \in {"message_change", "ack", "read_ids", "reaction", "group_ack", "group_profile"} =>
                  pkt \in Told
           /\ pkt.type = "message" => \/ pkt \in Told
                                      \/ \E m \in Msgs, q \in Phones :
                                             pkt = MessageTo(m, q) /\ deliveries[m][q] # "none"
           /\ pkt.type = "group" => pkt \in Told \/ \E q \in Phones : GroupStateOf(pkt, q)
  BY <1>5, <1>6, <1>7, <1>8
<1>13. MembersInv'
  <2>1. /\ OwnerLeads /\ OneSetOfMembers /\ SteadyAreMembers /\ RevisionsArrive
        /\ UNCHANGED <<roster, groupRev, leftGroup, profileRev, groupDeliveries, wasOut, projected>>
    BY <1>1 DEF ConversationInv, MembersInv, group
  <2>2. \A pkt \in Told' : pkt.type = "group" =>
            \/ pkt \in Told
            \/ /\ pkt.rev = groupRev[Owner] /\ pkt.members = roster[Owner]
               /\ pkt.to \in Phones /\ groupDeliveries[pkt.to] >= 0
    BY <1>6, <1>12
  <2>3. OwnerLeads'
    BY <1>9, <1>12, <2>1, <2>2 DEF OwnerLeads
  <2>4. OneSetOfMembers'
    <3>1. \A pkt \in Told : pkt.type = "group" /\ pkt.rev = groupRev[Owner] => pkt.members = roster[Owner]
      BY <1>9, <2>1 DEF OneSetOfMembers
    <3>2. \A q \in Phones : groupRev[q] = groupRev[Owner] => roster[q] = roster[Owner]
      BY <1>9, <2>1 DEF OneSetOfMembers, OwnerLeads
    <3> QED BY <2>1, <2>2, <3>1, <3>2 DEF OneSetOfMembers
  <2>5. SteadyAreMembers'
    BY <1>9, <2>1, <2>2 DEF SteadyAreMembers, OwnerLeads, Steady
  <2>6. RevisionsArrive'
    BY <1>4, <1>12, <2>1, <2>2 DEF RevisionsArrive
  <2> QED BY <2>3, <2>4, <2>5, <2>6 DEF MembersInv
<1>14. TextInv'
  <2>1. UNCHANGED <<kinds, bodies, changes, wasOut, deliveries, projected>>
    BY <1>1 DEF group, texts, receipts
  <2>2. \A m \in Msgs : kinds[Author[m]][m] = "text" =>
            bodies[Author[m]][m] = changes[Author[m]][m].rev /\ changes[Author[m]][m].rev \in Nat
    BY <1>9 DEF ConversationInv, TextInv, RowsFollowChanges, Formed, ChangeRows
  <2>3. \A pkt \in Told' : pkt.type = "message" =>
            \/ pkt \in Told
            \/ /\ kinds[Author[pkt.id]][pkt.id] # "none"
               /\ pkt.body <= changes[Author[pkt.id]][pkt.id].rev
    BY <1>8, <1>12, <2>2
  <2> QED BY <1>4, <1>12, <2>1, <2>3, TextFrame
<1>15. ReceiptInv'
  <2>1. UNCHANGED <<kinds, isRead, deliveries, receiptInfo>>
    BY <1>1 DEF texts, receipts
  <2>2. \A n \in Msgs, q \in Phones : TrueMark(n, q, deliveries[n][q])' /\ TrueMark(n, q, receiptInfo[n][q])'
    BY <2>1 DEF ConversationInv, ReceiptInv, ReceiptsSpeakTrue, TrueMark
  <2>3. \A pkt \in Told' : pkt.type = "message" => pkt \in Told \/ Expected(pkt.id, pkt.to)
    BY <1>8, <1>12 DEF Expected
  <2> QED BY <1>10, <1>12, <2>1, <2>2, <2>3, ReceiptFrame
<1>16. ReactionInv'
  <2>1. UNCHANGED <<kinds, reacted, wasOut, projected>>
    BY <1>1 DEF texts, group
  <2> QED BY <1>4, <1>12, <2>1, ReactionFrame
<1> QED BY <1>10, <1>11, <1>13, <1>14, <1>15, <1>16 DEF ConversationInv
------------------------------------------------------------------------------
(* What is received                                                          *)

\* A packet is projected with its receipt, or not yet.
LEMMA Committed ==
    ASSUME ConversationInv, NEW pkt \in post, NEW receipt, Commit(pkt, receipt), UNCHANGED controlOutbox,
           \A x \in receipt : Formal(x)
    PROVE  /\ Told \subseteq Told' /\ Told' \subseteq Told \cup receipt
           /\ projected' \subseteq projected \cup {pkt} /\ projected' \subseteq post'
           /\ PacketsAreTyped' /\ Formal(pkt) /\ pkt \in Told
<1>1. \/ projected' = projected \cup {pkt} /\ post' = post \cup receipt
      \/ projected' = projected /\ post' = post
  BY DEF Commit, wires
<1>2. projected \subseteq post
  BY DEF ConversationInv, TablesAreTyped
<1>3. Told \subseteq Told' /\ Told' \subseteq Told \cup receipt
  BY <1>1 DEF Told
<1>4. PacketsAreTyped'
  BY <1>3 DEF ConversationInv, PacketsAreTyped
<1>5. Formal(pkt) /\ pkt \in Told
  BY DEF ConversationInv, PacketsAreTyped, Told
<1> QED BY <1>1, <1>2, <1>3, <1>4, <1>5

LEMMA AckKeeps ==
    ASSUME ConversationInv, NEW pkt \in post, pkt.type = "ack", ReceiveAck(pkt), UNCHANGED controlOutbox
    PROVE  ConversationInv'
<1>1. /\ Told \subseteq Told' /\ Told' \subseteq Told
      /\ projected' \subseteq projected \cup {pkt} /\ projected' \subseteq post'
      /\ PacketsAreTyped' /\ Formal(pkt) /\ pkt \in Told
  BY Committed DEF ReceiveAck
<1>2. UNCHANGED <<group, texts, reacted>>
  BY DEF ReceiveAck
<1> DEFINE m == pkt.id
           q == pkt.from
           seen(row) == IF row = "none" THEN "none" ELSE Later(row, "acked")
<1>3. m \in Msgs /\ q \in Phones /\ kinds[q][m] # "none"
  BY <1>1 DEF Formal, ConversationInv, ReceiptInv, ReceiptsSpeakTrue, TrueMark
<1>4. \A s \in Marks : /\ seen(s) \in Marks /\ (seen(s) = "none" <=> s = "none")
                       /\ seen(s) = "read" => s = "read"
  BY LaterIsOne DEF Marks
<1>5. \/ UNCHANGED receipts
      \/ /\ receiptInfo' = [receiptInfo EXCEPT ![m] = [Snapshot(m) EXCEPT ![q] = seen(@)]]
         /\ deliveries' = [deliveries EXCEPT ![m][q] = seen(@)]
  BY DEF ReceiveAck, Observe
<1>6. /\ Snapshot(m) \in [Phones -> Marks]
      /\ \A r \in Phones : /\ Snapshot(m)[r] \in {receiptInfo[m][r], deliveries[m][r]}
                           /\ Snapshot(m)[r] = "none" => receiptInfo[m][r] = "none"
  BY <1>3, SnapshotMarks
<1>7. deliveries \in [Msgs -> [Phones -> Marks]] /\ receiptInfo \in [Msgs -> [Phones -> Marks]]
  BY DEF ConversationInv, TablesAreTyped, MarksAreTyped
<1> HIDE DEF m, q, seen
<1>8. MarksAreTyped'
  <2>1. [Snapshot(m) EXCEPT ![q] = seen(@)] \in [Phones -> Marks]
    BY <1>3, <1>4, <1>6
  <2>2. seen(deliveries[m][q]) \in Marks
    BY <1>3, <1>4, <1>7
  <2>3. CASE UNCHANGED receipts
    BY <1>7, <2>3 DEF MarksAreTyped, receipts
  <2>4. ASSUME receiptInfo' = [receiptInfo EXCEPT ![m] = [Snapshot(m) EXCEPT ![q] = seen(@)]],
               deliveries' = [deliveries EXCEPT ![m][q] = seen(@)]
        PROVE  MarksAreTyped'
    <3>1. receiptInfo' \in [Msgs -> [Phones -> Marks]]
      BY <1>7, <2>1, <2>4
    <3>2. deliveries' \in [Msgs -> [Phones -> Marks]]
      BY <1>3, <1>7, <2>2, <2>4
    <3> QED BY <3>1, <3>2 DEF MarksAreTyped
  <2> QED BY <1>5, <2>3, <2>4
<1>9. \A n \in Msgs, r \in Phones :
          /\ \/ deliveries'[n][r] = deliveries[n][r]
             \/ n = m /\ r = q /\ deliveries'[n][r] = seen(deliveries[n][r])
          /\ \/ receiptInfo'[n][r] = receiptInfo[n][r]
             \/ n = m /\ r # q /\ receiptInfo'[n][r] = Snapshot(n)[r]
             \/ n = m /\ r = q /\ receiptInfo'[n][r] = seen(Snapshot(n)[r])
  BY <1>3, <1>5, <1>6, <1>7 DEF receipts
<1>10. TablesAreTyped'
  BY <1>1, <1>2, <1>8 DEF ConversationInv, TablesAreTyped, RowsAreTyped, MembersAreTyped, group, texts, reacted
<1>11. MembersInv'
  BY <1>1, <1>2, MembersFrame
<1>12. TextInv'
  <2>1. UNCHANGED <<kinds, bodies, changes, wasOut>>
    BY <1>2 DEF group, texts
  <2>2. \A n \in Msgs, r \in Phones : deliveries[n][r] # "none" => deliveries'[n][r] # "none"
    BY <1>4, <1>7, <1>9
  <2> QED BY <1>1, <2>1, <2>2, TextFrame
<1>13. ReceiptInv'
  <2>1. UNCHANGED <<kinds, isRead>>
    BY <1>2 DEF texts
  <2>2. \A n \in Msgs, r \in Phones : TrueMark(n, r, deliveries[n][r]) /\ TrueMark(n, r, receiptInfo[n][r])
    BY DEF ConversationInv, ReceiptInv, ReceiptsSpeakTrue
  <2>3. \A n \in Msgs, r \in Phones :
            TrueMark(n, r, deliveries'[n][r]) /\ TrueMark(n, r, receiptInfo'[n][r])
    <3> SUFFICES ASSUME NEW n \in Msgs, NEW r \in Phones
                 PROVE  TrueMark(n, r, deliveries'[n][r]) /\ TrueMark(n, r, receiptInfo'[n][r])
      OBVIOUS
    <3>1. TrueMark(n, r, Snapshot(n)[r])
      BY <2>2, SnapshotMarks
    <3>2. ASSUME NEW s \in Marks, TrueMark(n, r, s), n = m, r = q
          PROVE  TrueMark(n, r, seen(s))
      BY <1>3, <1>4, <3>2 DEF TrueMark
    <3>3. deliveries[n][r] \in Marks /\ Snapshot(n)[r] \in Marks
      BY <1>7, SnapshotMarks
    <3> QED BY <1>9, <2>2, <3>1, <3>2, <3>3
  <2>4. \A n \in Msgs, r \in Phones : TrueMark(n, r, deliveries[n][r])' /\ TrueMark(n, r, receiptInfo[n][r])'
    BY <2>1, <2>3 DEF TrueMark
  <2>5. \A n \in Msgs, r \in Phones :
            /\ deliveries'[n][r] # "none" => deliveries[n][r] # "none"
            /\ receiptInfo'[n][r] = "none" => receiptInfo[n][r] = "none"
    <3>1. \A n \in Msgs, r \in Phones : deliveries[n][r] \in Marks
      BY <1>7
    <3>2. receiptInfo[m][q] # "none" \/ Snapshot(m)[q] \in Marks
      BY <1>3, <1>6
    <3> QED BY <1>3, <1>4, <1>6, <1>9, <3>1, <3>2
  <2> QED BY <1>1, <2>1, <2>4, <2>5, ReceiptFrame
<1>14. ReactionInv'
  <2>1. UNCHANGED <<kinds, wasOut>>
    BY <1>2 DEF texts, group
  <2> QED BY <1>1, <1>2, <2>1, ReactionFrame
<1> QED BY <1>1, <1>10, <1>11, <1>12, <1>13, <1>14 DEF ConversationInv

LEMMA ReadKeeps ==
    ASSUME ConversationInv, NEW pkt \in post, pkt.type = "read_ids", ReceiveRead(pkt), UNCHANGED controlOutbox
    PROVE  ConversationInv'
<1>1. /\ Told \subseteq Told' /\ Told' \subseteq Told
      /\ projected' \subseteq projected \cup {pkt} /\ projected' \subseteq post'
      /\ PacketsAreTyped' /\ Formal(pkt) /\ pkt \in Told
  BY Committed DEF ReceiveRead
<1>2. UNCHANGED <<group, texts, reacted>>
  BY DEF ReceiveRead
<1> DEFINE q == pkt.from
<1>3. q \in Phones /\ pkt.ids \subseteq Msgs /\ \A m \in pkt.ids : TrueMark(m, q, "read")
  BY <1>1 DEF Formal, ConversationInv, ReceiptInv, ReceiptsSpeakTrue
<1>4. /\ receiptInfo' = [m \in Msgs |-> IF m \in pkt.ids
             THEN [Snapshot(m) EXCEPT ![q] = Seen(@)] ELSE receiptInfo[m]]
      /\ deliveries' = [m \in Msgs |-> IF m \in pkt.ids
             THEN [deliveries[m] EXCEPT ![q] = Seen(@)] ELSE deliveries[m]]
  BY DEF ReceiveRead
<1>5. \A m \in Msgs : /\ Snapshot(m) \in [Phones -> Marks]
                      /\ \A r \in Phones : /\ Snapshot(m)[r] \in {receiptInfo[m][r], deliveries[m][r]}
                                           /\ Snapshot(m)[r] = "none" => receiptInfo[m][r] = "none"
  BY SnapshotMarks
<1>6. \A m \in Msgs : deliveries[m] \in [Phones -> Marks] /\ receiptInfo[m] \in [Phones -> Marks]
  BY DEF ConversationInv, TablesAreTyped, MarksAreTyped
<1>7. \A s \in Marks : Seen(s) \in Marks /\ Seen(s) \in {"none", "read"} /\ (Seen(s) = "none" <=> s = "none")
  BY DEF Seen, Marks
<1> HIDE DEF q
<1>8. MarksAreTyped'
  <2>1. \A m \in Msgs : [Snapshot(m) EXCEPT ![q] = Seen(@)] \in [Phones -> Marks]
    BY <1>3, <1>5, <1>7
  <2>2. \A m \in Msgs : [deliveries[m] EXCEPT ![q] = Seen(@)] \in [Phones -> Marks]
    BY <1>3, <1>6, <1>7
  <2> QED BY <1>4, <1>6, <2>1, <2>2 DEF MarksAreTyped
<1>9. \A n \in Msgs, r \in Phones :
          /\ \/ deliveries'[n][r] = deliveries[n][r]
             \/ n \in pkt.ids /\ r = q /\ deliveries'[n][r] = Seen(deliveries[n][r])
          /\ \/ receiptInfo'[n][r] = receiptInfo[n][r]
             \/ n \in pkt.ids /\ r # q /\ receiptInfo'[n][r] = Snapshot(n)[r]
             \/ n \in pkt.ids /\ r = q /\ receiptInfo'[n][r] = Seen(Snapshot(n)[r])
  BY <1>3, <1>4, <1>5, <1>6
<1>10. TablesAreTyped'
  BY <1>1, <1>2, <1>8 DEF ConversationInv, TablesAreTyped, RowsAreTyped, MembersAreTyped, group, texts, reacted
<1>11. MembersInv'
  BY <1>1, <1>2, MembersFrame
<1>12. TextInv'
  <2>1. UNCHANGED <<kinds, bodies, changes, wasOut>>
    BY <1>2 DEF group, texts
  <2>2. \A n \in Msgs, r \in Phones : deliveries[n][r] # "none" => deliveries'[n][r] # "none"
    BY <1>6, <1>7, <1>9
  <2> QED BY <1>1, <2>1, <2>2, TextFrame
<1>13. ReceiptInv'
  <2>1. UNCHANGED <<kinds, isRead>>
    BY <1>2 DEF texts
  <2>2. \A n \in Msgs, r \in Phones : TrueMark(n, r, deliveries[n][r]) /\ TrueMark(n, r, receiptInfo[n][r])
    BY DEF ConversationInv, ReceiptInv, ReceiptsSpeakTrue
  <2>3. \A n \in Msgs, r \in Phones :
            TrueMark(n, r, deliveries'[n][r]) /\ TrueMark(n, r, receiptInfo'[n][r])
    <3> SUFFICES ASSUME NEW n \in Msgs, NEW r \in Phones
                 PROVE  TrueMark(n, r, deliveries'[n][r]) /\ TrueMark(n, r, receiptInfo'[n][r])
      OBVIOUS
    <3>1. TrueMark(n, r, Snapshot(n)[r])
      BY <2>2, SnapshotMarks
    <3>2. ASSUME NEW s \in Marks, n \in pkt.ids, r = q
          PROVE  TrueMark(n, r, Seen(s))
      BY <1>3, <1>7, <3>2 DEF TrueMark
    <3>3. deliveries[n][r] \in Marks /\ Snapshot(n)[r] \in Marks
      BY <1>5, <1>6
    <3> QED BY <1>9, <2>2, <3>1, <3>2, <3>3
  <2>4. \A n \in Msgs, r \in Phones : TrueMark(n, r, deliveries[n][r])' /\ TrueMark(n, r, receiptInfo[n][r])'
    BY <2>1, <2>3 DEF TrueMark
  <2>5. \A n \in Msgs, r \in Phones :
            /\ deliveries'[n][r] # "none" => deliveries[n][r] # "none"
            /\ receiptInfo'[n][r] = "none" => receiptInfo[n][r] = "none"
    <3>1. \A n \in Msgs, r \in Phones : deliveries[n][r] \in Marks /\ Snapshot(n)[r] \in Marks
      BY <1>5, <1>6
    <3> QED BY <1>5, <1>7, <1>9, <3>1
  <2> QED BY <1>1, <2>1, <2>4, <2>5, ReceiptFrame
<1>14. ReactionInv'
  <2>1. UNCHANGED <<kinds, wasOut>>
    BY <1>2 DEF texts, group
  <2> QED BY <1>1, <1>2, <2>1, ReactionFrame
<1> QED BY <1>1, <1>10, <1>11, <1>12, <1>13, <1>14 DEF ConversationInv

\* What is left when rows, receipts and those who were out stay.
LEMMA RestStays ==
    ASSUME ConversationInv, UNCHANGED <<texts, receipts, reacted, wasOut>>, PacketsAreTyped',
           \A pkt : pkt.type \in {"message_change", "message", "ack", "read_ids", "reaction"} =>
               (pkt \in Told' <=> pkt \in Told),
           \A pkt \in projected' :
               pkt.type \in {"message_change", "message", "reaction"} => pkt \in projected
    PROVE  TextInv' /\ ReceiptInv' /\ ReactionInv'
<1>1. UNCHANGED <<kinds, bodies, changes, isRead, deliveries, receiptInfo>>
  BY DEF texts, receipts
<1>2. TextInv'
  BY <1>1, TextFrame
<1>3. ReceiptInv'
  <2>1. \A m \in Msgs, q \in Phones : TrueMark(m, q, deliveries[m][q])' /\ TrueMark(m, q, receiptInfo[m][q])'
    BY <1>1 DEF ConversationInv, ReceiptInv, ReceiptsSpeakTrue, TrueMark
  <2> QED BY <1>1, <2>1, ReceiptFrame
<1>4. ReactionInv'
  BY <1>1, ReactionFrame
<1> QED BY <1>2, <1>3, <1>4

LEMMA TypedGroupPackets ==
    ASSUME ConversationInv
    PROVE  /\ \A pkt \in Told : pkt.type = "group" =>
                  pkt.rev \in Nat /\ pkt.to \in Phones \ {Owner} /\ pkt.members \in SUBSET Phones
           /\ \A pkt \in Told : pkt.type = "group_ack" => pkt.rev \in Nat /\ pkt.from \in Phones \ {Owner}
           /\ \A pkt \in Told : pkt.type = "group_profile" => pkt.rev \in Nat /\ pkt.to \in Phones \ {Owner}
           /\ projected \subseteq Told
           /\ \A p \in Phones : profileRev[p] \in Nat /\ groupRev[p] \in Nat /\ groupDeliveries[p] \in Nat \cup {-1}
           /\ Owner \in Phones
  BY ConversationAssumption DEF ConversationInv, TablesAreTyped, MembersAreTyped, PacketsAreTyped, Formal, Told

LEMMA GroupKeeps ==
    ASSUME ConversationInv, NEW pkt \in post, pkt.type = "group", ReceiveGroup(pkt), UNCHANGED controlOutbox
    PROVE  ConversationInv'
<1> DEFINE p == pkt.to
           ack == [type |-> "group_ack", from |-> p, to |-> Owner, rev |-> pkt.rev]
           stale == groupRev[p] > 0 /\ pkt.rev <= groupRev[p]
<1>1. Formal(pkt) /\ pkt \in Told /\ Formal(ack)
  BY DEF ConversationInv, PacketsAreTyped, Told, Formal
<1>2. /\ Told \subseteq Told' /\ Told' \subseteq Told \cup {ack}
      /\ projected' \subseteq projected \cup {pkt} /\ projected' \subseteq post'
      /\ PacketsAreTyped'
  BY <1>1, Committed DEF ReceiveGroup
<1>3. UNCHANGED <<leftGroup, profileRev, groupDeliveries, wasOut, texts, receipts, reacted>>
  BY DEF ReceiveGroup
<1>4. /\ p \in Phones \ {Owner} /\ pkt.rev \in Nat /\ pkt.rev > 0 /\ pkt.members \in SUBSET Phones
      /\ groupRev[p] \in Nat
  BY <1>1, TypedGroupPackets DEF ConversationInv, MembersInv, OwnerLeads
<1>5. /\ roster' \in [Phones -> SUBSET Phones] /\ groupRev' \in [Phones -> Nat]
      /\ \A q \in Phones :
             /\ groupRev'[q] = IF q = p /\ ~stale THEN pkt.rev ELSE groupRev[q]
             /\ roster'[q] = IF q = p /\ ~stale THEN pkt.members ELSE roster[q]
  <2>1. CASE stale
    <3>1. UNCHANGED <<roster, groupRev>>
      BY <2>1 DEF ReceiveGroup
    <3> QED BY <2>1, <3>1 DEF ConversationInv, TablesAreTyped, MembersAreTyped
  <2>2. CASE ~stale
    <3>1. roster' = [roster EXCEPT ![p] = pkt.members] /\ groupRev' = [groupRev EXCEPT ![p] = pkt.rev]
      BY <2>2 DEF ReceiveGroup
    <3> HIDE DEF stale, p
    <3> QED BY <1>4, <2>2, <3>1 DEF ConversationInv, TablesAreTyped, MembersAreTyped
  <2> QED BY <2>1, <2>2
<1>6. groupRev'[p] >= pkt.rev /\ \A q \in Phones : groupRev'[q] >= groupRev[q]
  <2>1. groupRev'[p] >= pkt.rev /\ groupRev'[p] >= groupRev[p]
    BY <1>4, <1>5
  <2> HIDE DEF p, stale
  <2>2. ASSUME NEW q \in Phones, q # p
        PROVE  groupRev'[q] >= groupRev[q]
    BY <1>5, <2>2, TypedGroupPackets
  <2> QED BY <2>1, <2>2
<1>7. ack.type = "group_ack" /\ ack.rev = pkt.rev /\ ack.from = p
  OBVIOUS
<1>8. pkt.to = p
  OBVIOUS
<1> HIDE DEF p, ack, stale
<1>9. TablesAreTyped'
  BY <1>2, <1>3, <1>5 DEF ConversationInv, TablesAreTyped, RowsAreTyped, MembersAreTyped, MarksAreTyped, texts,
                          receipts, reacted
<1>10. MembersInv'
  <2>1. OwnerLeads /\ OneSetOfMembers /\ SteadyAreMembers /\ RevisionsArrive
    BY DEF ConversationInv, MembersInv
  <2>2. \A x \in Told' : /\ x.type \in {"group", "group_profile"} => x \in Told
                         /\ x.type = "group_ack" => x \in Told \/ x = ack
    BY <1>2, <1>7
  <2>3. groupRev'[Owner] = groupRev[Owner] /\ roster'[Owner] = roster[Owner]
    BY <1>4, <1>5, TypedGroupPackets
  <2>4. OwnerLeads'
    <3>1. pkt.rev <= groupRev[Owner]
      BY <1>1, <1>4, <2>1 DEF OwnerLeads
    <3> QED BY <1>3, <1>5, <2>1, <2>2, <2>3, <3>1 DEF OwnerLeads
  <2>5. OneSetOfMembers'
    <3>1. /\ \A q \in Phones : groupRev[q] = pkt.rev => roster[q] = pkt.members
          /\ \A x \in Told : x.type = "group" /\ x.rev = pkt.rev => x.members = pkt.members
      BY <1>1, <2>1 DEF OneSetOfMembers
    <3>2. \A q, r \in Phones : groupRev'[q] = groupRev'[r] /\ groupRev'[q] > 0 => roster'[q] = roster'[r]
      BY <1>4, <1>5, <2>1, <3>1 DEF OneSetOfMembers
    <3>3. \A x \in Told, q \in Phones : x.type = "group" /\ groupRev'[q] = x.rev => roster'[q] = x.members
      BY <1>5, <2>1, <3>1 DEF OneSetOfMembers
    <3> QED BY <2>1, <2>2, <3>2, <3>3 DEF OneSetOfMembers
  <2>6. SteadyAreMembers'
    <3>1. Steady \subseteq pkt.members
      BY <1>1, <2>1 DEF SteadyAreMembers
    <3> QED BY <1>3, <1>4, <1>5, <2>1, <2>2, <3>1 DEF SteadyAreMembers, Steady
  <2>7. RevisionsArrive'
    <3>1. groupDeliveries[p] >= 0
      BY <1>1, <1>8, <2>1 DEF RevisionsArrive
    <3>2. \A q \in Phones :
              /\ groupDeliveries'[q] <= groupRev'[q]
              /\ q # Owner /\ (groupRev'[q] > 0 \/ q \in roster'[Owner]) => groupDeliveries'[q] >= 0
      <4> SUFFICES ASSUME NEW q \in Phones
                   PROVE  /\ groupDeliveries[q] <= groupRev'[q]
                          /\ q # Owner /\ (groupRev'[q] > 0 \/ q \in roster[Owner]) => groupDeliveries[q] >= 0
        BY <1>3, <2>3
      <4>1. /\ groupDeliveries[q] <= groupRev[q]
            /\ q # Owner /\ (groupRev[q] > 0 \/ q \in roster[Owner]) => groupDeliveries[q] >= 0
        BY <2>1 DEF RevisionsArrive
      <4>2. groupDeliveries[q] \in Int /\ groupRev[q] \in Int
        BY TypedGroupPackets
      <4>3. groupRev'[q] \in Int /\ groupRev'[q] >= groupRev[q]
        BY <1>5, <1>6
      <4>4. q = p \/ groupRev'[q] = groupRev[q]
        BY <1>5
      <4> QED BY <3>1, <4>1, <4>2, <4>3, <4>4
    <3>3. \A q \in Phones : q \in roster'[Owner] \ {Owner} /\ profileRev'[Owner] > 0 =>
              [type |-> "group_profile", from |-> Owner, to |-> q, rev |-> profileRev'[Owner]] \in Told'
      BY <1>2, <1>3, <2>1, <2>3 DEF RevisionsArrive
    <3>4. \A x \in Told' :
              /\ x.type = "group" => groupDeliveries'[x.to] >= 0
              /\ x.type = "group_ack" => x.rev <= groupRev'[x.from]
      <4>1. \A x \in Told : x.type = "group_ack" =>
                /\ x.rev <= groupRev[x.from] /\ x.from \in Phones /\ x.rev \in Nat
                /\ groupRev[x.from] \in Nat /\ groupRev'[x.from] \in Nat
        BY <1>5, <2>1, TypedGroupPackets DEF RevisionsArrive
      <4> QED BY <1>3, <1>4, <1>5, <1>6, <1>7, <2>1, <2>2, <4>1 DEF RevisionsArrive
    <3>5. \A x \in projected' :
              /\ x.type = "group" => groupRev'[x.to] >= x.rev
              /\ x.type = "group_profile" => profileRev'[x.to] >= x.rev
      <4>1. \A x \in projected : x.type = "group" =>
                /\ groupRev[x.to] >= x.rev /\ x.to \in Phones /\ x.rev \in Nat
                /\ groupRev[x.to] \in Nat /\ groupRev'[x.to] \in Nat
        BY <1>5, <2>1, TypedGroupPackets DEF RevisionsArrive
      <4> QED BY <1>2, <1>3, <1>6, <1>8, <2>1, <4>1 DEF RevisionsArrive
    <3> QED BY <1>3, <2>1, <3>2, <3>3, <3>4, <3>5 DEF RevisionsArrive
  <2> QED BY <2>4, <2>5, <2>6, <2>7 DEF MembersInv
<1>11. TextInv' /\ ReceiptInv' /\ ReactionInv'
  BY <1>2, <1>3, <1>7, RestStays
<1> QED BY <1>2, <1>9, <1>10, <1>11 DEF ConversationInv

LEMMA GroupAckKeeps ==
    ASSUME ConversationInv, NEW pkt \in post, pkt.type = "group_ack", ReceiveGroupAck(pkt),
           UNCHANGED controlOutbox
    PROVE  ConversationInv'
<1>1. /\ Told \subseteq Told' /\ Told' \subseteq Told
      /\ projected' \subseteq projected \cup {pkt} /\ projected' \subseteq post'
      /\ PacketsAreTyped' /\ pkt \in Told
  BY Committed DEF ReceiveGroupAck
<1>2. UNCHANGED <<roster, groupRev, leftGroup, profileRev, wasOut, texts, receipts, reacted>>
  BY DEF ReceiveGroupAck
<1>3. OwnerLeads /\ OneSetOfMembers /\ SteadyAreMembers /\ RevisionsArrive
  BY DEF ConversationInv, MembersInv
<1>4. /\ pkt.rev \in Nat /\ pkt.from \in Phones \ {Owner} /\ pkt.rev <= groupRev[pkt.from]
      /\ Owner \in Phones
  BY <1>1, <1>3, TypedGroupPackets DEF RevisionsArrive
<1>5. \A q \in Phones : groupRev[q] \in Nat /\ groupDeliveries[q] \in Nat \cup {-1}
  BY TypedGroupPackets
<1>6. groupDeliveries' = [groupDeliveries EXCEPT ![pkt.from] =
          IF pkt.rev > @ /\ pkt.rev <= groupRev[Owner] THEN pkt.rev ELSE @]
  BY DEF ReceiveGroupAck
<1>7. /\ groupDeliveries' \in [Phones -> Nat \cup {-1}]
      /\ \A q \in Phones :
             \/ groupDeliveries'[q] = groupDeliveries[q]
             \/ q = pkt.from /\ groupDeliveries'[q] = pkt.rev /\ pkt.rev > groupDeliveries[q]
  BY <1>4, <1>6 DEF ConversationInv, TablesAreTyped, MembersAreTyped
<1>8. TablesAreTyped'
  BY <1>1, <1>2, <1>7 DEF ConversationInv, TablesAreTyped, RowsAreTyped, MembersAreTyped, MarksAreTyped, texts,
                          receipts, reacted
<1>9. MembersInv'
  <2>1. OwnerLeads' /\ OneSetOfMembers' /\ SteadyAreMembers'
    BY <1>1, <1>2, <1>3 DEF OwnerLeads, OneSetOfMembers, SteadyAreMembers, Steady
  <2>2. \A q \in Phones :
            /\ groupDeliveries'[q] <= groupRev[q]
            /\ groupDeliveries[q] >= 0 => groupDeliveries'[q] >= 0
    <3> SUFFICES ASSUME NEW q \in Phones
                 PROVE  /\ groupDeliveries'[q] <= groupRev[q]
                        /\ groupDeliveries[q] >= 0 => groupDeliveries'[q] >= 0
      OBVIOUS
    <3>1. groupDeliveries[q] <= groupRev[q]
      BY <1>3 DEF RevisionsArrive
    <3> QED BY <1>4, <1>5, <1>7, <3>1
  <2>3. groupDeliveries'[Owner] = -1
    BY <1>3, <1>4, <1>7 DEF RevisionsArrive
  <2>4. \A x \in Told : x.type = "group" => groupDeliveries'[x.to] >= 0
    BY <1>3, <2>2, TypedGroupPackets DEF RevisionsArrive
  <2>5. \A x \in projected' : x.type \in {"group", "group_profile"} => x \in projected
    BY <1>1
  <2>6. \A q \in Phones : q # Owner /\ (groupRev'[q] > 0 \/ q \in roster'[Owner]) => groupDeliveries'[q] >= 0
    BY <1>2, <1>3, <2>2 DEF RevisionsArrive
  <2>7. RevisionsArrive'
    BY <1>1, <1>2, <1>3, <2>2, <2>3, <2>4, <2>5, <2>6 DEF RevisionsArrive
  <2> QED BY <2>1, <2>7 DEF MembersInv
<1>10. TextInv' /\ ReceiptInv' /\ ReactionInv'
  BY <1>1, <1>2, RestStays
<1> QED BY <1>1, <1>8, <1>9, <1>10 DEF ConversationInv

LEMMA ProfileKeeps ==
    ASSUME ConversationInv, NEW pkt \in post, pkt.type = "group_profile", ReceiveProfile(pkt),
           UNCHANGED controlOutbox
    PROVE  ConversationInv'
<1>1. /\ Told \subseteq Told' /\ Told' \subseteq Told
      /\ projected' \subseteq projected \cup {pkt} /\ projected' \subseteq post'
      /\ PacketsAreTyped' /\ pkt \in Told
  BY Committed DEF ReceiveProfile
<1>2. UNCHANGED <<roster, groupRev, leftGroup, groupDeliveries, wasOut, texts, receipts, reacted>>
  BY DEF ReceiveProfile
<1>3. OwnerLeads /\ OneSetOfMembers /\ SteadyAreMembers /\ RevisionsArrive
  BY DEF ConversationInv, MembersInv
<1>4. /\ pkt.rev \in Nat /\ pkt.to \in Phones \ {Owner} /\ pkt.rev <= profileRev[Owner]
      /\ Owner \in Phones /\ \A q \in Phones : profileRev[q] \in Nat
  BY <1>1, <1>3, TypedGroupPackets DEF OwnerLeads
<1>5. profileRev' = [profileRev EXCEPT ![pkt.to] = IF pkt.rev > @ THEN pkt.rev ELSE @]
  BY DEF ReceiveProfile
<1>6. /\ profileRev' \in [Phones -> Nat]
      /\ profileRev'[pkt.to] = IF pkt.rev > profileRev[pkt.to] THEN pkt.rev ELSE profileRev[pkt.to]
      /\ \A q \in Phones : q # pkt.to => profileRev'[q] = profileRev[q]
  BY <1>4, <1>5 DEF ConversationInv, TablesAreTyped, MembersAreTyped
<1>7. TablesAreTyped'
  BY <1>1, <1>2, <1>6 DEF ConversationInv, TablesAreTyped, RowsAreTyped, MembersAreTyped, MarksAreTyped, texts,
                          receipts, reacted
<1>8. MembersInv'
  <2>1. OneSetOfMembers' /\ SteadyAreMembers'
    BY <1>1, <1>2, <1>3 DEF OneSetOfMembers, SteadyAreMembers, Steady
  <2>2. profileRev'[Owner] = profileRev[Owner]
    BY <1>4, <1>6
  <2>3. OwnerLeads'
    <3>1. \A q \in Phones : profileRev'[q] <= profileRev[Owner]
      BY <1>3, <1>4, <1>6 DEF OwnerLeads
    <3> QED BY <1>1, <1>2, <1>3, <2>2, <3>1 DEF OwnerLeads
  <2>4. \A x \in projected' : x.type = "group_profile" => profileRev'[x.to] >= x.rev
    <3>1. profileRev'[pkt.to] >= pkt.rev /\ profileRev'[pkt.to] >= profileRev[pkt.to]
      BY <1>4, <1>6
    <3>2. ASSUME NEW x \in projected, x.type = "group_profile"
          PROVE  profileRev'[x.to] >= x.rev
      <4>1. profileRev[x.to] >= x.rev /\ x.to \in Phones /\ x.rev \in Nat
        BY <1>3, <3>2, TypedGroupPackets DEF RevisionsArrive
      <4>2. CASE x.to = pkt.to
        BY <1>4, <1>6, <3>1, <4>1, <4>2
      <4>3. CASE x.to # pkt.to
        BY <1>6, <4>1, <4>3
      <4> QED BY <4>2, <4>3
    <3> QED BY <1>1, <3>1, <3>2
  <2>5. \A x \in projected' : x.type = "group" => x \in projected
    BY <1>1
  <2>6. RevisionsArrive'
    <3>1. \A q \in Phones : q \in roster'[Owner] \ {Owner} /\ profileRev'[Owner] > 0 =>
              [type |-> "group_profile", from |-> Owner, to |-> q, rev |-> profileRev'[Owner]] \in Told'
      BY <1>1, <1>2, <1>3, <2>2 DEF RevisionsArrive
    <3> QED BY <1>1, <1>2, <1>3, <2>4, <2>5, <3>1 DEF RevisionsArrive
  <2> QED BY <2>1, <2>3, <2>6 DEF MembersInv
<1>9. TextInv' /\ ReceiptInv' /\ ReactionInv'
  BY <1>1, <1>2, RestStays
<1> QED BY <1>1, <1>7, <1>8, <1>9 DEF ConversationInv

LEMMA LeaveKeeps ==
    ASSUME ConversationInv, NEW pkt \in post, pkt.type = "group_leave", ReceiveLeave(pkt),
           UNCHANGED controlOutbox
    PROVE  ConversationInv'
<1>1. /\ Told \subseteq Told' /\ Told' \subseteq Told
      /\ projected' \subseteq projected \cup {pkt} /\ projected' \subseteq post'
      /\ PacketsAreTyped' /\ Formal(pkt)
  BY Committed DEF ReceiveLeave
<1>2. UNCHANGED <<leftGroup, profileRev, texts, reacted>>
  BY DEF ReceiveLeave
<1>3. OwnerLeads /\ OneSetOfMembers /\ SteadyAreMembers /\ RevisionsArrive
  BY DEF ConversationInv, MembersInv
<1>4. CASE pkt.from \notin roster[Owner]
  <2>1. UNCHANGED <<roster, groupRev, groupDeliveries, wasOut, receipts>>
    BY <1>4 DEF ReceiveLeave
  <2>2. TablesAreTyped'
    BY <1>1, <1>2, <2>1 DEF ConversationInv, TablesAreTyped, RowsAreTyped, MembersAreTyped, MarksAreTyped, texts,
                            receipts, reacted
  <2>3. MembersInv'
    BY <1>1, <1>2, <2>1, MembersFrame DEF group
  <2>4. TextInv' /\ ReceiptInv' /\ ReactionInv'
    BY <1>1, <1>2, <2>1, RestStays
  <2> QED BY <1>1, <2>2, <2>3, <2>4 DEF ConversationInv
<1>5. CASE pkt.from \in roster[Owner]
  <2> DEFINE next == roster[Owner] \ {pkt.from}
  <2>1. ReplaceMembers(next)
    BY <1>5 DEF ReceiveLeave
  <2>2. next \in SUBSET Phones /\ next \subseteq roster[Owner] /\ Owner \in Phones
    BY ConversationAssumption DEF ConversationInv, TablesAreTyped, MembersAreTyped
  <2> HIDE DEF next
  <2>3. /\ roster' \in [Phones -> SUBSET Phones] /\ groupRev' \in [Phones -> Nat]
        /\ groupDeliveries' \in [Phones -> Nat \cup {-1}] /\ wasOut' \subseteq Phones
        /\ MarksAreTyped'
        /\ wasOut' = wasOut \cup (roster[Owner] \ next) /\ Steady' \subseteq next
        /\ \A p \in Phones :
               /\ roster'[p] = IF p = Owner THEN next ELSE roster[p]
               /\ groupRev'[p] = IF p = Owner THEN groupRev[Owner] + 1 ELSE groupRev[p]
               /\ groupDeliveries'[p] = IF p \in (roster[Owner] \cup next) \ {Owner} /\ groupDeliveries[p] = -1
                                        THEN 0 ELSE groupDeliveries[p]
    BY <2>1, <2>2, MembersReplaced
  <2>4. TablesAreTyped'
    BY <1>1, <1>2, <2>3 DEF ConversationInv, TablesAreTyped, RowsAreTyped, MembersAreTyped, texts, reacted
  <2>5. \A q \in Phones : groupRev[q] \in Nat /\ groupDeliveries[q] \in Nat \cup {-1} /\ profileRev[q] \in Nat
    BY TypedGroupPackets
  <2>6. \A q \in Phones : q # Owner => groupDeliveries'[q] = groupDeliveries[q] /\ groupRev'[q] = groupRev[q]
    <3>1. ASSUME NEW q \in roster[Owner] \cup next, q \in Phones, q # Owner
          PROVE  groupDeliveries[q] # -1
      <4>1. groupDeliveries[q] >= 0
        BY <1>3, <2>2, <3>1 DEF RevisionsArrive
      <4> QED BY <4>1
    <3> QED BY <2>2, <2>3, <3>1
  <2>7. groupRev'[Owner] = groupRev[Owner] + 1 /\ groupDeliveries'[Owner] = -1
    BY <1>3, <2>2, <2>3 DEF RevisionsArrive
  <2>8. MembersInv'
    <3>1. OwnerLeads'
      BY <1>1, <1>2, <1>3, <2>2, <2>5, <2>6, <2>7, TypedGroupPackets DEF OwnerLeads
    <3>2. OneSetOfMembers'
      <4>1. \A q \in Phones : groupRev[q] < groupRev'[Owner]
        BY <1>3, <2>2, <2>5, <2>7 DEF OwnerLeads
      <4>2. \A x \in Told : x.type = "group" => x.rev < groupRev'[Owner]
        BY <1>3, <2>2, <2>5, <2>7 DEF OwnerLeads
      <4>3. \A p, q \in Phones : groupRev'[p] = groupRev'[q] /\ groupRev'[p] > 0 => roster'[p] = roster'[q]
        BY <1>3, <2>3, <2>5, <2>6, <2>7, <4>1 DEF OneSetOfMembers
      <4>4. \A x \in Told, q \in Phones : x.type = "group" /\ groupRev'[q] = x.rev => roster'[q] = x.members
        BY <1>3, <2>3, <2>5, <2>6, <2>7, <4>2, TypedGroupPackets DEF OneSetOfMembers
      <4> QED BY <1>1, <1>3, <4>3, <4>4 DEF OneSetOfMembers
    <3>3. SteadyAreMembers'
      BY <1>1, <1>2, <1>3, <2>2, <2>3, <2>5, <2>7 DEF SteadyAreMembers, Steady
    <3>4. RevisionsArrive'
      <4>1. \A q \in Phones :
                /\ groupDeliveries'[q] <= groupRev'[q]
                /\ q # Owner /\ (groupRev'[q] > 0 \/ q \in roster'[Owner]) => groupDeliveries'[q] >= 0
        <5> SUFFICES ASSUME NEW q \in Phones
                     PROVE  /\ groupDeliveries'[q] <= groupRev'[q]
                            /\ q # Owner /\ (groupRev'[q] > 0 \/ q \in roster'[Owner]) => groupDeliveries'[q] >= 0
          OBVIOUS
        <5>1. CASE q = Owner
          BY <2>2, <2>5, <2>7, <5>1
        <5>2. CASE q # Owner
          BY <1>3, <2>2, <2>3, <2>6, <5>2 DEF RevisionsArrive
        <5> QED BY <5>1, <5>2
      <4>2. \A q \in Phones : q \in roster'[Owner] \ {Owner} /\ profileRev'[Owner] > 0 =>
                [type |-> "group_profile", from |-> Owner, to |-> q, rev |-> profileRev'[Owner]] \in Told'
        BY <1>1, <1>2, <1>3, <2>2, <2>3 DEF RevisionsArrive
      <4>3. \A x \in Told' :
                /\ x.type = "group" => groupDeliveries'[x.to] >= 0
                /\ x.type = "group_ack" => x.rev <= groupRev'[x.from]
        BY <1>1, <1>3, <2>6, TypedGroupPackets DEF RevisionsArrive
      <4>4. \A x \in projected' :
                /\ x.type = "group" => groupRev'[x.to] >= x.rev
                /\ x.type = "group_profile" => profileRev'[x.to] >= x.rev
        BY <1>1, <1>2, <1>3, <2>6, TypedGroupPackets DEF RevisionsArrive
      <4> QED BY <2>7, <4>1, <4>2, <4>3, <4>4 DEF RevisionsArrive
    <3> QED BY <3>1, <3>2, <3>3, <3>4 DEF MembersInv
  <2>9. TextInv' /\ ReceiptInv' /\ ReactionInv'
    BY <1>1, <1>2, <2>1, <2>2, ReplacedKeepsRest
  <2> QED BY <1>1, <2>4, <2>8, <2>9 DEF ConversationInv
<1> QED BY <1>4, <1>5

LEMMA ReactionKeeps ==
    ASSUME ConversationInv, NEW pkt \in post, pkt.type = "reaction", ReceiveReaction(pkt),
           UNCHANGED controlOutbox
    PROVE  ConversationInv'
<1> DEFINE p == pkt.to
           r == pkt.from
           m == pkt.id
           rev == pkt.rev
           stale == kinds[p][m] = "deleted" \/ rev <= reactionVersions[p][m][r]
<1>1. /\ Told \subseteq Told' /\ Told' \subseteq Told
      /\ projected' \subseteq projected \cup {pkt} /\ projected' \subseteq post'
      /\ PacketsAreTyped' /\ Formal(pkt) /\ pkt \in Told
  BY Committed DEF ReceiveReaction
<1>2. UNCHANGED <<group, texts, receipts>> /\ kinds[p][m] \in {"text", "deleted"}
  BY DEF ReceiveReaction, ReactionAllowed
<1>3. r \in Phones /\ p \in Phones \ {r} /\ m \in Msgs /\ rev \in Nat /\ pkt.active \in BOOLEAN
  BY <1>1 DEF Formal
<1>4. /\ reactions \in [Phones -> [Msgs -> SUBSET Phones]]
      /\ reactionVersions \in [Phones -> [Msgs -> [Phones -> Nat]]]
  BY DEF ConversationInv, TablesAreTyped, RowsAreTyped
<1>5. CASE stale
  <2>1. UNCHANGED reacted
    BY <1>5 DEF ReceiveReaction
  <2>2. UNCHANGED <<kinds, reactions, reactionVersions, wasOut>>
    BY <1>2, <2>1 DEF reacted, texts, group
  <2>3. TablesAreTyped'
    BY <1>1, <1>2, <2>1 DEF ConversationInv, TablesAreTyped, RowsAreTyped, MembersAreTyped, MarksAreTyped, texts,
                            receipts, reacted, group
  <2>4. MembersInv'
    BY <1>1, <1>2, MembersFrame
  <2>5. TextInv' /\ ReceiptInv'
    <3>1. UNCHANGED <<kinds, bodies, changes, isRead, deliveries, receiptInfo, wasOut>>
      BY <1>2 DEF texts, receipts, group
    <3>2. \A n \in Msgs, q \in Phones : TrueMark(n, q, deliveries[n][q])' /\ TrueMark(n, q, receiptInfo[n][q])'
      BY <3>1 DEF ConversationInv, ReceiptInv, ReceiptsSpeakTrue, TrueMark
    <3>3. TextInv'
      BY <1>1, <3>1, TextFrame
    <3> QED BY <1>1, <3>1, <3>2, <3>3, ReceiptFrame
  <2>6. ReactionInv'
    <3>1. ReactionsAreNumbered' /\ OwnReactionLeads'
      <4>1. Told' = Told
        BY <1>1
      <4> QED BY <2>2, <4>1 DEF ConversationInv, ReactionInv, ReactionsAreNumbered, OwnReactionLeads, Steady,
                                ReactionFor
    <3>2. \/ kinds[pkt.to][pkt.id] \in {"deleted", "forgotten"}
          \/ kinds[pkt.to][pkt.id] = "text" /\ reactionVersions[pkt.to][pkt.id][pkt.from] >= pkt.rev
      BY <1>2, <1>3, <1>4, <1>5
    <3>3. ReactionsArrive'
      BY <1>1, <2>2, <3>2 DEF ConversationInv, ReactionInv, ReactionsArrive
    <3> QED BY <3>1, <3>3 DEF ReactionInv
  <2> QED BY <1>1, <2>3, <2>4, <2>5, <2>6 DEF ConversationInv
<1>6. CASE ~stale
  <2>1. /\ reactionVersions' = [reactionVersions EXCEPT ![p][m][r] = rev]
        /\ reactions' = [reactions EXCEPT ![p][m] = IF pkt.active THEN @ \cup {r} ELSE @ \ {r}]
    BY <1>6 DEF ReceiveReaction
  <2>2. kinds[p][m] = "text" /\ rev > reactionVersions[p][m][r] /\ reactionVersions[p][m][r] \in Nat
    BY <1>2, <1>3, <1>4, <1>6
  <2> DEFINE active == pkt.active
  <2>3. active \in BOOLEAN /\ pkt.to = p /\ pkt.from = r /\ pkt.id = m /\ pkt.rev = rev /\ (pkt.active <=> active)
    BY <1>3
  <2>4. reactions' = [reactions EXCEPT ![p][m] = IF active THEN @ \cup {r} ELSE @ \ {r}]
    BY <2>1
  <2>5. kinds[r][m] # "none"
    BY <1>1, <1>3 DEF ConversationInv, ReactionInv, ReactionsAreNumbered
  <2> HIDE DEF p, r, m, rev, stale, active
  <2>6. /\ reactionVersions' \in [Phones -> [Msgs -> [Phones -> Nat]]]
        /\ \A q, x \in Phones, n \in Msgs :
               reactionVersions'[q][n][x] =
                    IF q = p /\ n = m /\ x = r THEN rev ELSE reactionVersions[q][n][x]
    BY <1>3, <1>4, <2>1
  <2>7. /\ reactions' \in [Phones -> [Msgs -> SUBSET Phones]]
        /\ \A q, x \in Phones, n \in Msgs :
               x \in reactions'[q][n] <=> IF q = p /\ n = m /\ x = r THEN active ELSE x \in reactions[q][n]
    BY <1>3, <1>4, <2>3, <2>4
  <2>8. TablesAreTyped'
    BY <1>1, <1>2, <2>6, <2>7 DEF ConversationInv, TablesAreTyped, RowsAreTyped, MembersAreTyped, MarksAreTyped,
                                  texts, receipts, group
  <2>9. MembersInv'
    BY <1>1, <1>2, <2>3, MembersFrame
  <2>10. UNCHANGED <<kinds, bodies, changes, isRead, deliveries, receiptInfo, wasOut>>
    BY <1>2 DEF texts, receipts, group
  <2>11. TextInv' /\ ReceiptInv'
    <3>1. \A n \in Msgs, q \in Phones : TrueMark(n, q, deliveries[n][q])' /\ TrueMark(n, q, receiptInfo[n][q])'
      BY <2>10 DEF ConversationInv, ReceiptInv, ReceiptsSpeakTrue, TrueMark
    <3>2. TextInv'
      BY <1>1, <2>10, TextFrame
    <3> QED BY <1>1, <2>10, <3>1, <3>2, ReceiptFrame
  <2>12. ReactionInv'
    <3>1. ReactionsAreNumbered /\ OwnReactionLeads /\ ReactionsArrive
      BY DEF ConversationInv, ReactionInv
    <3>2. rev > 0
      BY <1>3, <2>2
    <3>3. ReactionsAreNumbered'
      <4> SUFFICES ASSUME NEW x \in Phones, NEW q \in Phones, NEW n \in Msgs
                   PROVE  /\ reactionVersions'[q][n][x] = 0 => x \notin reactions'[q][n]
                          /\ kinds[x][n] = "none" =>
                                /\ reactionVersions'[x][n][q] = 0 /\ reactionVersions'[q][n][x] = 0
                                /\ \A y \in Told : y.type = "reaction" /\ y.id = n => y.from # x
        BY <1>1, <2>10 DEF ReactionsAreNumbered
      <4>1. reactionVersions'[q][n][x] = 0 => x \notin reactions'[q][n]
        <5>1. reactionVersions[q][n][x] = 0 => x \notin reactions[q][n]
          BY <3>1 DEF ReactionsAreNumbered
        <5>2. CASE q = p /\ n = m /\ x = r
          BY <2>6, <3>2, <5>2
        <5>3. CASE ~(q = p /\ n = m /\ x = r)
          BY <2>6, <2>7, <5>1, <5>3
        <5> QED BY <5>2, <5>3
      <4>2. ASSUME kinds[x][n] = "none"
            PROVE  /\ reactionVersions'[x][n][q] = 0 /\ reactionVersions'[q][n][x] = 0
                   /\ \A y \in Told : y.type = "reaction" /\ y.id = n => y.from # x
        <5>1. ~(n = m /\ x \in {p, r})
          BY <2>2, <2>5, <4>2
        <5>2. reactionVersions'[x][n][q] = reactionVersions[x][n][q]
              /\ reactionVersions'[q][n][x] = reactionVersions[q][n][x]
          BY <2>6, <5>1
        <5>3. /\ reactionVersions[x][n][q] = 0 /\ reactionVersions[q][n][x] = 0
              /\ \A y \in Told : y.type = "reaction" /\ y.id = n => y.from # x
          BY <3>1, <4>2 DEF ReactionsAreNumbered
        <5> QED BY <5>2, <5>3
      <4> QED BY <4>1, <4>2
    <3>4. OwnReactionLeads'
      <4> SUFFICES ASSUME NEW x \in Phones, NEW n \in Msgs, kinds[x][n] = "text"
                   PROVE  /\ \A q \in Phones : kinds[q][n] = "text" =>
                                 /\ reactionVersions'[q][n][x] <= reactionVersions'[x][n][x]
                                 /\ reactionVersions'[q][n][x] = reactionVersions'[x][n][x] =>
                                        (x \in reactions'[q][n] <=> x \in reactions'[x][n])
                          /\ \A y \in Told : y.type = "reaction" /\ y.from = x /\ y.id = n =>
                                 /\ y.rev <= reactionVersions'[x][n][x]
                                 /\ y.rev = reactionVersions'[x][n][x] => (y.active <=> x \in reactions'[x][n])
                          /\ reactionVersions'[x][n][x] > 0 /\ x \in Steady =>
                                 \A q \in Steady \ {x} : ReactionFor(x, q, n)' \in Told
        <5>1. Told' = Told /\ Steady' = Steady
          BY <1>1, <2>10 DEF Steady
        <5> QED BY <2>10, <5>1 DEF OwnReactionLeads
      <4>1. /\ reactionVersions'[x][n][x] = reactionVersions[x][n][x]
            /\ x \in reactions'[x][n] <=> x \in reactions[x][n]
        BY <1>3, <2>6, <2>7
      <4>2. \A q \in Phones : ReactionFor(x, q, n)' = ReactionFor(x, q, n)
        BY <4>1 DEF ReactionFor
      <4>3. ASSUME NEW q \in Phones, kinds[q][n] = "text"
            PROVE  /\ reactionVersions'[q][n][x] <= reactionVersions[x][n][x]
                   /\ reactionVersions'[q][n][x] = reactionVersions[x][n][x] =>
                          (x \in reactions'[q][n] <=> x \in reactions[x][n])
        <5>1. CASE q = p /\ n = m /\ x = r
          BY <1>1, <1>3, <2>3, <2>6, <2>7, <3>1, <5>1 DEF OwnReactionLeads
        <5>2. CASE ~(q = p /\ n = m /\ x = r)
          BY <2>6, <2>7, <3>1, <4>3, <5>2 DEF OwnReactionLeads
        <5> QED BY <5>1, <5>2
      <4> QED BY <3>1, <4>1, <4>2, <4>3 DEF OwnReactionLeads, Steady
    <3>5. ReactionsArrive'
      <4>1. \A y \in projected : y.type = "reaction" =>
                y.to \in Phones /\ y.from \in Phones /\ y.id \in Msgs /\ y.rev \in Nat
        BY DEF ConversationInv, PacketsAreTyped, TablesAreTyped, Told, Formal
      <4>2. ASSUME NEW y \in projected, y.type = "reaction"
            PROVE  \/ kinds[y.to][y.id] \in {"deleted", "forgotten"}
                   \/ kinds[y.to][y.id] = "text" /\ reactionVersions'[y.to][y.id][y.from] >= y.rev
        <5>1. \/ kinds[y.to][y.id] \in {"deleted", "forgotten"}
              \/ kinds[y.to][y.id] = "text" /\ reactionVersions[y.to][y.id][y.from] >= y.rev
          BY <3>1, <4>2 DEF ReactionsArrive
        <5>2. CASE y.to = p /\ y.id = m /\ y.from = r
          BY <1>3, <2>2, <2>6, <4>1, <4>2, <5>1, <5>2
        <5>3. CASE ~(y.to = p /\ y.id = m /\ y.from = r)
          BY <2>6, <4>1, <4>2, <5>1, <5>3
        <5> QED BY <5>2, <5>3
      <4>3. kinds[p][m] = "text" /\ reactionVersions'[p][m][r] >= rev
        BY <1>3, <2>2, <2>6
      <4>4. \A y \in projected' : y.type = "reaction" =>
                   \/ kinds[y.to][y.id] \in {"deleted", "forgotten"}
                   \/ kinds[y.to][y.id] = "text" /\ reactionVersions'[y.to][y.id][y.from] >= y.rev
        BY <1>1, <2>3, <4>2, <4>3
      <4> QED BY <1>1, <2>10, <3>1, <4>4 DEF ReactionsArrive
    <3> QED BY <3>3, <3>4, <3>5 DEF ReactionInv
  <2> QED BY <1>1, <2>8, <2>9, <2>11, <2>12 DEF ConversationInv
<1> QED BY <1>5, <1>6
------------------------------------------------------------------------------
(* What one row does to the parts of the invariant                           *)

\* A row stays, gets its text, or loses its reactions for good.
ReactionsFollow(p, m) ==
    \/ RowStays(p, m)
    \/ /\ kinds[p][m] \in {"none", "text"} /\ kinds'[p][m] = "text"
       /\ reactions'[p][m] = reactions[p][m] /\ reactionVersions'[p][m] = reactionVersions[p][m]
    \/ /\ kinds'[p][m] \in {"deleted", "forgotten"}
       /\ reactions'[p][m] = {} /\ \A q \in Phones : reactionVersions'[p][m][q] = 0

LEMMA RowReactions ==
    ASSUME ConversationInv, NEW p \in Phones, NEW m \in Msgs, OtherRowsStay(p, m), ReactionsFollow(p, m),
           UNCHANGED wasOut,
           \A pkt \in Told' : pkt.type = "reaction" => pkt \in Told,
           \A pkt \in Told : pkt.type = "reaction" =>
               pkt \in Told' \/ (pkt.from = p /\ pkt.id = m /\ kinds'[p][m] = "forgotten"),
           \A pkt \in projected' : pkt.type = "reaction" => pkt \in projected
    PROVE  ReactionInv'
<1>1. ReactionsAreNumbered /\ OwnReactionLeads /\ ReactionsArrive
  BY DEF ConversationInv, ReactionInv
<1>2. \A q \in Phones, n \in Msgs : q # p \/ n # m =>
          /\ kinds'[q][n] = kinds[q][n]
          /\ reactions'[q][n] = reactions[q][n] /\ reactionVersions'[q][n] = reactionVersions[q][n]
  BY DEF OtherRowsStay
<1>3. \/ /\ kinds'[p][m] = kinds[p][m] /\ reactions'[p][m] = reactions[p][m]
         /\ reactionVersions'[p][m] = reactionVersions[p][m]
      \/ /\ kinds[p][m] = "none" /\ kinds'[p][m] = "text"
         /\ reactions'[p][m] = reactions[p][m] /\ reactionVersions'[p][m] = reactionVersions[p][m]
      \/ /\ kinds'[p][m] \in {"deleted", "forgotten"}
         /\ reactions'[p][m] = {} /\ \A q \in Phones : reactionVersions'[p][m][q] = 0
  BY DEF ReactionsFollow, RowStays
<1>4. \A q \in Phones, n \in Msgs :
          /\ kinds'[q][n] = "none" => kinds[q][n] = "none"
          /\ \/ reactions'[q][n] = reactions[q][n] /\ reactionVersions'[q][n] = reactionVersions[q][n]
             \/ /\ kinds'[q][n] \in {"deleted", "forgotten"}
                /\ reactions'[q][n] = {} /\ \A x \in Phones : reactionVersions'[q][n][x] = 0
  BY <1>2, <1>3
<1>5. ReactionsAreNumbered'
  <2> SUFFICES ASSUME NEW x \in Phones, NEW q \in Phones, NEW n \in Msgs
               PROVE  /\ reactionVersions'[q][n][x] = 0 => x \notin reactions'[q][n]
                      /\ kinds'[x][n] = "none" =>
                            /\ reactionVersions'[x][n][q] = 0 /\ reactionVersions'[q][n][x] = 0
                            /\ \A y \in Told' : y.type = "reaction" /\ y.id = n => y.from # x
    BY DEF ReactionsAreNumbered
  <2> QED BY <1>1, <1>4 DEF ReactionsAreNumbered
<1>6. OwnReactionLeads'
  <2> SUFFICES ASSUME NEW x \in Phones, NEW n \in Msgs, kinds'[x][n] = "text"
               PROVE  /\ \A q \in Phones : kinds'[q][n] = "text" =>
                             /\ reactionVersions'[q][n][x] <= reactionVersions'[x][n][x]
                             /\ reactionVersions'[q][n][x] = reactionVersions'[x][n][x] =>
                                    (x \in reactions'[q][n] <=> x \in reactions'[x][n])
                      /\ \A y \in Told' : y.type = "reaction" /\ y.from = x /\ y.id = n =>
                             /\ y.rev <= reactionVersions'[x][n][x]
                             /\ y.rev = reactionVersions'[x][n][x] => (y.active <=> x \in reactions'[x][n])
                      /\ reactionVersions'[x][n][x] > 0 /\ x \in Steady =>
                             \A q \in Steady \ {x} : ReactionFor(x, q, n)' \in Told'
    <3>1. Steady' = Steady
      BY DEF Steady
    <3> QED BY <3>1 DEF OwnReactionLeads
  <2>1. /\ reactions'[x][n] = reactions[x][n] /\ reactionVersions'[x][n] = reactionVersions[x][n]
        /\ kinds[x][n] \in {"none", "text"}
    BY <1>2, <1>3
  <2>2. \A q \in Phones : kinds'[q][n] = "text" =>
            /\ reactions'[q][n] = reactions[q][n] /\ reactionVersions'[q][n] = reactionVersions[q][n]
            /\ kinds[q][n] \in {"none", "text"}
    BY <1>2, <1>3
  <2>3. \A q \in Phones : ReactionFor(x, q, n)' = ReactionFor(x, q, n) /\ ReactionFor(x, q, n).type = "reaction"
                          /\ ReactionFor(x, q, n).from = x /\ ReactionFor(x, q, n).id = n
    BY <2>1 DEF ReactionFor
  <2>4. \A q \in Phones : reactionVersions[q][n][x] \in Nat
    BY DEF ConversationInv, TablesAreTyped, RowsAreTyped
  <2>5. CASE kinds[x][n] = "none"
    <3>1. /\ \A q \in Phones : reactionVersions[q][n][x] = 0 /\ x \notin reactions[q][n]
          /\ \A y \in Told : y.type = "reaction" /\ y.id = n => y.from # x
      BY <1>1, <2>5 DEF ReactionsAreNumbered
    <3> QED BY <2>1, <2>2, <3>1
  <2>6. CASE kinds[x][n] = "text"
    <3>1. ASSUME NEW q \in Phones, kinds'[q][n] = "text"
          PROVE  /\ reactionVersions[q][n][x] <= reactionVersions[x][n][x]
                 /\ reactionVersions[q][n][x] = reactionVersions[x][n][x] =>
                        (x \in reactions[q][n] <=> x \in reactions[x][n])
      <4>1. CASE kinds[q][n] = "text"
        BY <1>1, <2>6, <4>1 DEF OwnReactionLeads
      <4>2. CASE kinds[q][n] = "none"
        <5>1. reactionVersions[q][n][x] = 0 /\ x \notin reactions[q][n]
          BY <1>1, <4>2 DEF ReactionsAreNumbered
        <5>2. reactionVersions[x][n][x] = 0 => x \notin reactions[x][n]
          BY <1>1 DEF ReactionsAreNumbered
        <5> QED BY <2>4, <5>1, <5>2
      <4> QED BY <2>2, <3>1, <4>1, <4>2
    <3>2. \A y \in Told' : y.type = "reaction" /\ y.from = x /\ y.id = n =>
              /\ y.rev <= reactionVersions[x][n][x]
              /\ y.rev = reactionVersions[x][n][x] => (y.active <=> x \in reactions[x][n])
      BY <1>1, <2>6 DEF OwnReactionLeads
    <3>3. reactionVersions[x][n][x] > 0 /\ x \in Steady => \A q \in Steady \ {x} : ReactionFor(x, q, n) \in Told
      BY <1>1, <2>6 DEF OwnReactionLeads
    <3>4. ASSUME NEW q \in Steady, ReactionFor(x, q, n) \in Told
          PROVE  ReactionFor(x, q, n) \in Told'
      <4>1. q \in Phones
        BY DEF Steady
      <4> QED BY <2>3, <3>4, <4>1
    <3> QED BY <2>1, <2>2, <2>3, <3>1, <3>2, <3>3, <3>4 DEF Steady
  <2> QED BY <2>1, <2>5, <2>6
<1>7. ReactionsArrive'
  <2>1. \A y \in projected : y.type = "reaction" =>
            y.to \in Phones /\ y.from \in Phones /\ y.id \in Msgs /\ y.rev \in Nat
    BY DEF ConversationInv, PacketsAreTyped, TablesAreTyped, Told, Formal
  <2>2. \A q \in Phones, n \in Msgs :
            /\ kinds[q][n] \in {"deleted", "forgotten"} => kinds'[q][n] \in {"deleted", "forgotten"}
            /\ kinds[q][n] = "text" => \/ kinds'[q][n] \in {"deleted", "forgotten"}
                                       \/ kinds'[q][n] = "text" /\ reactionVersions'[q][n] = reactionVersions[q][n]
    BY <1>2, <1>3
  <2> QED BY <1>1, <2>1, <2>2 DEF ReactionsArrive
<1> QED BY <1>5, <1>6, <1>7 DEF ReactionInv

LEMMA RowReceipts ==
    ASSUME ConversationInv, PacketsAreTyped', NEW p \in Phones, NEW m \in Msgs, OtherRowsStay(p, m),
           kinds[p][m] # "none" => kinds'[p][m] # "none",
           kinds[p][m] = "forgotten" => kinds'[p][m] = "forgotten",
           m \in isRead[p] => m \in isRead'[p] \/ kinds'[p][m] = "forgotten",
           p # Author[m] /\ kinds'[p][m] \in {"text", "deleted"} => Expected(m, p),
           \A n \in Msgs, q \in Phones :
               /\ deliveries'[n][q] \in {deliveries[n][q], "none"}
               /\ receiptInfo'[n][q] \in {receiptInfo[n][q], "none"}
               /\ deliveries'[n][q] # "none" =>
                      kinds'[Author[n]][n] = "text" /\ receiptInfo'[n][q] = receiptInfo[n][q]
               /\ receiptInfo'[n][q] # receiptInfo[n][q] => kinds'[Author[n]][n] = "forgotten",
           \A pkt \in Told' : pkt.type \in {"message", "read_ids"} => pkt \in Told,
           \A pkt \in Told' : pkt.type = "ack" => pkt \in Told \/ kinds'[pkt.from][pkt.id] # "none"
    PROVE  ReceiptInv'
<1>1. ReceiptsSpeakTrue /\ ReceiptsAreExpected /\ \A n \in Msgs : Author[n] \in Phones
  BY ConversationAssumption DEF ConversationInv, ReceiptInv
<1>2. \A pkt \in Told' : Formal(pkt)
  BY DEF PacketsAreTyped
<1>3. \A q \in Phones, n \in Msgs :
          /\ kinds[q][n] # "none" => kinds'[q][n] # "none"
          /\ kinds[q][n] = "forgotten" => kinds'[q][n] = "forgotten"
          /\ n \in isRead[q] => n \in isRead'[q] \/ kinds'[q][n] = "forgotten"
  BY DEF OtherRowsStay
<1>4. \A n \in Msgs, q \in Phones : \A mark : TrueMark(n, q, mark) => TrueMark(n, q, mark)'
  BY <1>3 DEF TrueMark
<1>5. \A n \in Msgs, q \in Phones : Expected(n, q) => Expected(n, q)'
  BY <1>1, <1>3 DEF Expected
<1>6. ReceiptsSpeakTrue'
  <2>1. ASSUME NEW n \in Msgs, NEW q \in Phones
        PROVE  TrueMark(n, q, deliveries[n][q])' /\ TrueMark(n, q, receiptInfo[n][q])'
    <3>1. TrueMark(n, q, deliveries[n][q]) /\ TrueMark(n, q, receiptInfo[n][q])
      BY <1>1 DEF ReceiptsSpeakTrue
    <3> QED BY <1>3, <3>1 DEF TrueMark
  <2>2. ASSUME NEW pkt \in Told', pkt.type = "ack"
        PROVE  TrueMark(pkt.id, pkt.from, "acked")'
    <3>1. pkt.from \in Phones /\ pkt.id \in Msgs
      BY <1>2, <2>2 DEF Formal
    <3> QED BY <1>1, <1>3, <2>2, <3>1 DEF ReceiptsSpeakTrue, TrueMark
  <2>3. ASSUME NEW pkt \in Told', pkt.type = "read_ids", NEW n \in pkt.ids
        PROVE  TrueMark(n, pkt.from, "read")'
    <3>1. pkt.from \in Phones /\ n \in Msgs
      BY <1>2, <2>3 DEF Formal
    <3> QED BY <1>1, <1>3, <2>3, <3>1 DEF ReceiptsSpeakTrue, TrueMark
  <2> QED BY <2>1, <2>2, <2>3 DEF ReceiptsSpeakTrue
<1>7. ReceiptsAreExpected'
  <2>1. ASSUME NEW n \in Msgs, NEW q \in Phones
        PROVE  /\ deliveries'[n][q] # "none" => /\ q # Author[n] /\ kinds'[Author[n]][n] = "text"
                                                /\ receiptInfo'[n][q] # "none"
               /\ q # Author[n] /\ Holds(q, n)' => Expected(n, q)'
    <3>1. deliveries'[n][q] # "none" => /\ q # Author[n] /\ kinds'[Author[n]][n] = "text"
                                        /\ receiptInfo'[n][q] # "none"
      BY <1>1 DEF ReceiptsAreExpected
    <3>2. q # Author[n] /\ Holds(q, n)' => Expected(n, q)
      BY <1>1 DEF ReceiptsAreExpected, Holds, OtherRowsStay
    <3> QED BY <1>5, <3>1, <3>2
  <2>2. ASSUME NEW pkt \in Told', pkt.type = "message"
        PROVE  Expected(pkt.id, pkt.to)'
    <3>1. Expected(pkt.id, pkt.to) /\ pkt.id \in Msgs /\ pkt.to \in Phones
      BY <1>1, <1>2, <2>2 DEF ReceiptsAreExpected, Formal
    <3> QED BY <1>1, <1>3, <3>1 DEF Expected
  <2>3. ASSUME NEW pkt \in Told', pkt.type = "read_ids", NEW n \in pkt.ids
        PROVE  Expected(n, pkt.from)'
    <3>1. Expected(n, pkt.from) /\ n \in Msgs /\ pkt.from \in Phones
      BY <1>1, <1>2, <2>3 DEF ReceiptsAreExpected, Formal
    <3> QED BY <1>1, <1>3, <3>1 DEF Expected
  <2> QED BY <2>1, <2>2, <2>3 DEF ReceiptsAreExpected
<1> QED BY <1>6, <1>7 DEF ReceiptInv

\* What a peer makes of its row of a message whose author sent it.
PeerRowFollows(p, m, body) ==
    /\ \/ changes'[p][m] = changes[p][m]
       \/ /\ changes[p][m].act # "delete" /\ changes[p][m].rev < changes'[p][m].rev
          /\ Formed(changes'[p][m]) /\ (Holds(Author[m], m) => Known(m, changes'[p][m]))
    /\ \/ RowStays(p, m) /\ (changes'[p][m] = changes[p][m] \/ kinds[p][m] = "none")
       \/ /\ kinds[p][m] \in {"none", "text"} /\ RowAfter(p, m, body, changes'[p][m])
          /\ body \in Nat
          /\ kinds[p][m] = "text" => body = bodies[p][m]
          /\ kinds[Author[m]][m] = "text" => body <= changes[Author[m]][m].rev

LEMMA PeerRowText ==
    ASSUME ConversationInv, NEW p \in Phones, NEW m \in Msgs, p # Author[m], kinds[Author[m]][m] # "none",
           RowsAreTyped', OtherRowsStay(p, m), NEW body, PeerRowFollows(p, m, body),
           UNCHANGED <<deliveries, wasOut>>,
           Told \subseteq Told', \A x \in Told' : x \in Told \/ x.type = "ack",
           \A x \in projected' : x.type \in {"message", "message_change"} =>
               \/ x \in projected
               \/ x.to = p /\ x.type = "message" /\ x.id = m /\ kinds'[p][m] # "none"
               \/ /\ x.to = p /\ x.type = "message_change" /\ x.id = m
                  /\ \/ kinds'[p][m] = "forgotten"
                     \/ changes'[p][m].rev >= x.change.rev
                     \/ changes'[p][m].act = "delete"
    PROVE  TextInv'
<1>1. /\ SentByItsAuthor /\ RowsFollowChanges /\ AuthorKnowsChanges /\ SteadyAreTold /\ ProjectedIsKnown
      /\ Author[m] \in Phones
  BY ConversationAssumption DEF ConversationInv, TextInv
<1>2. \A q \in Phones, n \in Msgs : q # p \/ n # m =>
          kinds'[q][n] = kinds[q][n] /\ bodies'[q][n] = bodies[q][n] /\ changes'[q][n] = changes[q][n]
  BY DEF OtherRowsStay
<1>3. \A n \in Msgs : /\ kinds'[Author[n]][n] = kinds[Author[n]][n]
                      /\ bodies'[Author[n]][n] = bodies[Author[n]][n]
                      /\ changes'[Author[n]][n] = changes[Author[n]][n]
                      /\ Author[n] \in Phones
  BY <1>2, ConversationAssumption
<1>4. /\ kinds[p][m] # "none" => kinds'[p][m] # "none"
      /\ kinds[p][m] = "forgotten" => kinds'[p][m] = "forgotten"
      /\ kinds'[p][m] = "none" => kinds[p][m] = "none" /\ bodies'[p][m] = bodies[p][m]
  BY DEF PeerRowFollows, RowStays, RowAfter
<1>5. /\ \A q \in Phones, n \in Msgs : changes[q][n] \in ChangeRows /\ changes'[q][n] \in ChangeRows
                                        /\ bodies[q][n] \in Nat /\ bodies'[q][n] \in Nat
      /\ \A x \in Told : x.type = "message_change" =>
             x.change \in ChangeRows /\ x.change.rev \in Nat /\ x.id \in Msgs /\ x.to \in Phones
      /\ \A x \in Told : x.type = "message" => x.body \in Nat /\ x.id \in Msgs /\ x.to \in Phones
      /\ projected \subseteq Told
  <2>1. \A q \in Phones, n \in Msgs : changes[q][n] \in ChangeRows /\ changes'[q][n] \in ChangeRows
                                        /\ bodies[q][n] \in Nat /\ bodies'[q][n] \in Nat
    BY DEF ConversationInv, TablesAreTyped, RowsAreTyped
  <2>2. \A x \in Told : Formal(x)
    BY DEF ConversationInv, PacketsAreTyped
  <2>3. projected \subseteq Told
    BY DEF ConversationInv, TablesAreTyped, Told
  <2>4. \A x \in Told : x.type = "message_change" =>
            x.change \in ChangeRows /\ x.id \in Msgs /\ x.to \in Phones
    BY <2>2 DEF Formal, Formed
  <2>5. \A c \in ChangeRows : c.rev \in Nat
    BY DEF ChangeRows
  <2>6. \A x \in Told : x.type = "message" => x.body \in Nat /\ x.id \in Msgs /\ x.to \in Phones
    BY <2>2 DEF Formal
  <2> QED BY <2>1, <2>3, <2>4, <2>5, <2>6
<1>6. \A q \in Phones, n \in Msgs : changes[q][n].rev \in Nat /\ changes'[q][n].rev \in Nat
  BY <1>5 DEF ChangeRows
<1>7. SentByItsAuthor'
  <2> SUFFICES ASSUME NEW n \in Msgs
               PROVE  /\ \A q \in Phones : kinds'[q][n] = "none" => bodies'[q][n] = 0
                      /\ kinds'[Author[n]][n] = "none" =>
                             /\ \A q \in Phones :
                                    kinds'[q][n] \in {"none", "forgotten"} /\ changes'[q][n] = NoChange
                             /\ \A x \in Told' :
                                    /\ x.type \in {"message_change", "message", "reaction"} => x.id # n
                                    /\ x.type = "read_ids" => n \notin x.ids
    BY DEF SentByItsAuthor
  <2>1. \A q \in Phones : kinds'[q][n] = "none" => bodies'[q][n] = 0
    BY <1>1, <1>2, <1>4 DEF SentByItsAuthor
  <2>2. ASSUME kinds'[Author[n]][n] = "none"
        PROVE  /\ \A q \in Phones : kinds'[q][n] \in {"none", "forgotten"} /\ changes'[q][n] = NoChange
               /\ \A x \in Told' :
                      /\ x.type \in {"message_change", "message", "reaction"} => x.id # n
                      /\ x.type = "read_ids" => n \notin x.ids
    <3>1. n # m /\ kinds[Author[n]][n] = "none"
      BY <1>3, <2>2
    <3> QED BY <1>1, <1>2, <3>1 DEF SentByItsAuthor
  <2> QED BY <2>1, <2>2
<1>8. RowsFollowChanges'
  <2>1. /\ Formed(changes[p][m])
        /\ kinds[p][m] = "deleted" => changes[p][m].act = "delete" /\ bodies[p][m] = 0
        /\ kinds[p][m] = "text" =>
               /\ changes[p][m].act # "delete"
               /\ changes[p][m].act = "edit" => bodies[p][m] = changes[p][m].body
    BY <1>1 DEF RowsFollowChanges
  <2>2. Formed(changes'[p][m])
    BY <2>1 DEF PeerRowFollows
  <2>3. CASE RowStays(p, m) /\ (changes'[p][m] = changes[p][m] \/ kinds[p][m] = "none")
    BY <1>1, <1>2, <2>1, <2>2, <2>3 DEF RowsFollowChanges, RowStays
  <2>4. CASE RowAfter(p, m, body, changes'[p][m])
    BY <1>1, <1>2, <2>1, <2>2, <2>4 DEF RowsFollowChanges, RowAfter
  <2> QED BY <2>3, <2>4 DEF PeerRowFollows
<1>9. AuthorKnowsChanges'
  <2> SUFFICES ASSUME NEW n \in Msgs, Holds(Author[n], n)
               PROVE  /\ \A q \in Phones : Known(n, changes'[q][n])
                      /\ \A x \in Told' : x.type = "message_change" /\ x.id = n => Known(n, x.change)
                      /\ kinds[Author[n]][n] = "text" =>
                             /\ \A x \in Told' : x.type = "message" /\ x.id = n =>
                                    x.body <= changes[Author[n]][n].rev
                             /\ \A q \in Phones : kinds'[q][n] = "text" =>
                                    bodies'[q][n] <= changes[Author[n]][n].rev
    BY <1>3 DEF AuthorKnowsChanges, Holds, Known
  <2>1. /\ \A q \in Phones : Known(n, changes[q][n])
        /\ \A x \in Told : x.type = "message_change" /\ x.id = n => Known(n, x.change)
        /\ kinds[Author[n]][n] = "text" =>
               /\ \A x \in Told : x.type = "message" /\ x.id = n => x.body <= changes[Author[n]][n].rev
               /\ \A q \in Phones : kinds[q][n] = "text" => bodies[q][n] <= changes[Author[n]][n].rev
    BY <1>1 DEF AuthorKnowsChanges
  <2>2. \A q \in Phones : Known(n, changes'[q][n])
    BY <1>2, <2>1 DEF PeerRowFollows
  <2>3. ASSUME kinds[Author[n]][n] = "text", NEW q \in Phones, kinds'[q][n] = "text"
        PROVE  bodies'[q][n] <= changes[Author[n]][n].rev
    <3>1. CASE q # p \/ n # m
      BY <1>2, <2>1, <2>3, <3>1
    <3>2. CASE q = p /\ n = m
      <4>1. CASE RowStays(p, m)
        BY <2>1, <2>3, <3>2, <4>1 DEF RowStays
      <4>2. CASE RowAfter(p, m, body, changes'[p][m]) /\ body <= changes[Author[m]][m].rev
        <5>1. bodies'[p][m] = IF changes'[p][m].act = "edit" THEN changes'[p][m].body ELSE body
          BY <2>3, <3>2, <4>2 DEF RowAfter
        <5>2. changes'[p][m].act = "edit" => changes'[p][m].body = changes'[p][m].rev
          BY <1>8 DEF RowsFollowChanges, Formed
        <5>3. changes'[p][m].rev <= changes[Author[m]][m].rev
          BY <2>2, <3>2 DEF Known
        <5> QED BY <3>2, <4>2, <5>1, <5>2, <5>3
      <4> QED BY <2>3, <3>2, <4>1, <4>2 DEF PeerRowFollows
    <3> QED BY <3>1, <3>2
  <2> QED BY <2>1, <2>2, <2>3
<1>10. SteadyAreTold'
  <2> SUFFICES ASSUME NEW n \in Msgs, NEW q \in Phones, TextFor(q, n)
               PROVE  /\ kinds[Author[n]][n] = "text" => deliveries[n][q] # "none"
                      /\ Holds(Author[n], n) /\ changes[Author[n]][n].rev > 0 => ChangeFor(q, n) \in Told'
    <3>1. \A n \in Msgs, q \in Phones : (TextFor(q, n)' <=> TextFor(q, n)) /\ ChangeFor(q, n)' = ChangeFor(q, n)
      BY <1>3 DEF TextFor, Steady, ChangeFor
    <3> QED BY <1>3, <3>1 DEF SteadyAreTold, Holds
  <2> QED BY <1>1 DEF SteadyAreTold
<1>11. ProjectedIsKnown'
  <2>1. ASSUME NEW q \in Phones, NEW n \in Msgs
        PROVE  /\ kinds[q][n] # "none" => kinds'[q][n] # "none"
               /\ kinds[q][n] = "forgotten" => kinds'[q][n] = "forgotten"
               /\ changes'[q][n].rev >= changes[q][n].rev
               /\ changes[q][n].act = "delete" => changes'[q][n].act = "delete"
    <3>1. CASE q # p \/ n # m
      BY <1>2, <1>6, <3>1
    <3>2. CASE q = p /\ n = m
      BY <1>4, <1>6, <3>2 DEF PeerRowFollows
    <3> QED BY <3>1, <3>2
  <2>2. ASSUME NEW x \in projected, x.type = "message"
        PROVE  kinds'[x.to][x.id] # "none"
    BY <1>1, <1>5, <2>1, <2>2 DEF ProjectedIsKnown
  <2>3. ASSUME NEW x \in projected, x.type = "message_change"
        PROVE  \/ kinds'[x.to][x.id] = "forgotten"
               \/ changes'[x.to][x.id].rev >= x.change.rev
               \/ changes'[x.to][x.id].act = "delete"
    <3>1. x.to \in Phones /\ x.id \in Msgs /\ x.change.rev \in Nat
      BY <1>5, <2>3
    <3>2. \/ kinds[x.to][x.id] = "forgotten"
          \/ changes[x.to][x.id].rev >= x.change.rev
          \/ changes[x.to][x.id].act = "delete"
      BY <1>1, <2>3 DEF ProjectedIsKnown
    <3> QED BY <1>6, <2>1, <3>1, <3>2
  <2> QED BY <2>2, <2>3 DEF ProjectedIsKnown
<1> QED BY <1>7, <1>8, <1>9, <1>10, <1>11 DEF TextInv

LEMMA PeerRowKeeps ==
    ASSUME ConversationInv, NEW p \in Phones, NEW m \in Msgs, p # Author[m], kinds[Author[m]][m] # "none",
           RowsAreTyped', OtherRowsStay(p, m), NEW body, PeerRowFollows(p, m, body),
           UNCHANGED <<group, receipts>>, PacketsAreTyped',
           Told \subseteq Told', \A x \in Told' : x \in Told \/ (x.type = "ack" /\ kinds'[x.from][x.id] # "none"),
           kinds'[p][m] \in {"text", "deleted"} => Expected(m, p),
           NEW pkt, projected' \subseteq projected \cup {pkt}, projected' \subseteq post',
           pkt.to = p, pkt.id = m,
           \/ pkt.type = "message" /\ kinds'[p][m] # "none"
           \/ /\ pkt.type = "message_change"
              /\ \/ kinds'[p][m] = "forgotten"
                 \/ changes'[p][m].rev >= pkt.change.rev
                 \/ changes'[p][m].act = "delete"
    PROVE  ConversationInv'
<1>1. UNCHANGED <<deliveries, receiptInfo, wasOut>>
  BY DEF receipts, group
<1>2. TablesAreTyped'
  BY DEF ConversationInv, TablesAreTyped, MembersAreTyped, MarksAreTyped, group, receipts
<1>3. MembersInv'
  BY MembersFrame
<1>4. TextInv'
  BY <1>1, PeerRowText
<1>5. /\ kinds[p][m] # "none" => kinds'[p][m] # "none"
      /\ kinds[p][m] = "forgotten" => kinds'[p][m] = "forgotten"
      /\ m \in isRead[p] => m \in isRead'[p]
      /\ kinds'[Author[m]][m] = kinds[Author[m]][m]
  BY ConversationAssumption DEF PeerRowFollows, RowStays, RowAfter, OtherRowsStay
<1>6. ReceiptInv'
  <2>1. \A n \in Msgs : kinds'[Author[n]][n] = kinds[Author[n]][n]
    BY ConversationAssumption DEF OtherRowsStay
  <2>2. \A n \in Msgs, q \in Phones :
            /\ deliveries'[n][q] = deliveries[n][q] /\ receiptInfo'[n][q] = receiptInfo[n][q]
            /\ deliveries'[n][q] # "none" => kinds'[Author[n]][n] = "text"
    BY <1>1, <2>1 DEF ConversationInv, ReceiptInv, ReceiptsAreExpected
  <2> QED BY <1>5, <2>2, RowReceipts
<1>7. ReactionInv'
  <2>1. ReactionsFollow(p, m)
    <3>1. CASE RowStays(p, m)
      BY <3>1 DEF ReactionsFollow
    <3>2. CASE kinds[p][m] \in {"none", "text"} /\ RowAfter(p, m, body, changes'[p][m])
      BY <3>2 DEF ReactionsFollow, RowAfter
    <3> QED BY <3>1, <3>2 DEF PeerRowFollows
  <2> QED BY <1>1, <2>1, RowReactions
<1> QED BY <1>2, <1>3, <1>4, <1>6, <1>7 DEF ConversationInv

LEMMA ChangeKeeps ==
    ASSUME ConversationInv, NEW pkt \in post, pkt.type = "message_change", ReceiveChange(pkt),
           UNCHANGED controlOutbox
    PROVE  ConversationInv'
<1> DEFINE p == pkt.to
           m == pkt.id
           c == pkt.change
<1>1. /\ Told \subseteq Told' /\ Told' \subseteq Told
      /\ projected' \subseteq projected \cup {pkt} /\ projected' \subseteq post'
      /\ PacketsAreTyped' /\ Formal(pkt) /\ pkt \in Told
  BY Committed DEF ReceiveChange
<1>2. UNCHANGED <<group, receipts>>
  BY DEF ReceiveChange
<1>3. p \in Phones /\ m \in Msgs /\ p # Author[m] /\ Formed(c) /\ c.rev > 0 /\ c \in ChangeRows
  BY <1>1 DEF Formal, Formed
<1>4. kinds[Author[m]][m] # "none"
  BY <1>1, <1>3 DEF ConversationInv, TextInv, SentByItsAuthor
<1>5. bodies[p][m] \in Nat /\ (kinds[p][m] \in {"text", "deleted"} => Expected(m, p))
      /\ (Holds(Author[m], m) => Known(m, c))
      /\ (kinds[p][m] = "text" /\ kinds[Author[m]][m] = "text" => bodies[p][m] <= changes[Author[m]][m].rev)
  BY <1>1, <1>3 DEF ConversationInv, TextInv, AuthorKnowsChanges, ReceiptInv, ReceiptsAreExpected, Holds,
                    TablesAreTyped, RowsAreTyped
<1>6. pkt.to = p /\ pkt.id = m /\ pkt.change = c
  OBVIOUS
<1> HIDE DEF p, m, c
<1>7. CASE kinds[p][m] = "forgotten"
  <2>1. UNCHANGED <<kinds, bodies, changes, isRead, reactions, reactionVersions>>
    BY <1>6, <1>7 DEF ReceiveChange, texts, reacted
  <2>2. RowsAreTyped' /\ OtherRowsStay(p, m) /\ RowStays(p, m) /\ PeerRowFollows(p, m, 0)
    BY <2>1 DEF ConversationInv, TablesAreTyped, RowsAreTyped, OtherRowsStay, RowStays, PeerRowFollows
  <2> QED BY <1>1, <1>2, <1>3, <1>4, <1>6, <1>7, <2>1, <2>2, PeerRowKeeps
<1>8. CASE kinds[p][m] # "forgotten"
  <2>1. TakeChange(p, m, c)
    BY <1>6, <1>8 DEF ReceiveChange
  <2>2. /\ RowsAreTyped' /\ OtherRowsStay(p, m)
        /\ \/ /\ changes[p][m].act = "delete" \/ changes[p][m].rev >= c.rev
              /\ RowStays(p, m) /\ changes'[p][m] = changes[p][m]
           \/ /\ changes[p][m].act # "delete" /\ changes[p][m].rev < c.rev
              /\ changes'[p][m] = c /\ kinds[p][m] \in {"none", "text"}
              /\ kinds[p][m] = "none" => RowStays(p, m)
              /\ kinds[p][m] = "text" => RowAfter(p, m, bodies[p][m], c)
    BY <1>3, <1>8, <2>1, ChangeTaken
  <2>3. PeerRowFollows(p, m, bodies[p][m])
    BY <1>3, <1>5, <2>2 DEF PeerRowFollows
  <2>4. changes'[p][m].rev >= c.rev \/ changes'[p][m].act = "delete"
    BY <1>3, <2>2 DEF ChangeRows
  <2>5. kinds'[p][m] \in {"text", "deleted"} => Expected(m, p)
    BY <1>5, <2>2 DEF RowStays
  <2> QED BY <1>1, <1>2, <1>3, <1>4, <1>6, <2>2, <2>3, <2>4, <2>5, PeerRowKeeps
<1> QED BY <1>7, <1>8

LEMMA MessageKeeps ==
    ASSUME ConversationInv, NEW pkt \in post, pkt.type = "message", ReceiveMessage(pkt),
           UNCHANGED controlOutbox
    PROVE  ConversationInv'
<1> DEFINE p == pkt.to
           m == pkt.id
           body == pkt.body
           c == changes[p][m]
           ack == [type |-> "ack", from |-> p, to |-> pkt.from, id |-> m]
<1>1. Formal(pkt) /\ pkt \in Told
  BY DEF ConversationInv, PacketsAreTyped, Told
<1>2. Formal(ack)
  BY <1>1 DEF Formal
<1>3. /\ Told \subseteq Told' /\ Told' \subseteq Told \cup {ack}
      /\ projected' \subseteq projected \cup {pkt} /\ projected' \subseteq post'
      /\ PacketsAreTyped'
  BY <1>2, Committed DEF ReceiveMessage
<1>4. UNCHANGED <<group, changes, receipts>>
  BY DEF ReceiveMessage
<1>5. p \in Phones /\ m \in Msgs /\ p # Author[m] /\ body \in Nat
  BY <1>1 DEF Formal
<1>6. /\ kinds[Author[m]][m] # "none" /\ Expected(m, p)
      /\ kinds[Author[m]][m] = "text" => body <= changes[Author[m]][m].rev
  BY <1>1, <1>5 DEF ConversationInv, TextInv, SentByItsAuthor, AuthorKnowsChanges, ReceiptInv,
                    ReceiptsAreExpected, Holds
<1>7. pkt.to = p /\ pkt.id = m /\ pkt.body = body /\ c = changes[p][m]
      /\ ack.type = "ack" /\ ack.from = p /\ ack.id = m
  OBVIOUS
<1>8. RowsAreTyped /\ changes \in [Phones -> [Msgs -> ChangeRows]] /\ c \in ChangeRows
  BY <1>5 DEF ConversationInv, TablesAreTyped, RowsAreTyped
<1> HIDE DEF p, m, body, c, ack
<1>9. CASE kinds[p][m] # "none"
  <2>1. UNCHANGED <<kinds, bodies, changes, isRead, reactions, reactionVersions>>
    BY <1>4, <1>7, <1>9 DEF ReceiveMessage, reacted
  <2>2. RowsAreTyped' /\ OtherRowsStay(p, m) /\ RowStays(p, m) /\ PeerRowFollows(p, m, 0)
    BY <1>8, <2>1 DEF RowsAreTyped, OtherRowsStay, RowStays, PeerRowFollows
  <2>3. \A x \in Told' : x \in Told \/ (x.type = "ack" /\ kinds'[x.from][x.id] # "none")
    BY <1>3, <1>7, <1>9, <2>1
  <2> QED BY <1>3, <1>4, <1>5, <1>6, <1>7, <1>9, <2>1, <2>2, <2>3, PeerRowKeeps
<1>10. CASE kinds[p][m] = "none"
  <2>1. ShowMessage(p, m, "text", body, c)
    BY <1>7, <1>10 DEF ReceiveMessage
  <2>2. RowsAreTyped' /\ OtherRowsStay(p, m) /\ RowAfter(p, m, body, c)
    <3>1. PICK given \in [Phones -> [Msgs -> ChangeRows]] : given = changes
      BY <1>8
    <3> QED BY <1>4, <1>5, <1>8, <2>1, <3>1, MessageShown
  <2>3. changes'[p][m] = c /\ changes'[p][m] = changes[p][m]
    BY <1>4, <1>7
  <2>4. PeerRowFollows(p, m, body)
    BY <1>5, <1>6, <1>10, <2>2, <2>3 DEF PeerRowFollows
  <2>5. kinds'[p][m] \in {"text", "deleted"}
    BY <2>2 DEF RowAfter
  <2>6. \A x \in Told' : x \in Told \/ (x.type = "ack" /\ kinds'[x.from][x.id] # "none")
    BY <1>3, <1>7, <2>5
  <2> QED BY <1>3, <1>4, <1>5, <1>6, <1>7, <2>2, <2>4, <2>5, <2>6, PeerRowKeeps
<1> QED BY <1>9, <1>10
------------------------------------------------------------------------------
(* The operations that change a row                                          *)

LEMMA SendKeeps ==
    ASSUME ConversationInv, NEW m \in Msgs, Send(m)
    PROVE  ConversationInv'
<1> DEFINE p == Author[m]
           due == [q \in Phones |-> IF q \in roster[p] \ {p} THEN "due" ELSE "none"]
<1>1. /\ kinds[p][m] = "none"
      /\ kinds' = [kinds EXCEPT ![p][m] = "text"]
      /\ isRead' = [isRead EXCEPT ![p] = @ \cup {m}]
      /\ deliveries' = [deliveries EXCEPT ![m] = due]
      /\ receiptInfo' = [receiptInfo EXCEPT ![m] = deliveries'[m]]
      /\ UNCHANGED <<group, bodies, changes, reacted, controlOutbox, wires>>
  BY DEF Send
<1>2. p \in Phones /\ p = Author[m]
  BY ConversationAssumption
<1>3. /\ due \in [Phones -> Marks]
      /\ \A q \in Phones : due[q] \in {"due", "none"} /\ (due[q] # "none" <=> q \in roster[p] \ {p})
  BY DEF Marks
<1> HIDE DEF p, due
<1>4. Told' = Told /\ projected' = projected /\ post' = post
  BY <1>1 DEF Told, wires
<1>5. /\ RowsAreTyped /\ MarksAreTyped
      /\ UNCHANGED <<reactions, reactionVersions, wasOut>>
  BY <1>1 DEF ConversationInv, TablesAreTyped, reacted, group
<1>6. RowsAreTyped'
  BY <1>1, <1>2, <1>5 DEF RowsAreTyped
<1>7. /\ MarksAreTyped'
      /\ deliveries'[m] = due /\ receiptInfo'[m] = due
      /\ \A n \in Msgs : n # m => deliveries'[n] = deliveries[n] /\ receiptInfo'[n] = receiptInfo[n]
  <2>1. deliveries' \in [Msgs -> [Phones -> Marks]] /\ deliveries'[m] = due
        /\ \A n \in Msgs : n # m => deliveries'[n] = deliveries[n]
    BY <1>1, <1>3, <1>5 DEF MarksAreTyped
  <2> QED BY <1>1, <1>3, <1>5, <2>1 DEF MarksAreTyped
<1>8. TablesAreTyped'
  BY <1>1, <1>4, <1>6, <1>7 DEF ConversationInv, TablesAreTyped, MembersAreTyped, group
<1>9. PacketsAreTyped'
  BY <1>1, <1>4 DEF ConversationInv, PacketsAreTyped
<1>10. OtherRowsStay(p, m)
  BY <1>1, <1>2, <1>5 DEF RowsAreTyped, OtherRowsStay
<1>11. kinds'[p][m] = "text" /\ bodies'[p][m] = bodies[p][m] /\ changes'[p][m] = changes[p][m]
       /\ m \in isRead'[p] /\ reactions'[p][m] = reactions[p][m] /\ reactionVersions'[p][m] = reactionVersions[p][m]
  BY <1>1, <1>2, <1>5 DEF RowsAreTyped
<1>12. /\ \A q \in Phones : kinds[q][m] \in {"none", "forgotten"} /\ changes[q][m] = NoChange
       /\ bodies[p][m] = 0
       /\ \A pkt \in Told :
              /\ pkt.type \in {"message_change", "message", "reaction"} => pkt.id # m
              /\ pkt.type = "read_ids" => m \notin pkt.ids
  BY <1>1, <1>2 DEF ConversationInv, TextInv, SentByItsAuthor
<1>13. MembersInv'
  BY <1>1, <1>4, MembersFrame
<1>14. \A q \in Phones, n \in Msgs : q # p \/ n # m => kinds'[q][n] = kinds[q][n]
  BY <1>10 DEF OtherRowsStay
<1>15. \A q \in Phones, n \in Msgs : kinds'[q][n] = kinds[q][n] \/ (q = p /\ n = m /\ kinds'[q][n] = "text")
  BY <1>11, <1>14
<1>16. TextInv'
  <2>1. /\ SentByItsAuthor /\ RowsFollowChanges /\ AuthorKnowsChanges /\ SteadyAreTold /\ ProjectedIsKnown
        /\ UNCHANGED <<bodies, changes>>
    BY <1>1 DEF ConversationInv, TextInv
  <2>2. SentByItsAuthor'
    <3> SUFFICES ASSUME NEW n \in Msgs
                 PROVE  /\ \A q \in Phones : kinds'[q][n] = "none" => bodies[q][n] = 0
                        /\ kinds'[Author[n]][n] = "none" =>
                               /\ \A q \in Phones : kinds'[q][n] \in {"none", "forgotten"} /\ changes[q][n] = NoChange
                               /\ \A pkt \in Told :
                                      /\ pkt.type \in {"message_change", "message", "reaction"} => pkt.id # n
                                      /\ pkt.type = "read_ids" => n \notin pkt.ids
      BY <1>4, <2>1 DEF SentByItsAuthor
    <3>1. \A q \in Phones : kinds'[q][n] = "none" => bodies[q][n] = 0
      BY <1>15, <2>1 DEF SentByItsAuthor
    <3>2. CASE n = m
      BY <1>2, <1>11, <3>1, <3>2
    <3>3. CASE n # m
      <4>1. \A q \in Phones : kinds'[q][n] = kinds[q][n]
        BY <1>14, <3>3
      <4>2. Author[n] \in Phones
        BY ConversationAssumption
      <4> QED BY <2>1, <4>1, <4>2, <3>1 DEF SentByItsAuthor
    <3> QED BY <3>2, <3>3
  <2>3. NoChange.rev = 0 /\ NoChange.act = "none" /\ NoChange.body = 0
    BY DEF NoChange
  <2>4. RowsFollowChanges'
    <3>1. changes[p][m] = NoChange /\ bodies[p][m] = 0
      BY <1>2, <1>12
    <3> QED BY <1>15, <2>1, <2>3, <3>1 DEF RowsFollowChanges
  <2>5. AuthorKnowsChanges'
    <3>1. ASSUME NEW n \in Msgs, n # m, Holds(Author[n], n)'
          PROVE  /\ \A q \in Phones : Known(n, changes[q][n])
                 /\ \A pkt \in Told : pkt.type = "message_change" /\ pkt.id = n => Known(n, pkt.change)
                 /\ kinds'[Author[n]][n] = "text" =>
                        /\ \A pkt \in Told : pkt.type = "message" /\ pkt.id = n =>
                               pkt.body <= changes[Author[n]][n].rev
                        /\ \A q \in Phones : kinds'[q][n] = "text" => bodies[q][n] <= changes[Author[n]][n].rev
      <4>1. \A q \in Phones : kinds'[q][n] = kinds[q][n]
        BY <1>14, <3>1
      <4>2. Author[n] \in Phones
        BY ConversationAssumption
      <4> QED BY <2>1, <3>1, <4>1, <4>2 DEF AuthorKnowsChanges, Holds
    <3>2. /\ \A q \in Phones : Known(m, changes[q][m])
          /\ \A pkt \in Told : pkt.type = "message_change" => pkt.id # m
          /\ \A pkt \in Told : pkt.type = "message" => pkt.id # m
          /\ \A q \in Phones : kinds'[q][m] = "text" => bodies[q][m] <= changes[p][m].rev
      BY <1>2, <1>12, <1>14, <2>3 DEF Known
    <3> QED BY <1>2, <1>4, <2>1, <3>1, <3>2 DEF AuthorKnowsChanges, Known
  <2>6. SteadyAreTold'
    <3> SUFFICES ASSUME NEW n \in Msgs, NEW q \in Phones, TextFor(q, n)
                 PROVE  /\ kinds'[Author[n]][n] = "text" => deliveries'[n][q] # "none"
                        /\ Holds(Author[n], n)' /\ changes[Author[n]][n].rev > 0 => ChangeFor(q, n) \in Told
      <4>1. \A q \in Phones, n \in Msgs : (TextFor(q, n)' <=> TextFor(q, n)) /\ ChangeFor(q, n)' = ChangeFor(q, n)
        BY <1>5, <2>1 DEF TextFor, Steady, ChangeFor
      <4> QED BY <1>4, <2>1, <4>1 DEF SteadyAreTold, Holds
    <3>1. CASE n = m
      <4>1. q \in roster[p] \ {p}
        BY <1>2, <3>1 DEF TextFor, ConversationInv, MembersInv, SteadyAreMembers
      <4> QED BY <1>2, <1>3, <1>7, <1>12, <2>3, <3>1, <4>1
    <3>2. CASE n # m
      <4>1. kinds'[Author[n]][n] = kinds[Author[n]][n]
        BY <1>14, <3>2, ConversationAssumption
      <4> QED BY <1>7, <2>1, <3>2, <4>1 DEF SteadyAreTold, Holds
    <3> QED BY <3>1, <3>2
  <2>7. ProjectedIsKnown'
    <3>1. \A pkt \in projected : pkt.type \in {"message", "message_change"} => pkt.to \in Phones /\ pkt.id \in Msgs
      BY DEF ConversationInv, TablesAreTyped, PacketsAreTyped, Told, Formal
    <3>2. ASSUME NEW pkt \in projected
          PROVE  /\ pkt.type = "message" => kinds'[pkt.to][pkt.id] # "none"
                 /\ pkt.type = "message_change" =>
                        \/ kinds'[pkt.to][pkt.id] = "forgotten"
                        \/ changes[pkt.to][pkt.id].rev >= pkt.change.rev
                        \/ changes[pkt.to][pkt.id].act = "delete"
      <4>1. CASE pkt.type = "message"
        BY <1>15, <2>1, <3>1, <4>1 DEF ProjectedIsKnown
      <4>2. CASE pkt.type = "message_change"
        <5>1. pkt.id # m
          BY <1>12, <4>2, TypedGroupPackets
        <5>2. kinds'[pkt.to][pkt.id] = kinds[pkt.to][pkt.id]
          BY <1>14, <3>1, <4>2, <5>1
        <5> QED BY <2>1, <4>2, <5>2 DEF ProjectedIsKnown
      <4> QED BY <4>1, <4>2
    <3> QED BY <1>4, <2>1, <3>2 DEF ProjectedIsKnown
  <2> QED BY <2>2, <2>4, <2>5, <2>6, <2>7 DEF TextInv
<1>17. ReceiptInv'
  <2>1. ReceiptsSpeakTrue /\ ReceiptsAreExpected /\ \A n \in Msgs : Author[n] \in Phones
    BY ConversationAssumption DEF ConversationInv, ReceiptInv
  <2>2. \A q \in Phones, n \in Msgs :
            /\ kinds[q][n] # "none" => kinds'[q][n] # "none"
            /\ kinds[q][n] = "forgotten" => kinds'[q][n] = "forgotten"
            /\ n \in isRead[q] => n \in isRead'[q]
    <3>1. \A q \in Phones, n \in Msgs : n \in isRead[q] => n \in isRead'[q]
      BY <1>10, <1>11 DEF OtherRowsStay
    <3> QED BY <1>1, <1>15, <3>1
  <2>3. ReceiptsSpeakTrue'
    <3>1. ASSUME NEW n \in Msgs, NEW q \in Phones
          PROVE  TrueMark(n, q, deliveries[n][q])' /\ TrueMark(n, q, receiptInfo[n][q])'
      <4>1. CASE n = m
        BY <1>3, <1>7, <4>1 DEF TrueMark
      <4>2. CASE n # m
        BY <1>7, <2>1, <2>2, <4>2 DEF ReceiptsSpeakTrue, TrueMark
      <4> QED BY <4>1, <4>2
    <3>2. \A pkt \in Told : Formal(pkt)
      BY DEF ConversationInv, PacketsAreTyped
    <3>3. ASSUME NEW pkt \in Told, pkt.type = "ack"
          PROVE  TrueMark(pkt.id, pkt.from, "acked")'
      <4>1. pkt.from \in Phones /\ pkt.id \in Msgs
        BY <3>2, <3>3 DEF Formal
      <4> QED BY <2>1, <2>2, <3>3, <4>1 DEF ReceiptsSpeakTrue, TrueMark
    <3>4. ASSUME NEW pkt \in Told, pkt.type = "read_ids", NEW n \in pkt.ids
          PROVE  TrueMark(n, pkt.from, "read")'
      <4>1. pkt.from \in Phones /\ n \in Msgs
        BY <3>2, <3>4 DEF Formal
      <4> QED BY <2>1, <2>2, <3>4, <4>1 DEF ReceiptsSpeakTrue, TrueMark
    <3> QED BY <1>4, <3>1, <3>3, <3>4 DEF ReceiptsSpeakTrue
  <2>4. ReceiptsAreExpected'
    <3>1. ASSUME NEW n \in Msgs, NEW q \in Phones
          PROVE  /\ deliveries'[n][q] # "none" => /\ q # Author[n] /\ kinds'[Author[n]][n] = "text"
                                                  /\ receiptInfo'[n][q] # "none"
                 /\ q # Author[n] /\ Holds(q, n)' => Expected(n, q)'
      <4>1. CASE n = m
        BY <1>2, <1>3, <1>7, <1>11, <1>12, <1>14, <4>1 DEF Holds
      <4>2. CASE n # m
        BY <1>7, <1>14, <2>1, <4>2 DEF ReceiptsAreExpected, Holds, Expected
      <4> QED BY <4>1, <4>2
    <3>2. \A n \in Msgs, q \in Phones : n # m /\ Expected(n, q) => Expected(n, q)'
      BY <1>7, <2>1, <2>2 DEF Expected
    <3>3. ASSUME NEW pkt \in Told, pkt.type = "message"
          PROVE  Expected(pkt.id, pkt.to)'
      <4>1. pkt.id \in Msgs /\ pkt.to \in Phones /\ pkt.id # m /\ Expected(pkt.id, pkt.to)
        BY <1>12, <2>1, <3>3 DEF ConversationInv, PacketsAreTyped, Formal, ReceiptsAreExpected
      <4> QED BY <1>7, <2>1, <2>2, <4>1 DEF Expected
    <3>4. ASSUME NEW pkt \in Told, pkt.type = "read_ids", NEW n \in pkt.ids
          PROVE  Expected(n, pkt.from)'
      <4>1. n \in Msgs /\ pkt.from \in Phones /\ n # m /\ Expected(n, pkt.from)
        BY <1>12, <2>1, <3>4 DEF ConversationInv, PacketsAreTyped, Formal, ReceiptsAreExpected
      <4> QED BY <1>7, <2>1, <2>2, <4>1 DEF Expected
    <3> QED BY <1>4, <3>1, <3>3, <3>4 DEF ReceiptsAreExpected
  <2> QED BY <2>3, <2>4 DEF ReceiptInv
<1>18. ReactionInv'
  <2>1. ReactionsFollow(p, m)
    BY <1>1, <1>11 DEF ReactionsFollow
  <2> QED BY <1>2, <1>4, <1>5, <1>10, <2>1, RowReactions
<1> QED BY <1>8, <1>9, <1>13, <1>16, <1>17, <1>18 DEF ConversationInv

LEMMA DeleteLocalKeeps ==
    ASSUME ConversationInv, NEW p \in Phones, NEW m \in Msgs, DeleteLocal(p, m)
    PROVE  ConversationInv'
<1> DEFINE zero == [q \in Phones |-> 0]
<1>1. /\ kinds[p][m] \in {"text", "deleted"}
      /\ kinds' = [kinds EXCEPT ![p][m] = "forgotten"]
      /\ bodies' = [bodies EXCEPT ![p][m] = 0]
      /\ changes' = [changes EXCEPT ![p][m] = NoChange]
      /\ isRead' = [isRead EXCEPT ![p] = @ \ {m}]
      /\ reactions' = [reactions EXCEPT ![p][m] = {}]
      /\ reactionVersions' = [reactionVersions EXCEPT ![p][m] = zero]
      /\ controlOutbox' = [controlOutbox EXCEPT ![p] = {c \in @ : ~(c.type = "reaction" /\ c.id = m)}]
      /\ UNCHANGED <<group, projected>>
  BY DEF DeleteLocal
<1>2. \/ Author[m] # p /\ UNCHANGED <<receipts, post>>
      \/ /\ Author[m] = p
         /\ deliveries' = [deliveries EXCEPT ![m] = Nobody]
         /\ receiptInfo' = [receiptInfo EXCEPT ![m] = Nobody]
         /\ \E gone \in SUBSET Unsent(p, m) : post' = post \ gone
  BY DEF DeleteLocal
<1>3. zero \in [Phones -> Nat] /\ (\A q \in Phones : zero[q] = 0) /\ NoChange \in ChangeRows
  BY DEF ChangeRows, NoChange
<1> HIDE DEF zero
<1>4. RowsAreTyped /\ MarksAreTyped /\ PacketsAreTyped /\ projected \subseteq post
  BY DEF ConversationInv, TablesAreTyped
<1>5. RowsAreTyped'
  BY <1>1, <1>3, <1>4 DEF RowsAreTyped
<1>6. OtherRowsStay(p, m)
  BY <1>1, <1>4 DEF RowsAreTyped, OtherRowsStay
<1>7. /\ kinds'[p][m] = "forgotten" /\ changes'[p][m] = NoChange /\ reactions'[p][m] = {}
      /\ \A q \in Phones : reactionVersions'[p][m][q] = 0
  BY <1>1, <1>3, <1>4 DEF RowsAreTyped
<1>8. /\ projected' = projected /\ projected' \subseteq post' /\ post' \subseteq post
      /\ \A pkt \in post : pkt \in post' \/ (pkt.type = "message" /\ pkt.id = m /\ p = Author[m])
  BY <1>1, <1>2, <1>4 DEF Unsent
<1>9. /\ DOMAIN controlOutbox' = Phones
      /\ \A q \in Phones : controlOutbox'[q] = IF q = p
             THEN {c \in controlOutbox[p] : ~(c.type = "reaction" /\ c.id = m)} ELSE controlOutbox[q]
  BY <1>1, <1>4 DEF PacketsAreTyped
<1>10. /\ Told' \subseteq Told
       /\ \A pkt \in Told :
              \/ pkt \in Told'
              \/ pkt.type = "message" /\ pkt.id = m /\ p = Author[m]
              \/ pkt.type = "reaction" /\ pkt.from = p /\ pkt.id = m
  <2>1. \A pkt \in controlOutbox[p] : pkt.from = p
    BY <1>4 DEF PacketsAreTyped
  <2> QED BY <1>8, <1>9, <2>1 DEF Told
<1>11. PacketsAreTyped'
  BY <1>4, <1>9, <1>10 DEF PacketsAreTyped
<1>12. /\ MarksAreTyped'
       /\ \A n \in Msgs, q \in Phones :
              \/ deliveries'[n][q] = deliveries[n][q] /\ receiptInfo'[n][q] = receiptInfo[n][q]
              \/ n = m /\ Author[m] = p /\ deliveries'[n][q] = "none" /\ receiptInfo'[n][q] = "none"
  <2>1. Nobody \in [Phones -> Marks] /\ \A q \in Phones : Nobody[q] = "none"
    BY DEF Nobody, Marks
  <2>2. CASE UNCHANGED receipts
    BY <1>4, <2>2 DEF MarksAreTyped, receipts
  <2>3. CASE /\ Author[m] = p /\ deliveries' = [deliveries EXCEPT ![m] = Nobody]
             /\ receiptInfo' = [receiptInfo EXCEPT ![m] = Nobody]
    BY <1>4, <2>1, <2>3 DEF MarksAreTyped
  <2> QED BY <1>2, <2>2, <2>3
<1>13. TablesAreTyped'
  BY <1>1, <1>5, <1>8, <1>12 DEF ConversationInv, TablesAreTyped, MembersAreTyped, group
<1>14. MembersInv'
  BY <1>1, <1>8, <1>10, MembersFrame
<1>15. \A q \in Phones, n \in Msgs : q # p \/ n # m =>
           kinds'[q][n] = kinds[q][n] /\ bodies'[q][n] = bodies[q][n] /\ changes'[q][n] = changes[q][n]
  BY <1>6 DEF OtherRowsStay
<1>16. UNCHANGED wasOut
  BY <1>1 DEF group
<1>17. TextInv'
  <2>1. /\ SentByItsAuthor /\ RowsFollowChanges /\ AuthorKnowsChanges /\ SteadyAreTold /\ ProjectedIsKnown
        /\ \A n \in Msgs : Author[n] \in Phones
    BY ConversationAssumption DEF ConversationInv, TextInv
  <2>2. NoChange.rev = 0 /\ NoChange.act = "none" /\ NoChange.body = 0
    BY DEF NoChange
  <2>3. SentByItsAuthor'
    <3> SUFFICES ASSUME NEW n \in Msgs
                 PROVE  /\ \A q \in Phones : kinds'[q][n] = "none" => bodies'[q][n] = 0
                        /\ kinds'[Author[n]][n] = "none" =>
                               /\ \A q \in Phones :
                                      kinds'[q][n] \in {"none", "forgotten"} /\ changes'[q][n] = NoChange
                               /\ \A pkt \in Told' :
                                      /\ pkt.type \in {"message_change", "message", "reaction"} => pkt.id # n
                                      /\ pkt.type = "read_ids" => n \notin pkt.ids
      BY DEF SentByItsAuthor
    <3>1. \A q \in Phones : kinds'[q][n] = "none" => bodies'[q][n] = 0
      BY <1>7, <1>15, <2>1 DEF SentByItsAuthor
    <3>2. ASSUME kinds'[Author[n]][n] = "none"
          PROVE  kinds[Author[n]][n] = "none"
      BY <1>7, <1>15, <2>1, <3>2
    <3>3. ASSUME kinds'[Author[n]][n] = "none"
          PROVE  \A q \in Phones : kinds'[q][n] \in {"none", "forgotten"} /\ changes'[q][n] = NoChange
      <4>1. \A q \in Phones : kinds[q][n] \in {"none", "forgotten"} /\ changes[q][n] = NoChange
        BY <2>1, <3>2, <3>3 DEF SentByItsAuthor
      <4> QED BY <1>7, <1>15, <4>1
    <3> QED BY <1>10, <2>1, <3>1, <3>2, <3>3 DEF SentByItsAuthor
  <2>4. RowsFollowChanges'
    <3>1. Formed(NoChange)
      BY <1>3, <2>2 DEF Formed
    <3> QED BY <1>7, <1>15, <2>1, <3>1 DEF RowsFollowChanges
  <2>5. AuthorKnowsChanges'
    <3> SUFFICES ASSUME NEW n \in Msgs, Holds(Author[n], n)'
                 PROVE  /\ \A q \in Phones : Known(n, changes[q][n])'
                        /\ \A pkt \in Told' : pkt.type = "message_change" /\ pkt.id = n => Known(n, pkt.change)'
                        /\ kinds'[Author[n]][n] = "text" =>
                               /\ \A pkt \in Told' : pkt.type = "message" /\ pkt.id = n =>
                                      pkt.body <= changes'[Author[n]][n].rev
                               /\ \A q \in Phones : kinds'[q][n] = "text" =>
                                      bodies'[q][n] <= changes'[Author[n]][n].rev
      BY DEF AuthorKnowsChanges, Known
    <3>1. Author[n] # p \/ n # m
      BY <1>7 DEF Holds
    <3>2. kinds'[Author[n]][n] = kinds[Author[n]][n] /\ changes'[Author[n]][n] = changes[Author[n]][n]
          /\ Holds(Author[n], n)
      BY <1>15, <2>1, <3>1 DEF Holds
    <3>3. Formed(changes[Author[n]][n])
      BY <2>1 DEF RowsFollowChanges
    <3>4. Known(n, NoChange)
      <4>1. changes[Author[n]][n].rev = 0 => changes[Author[n]][n] = NoChange
        BY <3>3 DEF Formed, ChangeRows, NoChange
      <4>2. changes[Author[n]][n].rev >= 0
        BY <3>3 DEF Formed, ChangeRows
      <4> QED BY <2>2, <4>1, <4>2 DEF Known
    <3>5. \A q \in Phones : changes'[q][n] \in {changes[q][n], NoChange}
      BY <1>7, <1>15
    <3>6. \A q \in Phones : kinds'[q][n] = "text" => kinds[q][n] = "text" /\ bodies'[q][n] = bodies[q][n]
      BY <1>7, <1>15
    <3> QED BY <1>10, <2>1, <3>2, <3>4, <3>5, <3>6 DEF AuthorKnowsChanges, Known
  <2>6. SteadyAreTold'
    <3> SUFFICES ASSUME NEW n \in Msgs, NEW q \in Phones, TextFor(q, n)
                 PROVE  /\ kinds'[Author[n]][n] = "text" => deliveries'[n][q] # "none"
                        /\ Holds(Author[n], n)' /\ changes'[Author[n]][n].rev > 0 => ChangeFor(q, n)' \in Told'
      <4>1. \A n \in Msgs, q \in Phones : TextFor(q, n)' <=> TextFor(q, n)
        BY <1>16 DEF TextFor, Steady
      <4> QED BY <4>1 DEF SteadyAreTold, Holds
    <3>1. CASE Author[n] = p /\ n = m
      BY <1>7, <3>1 DEF Holds
    <3>2. CASE ~(Author[n] = p /\ n = m)
      <4>1. kinds'[Author[n]][n] = kinds[Author[n]][n] /\ changes'[Author[n]][n] = changes[Author[n]][n]
        BY <1>15, <2>1, <3>2
      <4>2. ChangeFor(q, n)' = ChangeFor(q, n) /\ ChangeFor(q, n).type = "message_change"
        BY <4>1 DEF ChangeFor
      <4> QED BY <1>10, <1>12, <2>1, <3>2, <4>1, <4>2 DEF SteadyAreTold, Holds
    <3> QED BY <3>1, <3>2
  <2>7. ProjectedIsKnown'
    <3>1. \A pkt \in projected : pkt.type \in {"message", "message_change"} => pkt.to \in Phones /\ pkt.id \in Msgs
      BY DEF ConversationInv, TablesAreTyped, PacketsAreTyped, Told, Formal
    <3>2. ASSUME NEW pkt \in projected
          PROVE  /\ pkt.type = "message" => kinds'[pkt.to][pkt.id] # "none"
                 /\ pkt.type = "message_change" =>
                        \/ kinds'[pkt.to][pkt.id] = "forgotten"
                        \/ changes'[pkt.to][pkt.id].rev >= pkt.change.rev
                        \/ changes'[pkt.to][pkt.id].act = "delete"
      <4>1. CASE pkt.to = p /\ pkt.id = m
        BY <1>7, <4>1
      <4>2. CASE ~(pkt.to = p /\ pkt.id = m)
        BY <1>15, <2>1, <3>1, <4>2 DEF ProjectedIsKnown
      <4> QED BY <4>1, <4>2
    <3> QED BY <1>8, <3>2 DEF ProjectedIsKnown
  <2> QED BY <2>3, <2>4, <2>5, <2>6, <2>7 DEF TextInv
<1>18. ReceiptInv'
  <2>1. \A n \in Msgs, q \in Phones :
            /\ deliveries'[n][q] \in {deliveries[n][q], "none"}
            /\ receiptInfo'[n][q] \in {receiptInfo[n][q], "none"}
            /\ deliveries'[n][q] # "none" =>
                   kinds'[Author[n]][n] = "text" /\ receiptInfo'[n][q] = receiptInfo[n][q]
            /\ receiptInfo'[n][q] # receiptInfo[n][q] => kinds'[Author[n]][n] = "forgotten"
    <3> SUFFICES ASSUME NEW n \in Msgs, NEW q \in Phones
                 PROVE  /\ deliveries'[n][q] \in {deliveries[n][q], "none"}
                        /\ receiptInfo'[n][q] \in {receiptInfo[n][q], "none"}
                        /\ deliveries'[n][q] # "none" =>
                               kinds'[Author[n]][n] = "text" /\ receiptInfo'[n][q] = receiptInfo[n][q]
                        /\ receiptInfo'[n][q] # receiptInfo[n][q] => kinds'[Author[n]][n] = "forgotten"
      OBVIOUS
    <3>1. CASE n = m /\ Author[m] = p
      <4>1. deliveries'[n][q] = "none" /\ receiptInfo'[n][q] = "none"
        <5>1. Nobody[q] = "none"
          BY DEF Nobody
        <5> QED BY <1>2, <1>4, <3>1, <5>1 DEF MarksAreTyped
      <4> QED BY <1>7, <3>1, <4>1
    <3>2. CASE ~(n = m /\ Author[m] = p)
      <4>1. deliveries'[n][q] = deliveries[n][q] /\ receiptInfo'[n][q] = receiptInfo[n][q]
        BY <1>12, <3>2
      <4>2. kinds'[Author[n]][n] = kinds[Author[n]][n]
        BY <1>15, <3>2, ConversationAssumption
      <4> QED BY <4>1, <4>2 DEF ConversationInv, ReceiptInv, ReceiptsAreExpected
    <3> QED BY <3>1, <3>2
  <2> QED BY <1>1, <1>6, <1>7, <1>10, <1>11, <2>1, RowReceipts
<1>19. ReactionInv'
  <2>1. ReactionsFollow(p, m)
    BY <1>7 DEF ReactionsFollow
  <2> QED BY <1>6, <1>7, <1>8, <1>10, <1>16, <2>1, RowReactions
<1> QED BY <1>11, <1>13, <1>14, <1>17, <1>18, <1>19 DEF ConversationInv

LEMMA ChangeOwnKeeps ==
    ASSUME ConversationInv, NEW m \in Msgs, NEW act \in {"edit", "delete"}, ChangeOwn(m, act)
    PROVE  ConversationInv'
<1> DEFINE p == Author[m]
           c == [rev |-> changes[p][m].rev + 1, act |-> act,
                 body |-> IF act = "edit" THEN bodies[p][m] + 1 ELSE 0]
           to == {q \in Phones : deliveries[m][q] # "none" /\ (act = "edit" => q \in roster[p])}
           packets == {[type |-> "message_change", from |-> p, to |-> q, id |-> m, change |-> c] : q \in to}
<1>1. /\ kinds[p][m] = "text"
      /\ TakeChange(p, m, c)
      /\ Stage(p, packets)
      /\ UNCHANGED <<group, receiptInfo, projected>>
      /\ \/ act = "edit" /\ UNCHANGED <<deliveries, post>>
         \/ /\ act = "delete" /\ deliveries' = [deliveries EXCEPT ![m] = Nobody]
            /\ \E gone \in SUBSET Unsent(p, m) : post' = post \ gone
  BY DEF ChangeOwn, wires
<1>2. p \in Phones /\ p = Author[m]
  BY ConversationAssumption
<1>3. /\ SentByItsAuthor /\ RowsFollowChanges /\ AuthorKnowsChanges /\ SteadyAreTold /\ ProjectedIsKnown
      /\ RowsAreTyped /\ MarksAreTyped /\ PacketsAreTyped /\ projected \subseteq post
      /\ \A n \in Msgs : Author[n] \in Phones
  BY ConversationAssumption DEF ConversationInv, TextInv, TablesAreTyped
<1>4. /\ changes[p][m] \in ChangeRows /\ changes[p][m].rev \in Nat /\ changes[p][m].act # "delete"
      /\ bodies[p][m] = changes[p][m].rev
  BY <1>1, <1>2, <1>3 DEF RowsFollowChanges, RowsAreTyped, ChangeRows
<1>5. /\ c.rev = changes[p][m].rev + 1 /\ c.act = act /\ Formed(c) /\ c.rev > 0 /\ c.rev \in Nat
      /\ act = "edit" => c.body = c.rev
  BY <1>4 DEF Formed, ChangeRows
<1>6. \A q \in to : q \in Phones /\ q # p /\ deliveries[m][q] # "none"
  BY <1>2 DEF ConversationInv, ReceiptInv, ReceiptsAreExpected
<1> DEFINE packet(q) == [type |-> "message_change", from |-> p, to |-> q, id |-> m, change |-> c]
<1>7. /\ \A pkt \in packets : \E q \in to : pkt = packet(q)
      /\ \A q \in to : packet(q) \in packets
      /\ \A q : deliveries[m][q] # "none" /\ q \in Phones /\ q \in roster[p] => q \in to
  OBVIOUS
<1> HIDE DEF packets, to
<1>8. \A q : /\ packet(q).type = "message_change" /\ packet(q).from = p /\ packet(q).to = q
             /\ packet(q).id = m /\ packet(q).change = c
  OBVIOUS
<1> HIDE DEF c, packet
<1>9. \A pkt \in packets : /\ pkt.type = "message_change" /\ pkt.from = p /\ pkt.id = m /\ pkt.change = c
                           /\ Formal(pkt)
  BY <1>2, <1>5, <1>6, <1>7, <1>8 DEF Formal
<1>10. /\ projected' = projected /\ projected' \subseteq post' /\ post' \subseteq post
       /\ \A pkt \in post \ post' : pkt.type = "message" /\ pkt.id = m /\ act = "delete"
  BY <1>1, <1>3 DEF Unsent
<1>11. /\ \A pkt \in Told' : pkt \in packets \/ pkt \in Told
       /\ packets \subseteq Told'
       /\ \A pkt \in Told : pkt \in Told' \/ (pkt.type = "message" /\ pkt.id = m)
       /\ DOMAIN controlOutbox' = Phones
       /\ \A q \in Phones : controlOutbox'[q] = IF q = p THEN controlOutbox[p] \cup packets ELSE controlOutbox[q]
  BY <1>1, <1>2, <1>3, <1>10, StageTells DEF Told
<1>12. /\ RowsAreTyped' /\ OtherRowsStay(p, m)
       /\ changes'[p][m] = c /\ RowAfter(p, m, bodies[p][m], c)
  BY <1>1, <1>2, <1>4, <1>5, ChangeTaken
<1>13. \A n \in Msgs, q \in Phones :
           \/ deliveries'[n][q] = deliveries[n][q] /\ (n = m => act = "edit")
           \/ n # m /\ deliveries'[n][q] = deliveries[n][q]
           \/ n = m /\ act = "delete" /\ deliveries'[n][q] = "none"
  <2>1. \A q \in Phones : Nobody[q] = "none"
    BY DEF Nobody
  <2> QED BY <1>1, <1>3, <2>1 DEF MarksAreTyped
<1>14. MarksAreTyped'
  <2>1. Nobody \in [Phones -> Marks]
    BY DEF Nobody, Marks
  <2> QED BY <1>1, <1>3, <2>1 DEF MarksAreTyped
<1>15. TablesAreTyped'
  BY <1>1, <1>10, <1>12, <1>14 DEF ConversationInv, TablesAreTyped, MembersAreTyped, group
<1>16. PacketsAreTyped'
  BY <1>3, <1>9, <1>11 DEF PacketsAreTyped
<1>17. MembersInv'
  BY <1>1, <1>9, <1>10, <1>11, MembersFrame
<1>18. UNCHANGED wasOut
  BY <1>1 DEF group
<1>19. \A q \in Phones, n \in Msgs : q # p \/ n # m =>
           kinds'[q][n] = kinds[q][n] /\ bodies'[q][n] = bodies[q][n] /\ changes'[q][n] = changes[q][n]
  BY <1>12 DEF OtherRowsStay
<1>20. /\ kinds'[p][m] = IF act = "delete" THEN "deleted" ELSE "text"
       /\ bodies'[p][m] = IF act = "delete" THEN 0 ELSE c.rev
  BY <1>5, <1>12 DEF RowAfter
<1>21. TextInv'
  <2>1. SentByItsAuthor'
    <3> SUFFICES ASSUME NEW n \in Msgs
                 PROVE  /\ \A q \in Phones : kinds'[q][n] = "none" => bodies'[q][n] = 0
                        /\ kinds'[Author[n]][n] = "none" =>
                               /\ \A q \in Phones :
                                      kinds'[q][n] \in {"none", "forgotten"} /\ changes'[q][n] = NoChange
                               /\ \A pkt \in Told' :
                                      /\ pkt.type \in {"message_change", "message", "reaction"} => pkt.id # n
                                      /\ pkt.type = "read_ids" => n \notin pkt.ids
      BY DEF SentByItsAuthor
    <3>1. \A q \in Phones : kinds'[q][n] = "none" => bodies'[q][n] = 0
      BY <1>3, <1>19, <1>20 DEF SentByItsAuthor
    <3>2. CASE n = m
      BY <1>2, <1>20, <3>1, <3>2
    <3>3. CASE n # m
      <4>1. \A q \in Phones : kinds'[q][n] = kinds[q][n] /\ changes'[q][n] = changes[q][n]
        BY <1>19, <3>3
      <4> QED BY <1>3, <1>9, <1>11, <3>1, <3>3, <4>1 DEF SentByItsAuthor
    <3> QED BY <3>2, <3>3
  <2>2. RowsFollowChanges'
    <3>1. /\ Formed(changes'[p][m])
          /\ kinds'[p][m] = "deleted" => changes'[p][m].act = "delete" /\ bodies'[p][m] = 0
          /\ kinds'[p][m] = "text" =>
                 /\ changes'[p][m].act # "delete"
                 /\ changes'[p][m].act = "edit" => bodies'[p][m] = changes'[p][m].body
          /\ kinds'[p][m] = "text" /\ Author[m] = p => bodies'[p][m] = changes'[p][m].rev
      BY <1>5, <1>12, <1>20
    <3> QED BY <1>3, <1>19, <3>1 DEF RowsFollowChanges
  <2>3. AuthorKnowsChanges'
    <3>1. ASSUME NEW n \in Msgs, n # m, Holds(Author[n], n)'
          PROVE  /\ \A q \in Phones : Known(n, changes[q][n])'
                 /\ \A pkt \in Told' : pkt.type = "message_change" /\ pkt.id = n => Known(n, pkt.change)'
                 /\ kinds'[Author[n]][n] = "text" =>
                        /\ \A pkt \in Told' : pkt.type = "message" /\ pkt.id = n =>
                               pkt.body <= changes'[Author[n]][n].rev
                        /\ \A q \in Phones : kinds'[q][n] = "text" =>
                               bodies'[q][n] <= changes'[Author[n]][n].rev
      <4>1. \A q \in Phones : /\ kinds'[q][n] = kinds[q][n] /\ changes'[q][n] = changes[q][n]
                              /\ bodies'[q][n] = bodies[q][n]
        BY <1>19, <3>1
      <4>2. \A pkt \in Told' : pkt.type \in {"message", "message_change"} /\ pkt.id = n => pkt \in Told
        BY <1>9, <1>11, <3>1
      <4>3. Author[n] \in Phones
        BY <1>3
      <4> QED BY <1>3, <3>1, <4>1, <4>2, <4>3 DEF AuthorKnowsChanges, Known, Holds
    <3>2. /\ \A q \in Phones : Known(m, changes[q][m])
          /\ \A pkt \in Told : pkt.type = "message_change" /\ pkt.id = m => Known(m, pkt.change)
          /\ \A pkt \in Told : pkt.type = "message" /\ pkt.id = m => pkt.body <= changes[p][m].rev
          /\ \A q \in Phones : kinds[q][m] = "text" => bodies[q][m] <= changes[p][m].rev
      BY <1>1, <1>2, <1>3 DEF AuthorKnowsChanges, Holds
    <3> DEFINE fits(d) == d.rev <= c.rev /\ (d.rev = c.rev => d = c) /\ (d.act = "delete" => d.rev = c.rev)
    <3>3. ASSUME NEW d \in ChangeRows, Known(m, d)
          PROVE  fits(d)
      <4>1. d.rev \in Nat /\ d.rev <= changes[p][m].rev /\ d.act # "delete"
        BY <1>2, <1>4, <3>3 DEF Known, ChangeRows
      <4> QED BY <1>4, <1>5, <4>1
    <3>4. fits(c)
      BY <1>5
    <3>5. \A q \in Phones : fits(changes'[q][m])
      <4>1. ASSUME NEW q \in Phones, q # p
            PROVE  fits(changes'[q][m])
        <5>1. Known(m, changes[q][m]) /\ changes[q][m] \in ChangeRows /\ changes'[q][m] = changes[q][m]
          BY <1>3, <1>19, <3>2, <4>1 DEF RowsAreTyped
        <5> QED BY <3>3, <5>1
      <4> QED BY <1>12, <3>4, <4>1
    <3>6. \A pkt \in Told' : pkt.type = "message_change" /\ pkt.id = m => fits(pkt.change)
      <4>1. \A pkt \in Told : pkt.type = "message_change" => pkt.change \in ChangeRows
        BY <1>3 DEF PacketsAreTyped, Formal, Formed
      <4>2. ASSUME NEW pkt \in Told, pkt.type = "message_change", pkt.id = m
            PROVE  fits(pkt.change)
        BY <3>2, <3>3, <4>1, <4>2
      <4>3. ASSUME NEW pkt \in packets
            PROVE  fits(pkt.change)
        BY <1>9, <3>4
      <4> QED BY <1>11, <4>2, <4>3
    <3>7. ASSUME NEW pkt \in Told', pkt.type = "message", pkt.id = m
          PROVE  pkt.body <= c.rev
      <4>1. pkt \in Told /\ pkt.body \in Nat
        BY <1>3, <1>9, <1>11, <3>7 DEF PacketsAreTyped, Formal
      <4>2. pkt.body <= changes[p][m].rev
        BY <3>2, <3>7, <4>1
      <4> QED BY <1>4, <1>5, <4>1, <4>2
    <3>8. ASSUME NEW q \in Phones, kinds'[q][m] = "text"
          PROVE  bodies'[q][m] <= c.rev
      <4>1. CASE q = p
        BY <1>5, <1>20, <3>8, <4>1
      <4>2. CASE q # p
        <5>1. bodies'[q][m] = bodies[q][m] /\ bodies[q][m] <= changes[p][m].rev /\ bodies[q][m] \in Nat
          BY <1>3, <1>19, <3>2, <3>8, <4>2 DEF RowsAreTyped
        <5> QED BY <1>4, <1>5, <5>1
      <4> QED BY <4>1, <4>2
    <3> QED BY <1>2, <1>12, <3>1, <3>5, <3>6, <3>7, <3>8 DEF AuthorKnowsChanges, Known
  <2>4. SteadyAreTold'
    <3> SUFFICES ASSUME NEW n \in Msgs, NEW q \in Phones, TextFor(q, n)
                 PROVE  /\ kinds'[Author[n]][n] = "text" => deliveries'[n][q] # "none"
                        /\ Holds(Author[n], n)' /\ changes'[Author[n]][n].rev > 0 => ChangeFor(q, n)' \in Told'
      <4>1. \A n \in Msgs, q \in Phones : TextFor(q, n)' <=> TextFor(q, n)
        BY <1>18 DEF TextFor, Steady
      <4> QED BY <4>1 DEF SteadyAreTold, Holds
    <3>1. CASE n = m
      <4>1. deliveries[m][q] # "none"
        BY <1>1, <1>2, <1>3, <3>1 DEF SteadyAreTold
      <4>2. q \in roster[p]
        BY <1>2, <3>1 DEF TextFor, Steady, ConversationInv, MembersInv, SteadyAreMembers
      <4>3. ChangeFor(q, m)' = packet(q)
        BY <1>2, <1>12 DEF ChangeFor, packet
      <4>4. packet(q) \in Told'
        BY <1>7, <1>11, <4>1, <4>2
      <4>5. kinds'[p][m] = "text" => deliveries'[m][q] # "none"
        BY <1>13, <1>20, <4>1
      <4> QED BY <1>2, <3>1, <4>3, <4>4, <4>5
    <3>2. CASE n # m
      <4>1. kinds'[Author[n]][n] = kinds[Author[n]][n] /\ changes'[Author[n]][n] = changes[Author[n]][n]
        BY <1>3, <1>19, <3>2
      <4>2. ChangeFor(q, n)' = ChangeFor(q, n) /\ ChangeFor(q, n).type = "message_change"
        BY <4>1 DEF ChangeFor
      <4> QED BY <1>3, <1>11, <1>13, <3>2, <4>1, <4>2 DEF SteadyAreTold, Holds
    <3> QED BY <3>1, <3>2
  <2>5. ProjectedIsKnown'
    <3>1. \A pkt \in projected : pkt.type \in {"message", "message_change"} =>
              pkt.to \in Phones /\ pkt.id \in Msgs /\ pkt.to # Author[pkt.id]
      BY DEF ConversationInv, TablesAreTyped, PacketsAreTyped, Told, Formal
    <3>2. ASSUME NEW pkt \in projected
          PROVE  /\ pkt.type = "message" => kinds'[pkt.to][pkt.id] # "none"
                 /\ pkt.type = "message_change" =>
                        \/ kinds'[pkt.to][pkt.id] = "forgotten"
                        \/ changes'[pkt.to][pkt.id].rev >= pkt.change.rev
                        \/ changes'[pkt.to][pkt.id].act = "delete"
      <4>1. pkt.type \in {"message", "message_change"} => ~(pkt.to = p /\ pkt.id = m)
        BY <1>2, <3>1
      <4> QED BY <1>3, <1>19, <3>1, <4>1 DEF ProjectedIsKnown
    <3> QED BY <1>10, <3>2 DEF ProjectedIsKnown
  <2> QED BY <2>1, <2>2, <2>3, <2>4, <2>5 DEF TextInv
<1>22. ReceiptInv'
  <2>1. \A n \in Msgs, q \in Phones :
            /\ deliveries'[n][q] \in {deliveries[n][q], "none"}
            /\ receiptInfo'[n][q] = receiptInfo[n][q]
            /\ deliveries'[n][q] # "none" => kinds'[Author[n]][n] = "text"
    <3> SUFFICES ASSUME NEW n \in Msgs, NEW q \in Phones
                 PROVE  /\ deliveries'[n][q] \in {deliveries[n][q], "none"}
                        /\ receiptInfo'[n][q] = receiptInfo[n][q]
                        /\ deliveries'[n][q] # "none" => kinds'[Author[n]][n] = "text"
      OBVIOUS
    <3>1. receiptInfo'[n][q] = receiptInfo[n][q] /\ deliveries'[n][q] \in {deliveries[n][q], "none"}
      BY <1>1, <1>13
    <3>2. CASE n = m
      BY <1>2, <1>13, <1>20, <3>1, <3>2
    <3>3. CASE n # m
      <4>1. kinds'[Author[n]][n] = kinds[Author[n]][n]
        BY <1>3, <1>19, <3>3
      <4> QED BY <1>13, <3>1, <3>3, <4>1 DEF ConversationInv, ReceiptInv, ReceiptsAreExpected
    <3> QED BY <3>2, <3>3
  <2>2. m \in isRead[p] => m \in isRead'[p]
    BY <1>12 DEF RowAfter
  <2>3. \A pkt \in Told' : pkt.type # "message_change" => pkt \in Told
    BY <1>9, <1>11
  <2> QED BY <1>1, <1>2, <1>12, <1>16, <1>20, <2>1, <2>2, <2>3, RowReceipts
<1>23. ReactionInv'
  <2>1. ReactionsFollow(p, m)
    BY <1>1, <1>5, <1>12 DEF ReactionsFollow, RowAfter
  <2> QED BY <1>2, <1>9, <1>10, <1>11, <1>12, <1>18, <2>1, RowReactions
<1> QED BY <1>15, <1>16, <1>17, <1>21, <1>22, <1>23 DEF ConversationInv
------------------------------------------------------------------------------
(* The conversation                                                          *)

\* What a group starts with, whoever has forgotten messages.
LEMMA ConversationStarts ==
    ASSUME NEW first \in SUBSET Phones, NEW gone \in SUBSET Msgs, NEW used, ConversationStart(first, gone, used)
    PROVE  ConversationInv
<1>1. /\ Owner \in first
      /\ roster = [p \in Phones |-> IF p \in first THEN first ELSE {}]
      /\ groupRev = [p \in Phones |-> IF p \in first THEN 1 ELSE 0]
      /\ groupDeliveries = [q \in Phones |-> IF q \in first \ {Owner} THEN 1 ELSE -1]
      /\ wasOut = Phones \ first
      /\ leftGroup = {} /\ profileRev = [p \in Phones |-> 0]
      /\ kinds = [p \in Phones |-> [m \in Msgs |->
             IF m \in gone /\ p \in first THEN "forgotten" ELSE "none"]]
      /\ bodies = [p \in Phones |-> [m \in Msgs |-> 0]]
      /\ changes = [p \in Phones |-> [m \in Msgs |-> NoChange]]
      /\ isRead = [p \in Phones |-> {}]
      /\ deliveries = [m \in Msgs |-> Nobody] /\ receiptInfo = [m \in Msgs |-> Nobody]
      /\ reactions = [p \in Phones |-> [m \in Msgs |-> {}]]
      /\ reactionVersions = [p \in Phones |-> [m \in Msgs |-> [q \in Phones |-> 0]]]
      /\ controlOutbox = [p \in Phones |-> {}]
      /\ post = {} /\ projected = {}
  BY DEF ConversationStart
<1>2. Told = {} /\ Owner \in Phones /\ \A m \in Msgs : Author[m] \in Phones
  BY <1>1, ConversationAssumption DEF Told
<1>3. NoChange \in ChangeRows /\ Formed(NoChange) /\ NoChange.act = "none" /\ NoChange.rev = 0
  BY DEF NoChange, ChangeRows, Formed
<1>4. TablesAreTyped
  <2>1. RowsAreTyped
    <3>1. /\ kinds \in [Phones -> [Msgs -> {"none", "text", "deleted", "forgotten"}]]
          /\ bodies \in [Phones -> [Msgs -> Nat]] /\ isRead \in [Phones -> SUBSET Msgs]
      BY <1>1
    <3>2. changes \in [Phones -> [Msgs -> ChangeRows]]
      BY <1>1, <1>3
    <3>3. reactions \in [Phones -> [Msgs -> SUBSET Phones]]
      BY <1>1
    <3>4. reactionVersions \in [Phones -> [Msgs -> [Phones -> Nat]]]
      BY <1>1
    <3> QED BY <3>1, <3>2, <3>3, <3>4 DEF RowsAreTyped
  <2>2. MembersAreTyped
    BY <1>1 DEF MembersAreTyped
  <2>3. MarksAreTyped
    BY <1>1 DEF MarksAreTyped, Nobody, Marks
  <2> QED BY <1>1, <2>1, <2>2, <2>3 DEF TablesAreTyped
<1>5. PacketsAreTyped
  BY <1>1, <1>2 DEF PacketsAreTyped
<1>6. \A p \in Phones, m \in Msgs :
          /\ kinds[p][m] \in {"none", "forgotten"} /\ bodies[p][m] = 0 /\ changes[p][m] = NoChange
          /\ deliveries[m][p] = "none" /\ receiptInfo[m][p] = "none"
          /\ reactions[p][m] = {} /\ \A q \in Phones : reactionVersions[p][m][q] = 0
  BY <1>1 DEF Nobody
<1>7. TextInv
  BY <1>1, <1>2, <1>3, <1>6 DEF TextInv, SentByItsAuthor, RowsFollowChanges, AuthorKnowsChanges, SteadyAreTold,
                                ProjectedIsKnown, Holds
<1>8. MembersInv
  <2>1. OwnerLeads /\ OneSetOfMembers
    BY <1>1, <1>2 DEF OwnerLeads, OneSetOfMembers
  <2>2. SteadyAreMembers
    BY <1>1, <1>2 DEF SteadyAreMembers, Steady
  <2>3. RevisionsArrive
    BY <1>1, <1>2 DEF RevisionsArrive
  <2> QED BY <2>1, <2>2, <2>3 DEF MembersInv
<1>9. ReceiptInv
  BY <1>2, <1>6 DEF ReceiptInv, ReceiptsSpeakTrue, ReceiptsAreExpected, TrueMark, Holds
<1>10. ReactionInv
  BY <1>1, <1>2, <1>6 DEF ReactionInv, ReactionsAreNumbered, OwnReactionLeads, ReactionsArrive
<1> QED BY <1>4, <1>5, <1>7, <1>8, <1>9, <1>10 DEF ConversationInv

LEMMA ConversationStep ==
    ConversationInv /\ [ConversationNext]_conversationVars => ConversationInv'
<1> SUFFICES ASSUME ConversationInv, [ConversationNext]_conversationVars
             PROVE  ConversationInv'
  OBVIOUS
<1>1. CASE UserOperates
  <2>1. ASSUME NEW m \in Msgs, Send(m) \/ ChangeOwn(m, "edit") \/ ChangeOwn(m, "delete")
        PROVE  ConversationInv'
    BY <2>1, SendKeeps, ChangeOwnKeeps
  <2>2. ASSUME NEW p \in Phones, MarkRead(p) \/ LeaveGroup(p)
        PROVE  ConversationInv'
    BY <2>2, MarkReadKeeps, LeaveGroupKeeps
  <2>3. ASSUME NEW p \in Phones, NEW m \in Msgs, DeleteLocal(p, m) \/ React(p, m)
        PROVE  ConversationInv'
    BY <2>3, DeleteLocalKeeps, ReactKeeps
  <2>4. ASSUME NEW next \in NextMembers, EditGroup(next)
        PROVE  ConversationInv'
    BY <2>4, EditGroupKeeps
  <2> QED BY <1>1, <2>1, <2>2, <2>3, <2>4 DEF UserOperates
<1>2. ASSUME NEW p \in Phones, Flush(p)
      PROVE  ConversationInv'
  BY <1>2, FlushKeeps
<1>3. ASSUME NEW pkt \in post \ projected, Receive(pkt)
      PROVE  ConversationInv'
  <2>1. UNCHANGED controlOutbox /\ pkt \in post
    BY <1>3 DEF Receive
  <2>2. \/ pkt.type = "message_change" /\ ReceiveChange(pkt)
        \/ pkt.type = "message" /\ ReceiveMessage(pkt)
        \/ pkt.type = "ack" /\ ReceiveAck(pkt)
        \/ pkt.type = "read_ids" /\ ReceiveRead(pkt)
        \/ pkt.type = "reaction" /\ ReceiveReaction(pkt)
        \/ pkt.type = "group" /\ ReceiveGroup(pkt)
        \/ pkt.type = "group_ack" /\ ReceiveGroupAck(pkt)
        \/ pkt.type = "group_leave" /\ ReceiveLeave(pkt)
        \/ pkt.type = "group_profile" /\ ReceiveProfile(pkt)
    BY <1>3 DEF Receive
  <2> QED BY <2>1, <2>2, ChangeKeeps, MessageKeeps, AckKeeps, ReadKeeps, ReactionKeeps, GroupKeeps, GroupAckKeeps,
             LeaveKeeps, ProfileKeeps
<1>4. CASE UNCHANGED conversationVars
  <2>1. /\ UNCHANGED <<group, texts, receipts, reacted, wires, controlOutbox>>
        /\ UNCHANGED <<kinds, bodies, changes, isRead, deliveries, receiptInfo, reactions, reactionVersions, wasOut>>
    BY <1>4 DEF conversationVars, group, texts, receipts, reacted, wires
  <2>2. Told' = Told /\ projected' = projected /\ post' = post
    BY <2>1 DEF Told, wires
  <2>3. TablesAreTyped' /\ PacketsAreTyped'
    BY <2>1, <2>2 DEF ConversationInv, TablesAreTyped, RowsAreTyped, MembersAreTyped, MarksAreTyped, group,
                      PacketsAreTyped
  <2>4. MembersInv'
    BY <2>1, <2>2, MembersFrame
  <2>5. TextInv' /\ ReceiptInv' /\ ReactionInv'
    BY <2>1, <2>2, <2>3, RestStays
  <2> QED BY <2>3, <2>4, <2>5 DEF ConversationInv
<1> QED BY <1>1, <1>2, <1>3, <1>4 DEF ConversationNext

\* In every run, tables and packets fit together as ConversationInv says: what anyone
\* holds of a message, a revision or a reaction, its owner has at least as new.
THEOREM ConversationInvariant == ConversationSpec => []ConversationInv
<1>1. ConversationInit => ConversationInv
  BY ConversationStarts DEF ConversationInit
<1>2. ConversationInv /\ [ConversationNext]_conversationVars => ConversationInv'
  BY ConversationStep
<1> QED BY <1>1, <1>2, PTL DEF ConversationSpec

\* Every operation and every crash is counted, within the bound.
Counted == ops \in 0 .. MaxOps

LEMMA OperationsAreCounted ==
    Counted /\ [ConversationNext]_conversationVars => Counted'
<1> SUFFICES ASSUME Counted, [ConversationNext]_conversationVars
             PROVE  Counted'
  OBVIOUS
<1>1. Use \/ UNCHANGED ops
  <2>1. ASSUME UserOperates
        PROVE  Use
    <3>1. ASSUME NEW m \in Msgs, Send(m) \/ ChangeOwn(m, "edit") \/ ChangeOwn(m, "delete")
          PROVE  Use
      BY <3>1, Zenon DEF Send, ChangeOwn
    <3>2. ASSUME NEW p \in Phones, MarkRead(p) \/ LeaveGroup(p)
          PROVE  Use
      BY <3>2, Zenon DEF MarkRead, LeaveGroup
    <3>3. ASSUME NEW p \in Phones, NEW m \in Msgs, DeleteLocal(p, m) \/ React(p, m)
          PROVE  Use
      BY <3>3, Zenon DEF DeleteLocal, React
    <3>4. ASSUME NEW next \in NextMembers, EditGroup(next)
          PROVE  Use
      BY <3>4, Zenon DEF EditGroup
    <3> QED BY <2>1, <3>1, <3>2, <3>3, <3>4, Zenon DEF UserOperates
  <2>2. ASSUME NEW p \in Phones, Flush(p)
        PROVE  UNCHANGED ops
    BY <2>2 DEF Flush
  <2>3. ASSUME NEW pkt \in post \ projected, Receive(pkt)
        PROVE  Use \/ UNCHANGED ops
    <3>1. \E receipt : Commit(pkt, receipt)
      BY <2>3 DEF Receive, ReceiveChange, ReceiveMessage, ReceiveAck, ReceiveRead, ReceiveReaction,
                  ReceiveGroup, ReceiveGroupAck, ReceiveLeave, ReceiveProfile
    <3> QED BY <3>1 DEF Commit
  <2>4. ASSUME UNCHANGED conversationVars
        PROVE  UNCHANGED ops
    BY <2>4 DEF conversationVars
  <2> QED BY <2>1, <2>2, <2>3, <2>4 DEF ConversationNext
<1> QED BY <1>1, ConversationAssumption DEF Use, Counted

\* Tables, staged controls and projected packets keep their types (the columns of
\* engine.ts, message-change.ts and message-info.ts).
THEOREM ConversationIsTyped == ConversationSpec => []ConversationTypeOK
<1>1. ConversationInit => Counted
  BY ConversationAssumption DEF Counted, ConversationInit, ConversationStart
<1>2. ConversationInv /\ Counted => ConversationTypeOK
  <2> SUFFICES ASSUME ConversationInv, Counted
               PROVE  ConversationTypeOK
    OBVIOUS
  <2>1. RowsAreTyped /\ MembersAreTyped /\ MarksAreTyped /\ projected \subseteq post
    BY DEF ConversationInv, TablesAreTyped
  <2>2. {Statuses[i] : i \in 1 .. 4} = Marks
    <3>1. /\ Statuses[1] = "none" /\ Statuses[2] = "due" /\ Statuses[3] = "acked" /\ Statuses[4] = "read"
          /\ \A i \in 1 .. 4 : i = 1 \/ i = 2 \/ i = 3 \/ i = 4
      BY DEF Statuses
    <3> QED BY <3>1 DEF Marks
  <2>3. \A p \in Phones : \A c \in controlOutbox[p] : c.from = p /\ c.to \in Phones \ {p}
    BY DEF ConversationInv, PacketsAreTyped, Told, Formal
  <2> QED BY <2>1, <2>2, <2>3
          DEF ConversationTypeOK, Counted, RowsAreTyped, MembersAreTyped, MarksAreTyped, ChangeRows
<1> QED BY <1>1, <1>2, OperationsAreCounted, ConversationInvariant, PTL DEF ConversationSpec

\* No receipt and no acknowledged revision speaks for what has not arrived (read_ids,
\* acks and group_acks, however late, however often).
THEOREM ReceiptsStayTrue == ConversationSpec => []ReceiptsAreTrue
<1>1. ConversationInv => ReceiptsAreTrue
  <2> SUFFICES ASSUME ConversationInv
               PROVE  ReceiptsAreTrue
    OBVIOUS
  <2>1. \A q \in Phones : groupDeliveries[q] <= groupRev[q]
    BY DEF ConversationInv, MembersInv, RevisionsArrive
  <2>2. ASSUME NEW m \in Msgs, NEW q \in Phones
        PROVE  LET status == Later(deliveries[m][q], receiptInfo[m][q]) IN
               /\ status \in {"acked", "read"} => kinds[q][m] # "none"
               /\ status = "read" => m \in isRead[q] \/ kinds[q][m] = "forgotten"
    <3>1. deliveries[m][q] \in Marks /\ receiptInfo[m][q] \in Marks
      BY DEF ConversationInv, TablesAreTyped, MarksAreTyped
    <3>2. TrueMark(m, q, deliveries[m][q]) /\ TrueMark(m, q, receiptInfo[m][q])
      BY DEF ConversationInv, ReceiptInv, ReceiptsSpeakTrue
    <3> QED BY <3>1, <3>2, LaterIsOne DEF TrueMark
  <2> QED BY <2>1, <2>2 DEF ReceiptsAreTrue
<1> QED BY <1>1, ConversationInvariant, PTL

\* Nothing that comes late brings a deleted or forgotten message back: a row that
\* was deleted has taken its last change.
THEOREM DeletionStaysFinal == ConversationSpec => DeletionIsFinal
<1> DEFINE GoneForGood == \A p \in Phones, m \in Msgs :
               /\ kinds[p][m] = "deleted" => kinds'[p][m] \in {"deleted", "forgotten"}
               /\ kinds[p][m] = "forgotten" => kinds'[p][m] = "forgotten"
<1>1. ConversationInv /\ [ConversationNext]_conversationVars => GoneForGood
  <2> SUFFICES ASSUME ConversationInv, [ConversationNext]_conversationVars
               PROVE  GoneForGood
    OBVIOUS
  <2>1. kinds \in [Phones -> [Msgs -> {"none", "text", "deleted", "forgotten"}]]
    BY DEF ConversationInv, TablesAreTyped, RowsAreTyped
  <2>2. CASE UNCHANGED kinds
    BY <2>2
  <2>3. ASSUME NEW m \in Msgs, Send(m)
        PROVE  GoneForGood
    <3>1. kinds[Author[m]][m] = "none" /\ kinds' = [kinds EXCEPT ![Author[m]][m] = "text"]
      BY <2>3 DEF Send
    <3> QED BY <2>1, <3>1
  <2>4. ASSUME NEW p \in Phones, NEW m \in Msgs, NEW c, Formed(c), c.rev > 0, kinds[p][m] # "forgotten",
               TakeChange(p, m, c)
        PROVE  GoneForGood
    <3>1. /\ OtherRowsStay(p, m)
          /\ \/ RowStays(p, m)
             \/ kinds[p][m] = "text"
      BY <2>4, ChangeTaken
    <3> QED BY <2>4, <3>1 DEF OtherRowsStay, RowStays
  <2>5. ASSUME NEW m \in Msgs, NEW act \in {"edit", "delete"}, ChangeOwn(m, act)
        PROVE  GoneForGood
    <3> DEFINE p == Author[m]
               c == [rev |-> changes[p][m].rev + 1, act |-> act,
                     body |-> IF act = "edit" THEN bodies[p][m] + 1 ELSE 0]
    <3>1. kinds[p][m] = "text" /\ TakeChange(p, m, c)
      BY <2>5 DEF ChangeOwn
    <3>2. p \in Phones /\ p = Author[m]
      BY ConversationAssumption
    <3>3. changes[p][m].rev \in Nat /\ bodies[p][m] = changes[p][m].rev
      BY <3>1, <3>2 DEF ConversationInv, TextInv, RowsFollowChanges, TablesAreTyped, RowsAreTyped, ChangeRows
    <3>4. Formed(c) /\ c.rev > 0
      BY <3>3 DEF Formed, ChangeRows
    <3> HIDE DEF p, c
    <3> QED BY <2>4, <3>1, <3>2, <3>4
  <2>6. ASSUME NEW p \in Phones, NEW m \in Msgs, DeleteLocal(p, m)
        PROVE  GoneForGood
    <3>1. kinds' = [kinds EXCEPT ![p][m] = "forgotten"]
      BY <2>6 DEF DeleteLocal
    <3> QED BY <2>1, <3>1
  <2>7. ASSUME NEW pkt \in post, pkt.type = "message_change", ReceiveChange(pkt)
        PROVE  GoneForGood
    <3>1. pkt.to \in Phones /\ pkt.id \in Msgs /\ Formed(pkt.change) /\ pkt.change.rev > 0
      BY <2>7 DEF ConversationInv, PacketsAreTyped, Told, Formal
    <3>2. CASE kinds[pkt.to][pkt.id] = "forgotten"
      BY <2>2, <2>7, <3>2 DEF ReceiveChange, texts
    <3>3. CASE kinds[pkt.to][pkt.id] # "forgotten"
      BY <2>4, <2>7, <3>1, <3>3 DEF ReceiveChange
    <3> QED BY <3>2, <3>3
  <2>8. ASSUME NEW pkt \in post, pkt.type = "message", ReceiveMessage(pkt)
        PROVE  GoneForGood
    <3>1. CASE kinds[pkt.to][pkt.id] # "none"
      BY <2>2, <2>8, <3>1 DEF ReceiveMessage
    <3>2. CASE kinds[pkt.to][pkt.id] = "none"
      <4>1. PICK kind : kinds' = [kinds EXCEPT ![pkt.to][pkt.id] = kind]
        BY <2>8, <3>2 DEF ReceiveMessage, ShowMessage
      <4> QED BY <2>1, <3>2, <4>1
    <3> QED BY <3>1, <3>2
  <2>9. CASE UserOperates
    <3>1. ASSUME NEW p \in Phones, MarkRead(p) \/ LeaveGroup(p)
          PROVE  UNCHANGED kinds
      BY <3>1 DEF MarkRead, LeaveGroup, texts
    <3>2. ASSUME NEW p \in Phones, NEW m \in Msgs, React(p, m)
          PROVE  UNCHANGED kinds
      BY <3>2 DEF React, texts
    <3>3. ASSUME NEW next \in NextMembers, EditGroup(next)
          PROVE  UNCHANGED kinds
      BY <3>3 DEF EditGroup, texts
    <3> HIDE DEF GoneForGood
    <3> QED BY <2>2, <2>3, <2>5, <2>6, <2>9, <3>1, <3>2, <3>3 DEF UserOperates
  <2>10. ASSUME NEW p \in Phones, Flush(p)
         PROVE  GoneForGood
    BY <2>2, <2>10 DEF Flush, texts
  <2>11. ASSUME NEW pkt \in post \ projected, Receive(pkt)
         PROVE  GoneForGood
    <3>1. \/ pkt.type = "message_change" /\ ReceiveChange(pkt)
          \/ pkt.type = "message" /\ ReceiveMessage(pkt)
          \/ UNCHANGED texts
      BY <2>11 DEF Receive, ReceiveAck, ReceiveRead, ReceiveReaction, ReceiveGroup, ReceiveGroupAck, ReceiveLeave,
                   ReceiveProfile
    <3> HIDE DEF GoneForGood
    <3> QED BY <2>2, <2>7, <2>8, <3>1 DEF texts
  <2>12. CASE UNCHANGED conversationVars
    BY <2>2, <2>12 DEF conversationVars
  <2> HIDE DEF GoneForGood
  <2> QED BY <2>9, <2>10, <2>11, <2>12 DEF ConversationNext
<1>2. ConversationInv /\ [ConversationNext]_conversationVars => [GoneForGood]_conversationVars
  BY <1>1
<1> QED BY <1>2, ConversationInvariant, PTL DEF ConversationSpec, DeletionIsFinal
------------------------------------------------------------------------------
(* When every packet was brought                                             *)

\* Nothing is staged any more, and a packet that would not throw was applied.
LEMMA QuietTells ==
    ASSUME ConversationInv, Quiet
    PROVE  /\ Told = post
           /\ \A pkt \in Told : pkt \in projected \/ ~Allowed(pkt)
           /\ \A p \in Phones : Pending(p) \subseteq post
<1>1. \A p \in Phones : Pending(p) \subseteq post /\ controlOutbox[p] \subseteq Pending(p)
  BY DEF Quiet, Pending
<1>2. Told = post
  BY <1>1 DEF Told
<1> QED BY <1>1, <1>2 DEF Quiet

LEMMA SteadyFacts ==
    ASSUME ConversationInv
    PROVE  /\ Steady \subseteq Phones
           /\ \A p \in Steady : /\ groupRev[p] > 0 /\ p \notin leftGroup
                                /\ \A q \in Steady : q \in roster[p] /\ BothMembers(p, q)
  BY DEF ConversationInv, MembersInv, SteadyAreMembers, Steady, BothMembers

LEMMA SnapshotsAgreeInQuiet ==
    ASSUME ConversationInv
    PROVE  SnapshotsAgree
<1>1. OwnerLeads /\ OneSetOfMembers /\ RevisionsArrive
  BY DEF ConversationInv, MembersInv
<1>2. /\ \A p \in Phones : groupRev[p] \in Nat /\ groupDeliveries[p] \in Nat \cup {-1} /\ profileRev[p] \in Nat
      /\ Owner \in Phones
  BY TypedGroupPackets
<1>3. ASSUME Quiet, NEW p \in Phones, groupRev[p] # 0 \/ p \in roster[Owner]
      PROVE  groupRev[p] = groupRev[Owner]
  <2>1. CASE p = Owner
    BY <2>1
  <2>2. CASE p # Owner
    <3>1. /\ groupDeliveries[p] >= 0 /\ groupDeliveries[p] <= groupRev[p]
          /\ groupRev[p] <= groupRev[Owner]
      <4>1. groupRev[p] > 0 \/ p \in roster[Owner]
        BY <1>2, <1>3
      <4> QED BY <1>1, <2>2, <4>1 DEF RevisionsArrive, OwnerLeads
    <3>2. CASE groupDeliveries[p] = groupRev[Owner]
      BY <1>2, <3>1, <3>2
    <3>3. CASE groupDeliveries[p] # groupRev[Owner]
      <4>1. groupDeliveries[p] \in 0 .. groupRev[Owner] - 1
        BY <1>2, <3>1, <3>3
      <4>2. GroupState(p) \in post
        <5>1. DueState(p) => GroupState(p) \in Pending(Owner)
          BY DEF Pending
        <5> QED BY <1>2, <1>3, <4>1, <5>1, QuietTells DEF DueState
      <4>3. /\ GroupState(p).type = "group" /\ GroupState(p).to = p /\ GroupState(p).rev = groupRev[Owner]
            /\ GroupState(p).members = roster[Owner]
        BY DEF GroupState
      <4>4. Allowed(GroupState(p))
        BY <1>2, <1>3, <4>3 DEF Allowed, SnapshotAllowed
      <4>5. GroupState(p) \in projected
        BY <1>3, <4>2, <4>4, QuietTells
      <4> QED BY <1>1, <1>2, <3>1, <4>3, <4>5 DEF RevisionsArrive
    <3> QED BY <3>2, <3>3
  <2> QED BY <2>1, <2>2
<1>4. ASSUME Quiet, NEW p \in Phones, p \in roster[Owner] \ leftGroup
      PROVE  profileRev[p] = profileRev[Owner]
  <2>1. profileRev[p] <= profileRev[Owner] /\ profileRev[Owner] <= groupRev[Owner] /\ groupRev[Owner] > 0
    BY <1>1 DEF OwnerLeads
  <2>2. CASE p = Owner \/ profileRev[Owner] = 0
    BY <1>2, <2>1, <2>2
  <2>3. CASE p # Owner /\ profileRev[Owner] # 0
    <3> DEFINE pkt == [type |-> "group_profile", from |-> Owner, to |-> p, rev |-> profileRev[Owner]]
    <3>1. pkt \in Told
      BY <1>1, <1>2, <1>4, <2>3 DEF RevisionsArrive
    <3>2. groupRev[p] = groupRev[Owner] /\ roster[p] = roster[Owner]
      BY <1>1, <1>2, <1>3, <1>4, <2>1 DEF OneSetOfMembers
    <3>3. pkt.type = "group_profile" /\ pkt.to = p /\ pkt.rev = profileRev[Owner]
      OBVIOUS
    <3> HIDE DEF pkt
    <3>4. Allowed(pkt)
      BY <1>2, <1>4, <2>1, <3>2, <3>3 DEF Allowed, ProfileAllowed
    <3>5. pkt \in projected
      BY <1>4, <3>1, <3>4, QuietTells
    <3> QED BY <1>1, <1>2, <2>1, <3>3, <3>5 DEF RevisionsArrive
  <2> QED BY <2>2, <2>3
<1>5. \A p, q \in Phones : groupRev[p] = groupRev[q] /\ groupRev[p] > 0 => roster[p] = roster[q]
  BY <1>1 DEF OneSetOfMembers
<1> QED BY <1>3, <1>4, <1>5 DEF SnapshotsAgree

LEMMA TextsAgreeInQuiet ==
    ASSUME ConversationInv
    PROVE  TextsAgree
<1> SUFFICES ASSUME Quiet, NEW m \in Msgs, NEW p \in Steady, Author[m] \in Steady, Holds(Author[m], m)
             PROVE  /\ kinds[p][m] = "none" => kinds[Author[m]][m] = "deleted"
                    /\ Holds(p, m) => kinds[p][m] = kinds[Author[m]][m] /\ bodies[p][m] = bodies[Author[m]][m]
  BY DEF TextsAgree
<1> DEFINE a == Author[m]
           own == changes[a][m]
<1>1. a \in Phones /\ p \in Phones /\ a \in Steady
  BY SteadyFacts
<1>2. /\ RowsFollowChanges /\ AuthorKnowsChanges /\ SteadyAreTold /\ ProjectedIsKnown
      /\ Told = post
  BY QuietTells DEF ConversationInv, TextInv
<1>3. CASE p = a
  BY <1>3 DEF Holds
<1>4. CASE p # a
  <2>1. TextFor(p, m) /\ (kinds[a][m] = "text" => deliveries[m][p] # "none")
    BY <1>1, <1>2, <1>4 DEF TextFor, SteadyAreTold
  <2>2. ASSUME kinds[p][m] = "none", kinds[a][m] = "text"
        PROVE  FALSE
    <3>1. deliveries[m][p] = "due"
      <4>1. deliveries[m][p] \in Marks /\ TrueMark(m, p, deliveries[m][p])
        BY <1>1 DEF ConversationInv, TablesAreTyped, MarksAreTyped, ReceiptInv, ReceiptsSpeakTrue
      <4> QED BY <2>1, <2>2, <4>1 DEF Marks, TrueMark
    <3>2. p \in roster[a]
      BY <1>1, SteadyFacts
    <3>3. Journalled(m, p)
      <4>1. ASSUME ~Journalled(m, p)
            PROVE  FALSE
        <5>1. <<m, p>> \in DueMessages(a)
          BY <1>1, <3>1, <3>2, <4>1 DEF DueMessages, DueMessage
        <5>2. MessageTo(m, p) \in Pending(a)
          BY <5>1 DEF Pending
        <5>3. MessageTo(m, p) \in post
          BY <1>1, <5>2, QuietTells
        <5>4. MessageTo(m, p).type = "message" /\ MessageTo(m, p).id = m /\ MessageTo(m, p).to = p
          BY DEF MessageTo
        <5> QED BY <4>1, <5>3, <5>4 DEF Journalled
      <4> QED BY <4>1
    <3>4. PICK pkt \in post : pkt.type = "message" /\ pkt.id = m /\ pkt.to = p
      BY <3>3 DEF Journalled
    <3>5. pkt.from = a
      BY <1>2, <3>4 DEF ConversationInv, PacketsAreTyped, Formal
    <3>6. Allowed(pkt)
      BY <1>1, <3>4, <3>5, SteadyFacts DEF Allowed, MessageAllowed
    <3>7. pkt \in projected
      BY <1>2, <3>6, QuietTells
    <3> QED BY <1>2, <2>2, <3>4, <3>7 DEF ProjectedIsKnown
  <2>3. ASSUME Holds(p, m)
        PROVE  changes[p][m] = own
    <3>1. /\ Known(m, changes[p][m]) /\ own.rev \in Nat /\ changes[p][m].rev \in Nat
      BY <1>1, <1>2 DEF AuthorKnowsChanges, RowsFollowChanges, Formed, ChangeRows
    <3>2. CASE own.rev = 0
      BY <3>1, <3>2 DEF Known
    <3>3. CASE own.rev # 0
      <4>1. ChangeFor(p, m) \in Told
        BY <1>2, <1>1, <2>1, <3>1, <3>3 DEF SteadyAreTold
      <4>2. /\ ChangeFor(p, m).type = "message_change" /\ ChangeFor(p, m).to = p /\ ChangeFor(p, m).id = m
            /\ ChangeFor(p, m).change = own
        BY DEF ChangeFor
      <4>3. Allowed(ChangeFor(p, m))
        BY <2>3, <4>2 DEF Allowed, ChangeAllowed, Holds
      <4>4. ChangeFor(p, m) \in projected
        BY <4>1, <4>3, QuietTells
      <4>5. changes[p][m].rev >= own.rev \/ changes[p][m].act = "delete"
        BY <1>2, <2>3, <4>2, <4>4 DEF ProjectedIsKnown, Holds
      <4> QED BY <3>1, <4>5 DEF Known
    <3> QED BY <3>2, <3>3
  <2>4. ASSUME Holds(p, m)
        PROVE  kinds[p][m] = kinds[a][m] /\ bodies[p][m] = bodies[a][m]
    <3>1. changes[p][m] = own /\ Formed(own)
      BY <1>1, <1>2, <2>3, <2>4 DEF RowsFollowChanges
    <3>2. \A q \in {p, a} :
              /\ kinds[q][m] = "deleted" => own.act = "delete" /\ bodies[q][m] = 0
              /\ kinds[q][m] = "text" => /\ own.act # "delete"
                                         /\ own.act = "edit" => bodies[q][m] = own.body
      BY <1>1, <1>2, <3>1 DEF RowsFollowChanges
    <3>3. kinds[a][m] = "text" => bodies[a][m] = own.rev
      BY <1>1, <1>2 DEF RowsFollowChanges
    <3>4. kinds[a][m] = "text" /\ kinds[p][m] = "text" => bodies[p][m] <= own.rev /\ bodies[p][m] \in Nat
      BY <1>1, <1>2 DEF AuthorKnowsChanges, Holds, ConversationInv, TablesAreTyped, RowsAreTyped
    <3>5. own.act = "none" => own.rev = 0
      BY <3>1 DEF Formed
    <3>6. own.act \in {"none", "edit", "delete"}
      BY <3>1 DEF Formed, ChangeRows
    <3> HIDE DEF own, a
    <3>7. kinds[p][m] \in {"text", "deleted"} /\ kinds[a][m] \in {"text", "deleted"}
      BY <2>4 DEF Holds, a
    <3>8. kinds[p][m] = kinds[a][m]
      BY <3>2, <3>7
    <3>9. bodies[p][m] = bodies[a][m]
      BY <3>2, <3>3, <3>4, <3>5, <3>6, <3>7, <3>8
    <3> QED BY <3>8, <3>9
  <2>5. kinds[a][m] \in {"text", "deleted"}
    BY DEF Holds
  <2> QED BY <2>2, <2>4, <2>5
<1> QED BY <1>3, <1>4

LEMMA ReactionsAgreeInQuiet ==
    ASSUME ConversationInv
    PROVE  ReactionsAgree
<1> SUFFICES ASSUME Quiet, NEW m \in Msgs, NEW p \in Steady, NEW q \in Steady,
                    kinds[p][m] = "text", kinds[q][m] = "text"
             PROVE  p \in reactions[p][m] <=> p \in reactions[q][m]
  BY DEF ReactionsAgree
<1>1. /\ ReactionsAreNumbered /\ OwnReactionLeads /\ ReactionsArrive /\ p \in Phones /\ q \in Phones
  BY SteadyFacts DEF ConversationInv, ReactionInv
<1>2. /\ reactionVersions[q][m][p] <= reactionVersions[p][m][p]
      /\ reactionVersions[q][m][p] = reactionVersions[p][m][p] => (p \in reactions[q][m] <=> p \in reactions[p][m])
      /\ reactionVersions[p][m][p] \in Nat /\ reactionVersions[q][m][p] \in Nat
  BY <1>1 DEF OwnReactionLeads, ConversationInv, TablesAreTyped, RowsAreTyped
<1>3. CASE p = q \/ reactionVersions[p][m][p] = 0
  BY <1>2, <1>3
<1>4. CASE p # q /\ reactionVersions[p][m][p] # 0
  <2>1. ReactionFor(p, q, m) \in Told
    BY <1>1, <1>2, <1>4 DEF OwnReactionLeads
  <2>2. /\ ReactionFor(p, q, m).type = "reaction" /\ ReactionFor(p, q, m).from = p
        /\ ReactionFor(p, q, m).to = q /\ ReactionFor(p, q, m).id = m
        /\ ReactionFor(p, q, m).rev = reactionVersions[p][m][p]
    BY DEF ReactionFor
  <2>3. Allowed(ReactionFor(p, q, m))
    BY <2>2, SteadyFacts DEF Allowed, ReactionAllowed
  <2>4. ReactionFor(p, q, m) \in projected
    BY <2>1, <2>3, QuietTells
  <2>5. reactionVersions[q][m][p] >= reactionVersions[p][m][p]
    BY <1>1, <2>2, <2>4 DEF ReactionsArrive
  <2> QED BY <1>2, <2>5
<1> QED BY <1>3, <1>4

\* In the end all copies agree, for any number of phones and messages: what is newest
\* was told to everyone who stayed, and was refused by none of them.
THEOREM CopiesComeToAgree == ConversationSpec => []CopiesAgree
<1>1. ConversationInv => CopiesAgree
  BY SnapshotsAgreeInQuiet, TextsAgreeInQuiet, ReactionsAgreeInQuiet DEF CopiesAgree
<1> QED BY <1>1, ConversationInvariant, PTL

\* A packet stays refused only between phones of which one was out of the group, or
\* about a message of such a phone or one that was deleted.
THEOREM OnlyThePartedStick == ConversationSpec => []OnlyPartedAreStuck
<1>1. ConversationInv => OnlyPartedAreStuck
  <2> SUFFICES ASSUME ConversationInv, Quiet, NEW pkt \in post \ projected, {pkt.from, pkt.to} \cap wasOut = {}
               PROVE  \/ pkt.type = "read_ids" /\ \E m \in pkt.ids : kinds[pkt.to][m] = "forgotten"
                      \/ /\ pkt.type = "reaction"
                         /\ \/ kinds[pkt.to][pkt.id] = "forgotten"
                            \/ kinds[Author[pkt.id]][pkt.id] \in {"deleted", "forgotten"}
                            \/ Author[pkt.id] \in wasOut
    BY DEF OnlyPartedAreStuck
  <2>1. pkt \in Told /\ ~Allowed(pkt) /\ Formal(pkt)
    BY QuietTells DEF ConversationInv, PacketsAreTyped
  <2>2. pkt.from \in Steady /\ pkt.to \in Steady
    BY <2>1 DEF Formal, Steady
  <2>3. /\ groupRev[pkt.to] > 0 /\ pkt.to \notin leftGroup /\ pkt.to \in roster[pkt.to]
        /\ pkt.from \in roster[pkt.to] /\ BothMembers(pkt.to, pkt.from)
    BY <2>2, SteadyFacts
  <2>4. CASE pkt.type \in {"message_change", "message", "group", "ack", "group_ack", "group_leave"}
    <3>1. Allowed(pkt)
      BY <2>3, <2>4 DEF Allowed, ChangeAllowed, MessageAllowed, SnapshotAllowed
    <3> QED BY <2>1, <3>1
  <2>5. CASE pkt.type = "group_profile"
    <3>1. groupRev[pkt.to] = groupRev[Owner]
      <4>1. SnapshotsAgree /\ groupRev[pkt.to] # 0 /\ pkt.to \in Phones
        BY <2>2, <2>3, SnapshotsAgreeInQuiet, SteadyFacts
      <4> QED BY <4>1 DEF SnapshotsAgree
    <3>2. /\ pkt.rev <= profileRev[Owner] /\ profileRev[Owner] <= groupRev[Owner]
          /\ pkt.rev \in Nat /\ profileRev[Owner] \in Nat /\ groupRev[Owner] \in Nat
      BY <2>1, <2>5, TypedGroupPackets DEF ConversationInv, MembersInv, OwnerLeads
    <3>3. groupRev[pkt.to] >= pkt.rev
      BY <3>1, <3>2
    <3>4. Allowed(pkt)
      BY <2>3, <2>5, <3>3 DEF Allowed, ProfileAllowed
    <3> QED BY <2>1, <3>4
  <2>6. CASE pkt.type = "read_ids"
    <3>1. ~ReadAllowed(pkt)
      BY <2>1, <2>6 DEF Allowed
    <3>2. \A m \in pkt.ids : kinds[pkt.to][m] = "forgotten" \/ receiptInfo[m][pkt.from] # "none"
      BY <2>1, <2>6 DEF Formal, ConversationInv, ReceiptInv, ReceiptsAreExpected, Expected
    <3> QED BY <2>6, <3>1, <3>2 DEF ReadAllowed
  <2>7. CASE pkt.type = "reaction"
    <3>1. kinds[pkt.to][pkt.id] \notin {"text", "deleted"}
      BY <2>1, <2>3, <2>7 DEF Allowed, ReactionAllowed
    <3>2. /\ pkt.id \in Msgs /\ Author[pkt.id] \in Phones /\ pkt.to \in Phones
          /\ kinds[pkt.to][pkt.id] \in {"none", "text", "deleted", "forgotten"}
          /\ kinds[Author[pkt.id]][pkt.id] \in {"none", "text", "deleted", "forgotten"}
      BY <2>1, <2>7, ConversationAssumption DEF Formal, ConversationInv, TablesAreTyped, RowsAreTyped
    <3>3. kinds[Author[pkt.id]][pkt.id] # "none"
      BY <2>1, <2>7, <3>2 DEF ConversationInv, TextInv, SentByItsAuthor
    <3>4. ASSUME kinds[pkt.to][pkt.id] = "none", kinds[Author[pkt.id]][pkt.id] = "text",
                 Author[pkt.id] \notin wasOut
          PROVE  FALSE
      <4>1. TextsAgree /\ Author[pkt.id] \in Steady /\ Holds(Author[pkt.id], pkt.id)
        BY <3>2, <3>4, TextsAgreeInQuiet DEF Steady, Holds
      <4> QED BY <2>2, <3>2, <3>4, <4>1 DEF TextsAgree
    <3> QED BY <2>7, <3>1, <3>2, <3>3, <3>4
  <2>8. pkt.type \in {"message_change", "message", "ack", "read_ids", "reaction", "group", "group_ack",
                      "group_leave", "group_profile"}
    BY <2>1 DEF Formal
  <2> QED BY <2>4, <2>5, <2>6, <2>7, <2>8
<1> QED BY <1>1, ConversationInvariant, PTL
=============================================================================
