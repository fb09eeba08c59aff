--------------------------- MODULE SignalKeysProofs ---------------------------
(***************************************************************************)
(* One-time keys (module SignalKeys) for every set of devices, rows and    *)
(* processes, every size of the stocks and every number of faults.         *)
(***************************************************************************)
EXTENDS SignalKeys, FiniteSetTheorems, TLAPS

-----------------------------------------------------------------------------
(* The invariant *)

ServiceTypes ==
  /\ now \in Nat
  /\ directory \in [Peers -> [present : BOOLEAN, highWater : Nat, keys : SUBSET Nat]]
  /\ leases \subseteq [actor : Peers, owner : Peers, request : Requests, id : Nat,
                       expires : Nat]
  /\ registered \subseteq Peers

DeviceTypes ==
  /\ local \in [Peers -> SUBSET Nat]
  /\ next \in [Peers -> Nat]
  /\ session \in [Peers -> [Peers -> Nat]]
  /\ sealed \in [Rows -> Nat]
  /\ opened \subseteq Rows
  /\ started \in [Peers -> SUBSET (Peers \X Nat)]

PumpTypes == pump \in [Pumps -> Pumping]

AskTypes == ask \in [Rows -> [stage : {"idle", "sent", "answered"}, id : Nat]]

LateTypes ==
  /\ late \subseteq [owner : Peers, batch : SUBSET Nat, rows : SUBSET Rows]
  /\ faults \in Nat

HistoryTypes ==
  /\ unlinks \in [Peers -> Nat]
  /\ granted \subseteq Granted

\* Stocks and batches are finite, so that their sizes are numbers.
FiniteStocks ==
  /\ \A p \in Peers : IsFiniteSet(directory[p].keys) /\ IsFiniteSet(local[p])
  /\ \A x \in Pumps : IsFiniteSet(pump[x].todo) /\ IsFiniteSet(pump[x].batch)
  /\ \A c \in late : IsFiniteSet(c.batch)

\* The stock lies at or below the high-water mark, and so does every key that
\* was given out since the owner registered, which is not in stock any more.
Spent ==
  /\ \A p \in Peers : \A i \in directory[p].keys : i <= directory[p].highWater
  /\ \A g \in granted :
       /\ g.era <= unlinks[g.owner]
       /\ g.era = unlinks[g.owner] =>
            /\ g.id \notin directory[g.owner].keys
            /\ g.id <= directory[g.owner].highWater

KeyInv == TypeOK /\ FiniteStocks /\ Spent /\ OneTime

LEMMA Parts ==
  TypeOK <=> /\ ServiceTypes /\ DeviceTypes /\ PumpTypes /\ AskTypes /\ LateTypes
             /\ HistoryTypes
  BY DEF TypeOK, ServiceTypes, DeviceTypes, PumpTypes, AskTypes, LateTypes, HistoryTypes

LEMMA PartsPrimed ==
  TypeOK' <=> /\ ServiceTypes' /\ DeviceTypes' /\ PumpTypes' /\ AskTypes' /\ LateTypes'
              /\ HistoryTypes'
  BY DEF TypeOK, ServiceTypes, DeviceTypes, PumpTypes, AskTypes, LateTypes, HistoryTypes

LEMMA RowTypes ==
  ASSUME NEW r \in Rows
  PROVE  r.actor \in Peers /\ r.owner \in Peers /\ r.request \in Requests
  BY KeysAssumption

LEMMA PumpOwner ==
  ASSUME NEW x \in Pumps
  PROVE  x[1] \in Peers
  BY KeysAssumption DEF Pumps

\* A pump at the start of a publication.
LEMMA PublishingType ==
  ASSUME NEW goal \in {"start", "again", "grown"}, NEW keys \in SUBSET Nat,
         IsFiniteSet(keys)
  PROVE  /\ Publishing(goal, keys) \in Pumping
         /\ IsFiniteSet(Publishing(goal, keys).todo)
         /\ IsFiniteSet(Publishing(goal, keys).batch)
  BY FS_CardinalityType, FS_EmptySet DEF Publishing, Pumping

LEMMA RestingType ==
  ASSUME NEW stage \in {"new", "ready"}
  PROVE  /\ Resting(stage) \in Pumping
         /\ IsFiniteSet(Resting(stage).todo) /\ IsFiniteSet(Resting(stage).batch)
  BY FS_EmptySet DEF Resting, Pumping

LEMMA RangeType ==
  ASSUME NEW i \in Nat, NEW j \in Int
  PROVE  i..j \in SUBSET Nat /\ IsFiniteSet(i..j)
  BY FS_Interval

-----------------------------------------------------------------------------
(* The initial states *)

LEMMA InitHolds == Init => KeyInv
<1> SUFFICES ASSUME Init PROVE KeyInv
  OBVIOUS
<1>1. TypeOK
  <2>1. \A x \in Pumps : pump[x] \in Pumping
    BY RestingType DEF Init
  <2>2. ServiceTypes
    BY KeysAssumption DEF Init, ServiceTypes, Absent
  <2>3. DeviceTypes /\ AskTypes /\ LateTypes /\ HistoryTypes
    BY KeysAssumption DEF Init, DeviceTypes, AskTypes, LateTypes, HistoryTypes, NoAsk
  <2>4. PumpTypes
    BY <2>1 DEF Init, PumpTypes
  <2> QED
    BY <2>2, <2>3, <2>4, Parts
<1>2. FiniteStocks
  BY RestingType, FS_EmptySet DEF Init, FiniteStocks, Absent
<1>3. Spent /\ OneTime
  BY DEF Init, Spent, OneTime, Absent
<1> QED
  BY <1>1, <1>2, <1>3 DEF KeyInv

-----------------------------------------------------------------------------
(* What the directory's operations keep *)

LEMMA PublishKeeps ==
  ASSUME KeyInv, NEW p \in Peers, NEW ids \in SUBSET Nat, IsFiniteSet(ids),
         Publish(p, ids), now' = now, UNCHANGED <<granted, unlinks>>
  PROVE  /\ ServiceTypes' /\ HistoryTypes' /\ Spent' /\ OneTime'
         /\ \A q \in Peers : IsFiniteSet(directory'[q].keys)
<1>1. PICK top \in ids \cup {directory[p].highWater} :
        /\ \A i \in ids \cup {directory[p].highWater} : i <= top
        /\ directory' = Stocked(p, ids, top)
  BY DEF Publish
<1>2. ServiceTypes /\ HistoryTypes /\ Spent /\ OneTime /\ FiniteStocks
  BY Parts DEF KeyInv
<1>3. /\ directory[p].keys \in SUBSET Nat /\ directory[p].highWater \in Nat
      /\ top \in Nat /\ directory[p].highWater <= top
  BY <1>1, <1>2 DEF ServiceTypes
<1>4. Added(p, ids) \in SUBSET Nat /\ Added(p, ids) \subseteq ids
  BY DEF Added
<1>5. /\ directory'[p] = [present |-> TRUE, highWater |-> top,
                          keys |-> directory[p].keys \cup Added(p, ids)]
      /\ \A q \in Peers : q # p => directory'[q] = directory[q]
      /\ DOMAIN directory' = Peers
  BY <1>1, <1>2 DEF Stocked, ServiceTypes
<1>6. directory' \in [Peers -> [present : BOOLEAN, highWater : Nat, keys : SUBSET Nat]]
  <2>1. directory'[p] \in [present : BOOLEAN, highWater : Nat, keys : SUBSET Nat]
    BY <1>3, <1>4, <1>5
  <2>2. \A q \in Peers : directory'[q] \in [present : BOOLEAN, highWater : Nat,
                                            keys : SUBSET Nat]
    BY <1>2, <1>5, <2>1 DEF ServiceTypes
  <2>3. directory' = [q \in Peers |-> directory'[q]]
    BY <1>1, <1>2 DEF Stocked, ServiceTypes
  <2> QED
    BY <2>2, <2>3
<1>7. ServiceTypes' /\ HistoryTypes'
  BY <1>2, <1>6 DEF ServiceTypes, HistoryTypes, Publish
<1>8. \A q \in Peers : IsFiniteSet(directory'[q].keys)
  <2>2. Added(p, ids) \in SUBSET ids
    BY <1>4
  <2>3. IsFiniteSet(Added(p, ids))
    BY <2>2, FS_Subset
  <2>4. IsFiniteSet(directory[p].keys)
    BY <1>2 DEF FiniteStocks
  <2>1. IsFiniteSet(directory[p].keys \cup Added(p, ids))
    BY <2>3, <2>4, FS_Union
  <2>5. IsFiniteSet(directory'[p].keys)
    BY <1>5, <2>1
  <2>6. \A q \in Peers : q # p => IsFiniteSet(directory'[q].keys)
    BY <1>2, <1>5 DEF FiniteStocks
  <2> QED
    BY <2>5, <2>6
<1>9. Spent'
  <2>1. \A q \in Peers : \A i \in directory'[q].keys : i <= directory'[q].highWater
    <3>1. \A i \in directory'[p].keys : i <= top
      <4> SUFFICES ASSUME NEW i \in directory'[p].keys PROVE i <= top
        OBVIOUS
      <4>1. CASE i \in directory[p].keys
        <5>1. i <= directory[p].highWater /\ i \in Nat
          BY <1>2, <1>3, <4>1 DEF Spent
        <5> QED
          BY <1>3, <5>1
      <4>2. CASE i \in Added(p, ids)
        BY <1>1, <1>4, <4>2
      <4> QED
        BY <1>5, <4>1, <4>2
    <3> QED
      BY <1>2, <1>5, <3>1 DEF Spent
  <2>2. ASSUME NEW g \in granted', g.era = unlinks'[g.owner]
        PROVE  g.id \notin directory'[g.owner].keys /\ g.id <= directory'[g.owner].highWater
    <3>1. /\ g.id \notin directory[g.owner].keys /\ g.id <= directory[g.owner].highWater
          /\ g.owner \in Peers /\ g.id \in Nat
      BY <1>2, <2>2 DEF Spent, HistoryTypes, Granted
    <3>2. CASE g.owner = p
      <4>1. g.id \notin Added(p, ids)
        BY <3>1, <3>2, <1>3 DEF Added
      <4> QED
        BY <1>3, <1>5, <3>1, <3>2, <4>1
    <3> QED
      BY <1>5, <3>1, <3>2
  <2> QED
    BY <1>2, <2>1, <2>2 DEF Spent
<1>10. OneTime'
  BY <1>2 DEF OneTime
<1> QED
  BY <1>7, <1>8, <1>9, <1>10

LEMMA GrantKeeps ==
  ASSUME KeyInv, NEW r \in Rows, NEW id, Grant(r, id), now' = now, UNCHANGED unlinks
  PROVE  /\ ServiceTypes' /\ HistoryTypes' /\ Spent' /\ OneTime' /\ id \in Nat
         /\ \A q \in Peers : IsFiniteSet(directory'[q].keys)
<1>1. ServiceTypes /\ HistoryTypes /\ Spent /\ OneTime /\ FiniteStocks
  BY Parts DEF KeyInv
<1>2. r.actor \in Peers /\ r.owner \in Peers /\ r.request \in Requests
  BY RowTypes
<1>3. CASE /\ Retake(r.actor, r.owner, r.request, id)
           /\ UNCHANGED granted
  <2>1. id \in Nat
    BY <1>1, <1>3 DEF Retake, LeasedTo, Living, ServiceTypes
  <2>2. leases' \subseteq leases /\ directory' = directory /\ registered' = registered
    BY <1>3 DEF Retake, Living
  <2> QED
    BY <1>1, <1>3, <2>1, <2>2
    DEF ServiceTypes, HistoryTypes, Spent, OneTime, FiniteStocks
<1>4. CASE /\ TakeNew(r.actor, r.owner, r.request, id)
           /\ granted' = granted \cup
                {[owner |-> r.owner, id |-> id, actor |-> r.actor,
                  request |-> r.request, era |-> unlinks[r.owner]]}
  <2> DEFINE new == [owner |-> r.owner, id |-> id, actor |-> r.actor,
                     request |-> r.request, era |-> unlinks[r.owner]]
             lease == Lease(r.actor, r.owner, r.request, id)
  <2>1. id \in directory[r.owner].keys /\ id \in Nat
    BY <1>1, <1>2, <1>4 DEF TakeNew, ServiceTypes
  <2>2. /\ directory' = [directory EXCEPT ![r.owner].keys = @ \ {id}]
        /\ registered' = registered
        /\ \A l \in leases' : l \in leases \/ l = lease
    BY <1>4 DEF TakeNew, Living
  <2>3. lease \in [actor : Peers, owner : Peers, request : Requests, id : Nat,
                   expires : Nat]
    BY <1>1, <1>2, <2>1, DirectoryAssumption DEF Lease, ServiceTypes
  <2>4. /\ new \in Granted
        /\ new.owner = r.owner /\ new.id = id /\ new.era = unlinks[r.owner]
    BY <1>1, <1>2, <2>1 DEF Granted, HistoryTypes
  <2>5. \A g \in granted' : g \in granted \/ g = new
    BY <1>4
  <2> HIDE DEF new, lease
  <2>6. /\ directory'[r.owner].keys = directory[r.owner].keys \ {id}
        /\ directory'[r.owner].highWater = directory[r.owner].highWater
        /\ \A q \in Peers : q # r.owner => directory'[q] = directory[q]
        /\ directory' \in [Peers -> [present : BOOLEAN, highWater : Nat, keys : SUBSET Nat]]
    BY <1>1, <1>2, <2>2 DEF ServiceTypes
  <2>7. ServiceTypes'
    BY <1>1, <2>2, <2>3, <2>6 DEF ServiceTypes
  <2>8. HistoryTypes'
    BY <1>1, <2>4, <2>5 DEF HistoryTypes
  <2>9. \A q \in Peers : IsFiniteSet(directory'[q].keys)
    <3>1. IsFiniteSet(directory[r.owner].keys \ {id})
      BY <1>1, <1>2, FS_Subset DEF FiniteStocks
    <3> QED
      BY <1>1, <2>6, <3>1 DEF FiniteStocks
  <2>10. id <= directory[r.owner].highWater
    BY <1>1, <1>2, <2>1 DEF Spent
  <2>11. Spent'
    <3>1. \A q \in Peers : \A i \in directory'[q].keys : i <= directory'[q].highWater
      BY <1>1, <2>6 DEF Spent
    <3>2. ASSUME NEW g \in granted'
          PROVE  /\ g.era <= unlinks[g.owner]
                 /\ g.era = unlinks[g.owner] =>
                      /\ g.id \notin directory'[g.owner].keys
                      /\ g.id <= directory'[g.owner].highWater
      <4>1. CASE g = new
        <5>1. unlinks[r.owner] \in Nat
          BY <1>1, <1>2 DEF HistoryTypes
        <5> QED
          BY <4>1, <2>4, <2>6, <2>10, <5>1
      <4>2. CASE g \in granted
        <5>1. g.owner \in Peers
          BY <1>1, <4>2 DEF HistoryTypes, Granted
        <5> QED
          BY <1>1, <4>2, <2>6, <5>1 DEF Spent
      <4> QED
        BY <2>5, <4>1, <4>2
    <3> QED
      BY <3>1, <3>2 DEF Spent
  <2>12. OneTime'
    <3>1. ASSUME NEW g \in granted, g.owner = new.owner, g.era = new.era
          PROVE  g.id # new.id
      BY <1>1, <2>1, <2>4, <3>1 DEF Spent
    <3> QED
      BY <1>1, <2>5, <3>1 DEF OneTime
  <2> QED
    BY <2>1, <2>7, <2>8, <2>9, <2>11, <2>12
<1> QED
  BY <1>3, <1>4 DEF Grant

-----------------------------------------------------------------------------
(* What the steps keep *)

\* The directory's part of the invariant, and everything its size depends on.
ServiceInv ==
  /\ ServiceTypes /\ HistoryTypes /\ Spent /\ OneTime
  /\ \A p \in Peers : IsFiniteSet(directory[p].keys)

PumpInv ==
  /\ PumpTypes
  /\ \A x \in Pumps : IsFiniteSet(pump[x].todo) /\ IsFiniteSet(pump[x].batch)

LocalInv == DeviceTypes /\ \A p \in Peers : IsFiniteSet(local[p])

LateInv == LateTypes /\ \A c \in late : IsFiniteSet(c.batch)

LEMMA InvParts ==
  KeyInv <=> ServiceInv /\ PumpInv /\ LocalInv /\ LateInv /\ AskTypes
  BY Parts DEF KeyInv, FiniteStocks, ServiceInv, PumpInv, LocalInv, LateInv

LEMMA InvPartsPrimed ==
  KeyInv' <=> ServiceInv' /\ PumpInv' /\ LocalInv' /\ LateInv' /\ AskTypes'
  BY PartsPrimed DEF KeyInv, FiniteStocks, ServiceInv, PumpInv, LocalInv, LateInv

LEMMA ServiceStutters ==
  ASSUME ServiceInv, now' = now, UNCHANGED <<directoryVars, unlinks, granted>>
  PROVE  ServiceInv'
  BY DEF ServiceInv, ServiceTypes, HistoryTypes, Spent, OneTime, directoryVars

LEMMA DevicesStutter ==
  ASSUME LocalInv, UNCHANGED deviceVars
  PROVE  LocalInv'
  BY DEF LocalInv, DeviceTypes, deviceVars

LEMMA PumpsStutter ==
  ASSUME PumpInv, UNCHANGED pump
  PROVE  PumpInv'
  BY DEF PumpInv, PumpTypes

LEMMA AsksStutter ==
  ASSUME AskTypes, UNCHANGED ask
  PROVE  AskTypes'
  BY DEF AskTypes

LEMMA LateStutters ==
  ASSUME LateInv, UNCHANGED <<late, faults>>
  PROVE  LateInv'
  BY DEF LateInv, LateTypes

\* One pump moves to a well-formed state.
LEMMA PumpMoves ==
  ASSUME PumpInv, NEW x \in Pumps, NEW w \in Pumping,
         IsFiniteSet(w.todo), IsFiniteSet(w.batch),
         pump' = [pump EXCEPT ![x] = w]
  PROVE  PumpInv'
  BY DEF PumpInv, PumpTypes

LEMMA AskMoves ==
  ASSUME AskTypes, NEW r \in Rows, NEW stage \in {"idle", "sent", "answered"},
         NEW id \in Nat, ask' = [ask EXCEPT ![r] = [stage |-> stage, id |-> id]]
  PROVE  AskTypes'
  BY DEF AskTypes

LEMMA TickHolds == KeyInv /\ Tick => KeyInv'
<1> SUFFICES ASSUME KeyInv, Tick PROVE KeyInv'
  OBVIOUS
<1>1. ServiceInv'
  BY InvParts DEF Tick, ServiceInv, ServiceTypes, HistoryTypes, Spent, OneTime,
                  directoryVars
<1> QED
  BY <1>1, InvParts, InvPartsPrimed, DevicesStutter, PumpsStutter, AsksStutter,
     LateStutters DEF Tick

LEMMA BeginHolds ==
  ASSUME KeyInv, NEW x \in Pumps, Begin(x)
  PROVE  KeyInv'
<1>1. x[1] \in Peers
  BY PumpOwner
<1>2. LocalInv'
  <2>1. 1..First \in SUBSET Nat /\ IsFiniteSet(1..First) /\ First + 1 \in Nat
    BY RangeType, KeysAssumption
  <2>2. CASE next[x[1]] = 1
    BY <1>1, <2>1, <2>2, InvParts DEF Begin, LocalInv, DeviceTypes
  <2>3. CASE next[x[1]] # 1
    BY <2>3, InvParts DEF Begin, LocalInv, DeviceTypes
  <2> QED
    BY <2>2, <2>3
<1>3. local'[x[1]] \in SUBSET Nat /\ IsFiniteSet(local'[x[1]])
  BY <1>1, <1>2 DEF LocalInv, DeviceTypes
<1>4. PumpInv'
  BY <1>3, PublishingType, PumpMoves, InvParts DEF Begin
<1> QED
  BY <1>2, <1>4, InvParts, InvPartsPrimed, ServiceStutters, AsksStutter, LateStutters
  DEF Begin

\* The pump's other steps of its own leave the rest alone.
PumpAlone(x) ==
  /\ \E w \in Pumping : /\ IsFiniteSet(w.todo) /\ IsFiniteSet(w.batch)
                        /\ pump' = [pump EXCEPT ![x] = w]
  /\ UNCHANGED <<now, directoryVars, deviceVars, ask, late, faults, unlinks, granted>>

LEMMA PumpAloneHolds ==
  ASSUME KeyInv, NEW x \in Pumps, PumpAlone(x)
  PROVE  KeyInv'
<1>1. PumpInv'
  BY PumpMoves, InvParts DEF PumpAlone
<1> QED
  BY <1>1, InvParts, InvPartsPrimed, ServiceStutters, DevicesStutter, AsksStutter,
     LateStutters DEF PumpAlone

LEMMA AtRestType ==
  ASSUME NEW x \in Pumps
  PROVE  /\ AtRest(x) \in Pumping
         /\ IsFiniteSet(AtRest(x).todo) /\ IsFiniteSet(AtRest(x).batch)
  BY RestingType DEF AtRest

LEMMA PumpStepsHold ==
  ASSUME KeyInv, NEW x \in Pumps,
         \/ FindLow(x) \/ Republish(x) \/ PostBatch(x) \/ NextBatch(x)
         \/ RefuseBatch(x) \/ Rest(x)
  PROVE  KeyInv'
<1>1. /\ pump[x] \in Pumping /\ IsFiniteSet(pump[x].todo) /\ IsFiniteSet(pump[x].batch)
      /\ pump \in [Pumps -> Pumping]
  BY InvParts DEF PumpInv, PumpTypes
<1>2. local[x[1]] \in SUBSET Nat /\ IsFiniteSet(local[x[1]])
  BY PumpOwner, InvParts DEF LocalInv, DeviceTypes
<1>3. CASE FindLow(x)
  <2> DEFINE w == [pump[x] EXCEPT !.stage = "low"]
  <2>1. w \in Pumping /\ w.todo = pump[x].todo /\ w.batch = pump[x].batch
    BY <1>1 DEF Pumping
  <2>2. pump' = [pump EXCEPT ![x] = w]
    BY <1>3 DEF FindLow
  <2> HIDE DEF w
  <2> QED
    BY <1>1, <1>3, <2>1, <2>2, PumpAloneHolds DEF FindLow, PumpAlone
<1>4. CASE Republish(x)
  BY <1>2, <1>4, PublishingType, PumpAloneHolds DEF Republish, PumpAlone
<1>5. CASE PostBatch(x)
  <2>1. PICK batch \in SUBSET pump[x].todo :
          pump' = [pump EXCEPT ![x].stage = "sent", ![x].batch = batch]
    BY <1>5 DEF PostBatch
  <2> DEFINE w == [pump[x] EXCEPT !.stage = "sent", !.batch = batch]
  <2>2. w \in Pumping /\ w.todo = pump[x].todo /\ w.batch = batch
    BY <1>1 DEF Pumping
  <2>3. pump' = [pump EXCEPT ![x] = w]
    BY <1>1, <2>1
  <2>4. IsFiniteSet(batch)
    BY <1>1, FS_Subset
  <2> HIDE DEF w
  <2> QED
    BY <1>1, <1>5, <2>2, <2>3, <2>4, PumpAloneHolds DEF PostBatch, PumpAlone
<1>6. CASE NextBatch(x)
  <2> DEFINE w == [pump[x] EXCEPT !.stage = "publishing",
                                  !.todo = @ \ pump[x].batch, !.batch = {}]
  <2>1. w \in Pumping /\ w.todo = pump[x].todo \ pump[x].batch /\ w.batch = {}
    BY <1>1 DEF Pumping
  <2>2. pump' = [pump EXCEPT ![x] = w]
    BY <1>1, <1>6 DEF NextBatch
  <2>3. IsFiniteSet(pump[x].todo \ pump[x].batch) /\ IsFiniteSet({})
    BY <1>1, FS_Subset, FS_EmptySet
  <2> HIDE DEF w
  <2> QED
    BY <1>6, <2>1, <2>2, <2>3, PumpAloneHolds, ZenonT(60) DEF NextBatch, PumpAlone
<1>7. CASE RefuseBatch(x)
  BY <1>7, AtRestType, PumpAloneHolds DEF RefuseBatch, PumpAlone
<1>8. CASE Rest(x)
  BY <1>8, RestingType, PumpAloneHolds DEF Rest, PumpAlone
<1> QED
  BY <1>3, <1>4, <1>5, <1>6, <1>7, <1>8

LEMMA WantedType ==
  ASSUME KeyInv, NEW x \in Pumps
  PROVE  Wanted(x) \in Int
<1>1. pump[x].stock \in Nat /\ pump[x].size \in Nat
  BY InvParts DEF PumpInv, PumpTypes, Pumping
<1> QED
  BY <1>1, KeysAssumption DEF Wanted

LEMMA ReplenishHolds ==
  ASSUME KeyInv, NEW x \in Pumps, Replenish(x)
  PROVE  KeyInv'
<1>1. x[1] \in Peers
  BY PumpOwner
<1>2. /\ local[x[1]] \in SUBSET Nat /\ IsFiniteSet(local[x[1]]) /\ next[x[1]] \in Nat
      /\ Wanted(x) \in Nat
  BY <1>1, WantedType, InvParts DEF LocalInv, DeviceTypes, Replenish
<1> DEFINE new == next[x[1]]..(next[x[1]] + Wanted(x) - 1)
<1>3. CASE Cardinality(local[x[1]]) + Wanted(x) <= MaxLocal
  <2>1. new \in SUBSET Nat /\ IsFiniteSet(new)
    BY <1>2, RangeType
  <2>2. IsFiniteSet(local[x[1]] \cup new)
    BY <1>2, <2>1, FS_Union
  <2>3. /\ local' = [local EXCEPT ![x[1]] = @ \cup new]
        /\ next' = [next EXCEPT ![x[1]] = @ + Wanted(x)]
        /\ pump' = [pump EXCEPT ![x] = Publishing("grown", local'[x[1]])]
        /\ UNCHANGED <<session, sealed, opened, started>>
    BY <1>3 DEF Replenish
  <2> HIDE DEF new
  <2>4. next[x[1]] + Wanted(x) \in Nat
    BY <1>2
  <2>5. LocalInv'
    BY <1>1, <2>1, <2>2, <2>3, <2>4, InvParts DEF LocalInv, DeviceTypes
  <2>6. local'[x[1]] \in SUBSET Nat /\ IsFiniteSet(local'[x[1]])
    BY <1>1, <2>5 DEF LocalInv, DeviceTypes
  <2>7. PumpInv'
    BY <2>3, <2>6, PublishingType, PumpMoves, InvParts
  <2> QED
    BY <2>5, <2>7, InvParts, InvPartsPrimed, ServiceStutters, AsksStutter, LateStutters
    DEF Replenish
<1>4. CASE ~(Cardinality(local[x[1]]) + Wanted(x) <= MaxLocal)
  BY <1>4, RestingType, PumpAloneHolds DEF Replenish, PumpAlone, deviceVars
<1> QED
  BY <1>3, <1>4

LEMMA ServeBatchHolds ==
  ASSUME KeyInv, NEW x \in Pumps, ServeBatch(x)
  PROVE  KeyInv'
<1>1. /\ pump[x] \in Pumping /\ IsFiniteSet(pump[x].todo) /\ IsFiniteSet(pump[x].batch)
      /\ pump \in [Pumps -> Pumping] /\ pump[x].batch \in SUBSET Nat
  BY InvParts DEF PumpInv, PumpTypes, Pumping
<1>2. x[1] \in Peers
  BY PumpOwner
<1>3. ServiceInv'
  BY <1>1, <1>2, PublishKeeps DEF ServeBatch, ServiceInv
<1>4. Cardinality(directory'[x[1]].keys) \in Nat
  BY <1>2, <1>3, FS_CardinalityType DEF ServiceInv
<1> DEFINE w == [pump[x] EXCEPT !.stage = "answered",
                                !.stock = Cardinality(directory'[x[1]].keys)]
<1>5. w \in Pumping /\ w.todo = pump[x].todo /\ w.batch = pump[x].batch
  BY <1>1, <1>4 DEF Pumping
<1>6. pump' = [pump EXCEPT ![x] = w]
  BY <1>1 DEF ServeBatch
<1> HIDE DEF w
<1>7. PumpInv'
  BY <1>1, <1>5, <1>6, PumpMoves, InvParts
<1> QED
  BY <1>3, <1>7, InvParts, InvPartsPrimed, DevicesStutter, AsksStutter, LateStutters
  DEF ServeBatch

LEMMA AskStepsHold ==
  ASSUME KeyInv, NEW r \in Rows, Ask(r) \/ RefuseAsk(r)
  PROVE  KeyInv'
<1>1. ask[r].id \in Nat /\ ask \in [Rows -> [stage : {"idle", "sent", "answered"}, id : Nat]]
  BY InvParts DEF AskTypes
<1>2. AskTypes'
  <2>1. CASE Ask(r)
    BY <1>1, <2>1 DEF Ask, AskTypes
  <2>2. CASE RefuseAsk(r)
    BY <1>1, <2>2 DEF RefuseAsk, AskTypes, NoAsk
  <2> QED
    BY <2>1, <2>2
<1> QED
  BY <1>2, InvParts, InvPartsPrimed, ServiceStutters, DevicesStutter, PumpsStutter,
     LateStutters DEF Ask, RefuseAsk

LEMMA ServeAskHolds ==
  ASSUME KeyInv, NEW r \in Rows, ServeAsk(r)
  PROVE  KeyInv'
<1>1. PICK id \in Numbers :
        Grant(r, id) /\ ask' = [ask EXCEPT ![r] = [stage |-> "answered", id |-> id]]
  BY DEF ServeAsk
<1>2. ServiceInv' /\ id \in Nat
  BY <1>1, GrantKeeps DEF ServeAsk, ServiceInv
<1>3. AskTypes'
  BY <1>1, <1>2, AskMoves, InvParts
<1> QED
  BY <1>2, <1>3, InvParts, InvPartsPrimed, DevicesStutter, PumpsStutter, LateStutters
  DEF ServeAsk

LEMMA SealStepsHold ==
  ASSUME KeyInv, NEW r \in Rows, SealWithBundle(r) \/ SealInSession(r)
  PROVE  KeyInv'
<1>1. r.actor \in Peers /\ r.owner \in Peers
  BY RowTypes
<1>2. AskTypes' /\ LocalInv'
  <2>1. CASE SealWithBundle(r)
    <3>1. ask[r].id \in Nat
      BY InvParts DEF AskTypes
    <3>2. session' \in [Peers -> [Peers -> Nat]]
      BY <1>1, <2>1, <3>1, InvParts DEF SealWithBundle, LocalInv, DeviceTypes
    <3>3. sealed' \in [Rows -> Nat]
      BY <1>1, <2>1, <3>2, InvParts DEF SealWithBundle, LocalInv, DeviceTypes
    <3>4. AskTypes'
      BY <2>1, InvParts DEF SealWithBundle, AskTypes, NoAsk
    <3> QED
      BY <2>1, <3>2, <3>3, <3>4, InvParts DEF SealWithBundle, LocalInv, DeviceTypes
  <2>2. CASE SealInSession(r)
    BY <1>1, <2>2, InvParts DEF SealInSession, LocalInv, DeviceTypes, AskTypes
  <2> QED
    BY <2>1, <2>2
<1> QED
  BY <1>2, InvParts, InvPartsPrimed, ServiceStutters, PumpsStutter, LateStutters
  DEF SealWithBundle, SealInSession

LEMMA OpenHolds ==
  ASSUME KeyInv, NEW r \in Rows, Open(r)
  PROVE  KeyInv'
<1>1. r.actor \in Peers /\ r.owner \in Peers /\ sealed[r] \in Nat
  BY RowTypes, InvParts DEF LocalInv, DeviceTypes
<1>2. LocalInv'
  <2>1. CASE <<r.actor, sealed[r]>> \in started[r.owner]
    BY <2>1, InvParts DEF Open, LocalInv, DeviceTypes
  <2>2. CASE <<r.actor, sealed[r]>> \notin started[r.owner]
    <3>1. IsFiniteSet(local[r.owner])
      BY <1>1, InvParts DEF LocalInv
    <3>2. IsFiniteSet(local[r.owner] \ {sealed[r]})
      BY <3>1, FS_Subset
    <3>3. /\ local' = [local EXCEPT ![r.owner] = @ \ {sealed[r]}]
          /\ started' = [started EXCEPT ![r.owner] = @ \cup {<<r.actor, sealed[r]>>}]
          /\ opened' = opened \cup {r}
          /\ UNCHANGED <<next, session, sealed>>
      BY <2>2 DEF Open
    <3>4. DeviceTypes'
      BY <1>1, <3>3, InvParts DEF LocalInv, DeviceTypes
    <3>5. \A p \in Peers : IsFiniteSet(local'[p])
      BY <1>1, <3>2, <3>3, InvParts DEF LocalInv, DeviceTypes
    <3> QED
      BY <3>4, <3>5 DEF LocalInv
  <2> QED
    BY <2>1, <2>2
<1> QED
  BY <1>2, InvParts, InvPartsPrimed, ServiceStutters, PumpsStutter, AsksStutter,
     LateStutters DEF Open

LEMMA FaultsHold ==
  ASSUME KeyInv,
         \/ \E x \in Pumps : TimeOutBatch(x) \/ Die(x)
         \/ \E r \in Rows : LoseAsk(r)
  PROVE  KeyInv'
<1>1. ASSUME NEW x \in Pumps, TimeOutBatch(x) \/ Die(x)
      PROVE  KeyInv'
  <2>1. /\ pump[x].batch \in SUBSET Nat /\ IsFiniteSet(pump[x].batch)
        /\ x[1] \in Peers
    BY PumpOwner, InvParts DEF PumpInv, PumpTypes, Pumping
  <2>2. AbandonedBatch(x) \subseteq [owner : Peers, batch : SUBSET Nat, rows : SUBSET Rows]
        /\ \A c \in AbandonedBatch(x) : IsFiniteSet(c.batch)
    BY <2>1, InvParts DEF AbandonedBatch, LateInv, LateTypes
  <2>3. LateInv'
    BY <1>1, <2>2, InvParts DEF TimeOutBatch, Die, LateInv, LateTypes
  <2>4. PumpInv'
    BY <1>1, AtRestType, RestingType, PumpMoves, InvParts DEF TimeOutBatch, Die
  <2> QED
    BY <1>1, <2>3, <2>4, InvParts, InvPartsPrimed, ServiceStutters, DevicesStutter,
       AsksStutter DEF TimeOutBatch, Die
<1>2. ASSUME NEW r \in Rows, LoseAsk(r)
      PROVE  KeyInv'
  <2>1. AbandonedAsk(r) \subseteq [owner : Peers, batch : SUBSET Nat, rows : SUBSET Rows]
        /\ \A c \in AbandonedAsk(r) : IsFiniteSet(c.batch)
    <3> DEFINE new == [owner |-> r.owner, batch |-> {}, rows |-> {r}]
    <3>1. new \in [owner : Peers, batch : SUBSET Nat, rows : SUBSET Rows] /\ new.batch = {}
      BY RowTypes
    <3>2. \A c \in AbandonedAsk(r) : c \in late \/ c = new
      BY DEF AbandonedAsk
    <3> HIDE DEF new
    <3> QED
      BY <3>1, <3>2, FS_EmptySet, InvParts DEF LateInv, LateTypes
  <2>2. LateInv'
    BY <1>2, <2>1, InvParts DEF LoseAsk, LateInv, LateTypes
  <2>3. AskTypes'
    BY <1>2, InvParts DEF LoseAsk, AskTypes, NoAsk
  <2> QED
    BY <1>2, <2>2, <2>3, InvParts, InvPartsPrimed, ServiceStutters, DevicesStutter,
       PumpsStutter DEF LoseAsk
<1> QED
  BY <1>1, <1>2

LEMMA ServeLateHolds ==
  ASSUME KeyInv, NEW c \in late, ServeLate(c)
  PROVE  KeyInv'
<1>1. /\ c.owner \in Peers /\ c.batch \in SUBSET Nat /\ IsFiniteSet(c.batch)
      /\ c.rows \in SUBSET Rows
  BY InvParts DEF LateInv, LateTypes
<1>2. ServiceInv'
  <2>1. CASE c.rows = {}
    BY <1>1, <2>1, PublishKeeps DEF ServeLate, ServiceInv
  <2>2. CASE c.rows # {}
    BY <1>1, <2>2, GrantKeeps DEF ServeLate, ServiceInv
  <2> QED
    BY <2>1, <2>2
<1>3. LateInv'
  BY InvParts DEF ServeLate, LateInv, LateTypes
<1> QED
  BY <1>2, <1>3, InvParts, InvPartsPrimed, DevicesStutter, PumpsStutter, AsksStutter
  DEF ServeLate

LEMMA PhoneStepsHold ==
  ASSUME KeyInv, NEW p \in Keepers, UnlinkPhone(p) \/ RegisterPhone(p)
  PROVE  KeyInv'
<1>1. p \in Peers /\ ServiceInv
  BY KeysAssumption, InvParts
<1>2. CASE UnlinkPhone(p)
  <2>1. /\ directory' = [directory EXCEPT ![p] = Absent]
        /\ unlinks' = [unlinks EXCEPT ![p] = @ + 1]
        /\ leases' \subseteq leases /\ registered' \subseteq registered
        /\ now' = now /\ granted' = granted
    BY <1>2 DEF UnlinkPhone, Unlink
  <2>2. ServiceTypes' /\ HistoryTypes'
    BY <1>1, <2>1 DEF ServiceInv, ServiceTypes, HistoryTypes, Absent
  <2>3. Spent'
    <3>1. \A q \in Peers : \A i \in directory'[q].keys : i <= directory'[q].highWater
      BY <1>1, <2>1 DEF ServiceInv, ServiceTypes, Spent, Absent
    <3>2. ASSUME NEW g \in granted
          PROVE  /\ g.era <= unlinks'[g.owner]
                 /\ g.era = unlinks'[g.owner] =>
                      /\ g.id \notin directory'[g.owner].keys
                      /\ g.id <= directory'[g.owner].highWater
      <4>1. g.owner \in Peers /\ g.era \in Nat /\ unlinks[g.owner] \in Nat
            /\ g.era <= unlinks[g.owner]
        BY <1>1 DEF ServiceInv, HistoryTypes, Granted, Spent
      <4>2. CASE g.owner = p
        <5>1. unlinks'[g.owner] = unlinks[g.owner] + 1
          BY <1>1, <2>1, <4>2 DEF ServiceInv, HistoryTypes
        <5> QED
          BY <4>1, <5>1
      <4>3. CASE g.owner # p
        BY <1>1, <2>1, <4>1, <4>3 DEF ServiceInv, ServiceTypes, HistoryTypes, Spent
      <4> QED
        BY <4>2, <4>3
    <3> QED
      BY <2>1, <3>1, <3>2 DEF Spent
  <2>4. OneTime'
    BY <1>1, <2>1 DEF ServiceInv, OneTime
  <2>5. \A q \in Peers : IsFiniteSet(directory'[q].keys)
    BY <1>1, <2>1, FS_EmptySet DEF ServiceInv, ServiceTypes, Absent
  <2> QED
    BY <1>2, <2>2, <2>3, <2>4, <2>5, InvParts, InvPartsPrimed, DevicesStutter,
       PumpsStutter, AsksStutter, LateStutters DEF UnlinkPhone, ServiceInv
<1>3. CASE RegisterPhone(p)
  <2>1. ServiceInv'
    BY <1>1, <1>3 DEF RegisterPhone, Register, ServiceInv, ServiceTypes, HistoryTypes,
                      Spent, OneTime
  <2> QED
    BY <1>3, <2>1, InvParts, InvPartsPrimed, DevicesStutter, PumpsStutter, AsksStutter,
       LateStutters DEF RegisterPhone
<1> QED
  BY <1>2, <1>3

-----------------------------------------------------------------------------
(* Theorems *)

\* Whatever pumps, correspondents, faults and phone registrations do, the
\* invariant holds: what was given out since the registration is below the
\* high-water mark and out of stock.
THEOREM KeyInvariant == Spec => []KeyInv
<1>1. KeyInv /\ [Next]_vars => KeyInv'
  <2> SUFFICES ASSUME KeyInv, [Next]_vars PROVE KeyInv'
    OBVIOUS
  <2>1. CASE Next
    <3>1. CASE Tick
      BY <3>1, TickHolds
    <3>2. ASSUME NEW x \in Pumps,
                 \/ Begin(x) \/ FindLow(x) \/ Republish(x)
                 \/ PostBatch(x) \/ ServeBatch(x) \/ NextBatch(x) \/ RefuseBatch(x)
                 \/ Rest(x) \/ Replenish(x)
                 \/ TimeOutBatch(x) \/ Die(x)
          PROVE  KeyInv'
      BY <3>2, BeginHolds, PumpStepsHold, ServeBatchHolds, ReplenishHolds, FaultsHold
    <3>3. ASSUME NEW r \in Rows,
                 \/ Ask(r) \/ ServeAsk(r) \/ RefuseAsk(r) \/ LoseAsk(r)
                 \/ SealWithBundle(r) \/ SealInSession(r) \/ Open(r)
          PROVE  KeyInv'
      BY <3>3, AskStepsHold, ServeAskHolds, FaultsHold, SealStepsHold, OpenHolds
    <3>4. ASSUME NEW c \in late, ServeLate(c) PROVE KeyInv'
      BY <3>4, ServeLateHolds
    <3>5. ASSUME NEW p \in Keepers, UnlinkPhone(p) \/ RegisterPhone(p) PROVE KeyInv'
      BY <3>5, PhoneStepsHold
    <3> QED
      BY <2>1, <3>1, <3>2, <3>3, <3>4, <3>5 DEF Next
  <2>2. CASE UNCHANGED vars
    <3>1. now' = now
      BY <2>2 DEF vars
    <3> QED
      BY <2>2, <3>1, InvParts, InvPartsPrimed, ServiceStutters, DevicesStutter,
         PumpsStutter, AsksStutter, LateStutters DEF vars
  <2> QED
    BY <2>1, <2>2
<1> QED
  BY <1>1, InitHolds, PTL DEF Spec

\* The variables keep their types for every size of the stocks.
THEOREM TypeCorrect == Spec => []TypeOK
<1>1. KeyInv => TypeOK
  BY DEF KeyInv
<1> QED
  BY <1>1, KeyInvariant, PTL

\* No one-time key goes to two requests while its owner stays registered, for
\* every number of devices, processes, rows, batches, faults and late requests.
THEOREM KeysAreGivenOnce == Spec => []OneTime
<1>1. KeyInv => OneTime
  BY DEF KeyInv
<1> QED
  BY <1>1, KeyInvariant, PTL

-----------------------------------------------------------------------------
(* Publications: the invariant *)

\* The numbers that p has given to key pairs.
MadeBy(p) == {i \in Nat : 0 < i /\ i < next[p]}

\* The owner was never unlinked, so that what it published since it began is
\* in stock or was given out.
FirstEra(p) == unlinks[p] = 0

RegisteredAtFirst == \A p \in Peers : FirstEra(p) => p \in registered

\* A key pair leaves the device when it opens a first message, and no device
\* has more of them than it may.
PairsAreKept ==
  /\ \A p \in Peers :
       0 < next[p] /\ local[p] \subseteq MadeBy(p) /\ Cardinality(local[p]) <= MaxLocal
  /\ \A p \in Keepers : \A i \in MadeBy(p) :
       i \in local[p] \/ \E q \in Peers : <<q, i>> \in started[p]

\* The directory knows keys that were made, and gave out such keys only.
ServiceKnowsTheMade ==
  /\ \A p \in Peers :
       directory[p].highWater < next[p] /\ directory[p].keys \subseteq MadeBy(p)
  /\ \A g \in granted : g.id \in MadeBy(g.owner)

NoGap(p, keys) ==
  \A j \in keys : \A i \in Nat : 0 < i /\ i < j => i \in keys \/ i <= directory[p].highWater

\* Published next, these keys leave no number out.
Gapless(p, keys) == keys \subseteq MadeBy(p) /\ (FirstEra(p) => NoGap(p, keys))

PumpsLeaveNoGap ==
  \A x \in Pumps :
    /\ Gapless(x[1], pump[x].todo) /\ Gapless(x[1], pump[x].batch)
    /\ pump[x].stage = "answered" /\ FirstEra(x[1]) =>
         \A i \in pump[x].batch : i <= directory[x[1]].highWater

\* Neither do the batches that come late.
LateLeavesNoGap == \A o \in late : o.owner \in Keepers /\ Gapless(o.owner, o.batch)

HasGrant(a, p, i) == \E g \in granted : g.owner = p /\ g.id = i /\ g.actor = a

\* Whoever uses a key was given it.
UsersWereGranted ==
  /\ \A l \in leases : HasGrant(l.actor, l.owner, l.id)
  /\ \A r \in Rows :
       /\ ask[r].stage = "answered" => HasGrant(r.actor, r.owner, ask[r].id)
       /\ ~Unsealed(r) => HasGrant(r.actor, r.owner, sealed[r])
  /\ \A p, q \in Peers : session[p][q] # 0 => HasGrant(p, q, session[p][q])
  /\ \A p \in Peers : \A u \in started[p] : HasGrant(u[1], p, u[2])

KeeperInv ==
  /\ RegisteredAtFirst /\ PairsAreKept /\ ServiceKnowsTheMade
  /\ PumpsLeaveNoGap /\ LateLeavesNoGap /\ UsersWereGranted /\ NothingSkipped

\* Numbers, marks and eras only grow.
Grows ==
  \A p \in Peers :
    /\ next[p] <= next'[p]
    /\ FirstEra(p)' => FirstEra(p) /\ directory[p].highWater <= directory'[p].highWater

\* What the types say of the numbers of a device.
LEMMA NumberTypes ==
  ASSUME KeyInv, NEW p \in Peers
  PROVE  /\ next[p] \in Nat /\ unlinks[p] \in Nat /\ local[p] \in SUBSET Nat
         /\ directory[p].highWater \in Nat /\ directory[p].keys \in SUBSET Nat
         /\ IsFiniteSet(local[p]) /\ IsFiniteSet(directory[p].keys)
         /\ \A i \in directory[p].keys : i <= directory[p].highWater
<1>1. ServiceTypes /\ DeviceTypes /\ HistoryTypes /\ FiniteStocks /\ Spent
  BY Parts DEF KeyInv
<1>2. directory[p] \in [present : BOOLEAN, highWater : Nat, keys : SUBSET Nat]
  BY <1>1 DEF ServiceTypes
<1> QED
  BY <1>1, <1>2 DEF DeviceTypes, HistoryTypes, FiniteStocks, Spent

LEMMA GrantTypes ==
  ASSUME KeyInv, NEW g \in granted
  PROVE  /\ g.owner \in Peers /\ g.actor \in Peers /\ g.id \in Nat /\ g.era \in Nat
         /\ g.era <= unlinks[g.owner]
         /\ FirstEra(g.owner) => /\ g.era = 0 /\ g.id \notin directory[g.owner].keys
                                 /\ g.id <= directory[g.owner].highWater
<1>1. HistoryTypes /\ Spent
  BY Parts DEF KeyInv
<1>2. g \in Granted /\ unlinks \in [Peers -> Nat]
  BY <1>1 DEF HistoryTypes
<1>3. g.owner \in Peers /\ g.actor \in Peers /\ g.id \in Nat /\ g.era \in Nat
  BY <1>2 DEF Granted
<1> QED
  BY <1>1, <1>2, <1>3 DEF Spent, FirstEra

LEMMA GaplessStays ==
  ASSUME KeyInv, KeyInv', Grows, NEW p \in Peers, NEW keys, Gapless(p, keys)
  PROVE  Gapless(p, keys)'
<1>1. /\ next[p] \in Nat /\ next'[p] \in Nat /\ next[p] <= next'[p]
      /\ directory[p].highWater \in Nat /\ directory'[p].highWater \in Nat
  BY NumberTypes DEF Grows, KeyInv, TypeOK
<1>2. keys \subseteq MadeBy(p)'
  BY <1>1 DEF Gapless, MadeBy
<1>3. ASSUME FirstEra(p)' PROVE NoGap(p, keys)'
  <2>1. FirstEra(p) /\ directory[p].highWater <= directory'[p].highWater
    BY <1>3 DEF Grows
  <2> QED
    BY <1>1, <2>1 DEF Gapless, NoGap, MadeBy
<1> QED
  BY <1>2, <1>3 DEF Gapless

LEMMA PumpsStay ==
  ASSUME KeyInv, KeyInv', Grows, PumpsLeaveNoGap, NEW x \in Pumps, pump'[x] = pump[x]
  PROVE  /\ Gapless(x[1], pump[x].todo)' /\ Gapless(x[1], pump[x].batch)'
         /\ pump'[x].stage = "answered" /\ FirstEra(x[1])' =>
              \A i \in pump'[x].batch : i <= directory'[x[1]].highWater
<1>1. PICK t : t = pump[x].todo
  OBVIOUS
<1>2. PICK b : b = pump[x].batch
  OBVIOUS
<1>3. x[1] \in Peers
  BY PumpOwner
<1>4. Gapless(x[1], t) /\ Gapless(x[1], b)
  BY <1>1, <1>2 DEF PumpsLeaveNoGap
<1>5. Gapless(x[1], t)' /\ Gapless(x[1], b)'
  BY <1>3, <1>4, GaplessStays
<1>6. ASSUME pump'[x].stage = "answered", FirstEra(x[1])'
      PROVE  \A i \in pump'[x].batch : i <= directory'[x[1]].highWater
  <2>1. FirstEra(x[1]) /\ directory[x[1]].highWater <= directory'[x[1]].highWater
    BY <1>3, <1>6 DEF Grows
  <2>2. \A i \in b : i \in Nat /\ i <= directory[x[1]].highWater
    BY <1>2, <1>4, <1>6, <2>1 DEF PumpsLeaveNoGap, Gapless, MadeBy
  <2>3. directory[x[1]].highWater \in Nat /\ directory'[x[1]].highWater \in Nat
    BY <1>3 DEF KeyInv, TypeOK
  <2> QED
    BY <1>2, <2>1, <2>2, <2>3
<1>7. pump'[x].todo = t /\ pump'[x].batch = b
  BY <1>1, <1>2
<1> QED
  BY <1>5, <1>6, <1>7 DEF Gapless, NoGap, MadeBy, FirstEra

\* One pump moves, the others stay.
LEMMA OnePumpMoves ==
  ASSUME KeyInv, KeyInv', Grows, PumpsLeaveNoGap, NEW x \in Pumps, NEW w \in Pumping,
         pump' = [pump EXCEPT ![x] = w],
         Gapless(x[1], w.todo)', Gapless(x[1], w.batch)',
         w.stage = "answered" /\ FirstEra(x[1])' =>
           \A i \in w.batch : i <= directory'[x[1]].highWater
  PROVE  PumpsLeaveNoGap'
<1>1. pump \in [Pumps -> Pumping]
  BY Parts DEF KeyInv, PumpTypes
<1>2. pump'[x] = w /\ \A y \in Pumps \ {x} : pump'[y] = pump[y]
  BY <1>1
<1>3. ASSUME NEW y \in Pumps
      PROVE  /\ Gapless(y[1], pump[y].todo)' /\ Gapless(y[1], pump[y].batch)'
             /\ pump'[y].stage = "answered" /\ FirstEra(y[1])' =>
                  \A i \in pump'[y].batch : i <= directory'[y[1]].highWater
  <2>1. CASE y = x
    BY <1>2, <2>1 DEF Gapless, NoGap, MadeBy, FirstEra
  <2>2. CASE y # x
    BY <1>2, <2>2, PumpsStay
  <2> QED
    BY <2>1, <2>2
<1> QED
  BY <1>3 DEF PumpsLeaveNoGap

\* What nobody touches.
LEMMA NothingGrew ==
  ASSUME KeyInv, UNCHANGED <<next, unlinks, directory>>
  PROVE  Grows
  BY NumberTypes DEF Grows, FirstEra

LEMMA LateStays ==
  ASSUME KeyInv, KeyInv', Grows, LateLeavesNoGap, late' \subseteq late
  PROVE  LateLeavesNoGap'
<1> SUFFICES ASSUME NEW o \in late' PROVE o.owner \in Keepers /\ Gapless(o.owner, o.batch)'
  BY DEF LateLeavesNoGap
<1>1. o.owner \in Keepers /\ o.owner \in Peers /\ Gapless(o.owner, o.batch)
  BY KeysAssumption DEF LateLeavesNoGap
<1> QED
  BY <1>1, GaplessStays

LEMMA LateAdded ==
  ASSUME KeyInv, KeyInv', Grows, LateLeavesNoGap, NEW n, late' \subseteq late \cup {n},
         n.owner \in Keepers, Gapless(n.owner, n.batch)
  PROVE  LateLeavesNoGap'
<1> SUFFICES ASSUME NEW o \in late' PROVE o.owner \in Keepers /\ Gapless(o.owner, o.batch)'
  BY DEF LateLeavesNoGap
<1>1. o.owner \in Keepers /\ o.owner \in Peers /\ Gapless(o.owner, o.batch)
  BY KeysAssumption DEF LateLeavesNoGap
<1> QED
  BY <1>1, GaplessStays

LEMMA AllPumpsStay ==
  ASSUME KeyInv, KeyInv', Grows, PumpsLeaveNoGap, UNCHANGED pump
  PROVE  PumpsLeaveNoGap'
<1> SUFFICES ASSUME NEW x \in Pumps
             PROVE  /\ Gapless(x[1], pump[x].todo)' /\ Gapless(x[1], pump[x].batch)'
                    /\ pump'[x].stage = "answered" /\ FirstEra(x[1])' =>
                         \A i \in pump'[x].batch : i <= directory'[x[1]].highWater
  BY DEF PumpsLeaveNoGap
<1> QED
  BY PumpsStay

LEMMA UsersStay ==
  ASSUME UsersWereGranted, granted \subseteq granted',
         \A l \in leases' : l \in leases \/ HasGrant(l.actor, l.owner, l.id)',
         \A r \in Rows : ask'[r].stage = "answered" =>
           ask'[r] = ask[r] \/ HasGrant(r.actor, r.owner, ask[r].id)',
         UNCHANGED <<sealed, session, started>>
  PROVE  UsersWereGranted'
<1>1. ASSUME NEW a, NEW p, NEW i, HasGrant(a, p, i)
      PROVE  HasGrant(a, p, i)'
  BY <1>1 DEF HasGrant
<1>2. \A l \in leases' : HasGrant(l.actor, l.owner, l.id)'
  BY <1>1 DEF UsersWereGranted
<1>3. ASSUME NEW r \in Rows
      PROVE  /\ ask'[r].stage = "answered" => HasGrant(r.actor, r.owner, ask[r].id)'
             /\ ~Unsealed(r)' => HasGrant(r.actor, r.owner, sealed[r])'
  <2>1. PICK i : i = ask[r].id
    OBVIOUS
  <2>2. PICK j : j = sealed[r]
    OBVIOUS
  <2>3. ask'[r].stage = "answered" =>
          \/ ask'[r] = ask[r] /\ HasGrant(r.actor, r.owner, i)'
          \/ HasGrant(r.actor, r.owner, ask[r].id)'
    BY <1>1, <2>1 DEF UsersWereGranted
  <2>4. ~Unsealed(r) => HasGrant(r.actor, r.owner, j)'
    BY <1>1, <2>2 DEF UsersWereGranted
  <2> QED
    BY <2>1, <2>2, <2>3, <2>4 DEF Unsealed, HasGrant
<1>4. ASSUME NEW p \in Peers, NEW q \in Peers, session'[p][q] # 0
      PROVE  HasGrant(p, q, session[p][q])'
  <2>1. PICK i : i = session[p][q]
    OBVIOUS
  <2>2. HasGrant(p, q, i)'
    BY <1>1, <1>4, <2>1 DEF UsersWereGranted
  <2> QED
    BY <2>1, <2>2 DEF HasGrant
<1>5. \A p \in Peers : \A u \in started'[p] : HasGrant(u[1], p, u[2])'
  BY <1>1 DEF UsersWereGranted
<1> QED
  BY <1>2, <1>3, <1>4, <1>5 DEF UsersWereGranted

LEMMA ServiceStays ==
  ASSUME KeyInv, KeyInv', Grows, ServiceKnowsTheMade, UNCHANGED <<directory, granted>>
  PROVE  ServiceKnowsTheMade'
<1>1. \A p \in Peers : next[p] \in Nat /\ next'[p] \in Nat /\ next[p] <= next'[p]
                       /\ directory[p].highWater \in Nat
  BY DEF Grows, KeyInv, TypeOK
<1>2. \A p \in Peers : MadeBy(p) \subseteq MadeBy(p)'
  BY <1>1 DEF MadeBy
<1>3. \A g \in granted : g.owner \in Peers
  BY GrantTypes
<1> QED
  BY <1>1, <1>2, <1>3 DEF ServiceKnowsTheMade

LEMMA RestStays ==
  ASSUME RegisteredAtFirst, NothingSkipped, UNCHANGED <<registered, unlinks, directory, granted>>
  PROVE  RegisteredAtFirst' /\ NothingSkipped'
  BY DEF RegisteredAtFirst, NothingSkipped, FirstEra

LEMMA PairsStay ==
  ASSUME PairsAreKept, UNCHANGED <<next, local, started>>
  PROVE  PairsAreKept'
  BY DEF PairsAreKept, MadeBy

\* A number whose key pair is gone was given out.
LEMMA GoneWasGiven ==
  ASSUME KeyInv, PairsAreKept, UsersWereGranted, NEW p \in Keepers, NEW i \in MadeBy(p),
         i \notin local[p]
  PROVE  \E g \in granted : g.owner = p /\ g.id = i
<1>1. PICK q \in Peers : <<q, i>> \in started[p]
  BY DEF PairsAreKept
<1>2. p \in Peers
  BY KeysAssumption
<1> QED
  BY <1>1, <1>2 DEF UsersWereGranted, HasGrant

LEMMA LocalIsGapless ==
  ASSUME KeyInv, KeeperInv, NEW p \in Keepers
  PROVE  Gapless(p, local[p])
<1>1. p \in Peers /\ next[p] \in Nat /\ local[p] \subseteq MadeBy(p)
  BY KeysAssumption, NumberTypes DEF KeeperInv, PairsAreKept
<1>2. ASSUME FirstEra(p), NEW j \in local[p], NEW i \in Nat, 0 < i, i < j, i \notin local[p]
      PROVE  i <= directory[p].highWater
  <2>1. i \in MadeBy(p)
    BY <1>1, <1>2 DEF MadeBy
  <2>2. PICK g \in granted : g.owner = p /\ g.id = i
    BY <1>2, <2>1, GoneWasGiven DEF KeeperInv
  <2> QED
    BY <1>2, <2>2, GrantTypes
<1> QED
  BY <1>1, <1>2 DEF Gapless, NoGap

\* Steps of a pump that touch nothing else of what the invariant names.
LEMMA PumpStepKeeps ==
  ASSUME KeyInv, KeyInv', KeeperInv, NEW x \in Pumps, NEW w \in Pumping,
         pump' = [pump EXCEPT ![x] = w], w.stage # "answered",
         Gapless(x[1], w.todo), Gapless(x[1], w.batch),
         LateLeavesNoGap', UNCHANGED <<directoryVars, deviceVars, ask, unlinks, granted>>
  PROVE  KeeperInv'
<1>1. Grows
  BY NothingGrew DEF directoryVars, deviceVars
<1>2. x[1] \in Peers
  BY PumpOwner
<1>3. Gapless(x[1], w.todo)' /\ Gapless(x[1], w.batch)'
  BY <1>1, <1>2, GaplessStays
<1>4. PumpsLeaveNoGap'
  BY <1>1, <1>3, OnePumpMoves DEF KeeperInv
<1>5. RegisteredAtFirst' /\ NothingSkipped' /\ ServiceKnowsTheMade' /\ PairsAreKept'
      /\ UsersWereGranted'
  BY <1>1, RestStays, ServiceStays, PairsStay, UsersStay
  DEF KeeperInv, directoryVars, deviceVars
<1> QED
  BY <1>4, <1>5 DEF KeeperInv

LEMMA NoGapInNothing ==
  ASSUME NEW p \in Peers, NEW stage \in {"new", "ready"}
  PROVE  /\ Gapless(p, {}) /\ Gapless(p, Resting(stage).todo)
         /\ Gapless(p, Resting(stage).batch) /\ Resting(stage).stage # "answered"
  BY DEF Gapless, NoGap, Resting

LEMMA PumpStepsKeep ==
  ASSUME KeyInv, KeyInv', KeeperInv, NEW x \in Pumps,
         \/ FindLow(x) \/ Republish(x) \/ PostBatch(x) \/ NextBatch(x)
         \/ RefuseBatch(x) \/ Rest(x)
  PROVE  KeeperInv'
<1>1. /\ pump[x] \in Pumping /\ pump \in [Pumps -> Pumping]
      /\ IsFiniteSet(pump[x].todo) /\ IsFiniteSet(pump[x].batch)
  BY InvParts DEF PumpInv, PumpTypes
<1>2. x[1] \in Peers /\ x[1] \in Keepers
  BY PumpOwner DEF Pumps
<1>3. Gapless(x[1], pump[x].todo) /\ Gapless(x[1], pump[x].batch)
  BY DEF KeeperInv, PumpsLeaveNoGap
<1>4. UNCHANGED <<directoryVars, deviceVars, ask, late, unlinks, granted>>
  BY DEF FindLow, Republish, PostBatch, NextBatch, RefuseBatch, Rest
<1>5. LateLeavesNoGap'
  BY <1>4, NothingGrew, LateStays DEF KeeperInv, directoryVars, deviceVars
<1>6. CASE FindLow(x)
  <2> DEFINE w == [pump[x] EXCEPT !.stage = "low"]
  <2>1. w \in Pumping /\ w.todo = pump[x].todo /\ w.batch = pump[x].batch /\ w.stage = "low"
    BY <1>1 DEF Pumping
  <2>2. pump' = [pump EXCEPT ![x] = w]
    BY <1>6 DEF FindLow
  <2> HIDE DEF w
  <2> QED
    BY <1>3, <1>4, <1>5, <2>1, <2>2, PumpStepKeeps
<1>7. CASE Republish(x)
  <2> DEFINE w == Publishing("again", local[x[1]])
  <2>1. w \in Pumping /\ w.todo = local[x[1]] /\ w.batch = {} /\ w.stage = "publishing"
    BY <1>2, NumberTypes, PublishingType DEF Publishing
  <2>2. pump' = [pump EXCEPT ![x] = w]
    BY <1>7 DEF Republish
  <2>3. Gapless(x[1], local[x[1]]) /\ Gapless(x[1], {})
    BY <1>2, LocalIsGapless, NoGapInNothing
  <2> HIDE DEF w
  <2> QED
    BY <1>4, <1>5, <2>1, <2>2, <2>3, PumpStepKeeps
<1>8. CASE PostBatch(x)
  <2>1. PICK batch \in SUBSET pump[x].todo :
          /\ NextOf(pump[x].todo, batch)
          /\ pump' = [pump EXCEPT ![x].stage = "sent", ![x].batch = batch]
    BY <1>8 DEF PostBatch
  <2> DEFINE w == [pump[x] EXCEPT !.stage = "sent", !.batch = batch]
  <2>2. w \in Pumping /\ w.todo = pump[x].todo /\ w.batch = batch /\ w.stage = "sent"
    BY <1>1 DEF Pumping
  <2>3. pump' = [pump EXCEPT ![x] = w]
    BY <1>1, <2>1
  <2>4. Gapless(x[1], batch)
    <3>1. pump[x].todo \subseteq Nat
      BY <1>1 DEF Pumping
    <3>2. ASSUME FirstEra(x[1]), NEW j \in batch, NEW i \in Nat, 0 < i, i < j
          PROVE  i \in batch \/ i <= directory[x[1]].highWater
      <4>1. i \in pump[x].todo \/ i <= directory[x[1]].highWater
        BY <1>3, <3>2, <2>1 DEF Gapless, NoGap
      <4>2. i \in pump[x].todo \ batch => j < i
        BY <2>1 DEF NextOf
      <4>3. j \in Nat
        BY <2>1, <3>1
      <4> QED
        BY <3>2, <4>1, <4>2, <4>3
    <3> QED
      BY <1>3, <2>1, <3>2 DEF Gapless, NoGap
  <2> HIDE DEF w
  <2> QED
    BY <1>3, <1>4, <1>5, <2>2, <2>3, <2>4, PumpStepKeeps
<1>9. CASE NextBatch(x)
  <2> DEFINE w == [pump[x] EXCEPT !.stage = "publishing",
                                  !.todo = @ \ pump[x].batch, !.batch = {}]
  <2>1. w \in Pumping /\ w.todo = pump[x].todo \ pump[x].batch /\ w.batch = {}
        /\ w.stage = "publishing"
    BY <1>1 DEF Pumping
  <2>2. pump' = [pump EXCEPT ![x] = w] /\ pump[x].stage = "answered"
    BY <1>1, <1>9 DEF NextBatch
  <2>3. Gapless(x[1], pump[x].todo \ pump[x].batch)
    <3>1. FirstEra(x[1]) => \A i \in pump[x].batch : i <= directory[x[1]].highWater
      BY <2>2 DEF KeeperInv, PumpsLeaveNoGap
    <3> QED
      BY <1>3, <3>1 DEF Gapless, NoGap
  <2>4. Gapless(x[1], {})
    BY <1>2, NoGapInNothing
  <2> HIDE DEF w
  <2> QED
    BY <1>4, <1>5, <2>1, <2>2, <2>3, <2>4, PumpStepKeeps
<1>10. CASE RefuseBatch(x) \/ Rest(x)
  <2>1. PICK stage \in {"new", "ready"} : pump' = [pump EXCEPT ![x] = Resting(stage)]
    BY <1>10 DEF RefuseBatch, Rest, AtRest
  <2> QED
    BY <1>2, <1>4, <1>5, <2>1, RestingType, NoGapInNothing, PumpStepKeeps
<1> QED
  BY <1>6, <1>7, <1>8, <1>9, <1>10

LEMMA PumpFaultsKeep ==
  ASSUME KeyInv, KeyInv', KeeperInv, NEW x \in Pumps, TimeOutBatch(x) \/ Die(x)
  PROVE  KeeperInv'
<1>1. x[1] \in Peers /\ x[1] \in Keepers
  BY PumpOwner DEF Pumps
<1>2. /\ UNCHANGED <<directoryVars, deviceVars, ask, unlinks, granted>>
      /\ late' = AbandonedBatch(x)
  BY DEF TimeOutBatch, Die
<1>3. LateLeavesNoGap'
  <2> DEFINE n == [owner |-> x[1], batch |-> pump[x].batch, rows |-> {}]
  <2>1. late' \subseteq late \cup {n} /\ n.owner = x[1] /\ n.batch = pump[x].batch
    BY <1>2 DEF AbandonedBatch
  <2>2. Gapless(x[1], pump[x].batch)
    BY DEF KeeperInv, PumpsLeaveNoGap
  <2>3. Grows
    BY <1>2, NothingGrew DEF directoryVars, deviceVars
  <2> HIDE DEF n
  <2> QED
    BY <1>1, <2>1, <2>2, <2>3, LateAdded DEF KeeperInv
<1>4. PICK stage \in {"new", "ready"} : pump' = [pump EXCEPT ![x] = Resting(stage)]
  BY DEF TimeOutBatch, Die, AtRest
<1> QED
  BY <1>1, <1>2, <1>3, <1>4, RestingType, NoGapInNothing, PumpStepKeeps

LEMMA SizeOfBoth ==
  ASSUME NEW S, NEW T, IsFiniteSet(S), IsFiniteSet(T), S \cap T = {}
  PROVE  Cardinality(S \cup T) = Cardinality(S) + Cardinality(T)
<1>1. Cardinality(S \cup T) = Cardinality(S) + Cardinality(T) - Cardinality(S \cap T)
  BY FS_Union, Zenon
<1>2. Cardinality(S \cap T) = 0
  BY FS_EmptySet, Zenon
<1>3. Cardinality(S) \in Nat /\ Cardinality(T) \in Nat
  BY FS_CardinalityType, Zenon
<1> QED BY <1>1, <1>2, <1>3

\* A device makes k key pairs and publishes all it has.
LEMMA PairsMade ==
  ASSUME KeyInv, KeyInv', KeeperInv, NEW x \in Pumps, NEW k \in Nat,
         NEW goal \in {"start", "again", "grown"}, NEW pairs \in SUBSET Nat,
         pairs = local[x[1]] \cup next[x[1]] .. (next[x[1]] + k - 1),
         Cardinality(pairs) <= MaxLocal,
         local' = [local EXCEPT ![x[1]] = pairs],
         next' = [next EXCEPT ![x[1]] = @ + k],
         pump' = [pump EXCEPT ![x] = Publishing(goal, pairs)],
         UNCHANGED <<directoryVars, session, sealed, started, ask, late, unlinks, granted>>
  PROVE  KeeperInv'
<1>1. x[1] \in Peers /\ x[1] \in Keepers
  BY PumpOwner DEF Pumps
<1>2. /\ next \in [Peers -> Nat] /\ local \in [Peers -> SUBSET Nat]
      /\ \A p \in Peers : next[p] \in Nat /\ local[p] \subseteq Nat
  BY Parts DEF KeyInv, DeviceTypes
<1>3. /\ next'[x[1]] = next[x[1]] + k /\ local'[x[1]] = pairs
      /\ \A p \in Peers \ {x[1]} : next'[p] = next[p] /\ local'[p] = local[p]
  BY <1>1, <1>2
<1>4. Grows
  BY <1>1, <1>2, <1>3, NumberTypes DEF Grows, FirstEra, directoryVars
<1>5. PairsAreKept'
  <2>1. ASSUME NEW p \in Peers
        PROVE  /\ 0 < next'[p] /\ local'[p] \subseteq MadeBy(p)'
               /\ Cardinality(local'[p]) <= MaxLocal
               /\ p \in Keepers => \A i \in MadeBy(p)' :
                    i \in local'[p] \/ \E q \in Peers : <<q, i>> \in started'[p]
    <3>1. /\ 0 < next[p] /\ local[p] \subseteq MadeBy(p) /\ Cardinality(local[p]) <= MaxLocal
          /\ p \in Keepers => \A i \in MadeBy(p) :
               i \in local[p] \/ \E q \in Peers : <<q, i>> \in started[p]
      BY DEF KeeperInv, PairsAreKept
    <3>2. CASE p = x[1]
      <4>1. \A i \in MadeBy(p)' : i \in MadeBy(p) \/ i \in pairs
        BY <1>1, <1>2, <1>3, <3>2 DEF MadeBy
      <4>2. pairs \subseteq MadeBy(p)'
        BY <1>1, <1>2, <1>3, <3>1, <3>2 DEF MadeBy
      <4>3. 0 < next'[p]
        BY <1>2, <1>3, <3>1, <3>2
      <4>4. local[p] \subseteq pairs
        BY <3>2
      <4> QED
        BY <1>3, <3>1, <3>2, <4>1, <4>2, <4>3, <4>4
    <3>3. CASE p # x[1]
      BY <1>3, <3>1, <3>3 DEF MadeBy
    <3> QED
      BY <3>2, <3>3
  <2>2. Keepers \subseteq Peers
    BY KeysAssumption
  <2> QED
    BY <2>1, <2>2 DEF PairsAreKept
<1>6. Gapless(x[1], pairs)'
  <2>1. Gapless(x[1], local[x[1]])
    BY <1>1, LocalIsGapless
  <2>2. pairs \subseteq MadeBy(x[1])'
    BY <1>1, <1>3, <1>5 DEF PairsAreKept
  <2>3. ASSUME FirstEra(x[1]), NEW j \in pairs, NEW i \in Nat, 0 < i, i < j, i \notin pairs
        PROVE  i <= directory[x[1]].highWater
    <3>1. j \in Nat /\ j < next[x[1]] + k
      BY <1>1, <1>2, <1>3, <2>2, <2>3 DEF MadeBy
    <3>2. i < next[x[1]]
      BY <1>1, <1>2, <2>3, <3>1
    <3>3. i \in MadeBy(x[1]) /\ i \notin local[x[1]]
      BY <1>1, <1>2, <2>3, <3>2 DEF MadeBy
    <3>4. PICK g \in granted : g.owner = x[1] /\ g.id = i
      BY <1>1, <3>3, GoneWasGiven DEF KeeperInv
    <3> QED
      BY <2>3, <3>4, GrantTypes
  <2> QED
    BY <2>2, <2>3 DEF Gapless, NoGap, FirstEra, directoryVars
<1>7. PumpsLeaveNoGap'
  <2> DEFINE w == Publishing(goal, pairs)
  <2>1. IsFiniteSet(pairs)
    BY <1>1, <1>3 DEF KeyInv, FiniteStocks
  <2>2. w \in Pumping /\ w.todo = pairs /\ w.batch = {} /\ w.stage = "publishing"
    BY <2>1, PublishingType DEF Publishing
  <2>3. Gapless(x[1], {})' /\ pump' = [pump EXCEPT ![x] = w]
    BY DEF Gapless, NoGap
  <2> HIDE DEF w
  <2> QED
    BY <1>4, <1>6, <2>2, <2>3, OnePumpMoves DEF KeeperInv
<1> QED
  BY <1>4, <1>5, <1>7, RestStays, ServiceStays, UsersStay, LateStays
  DEF KeeperInv, directoryVars

LEMMA BeginKeeps ==
  ASSUME KeyInv, KeyInv', KeeperInv, NEW x \in Pumps, Begin(x)
  PROVE  KeeperInv'
<1>1. x[1] \in Peers /\ x[1] \in Keepers
  BY PumpOwner DEF Pumps
<1>2. /\ next \in [Peers -> Nat] /\ local \in [Peers -> SUBSET Nat]
      /\ local[x[1]] \in SUBSET Nat /\ next[x[1]] \in Nat
  BY <1>1, Parts DEF KeyInv, DeviceTypes
<1>3. CASE next[x[1]] = 1
  <2> DEFINE pairs == 1 .. First
  <2>1. local[x[1]] = {}
    BY <1>1, <1>2, <1>3 DEF KeeperInv, PairsAreKept, MadeBy
  <2>2. Cardinality(pairs) <= MaxLocal
    BY FS_Interval, KeysAssumption
  <2>3. pairs = local[x[1]] \cup next[x[1]] .. (next[x[1]] + First - 1)
    BY <1>3, <2>1, KeysAssumption
  <2>4. /\ local' = [local EXCEPT ![x[1]] = pairs]
        /\ next' = [next EXCEPT ![x[1]] = @ + First]
    BY <1>1, <1>2, <1>3, KeysAssumption DEF Begin
  <2>5. pump' = [pump EXCEPT ![x] = Publishing("start", pairs)]
    BY <1>1, <1>2, <2>4 DEF Begin
  <2>6. pairs \in SUBSET Nat /\ First \in Nat
    BY KeysAssumption
  <2>7. UNCHANGED <<directoryVars, session, sealed, started, ask, late, unlinks, granted>>
    BY DEF Begin
  <2> HIDE DEF pairs
  <2> QED
    BY <2>2, <2>3, <2>4, <2>5, <2>6, <2>7, PairsMade
<1>4. CASE next[x[1]] # 1
  <2> DEFINE w == Publishing("start", local[x[1]])
  <2>1. w \in Pumping /\ w.todo = local[x[1]] /\ w.batch = {} /\ w.stage = "publishing"
    BY <1>1, NumberTypes, PublishingType DEF Publishing
  <2>2. pump' = [pump EXCEPT ![x] = w] /\ UNCHANGED <<directoryVars, deviceVars, ask, late, unlinks, granted>>
    BY <1>4 DEF Begin, deviceVars
  <2>3. Gapless(x[1], local[x[1]]) /\ Gapless(x[1], {})
    BY <1>1, LocalIsGapless, NoGapInNothing
  <2>4. LateLeavesNoGap'
    BY <2>2, NothingGrew, LateStays DEF KeeperInv, directoryVars, deviceVars
  <2> HIDE DEF w
  <2> QED
    BY <2>1, <2>2, <2>3, <2>4, PumpStepKeeps
<1> QED
  BY <1>3, <1>4

LEMMA ReplenishKeeps ==
  ASSUME KeyInv, KeyInv', KeeperInv, NEW x \in Pumps, Replenish(x)
  PROVE  KeeperInv'
<1>1. x[1] \in Peers /\ x[1] \in Keepers
  BY PumpOwner DEF Pumps
<1>2. /\ next \in [Peers -> Nat] /\ local \in [Peers -> SUBSET Nat]
      /\ local[x[1]] \in SUBSET Nat /\ next[x[1]] \in Nat /\ IsFiniteSet(local[x[1]])
      /\ Wanted(x) \in Nat /\ Wanted(x) > 0
  BY <1>1, WantedType, Parts DEF KeyInv, DeviceTypes, FiniteStocks, Replenish
<1>3. CASE Cardinality(local[x[1]]) + Wanted(x) <= MaxLocal
  <2>1. PICK k : k = Wanted(x)
    OBVIOUS
  <2>2. PICK n : n = next[x[1]]
    OBVIOUS
  <2> DEFINE new == n .. (n + k - 1)
             pairs == local[x[1]] \cup new
  <2>3. IsFiniteSet(new) /\ Cardinality(new) = k
    <3>1. PICK m \in Int : m = n + k - 1
      BY <1>2, <2>1, <2>2
    <3>2. n \in Int /\ k \in Int /\ k > 0 /\ ~(n > m) /\ m - n + 1 = k
      BY <1>2, <2>1, <2>2, <3>1
    <3>3. /\ IsFiniteSet(n .. m)
          /\ Cardinality(n .. m) = IF n > m THEN 0 ELSE m - n + 1
      BY <3>2, FS_Interval
    <3> QED
      BY <3>1, <3>2, <3>3
  <2>4. local[x[1]] \cap new = {}
    BY <1>1, <1>2, <2>1, <2>2 DEF KeeperInv, PairsAreKept, MadeBy
  <2>5. Cardinality(pairs) = Cardinality(local[x[1]]) + k
    <3> HIDE DEF new
    <3> QED BY <1>2, <2>3, <2>4, SizeOfBoth, Zenon DEF pairs
  <2>6. /\ local' = [local EXCEPT ![x[1]] = pairs]
        /\ next' = [next EXCEPT ![x[1]] = @ + k]
    BY <1>3, <2>1, <2>2 DEF Replenish
  <2>7. pump' = [pump EXCEPT ![x] = Publishing("grown", pairs)]
    BY <1>1, <1>2, <1>3, <2>6 DEF Replenish
  <2>8. pairs \in SUBSET Nat /\ k \in Nat
    BY <1>2, <2>1, <2>2
  <2>9. UNCHANGED <<directoryVars, session, sealed, started, ask, late, unlinks, granted>>
    BY DEF Replenish
  <2>10. pairs = local[x[1]] \cup next[x[1]] .. (next[x[1]] + k - 1)
    BY <2>2
  <2>11. Cardinality(pairs) <= MaxLocal
    BY <1>3, <2>1, <2>5
  <2> HIDE DEF pairs, new
  <2> QED
    BY <2>6, <2>7, <2>8, <2>9, <2>10, <2>11, PairsMade
<1>4. CASE ~(Cardinality(local[x[1]]) + Wanted(x) <= MaxLocal)
  <2>1. /\ pump' = [pump EXCEPT ![x] = Resting("ready")]
        /\ UNCHANGED <<directoryVars, deviceVars, ask, late, unlinks, granted>>
    BY <1>4 DEF Replenish, deviceVars
  <2>2. LateLeavesNoGap'
    BY <2>1, NothingGrew, LateStays DEF KeeperInv, directoryVars, deviceVars
  <2> QED
    BY <1>1, <2>1, <2>2, RestingType, NoGapInNothing, PumpStepKeeps
<1> QED
  BY <1>3, <1>4

\* A publication without a gap: nothing below the new mark was skipped.
LEMMA PublishLeavesNoGap ==
  ASSUME KeyInv, KeyInv', KeeperInv, NEW p \in Keepers, NEW ids \in SUBSET Nat,
         Gapless(p, ids), Publish(p, ids), UNCHANGED <<deviceVars, ask, unlinks, granted>>
  PROVE  /\ Grows /\ RegisteredAtFirst' /\ PairsAreKept' /\ ServiceKnowsTheMade'
         /\ UsersWereGranted' /\ NothingSkipped'
         /\ \A i \in ids : i <= directory'[p].highWater
<1>1. p \in Peers
  BY KeysAssumption
<1>2. PICK top \in ids \cup {directory[p].highWater} :
        /\ \A i \in ids \cup {directory[p].highWater} : i <= top
        /\ directory' = Stocked(p, ids, top)
  BY DEF Publish
<1>3. /\ directory \in [Peers -> [present : BOOLEAN, highWater : Nat, keys : SUBSET Nat]]
      /\ \A q \in Peers : directory[q].highWater \in Nat /\ directory[q].keys \subseteq Nat
  BY Parts DEF KeyInv, ServiceTypes
<1>4. /\ directory'[p].highWater = top
      /\ directory'[p].keys = directory[p].keys \cup Added(p, ids)
      /\ \A q \in Peers \ {p} : directory'[q] = directory[q]
  BY <1>1, <1>2, <1>3 DEF Stocked
<1>5. top \in Nat /\ directory[p].highWater <= top /\ \A i \in ids : i <= top
  BY <1>1, <1>2, <1>3
<1>6. UNCHANGED <<next, local, session, sealed, started, leases, registered>>
  BY DEF deviceVars, Publish
<1>7. Grows
  BY <1>1, <1>3, <1>4, <1>5, <1>6, NumberTypes DEF Grows, FirstEra
<1>8. ServiceKnowsTheMade'
  <2>1. ids \subseteq MadeBy(p) /\ Added(p, ids) \subseteq ids
    BY DEF Gapless, Added
  <2>2. top < next[p]
    BY <1>1, <1>2, <2>1 DEF MadeBy, KeeperInv, ServiceKnowsTheMade
  <2>3. \A q \in Peers : MadeBy(q)' = MadeBy(q)
    BY <1>6 DEF MadeBy
  <2>4. \A g \in granted : g.owner \in Peers
    BY GrantTypes
  <2> QED
    BY <1>1, <1>4, <1>6, <2>1, <2>2, <2>3, <2>4 DEF KeeperInv, ServiceKnowsTheMade
<1>9. NothingSkipped'
  <2> SUFFICES ASSUME NEW q \in Keepers, unlinks[q] = 0, NEW i \in 1 .. directory'[q].highWater
               PROVE  i \in directory'[q].keys \/ \E g \in granted : g.owner = q /\ g.id = i
    BY DEF NothingSkipped
  <2>1. q \in Peers
    BY KeysAssumption
  <2>2. CASE i \in 1 .. directory[q].highWater
    <3>1. i \in directory[q].keys \/ \E g \in granted : g.owner = q /\ g.id = i
      BY <2>2 DEF KeeperInv, NothingSkipped
    <3> QED
      BY <1>4, <2>1, <3>1
  <2>3. CASE i \notin 1 .. directory[q].highWater
    <3>1. q = p
      BY <1>4, <2>1, <2>3
    <3>2. i \in Nat /\ 0 < i /\ i <= top /\ ~(i <= directory[p].highWater)
      BY <1>1, <1>3, <1>4, <1>5, <2>3, <3>1
    <3>3. top \in ids
      BY <1>2, <3>2
    <3>4. i \in ids
      BY <1>5, <3>1, <3>2, <3>3 DEF Gapless, NoGap, FirstEra
    <3>5. i \in Added(p, ids)
      BY <1>1, <1>3, <3>2, <3>4 DEF Added
    <3> QED
      BY <1>4, <3>1, <3>5
  <2> QED
    BY <2>2, <2>3
<1>10. RegisteredAtFirst' /\ PairsAreKept' /\ UsersWereGranted'
  BY <1>6, PairsStay, UsersStay DEF KeeperInv, RegisteredAtFirst, FirstEra
<1> QED
  BY <1>4, <1>5, <1>7, <1>8, <1>9, <1>10

LEMMA ServeBatchKeeps ==
  ASSUME KeyInv, KeyInv', KeeperInv, NEW x \in Pumps, ServeBatch(x)
  PROVE  KeeperInv'
<1>1. x[1] \in Peers /\ x[1] \in Keepers
  BY PumpOwner DEF Pumps
<1>2. /\ pump[x] \in Pumping /\ pump \in [Pumps -> Pumping] /\ pump'[x] \in Pumping
      /\ pump[x].batch \in SUBSET Nat
  BY Parts, PartsPrimed DEF KeyInv, PumpTypes, Pumping
<1>3. /\ Publish(x[1], pump[x].batch)
      /\ pump' = [pump EXCEPT ![x].stage = "answered",
                              ![x].stock = Cardinality(directory'[x[1]].keys)]
      /\ UNCHANGED <<deviceVars, ask, late, unlinks, granted>>
  BY DEF ServeBatch
<1>4. Gapless(x[1], pump[x].todo) /\ Gapless(x[1], pump[x].batch)
  BY DEF KeeperInv, PumpsLeaveNoGap
<1>5. /\ Grows /\ RegisteredAtFirst' /\ PairsAreKept' /\ ServiceKnowsTheMade'
      /\ UsersWereGranted' /\ NothingSkipped'
      /\ \A i \in pump[x].batch : i <= directory'[x[1]].highWater
  BY <1>1, <1>2, <1>3, <1>4, PublishLeavesNoGap
<1>6. PICK w \in Pumping : w = pump'[x]
  BY <1>2
<1>7. /\ w.todo = pump[x].todo /\ w.batch = pump[x].batch
      /\ pump' = [pump EXCEPT ![x] = w]
  BY <1>2, <1>3, <1>6 DEF Pumping
<1>8. Gapless(x[1], w.todo)' /\ Gapless(x[1], w.batch)'
  BY <1>1, <1>4, <1>5, <1>7, GaplessStays
<1>9. PumpsLeaveNoGap'
  BY <1>5, <1>7, <1>8, OnePumpMoves DEF KeeperInv
<1>10. LateLeavesNoGap'
  BY <1>3, <1>5, LateStays DEF KeeperInv
<1> QED
  BY <1>5, <1>9, <1>10 DEF KeeperInv

\* A granted key is in nobody's stock any more, and whoever is answered has it.
LEMMA GrantIsKnown ==
  ASSUME KeyInv, KeyInv', KeeperInv, NEW r \in Rows, NEW id \in Numbers, Grant(r, id),
         UNCHANGED <<deviceVars, unlinks>>
  PROVE  /\ Grows /\ RegisteredAtFirst' /\ PairsAreKept' /\ ServiceKnowsTheMade'
         /\ NothingSkipped' /\ granted \subseteq granted'
         /\ HasGrant(r.actor, r.owner, id)'
         /\ \A l \in leases' : l \in leases \/ HasGrant(l.actor, l.owner, l.id)'
<1>1. r.owner \in Peers /\ r.actor \in Peers
  BY RowTypes
<1>2. PairsAreKept' /\ UNCHANGED <<next, registered>>
  BY PairsStay DEF KeeperInv, deviceVars, Grant, TakeNew, Retake
<1>3. RegisteredAtFirst'
  BY <1>2 DEF KeeperInv, RegisteredAtFirst, FirstEra
<1>4. CASE Retake(r.actor, r.owner, r.request, id) /\ UNCHANGED granted
  <2>1. directory' = directory /\ leases' \subseteq leases
    BY <1>4 DEF Retake, Living
  <2>2. Grows
    BY <1>2, <2>1, NothingGrew
  <2>3. ServiceKnowsTheMade' /\ NothingSkipped'
    BY <1>2, <1>4, <2>1, <2>2, ServiceStays, RestStays DEF KeeperInv
  <2>4. PICK l \in leases : l.actor = r.actor /\ l.owner = r.owner /\ l.id = id
    BY <1>4 DEF Retake, LeasedTo, Living
  <2>5. HasGrant(r.actor, r.owner, id)
    BY <2>4 DEF KeeperInv, UsersWereGranted
  <2> QED
    BY <1>2, <1>3, <1>4, <2>1, <2>2, <2>3, <2>5 DEF HasGrant
<1>5. CASE /\ TakeNew(r.actor, r.owner, r.request, id)
           /\ granted' = granted \cup {[owner |-> r.owner, id |-> id, actor |-> r.actor,
                                        request |-> r.request, era |-> unlinks[r.owner]]}
  <2> DEFINE g == [owner |-> r.owner, id |-> id, actor |-> r.actor,
                   request |-> r.request, era |-> unlinks[r.owner]]
  <2>1. g.owner = r.owner /\ g.id = id /\ g.actor = r.actor
    OBVIOUS
  <2>2. granted' = granted \cup {g}
    BY <1>5
  <2> HIDE DEF g
  <2>3. /\ directory \in [Peers -> [present : BOOLEAN, highWater : Nat, keys : SUBSET Nat]]
        /\ \A q \in Peers : directory[q].highWater \in Nat
    BY Parts DEF KeyInv, ServiceTypes
  <2>4. /\ directory' = [directory EXCEPT ![r.owner].keys = @ \ {id}]
        /\ id \in directory[r.owner].keys
        /\ \A l \in leases' : l \in leases \/ (l.actor = r.actor /\ l.owner = r.owner /\ l.id = id)
    BY <1>5 DEF TakeNew, Living, Lease
  <2>5. \A q \in Peers :
          /\ directory'[q].highWater = directory[q].highWater
          /\ directory'[q].keys \subseteq directory[q].keys
          /\ directory[q].keys \subseteq directory'[q].keys \cup (IF q = r.owner THEN {id} ELSE {})
    BY <1>1, <2>3, <2>4
  <2>6. Grows
    BY <1>2, <2>3, <2>5, NumberTypes DEF Grows, FirstEra
  <2>7. ServiceKnowsTheMade'
    <3>1. \A q \in Peers : MadeBy(q)' = MadeBy(q)
      BY <1>2 DEF MadeBy
    <3>2. \A h \in granted : h.owner \in Peers
      BY GrantTypes
    <3>3. id \in MadeBy(r.owner)
      BY <1>1, <2>4 DEF KeeperInv, ServiceKnowsTheMade
    <3> QED
      BY <1>1, <1>2, <2>1, <2>2, <2>5, <3>1, <3>2, <3>3 DEF KeeperInv, ServiceKnowsTheMade
  <2>8. NothingSkipped'
    <3> SUFFICES ASSUME NEW q \in Keepers, unlinks[q] = 0,
                        NEW i \in 1 .. directory'[q].highWater
                 PROVE  i \in directory'[q].keys \/ \E h \in granted' : h.owner = q /\ h.id = i
      BY DEF NothingSkipped
    <3>1. q \in Peers
      BY KeysAssumption
    <3>2. i \in directory[q].keys \/ \E h \in granted : h.owner = q /\ h.id = i
      BY <2>5, <3>1 DEF KeeperInv, NothingSkipped
    <3> QED
      BY <2>1, <2>2, <2>5, <3>1, <3>2
  <2>9. HasGrant(r.actor, r.owner, id)'
    BY <2>1, <2>2 DEF HasGrant
  <2>10. \A l \in leases' : l \in leases \/ HasGrant(l.actor, l.owner, l.id)'
    BY <2>4, <2>9
  <2> QED
    BY <1>2, <1>3, <2>2, <2>6, <2>7, <2>8, <2>9, <2>10
<1> QED
  BY <1>4, <1>5 DEF Grant

\* Steps that leave the directory, the devices and the pumps alone.
LEMMA LittleMoves ==
  ASSUME KeyInv, KeyInv', KeeperInv, LateLeavesNoGap', leases' = leases,
         \A r \in Rows : ask'[r].stage = "answered" => ask'[r] = ask[r],
         UNCHANGED <<directory, registered, deviceVars, pump, unlinks, granted>>
  PROVE  KeeperInv'
<1>1. Grows
  BY NothingGrew DEF deviceVars
<1> QED
  BY <1>1, RestStays, PairsStay, ServiceStays, AllPumpsStay, UsersStay
  DEF KeeperInv, deviceVars

LEMMA TickKeeps == ASSUME KeyInv, KeyInv', KeeperInv, Tick PROVE KeeperInv'
<1>1. UNCHANGED <<directory, leases, registered, deviceVars, pump, ask, late, unlinks, granted>>
  BY DEF Tick, directoryVars
<1>2. LateLeavesNoGap'
  BY <1>1, NothingGrew, LateStays DEF KeeperInv, deviceVars
<1> QED
  BY <1>1, <1>2, LittleMoves

LEMMA AskStepsKeep ==
  ASSUME KeyInv, KeyInv', KeeperInv, NEW r \in Rows, Ask(r) \/ RefuseAsk(r) \/ LoseAsk(r)
  PROVE  KeeperInv'
<1>1. UNCHANGED <<directory, leases, registered, deviceVars, pump, unlinks, granted>>
  BY DEF Ask, RefuseAsk, LoseAsk, directoryVars
<1>2. ask \in [Rows -> [stage : {"idle", "sent", "answered"}, id : Nat]]
  BY Parts DEF KeyInv, AskTypes
<1>3. ASSUME NEW s \in Rows, ask'[s].stage = "answered" PROVE ask'[s] = ask[s]
  <2>1. ask'[r].stage # "answered"
    BY <1>2 DEF Ask, RefuseAsk, LoseAsk, NoAsk
  <2>2. s # r
    BY <1>3, <2>1
  <2> QED
    BY <1>2, <2>2 DEF Ask, RefuseAsk, LoseAsk
<1>4. LateLeavesNoGap'
  <2> DEFINE n == [owner |-> r.owner, batch |-> {}, rows |-> {r}]
  <2>1. n.owner \in Keepers /\ n.batch = {} /\ late' \subseteq late \cup {n}
    BY KeysAssumption DEF Ask, RefuseAsk, LoseAsk, AbandonedAsk
  <2>2. Gapless(r.owner, {}) /\ n.owner = r.owner
    BY RowTypes, NoGapInNothing
  <2>3. Grows
    BY <1>1, NothingGrew DEF deviceVars
  <2> HIDE DEF n
  <2> QED
    BY <2>1, <2>2, <2>3, LateAdded DEF KeeperInv
<1> QED
  BY <1>1, <1>3, <1>4, LittleMoves

LEMMA ServeAskKeeps ==
  ASSUME KeyInv, KeyInv', KeeperInv, NEW r \in Rows, ServeAsk(r)
  PROVE  KeeperInv'
<1>1. PICK id \in Numbers :
        Grant(r, id) /\ ask' = [ask EXCEPT ![r] = [stage |-> "answered", id |-> id]]
  BY DEF ServeAsk
<1>2. UNCHANGED <<deviceVars, pump, late, unlinks>>
  BY DEF ServeAsk
<1>3. /\ Grows /\ RegisteredAtFirst' /\ PairsAreKept' /\ ServiceKnowsTheMade'
      /\ NothingSkipped' /\ granted \subseteq granted'
      /\ HasGrant(r.actor, r.owner, id)'
      /\ \A l \in leases' : l \in leases \/ HasGrant(l.actor, l.owner, l.id)'
  BY <1>1, <1>2, GrantIsKnown
<1>4. ask \in [Rows -> [stage : {"idle", "sent", "answered"}, id : Nat]]
  BY Parts DEF KeyInv, AskTypes
<1>5. ASSUME NEW s \in Rows, ask'[s].stage = "answered"
      PROVE  ask'[s] = ask[s] \/ HasGrant(s.actor, s.owner, ask[s].id)'
  <2>1. CASE s = r
    <3>1. ask'[s].id = id
      BY <1>1, <1>4, <2>1
    <3> QED
      BY <1>3, <2>1, <3>1 DEF HasGrant
  <2>2. CASE s # r
    BY <1>1, <1>4, <2>2
  <2> QED
    BY <2>1, <2>2
<1>6. UsersWereGranted'
  BY <1>2, <1>3, <1>5, UsersStay DEF KeeperInv, deviceVars
<1> QED
  BY <1>2, <1>3, <1>6, AllPumpsStay, LateStays DEF KeeperInv

LEMMA ServeLateKeeps ==
  ASSUME KeyInv, KeyInv', KeeperInv, NEW o \in late, ServeLate(o)
  PROVE  KeeperInv'
<1>1. /\ o.owner \in Keepers /\ o.batch \in SUBSET Nat /\ o.rows \subseteq Rows
      /\ Gapless(o.owner, o.batch)
  BY Parts DEF KeyInv, LateTypes, KeeperInv, LateLeavesNoGap
<1>2. UNCHANGED <<deviceVars, pump, ask, unlinks>> /\ late' \subseteq late
  BY DEF ServeLate
<1>3. /\ Grows /\ RegisteredAtFirst' /\ PairsAreKept' /\ ServiceKnowsTheMade'
      /\ UsersWereGranted' /\ NothingSkipped'
  <2>1. CASE o.rows = {}
    <3>1. Publish(o.owner, o.batch) /\ UNCHANGED granted
      BY <2>1 DEF ServeLate
    <3> QED
      BY <1>1, <1>2, <3>1, PublishLeavesNoGap
  <2>2. CASE o.rows # {}
    <3>1. PICK r \in o.rows, id \in Numbers : Grant(r, id)
      BY <2>2 DEF ServeLate
    <3>2. /\ Grows /\ RegisteredAtFirst' /\ PairsAreKept' /\ ServiceKnowsTheMade'
          /\ NothingSkipped' /\ granted \subseteq granted'
          /\ \A l \in leases' : l \in leases \/ HasGrant(l.actor, l.owner, l.id)'
      BY <1>1, <1>2, <3>1, GrantIsKnown
    <3> QED
      BY <1>2, <3>2, UsersStay DEF KeeperInv, deviceVars
  <2> QED
    BY <2>1, <2>2
<1> QED
  BY <1>2, <1>3, AllPumpsStay, LateStays DEF KeeperInv

LEMMA SealStepsKeep ==
  ASSUME KeyInv, KeyInv', KeeperInv, NEW r \in Rows, SealWithBundle(r) \/ SealInSession(r)
  PROVE  KeeperInv'
<1>1. r.actor \in Peers /\ r.owner \in Peers
  BY RowTypes
<1>2. /\ ask \in [Rows -> [stage : {"idle", "sent", "answered"}, id : Nat]]
      /\ session \in [Peers -> [Peers -> Nat]] /\ sealed \in [Rows -> Nat]
  BY Parts DEF KeyInv, AskTypes, DeviceTypes
<1>3. UNCHANGED <<directoryVars, local, next, started, pump, late, unlinks, granted>>
  BY DEF SealWithBundle, SealInSession
<1>4. Grows
  BY <1>3, NothingGrew DEF directoryVars
<1>5. PICK s : s = session'[r.actor][r.owner]
  OBVIOUS
<1>6. s # 0 => HasGrant(r.actor, r.owner, s)
  <2>1. CASE SealWithBundle(r)
    <3>1. s = IF session[r.actor][r.owner] = 0 THEN ask[r].id ELSE session[r.actor][r.owner]
      BY <1>1, <1>2, <1>5, <2>1 DEF SealWithBundle
    <3> QED
      BY <1>1, <2>1, <3>1 DEF SealWithBundle, KeeperInv, UsersWereGranted
  <2>2. CASE SealInSession(r)
    BY <1>1, <1>5, <2>2 DEF SealInSession, KeeperInv, UsersWereGranted
  <2> QED
    BY <2>1, <2>2
<1>7. /\ \A p, q \in Peers : <<p, q>> # <<r.actor, r.owner>> => session'[p][q] = session[p][q]
      /\ sealed' = [sealed EXCEPT ![r] = s]
      /\ \A x \in Rows : ask'[x].stage = "answered" => ask'[x] = ask[x]
  <2>1. CASE SealWithBundle(r)
    BY <1>1, <1>2, <1>5, <2>1 DEF SealWithBundle, NoAsk
  <2>2. CASE SealInSession(r)
    BY <1>5, <2>2 DEF SealInSession
  <2> QED
    BY <2>1, <2>2
<1>8. UsersWereGranted'
  <2>1. ASSUME NEW a, NEW p, NEW i, HasGrant(a, p, i)
        PROVE  HasGrant(a, p, i)'
    BY <1>3, <2>1 DEF HasGrant
  <2>2. \A l \in leases' : HasGrant(l.actor, l.owner, l.id)'
    BY <1>3, <2>1 DEF KeeperInv, UsersWereGranted, directoryVars
  <2>3. ASSUME NEW x \in Rows
        PROVE  /\ ask'[x].stage = "answered" => HasGrant(x.actor, x.owner, ask[x].id)'
               /\ ~Unsealed(x)' => HasGrant(x.actor, x.owner, sealed[x])'
    <3>1. PICK i : i = ask[x].id
      OBVIOUS
    <3>2. PICK j : j = sealed'[x]
      OBVIOUS
    <3>3. ask'[x].stage = "answered" => HasGrant(x.actor, x.owner, i)' /\ ask'[x] = ask[x]
      BY <1>7, <2>1, <3>1 DEF KeeperInv, UsersWereGranted
    <3>4. j # 0 => HasGrant(x.actor, x.owner, j)'
      <4>1. CASE x = r
        BY <1>2, <1>6, <1>7, <2>1, <3>2, <4>1
      <4>2. CASE x # r
        BY <1>2, <1>7, <2>1, <3>2, <4>2 DEF KeeperInv, UsersWereGranted, Unsealed
      <4> QED
        BY <4>1, <4>2
    <3> QED
      BY <3>1, <3>2, <3>3, <3>4 DEF Unsealed, HasGrant
  <2>4. ASSUME NEW p \in Peers, NEW q \in Peers, session'[p][q] # 0
        PROVE  HasGrant(p, q, session[p][q])'
    <3>1. PICK i : i = session'[p][q]
      OBVIOUS
    <3>2. HasGrant(p, q, i)
      <4>1. CASE p = r.actor /\ q = r.owner
        BY <1>5, <1>6, <2>4, <3>1, <4>1
      <4>2. CASE ~(p = r.actor /\ q = r.owner)
        BY <1>7, <2>4, <3>1, <4>2 DEF KeeperInv, UsersWereGranted
      <4> QED
        BY <4>1, <4>2
    <3> QED
      BY <2>1, <3>1, <3>2 DEF HasGrant
  <2>5. \A p \in Peers : \A u \in started'[p] : HasGrant(u[1], p, u[2])'
    BY <1>3, <2>1 DEF KeeperInv, UsersWereGranted
  <2> QED
    BY <2>2, <2>3, <2>4, <2>5 DEF UsersWereGranted
<1> QED
  BY <1>3, <1>4, <1>8, RestStays, PairsStay, ServiceStays, AllPumpsStay, LateStays
  DEF KeeperInv, directoryVars

LEMMA OpenKeeps ==
  ASSUME KeyInv, KeyInv', KeeperInv, NEW r \in Rows, Open(r)
  PROVE  KeeperInv'
<1>1. r.actor \in Peers /\ r.owner \in Peers /\ r.owner \in Keepers
  BY RowTypes, KeysAssumption
<1>2. UNCHANGED <<directoryVars, next, session, sealed, pump, ask, late, unlinks, granted>>
  BY DEF Open
<1>3. Grows
  BY <1>2, NothingGrew DEF directoryVars
<1>4. PICK k : k = sealed[r]
  OBVIOUS
<1>5. /\ local \in [Peers -> SUBSET Nat] /\ started \in [Peers -> SUBSET (Peers \X Nat)]
      /\ k \in Nat /\ \A p \in Peers : IsFiniteSet(local[p])
  BY <1>4, Parts DEF KeyInv, DeviceTypes, FiniteStocks
<1>6. /\ \A p \in Peers : /\ local'[p] \subseteq local[p] /\ started[p] \subseteq started'[p]
                          /\ \A u \in started'[p] : u \in started[p] \/ (p = r.owner /\ u = <<r.actor, k>>)
                          /\ p # r.owner => local'[p] = local[p]
      /\ local[r.owner] \subseteq local'[r.owner] \cup {k}
      /\ k \in local[r.owner] /\ k \notin local'[r.owner] => <<r.actor, k>> \in started'[r.owner]
  <2>1. CASE <<r.actor, k>> \in started[r.owner]
    BY <1>4, <2>1 DEF Open
  <2>2. CASE <<r.actor, k>> \notin started[r.owner]
    <3>1. /\ local' = [local EXCEPT ![r.owner] = @ \ {k}]
          /\ started' = [started EXCEPT ![r.owner] = @ \cup {<<r.actor, k>>}]
      BY <1>4, <2>2 DEF Open
    <3> QED
      BY <1>1, <1>5, <3>1
  <2> QED
    BY <2>1, <2>2
<1>7. PairsAreKept'
  <2>1. ASSUME NEW p \in Peers
        PROVE  Cardinality(local'[p]) <= MaxLocal
    <3>1. /\ Cardinality(local'[p]) <= Cardinality(local[p])
          /\ Cardinality(local'[p]) \in Nat /\ Cardinality(local[p]) \in Nat
      BY <1>5, <1>6, FS_Subset, FS_CardinalityType
    <3> QED
      BY <3>1, KeysAssumption DEF KeeperInv, PairsAreKept
  <2>2. \A p \in Peers : MadeBy(p)' = MadeBy(p) /\ next'[p] = next[p]
    BY <1>2 DEF MadeBy
  <2>3. ASSUME NEW p \in Keepers, NEW i \in MadeBy(p)
        PROVE  i \in local'[p] \/ \E q \in Peers : <<q, i>> \in started'[p]
    <3>1. p \in Peers
      BY KeysAssumption
    <3>2. CASE i \in local[p] /\ i \notin local'[p]
      BY <1>1, <1>6, <3>1, <3>2
    <3>3. CASE ~(i \in local[p] /\ i \notin local'[p])
      BY <1>6, <3>1, <3>3 DEF KeeperInv, PairsAreKept
    <3> QED
      BY <3>2, <3>3
  <2>4. Keepers \subseteq Peers
    BY KeysAssumption
  <2>5. \A p \in Peers : 0 < next'[p] /\ local'[p] \subseteq MadeBy(p)'
    BY <1>6, <2>2 DEF KeeperInv, PairsAreKept
  <2> QED
    BY <2>1, <2>2, <2>3, <2>4, <2>5 DEF PairsAreKept
<1>8. UsersWereGranted'
  <2>1. \A a, p, i : HasGrant(a, p, i)' <=> HasGrant(a, p, i)
    BY <1>2 DEF HasGrant
  <2>2. HasGrant(r.actor, r.owner, k)
    BY <1>4 DEF Open, KeeperInv, UsersWereGranted
  <2>3. ASSUME NEW p \in Peers, NEW u \in started'[p] PROVE HasGrant(u[1], p, u[2])
    BY <1>6, <2>2 DEF KeeperInv, UsersWereGranted
  <2>4. \A p \in Peers : \A u \in started'[p] : HasGrant(u[1], p, u[2])'
    BY <2>1, <2>3
  <2>5. /\ \A l \in leases' : HasGrant(l.actor, l.owner, l.id)'
        /\ \A s \in Rows :
             /\ ask'[s].stage = "answered" => HasGrant(s.actor, s.owner, ask[s].id)'
             /\ ~Unsealed(s)' => HasGrant(s.actor, s.owner, sealed[s])'
        /\ \A p, q \in Peers : session'[p][q] # 0 => HasGrant(p, q, session[p][q])'
    BY <1>2 DEF KeeperInv, UsersWereGranted, HasGrant, Unsealed, directoryVars
  <2> QED
    BY <2>4, <2>5 DEF UsersWereGranted
<1> QED
  BY <1>2, <1>3, <1>7, <1>8, RestStays, ServiceStays, AllPumpsStay, LateStays
  DEF KeeperInv, directoryVars

LEMMA PhoneStepsKeep ==
  ASSUME KeyInv, KeyInv', KeeperInv, NEW p \in Keepers, UnlinkPhone(p) \/ RegisterPhone(p)
  PROVE  KeeperInv'
<1>1. p \in Peers
  BY KeysAssumption
<1>2. UNCHANGED <<deviceVars, pump, ask, late, granted>> /\ leases' \subseteq leases
  BY DEF UnlinkPhone, RegisterPhone, Unlink, Register
<1>3. /\ \A q \in Peers : directory[q].highWater \in Nat /\ unlinks[q] \in Nat /\ next[q] \in Nat
      /\ directory \in [Peers -> [present : BOOLEAN, highWater : Nat, keys : SUBSET Nat]]
      /\ unlinks \in [Peers -> Nat]
  BY Parts DEF KeyInv, ServiceTypes, HistoryTypes, DeviceTypes
<1>4. /\ \A q \in Peers : directory'[q] = directory[q] \/ (directory'[q] = Absent /\ ~FirstEra(q)')
      /\ \A q \in Peers : FirstEra(q)' =>
           /\ FirstEra(q) /\ directory'[q] = directory[q]
           /\ q \in registered => q \in registered'
  <2>1. CASE UnlinkPhone(p)
    <3>1. /\ directory' = [directory EXCEPT ![p] = Absent]
          /\ unlinks' = [unlinks EXCEPT ![p] = @ + 1] /\ registered' = registered \ {p}
      BY <2>1 DEF UnlinkPhone, Unlink
    <3>2. directory'[p] = Absent /\ unlinks'[p] # 0
      BY <1>1, <1>3, <3>1
    <3>3. \A q \in Peers \ {p} : directory'[q] = directory[q] /\ unlinks'[q] = unlinks[q]
      BY <1>3, <3>1
    <3> QED
      BY <1>1, <3>1, <3>2, <3>3 DEF FirstEra
  <2>2. CASE RegisterPhone(p)
    BY <2>2 DEF RegisterPhone, Register, FirstEra
  <2> QED
    BY <2>1, <2>2
<1>5. Grows
  BY <1>2, <1>3, <1>4 DEF Grows, deviceVars
<1>6. RegisteredAtFirst'
  BY <1>4 DEF KeeperInv, RegisteredAtFirst
<1>7. ServiceKnowsTheMade'
  <2>1. \A q \in Peers : MadeBy(q)' = MadeBy(q) /\ next'[q] = next[q] /\ 0 < next[q]
    BY <1>2 DEF MadeBy, deviceVars, KeeperInv, PairsAreKept
  <2>2. \A g \in granted : g.owner \in Peers
    BY GrantTypes
  <2> QED
    BY <1>2, <1>4, <2>1, <2>2 DEF KeeperInv, ServiceKnowsTheMade, Absent
<1>8. NothingSkipped'
  <2> SUFFICES ASSUME NEW q \in Keepers, unlinks'[q] = 0, NEW i \in 1 .. directory'[q].highWater
               PROVE  i \in directory'[q].keys \/ \E g \in granted : g.owner = q /\ g.id = i
    BY <1>2 DEF NothingSkipped
  <2>1. q \in Peers
    BY KeysAssumption
  <2>2. unlinks[q] = 0 /\ directory'[q] = directory[q]
    BY <1>4, <2>1 DEF FirstEra
  <2> QED
    BY <2>2 DEF KeeperInv, NothingSkipped
<1>9. PairsAreKept' /\ UsersWereGranted'
  BY <1>2, PairsStay, UsersStay DEF KeeperInv, deviceVars
<1> QED
  BY <1>2, <1>5, <1>6, <1>7, <1>8, <1>9, AllPumpsStay, LateStays DEF KeeperInv

LEMMA InitKeeps == Init => KeeperInv
<1> SUFFICES ASSUME Init PROVE KeeperInv
  OBVIOUS
<1>1. RegisteredAtFirst
  BY DEF Init, RegisteredAtFirst
<1>2. \A p \in Peers : /\ next[p] = IF p \in Keepers THEN 1 ELSE First + 1
                       /\ local[p] = {} /\ directory[p].keys = {}
                       /\ directory[p].highWater = IF p \in Keepers THEN 0 ELSE First
  BY DEF Init, Absent
<1>3. PairsAreKept
  <2>1. Cardinality({}) = 0
    BY FS_EmptySet
  <2>2. \A p \in Keepers : MadeBy(p) = {}
    BY <1>2, KeysAssumption DEF MadeBy
  <2>3. \A p \in Peers : Cardinality(local[p]) = 0
    BY <1>2, <2>1, Zenon
  <2>4. 0 <= MaxLocal /\ 0 < First + 1
    BY KeysAssumption
  <2>5. \A p \in Peers : 0 < next[p] /\ local[p] \subseteq MadeBy(p)
    BY <1>2, <2>4
  <2> QED
    BY <2>2, <2>3, <2>4, <2>5 DEF PairsAreKept
<1>4. ServiceKnowsTheMade
  BY <1>2, KeysAssumption DEF Init, ServiceKnowsTheMade
<1>5. PumpsLeaveNoGap
  <2>1. \A x \in Pumps : pump[x] = Resting("new") /\ x[1] \in Peers
    BY PumpOwner DEF Init
  <2> QED
    BY <2>1, NoGapInNothing DEF PumpsLeaveNoGap
<1>6. LateLeavesNoGap
  BY DEF Init, LateLeavesNoGap
<1>7. UsersWereGranted
  BY DEF Init, UsersWereGranted, NoAsk, Unsealed
<1>8. NothingSkipped
  BY <1>2, KeysAssumption DEF NothingSkipped
<1> QED
  BY <1>1, <1>3, <1>4, <1>5, <1>6, <1>7, <1>8 DEF KeeperInv

LEMMA StutterKeeps == ASSUME KeyInv, KeyInv', KeeperInv, UNCHANGED vars PROVE KeeperInv'
<1>1. UNCHANGED <<directory, leases, registered, deviceVars, pump, ask, late, unlinks, granted>>
  BY DEF vars, directoryVars
<1>2. LateLeavesNoGap'
  BY <1>1, NothingGrew, LateStays DEF KeeperInv, deviceVars
<1> QED
  BY <1>1, <1>2, LittleMoves

\* Every key pair that a keeper numbered is on the device or was used; what pumps
\* publish, also late, leaves no number out; whoever uses a key was given it.
THEOREM KeepersInvariant == Spec => []KeeperInv
<1>1. KeyInv /\ KeyInv' /\ KeeperInv /\ [Next]_vars => KeeperInv'
  <2> SUFFICES ASSUME KeyInv, KeyInv', KeeperInv, [Next]_vars PROVE KeeperInv'
    OBVIOUS
  <2>1. CASE Next
    <3>1. CASE Tick
      BY <3>1, TickKeeps
    <3>2. ASSUME NEW x \in Pumps,
                 \/ Begin(x) \/ FindLow(x) \/ Republish(x)
                 \/ PostBatch(x) \/ ServeBatch(x) \/ NextBatch(x) \/ RefuseBatch(x)
                 \/ Rest(x) \/ Replenish(x)
                 \/ TimeOutBatch(x) \/ Die(x)
          PROVE  KeeperInv'
      BY <3>2, BeginKeeps, PumpStepsKeep, ServeBatchKeeps, ReplenishKeeps, PumpFaultsKeep
    <3>3. ASSUME NEW r \in Rows,
                 \/ Ask(r) \/ ServeAsk(r) \/ RefuseAsk(r) \/ LoseAsk(r)
                 \/ SealWithBundle(r) \/ SealInSession(r) \/ Open(r)
          PROVE  KeeperInv'
      BY <3>3, AskStepsKeep, ServeAskKeeps, SealStepsKeep, OpenKeeps
    <3>4. ASSUME NEW o \in late, ServeLate(o) PROVE KeeperInv'
      BY <3>4, ServeLateKeeps
    <3>5. ASSUME NEW p \in Keepers, UnlinkPhone(p) \/ RegisterPhone(p) PROVE KeeperInv'
      BY <3>5, PhoneStepsKeep
    <3> QED
      BY <2>1, <3>1, <3>2, <3>3, <3>4, <3>5 DEF Next
  <2>2. CASE UNCHANGED vars
    BY <2>2, StutterKeeps
  <2> QED
    BY <2>1, <2>2
<1> QED
  BY <1>1, InitKeeps, KeyInvariant, PTL DEF Spec

\* Every ciphertext that was sealed with a leased key can be opened, as long as
\* its recipient stays registered: the key pair is there, or the correspondent
\* that the key was given to has used it, and no other was given it.
THEOREM FirstMessagesOpen == Spec => []FirstMessageOpens
<1>1. KeyInv /\ KeeperInv => FirstMessageOpens
  <2> SUFFICES ASSUME KeyInv, KeeperInv, NEW r \in Rows, ~Unsealed(r), unlinks[r.owner] = 0
               PROVE  Openable(r)
    BY DEF FirstMessageOpens
  <2>1. r.owner \in Peers /\ r.owner \in Keepers /\ r.actor \in Peers
    BY RowTypes, KeysAssumption
  <2>2. PICK g \in granted : g.owner = r.owner /\ g.id = sealed[r] /\ g.actor = r.actor
    BY DEF KeeperInv, UsersWereGranted, HasGrant
  <2>3. sealed[r] \in MadeBy(r.owner)
    BY <2>2 DEF KeeperInv, ServiceKnowsTheMade
  <2>4. ASSUME sealed[r] \notin local[r.owner]
        PROVE  <<r.actor, sealed[r]>> \in started[r.owner]
    <3>1. PICK q \in Peers : <<q, sealed[r]>> \in started[r.owner]
      BY <2>1, <2>3, <2>4 DEF KeeperInv, PairsAreKept
    <3>2. PICK h \in granted : h.owner = r.owner /\ h.id = sealed[r] /\ h.actor = q
      BY <2>1, <3>1 DEF KeeperInv, UsersWereGranted, HasGrant
    <3>3. g.era = 0 /\ h.era = 0
      BY <2>2, <3>2, GrantTypes DEF FirstEra
    <3>4. g = h
      BY <2>2, <3>2, <3>3 DEF KeyInv, OneTime
    <3> QED
      BY <2>2, <3>1, <3>2, <3>4
  <2> QED
    BY <2>4 DEF Openable
<1> QED
  BY <1>1, KeyInvariant, KeepersInvariant, PTL

\* What a keeper publishes fits: its stock and what is added to it are key pairs
\* that the device still holds.
LEMMA RoomForAll ==
  ASSUME KeyInv, KeeperInv, NEW p \in Keepers, FirstEra(p), NEW ids, Gapless(p, ids),
         IsFiniteSet(ids)
  PROVE  Publishable(p, ids)
<1>1. p \in Peers /\ p \in registered
  BY KeysAssumption DEF KeeperInv, RegisteredAtFirst
<1> DEFINE keys == directory[p].keys
           added == Added(p, ids)
<1>2. /\ IsFiniteSet(keys) /\ IsFiniteSet(local[p]) /\ directory[p].highWater \in Nat
      /\ \A i \in keys : i <= directory[p].highWater
  BY <1>1, NumberTypes
<1>3. added \subseteq ids /\ IsFiniteSet(added)
  BY FS_Subset DEF Added
<1>4. \A i \in added : i \in MadeBy(p) /\ ~(i <= directory[p].highWater)
  BY <1>2, <1>3 DEF Added, Gapless, MadeBy
<1>5. ASSUME NEW i \in keys \cup added PROVE i \in local[p]
  <2>1. i \in MadeBy(p)
    BY <1>1, <1>4, <1>5 DEF KeeperInv, ServiceKnowsTheMade
  <2>2. ASSUME NEW g \in granted, g.owner = p, g.id = i PROVE FALSE
    <3>1. i \notin keys /\ i <= directory[p].highWater
      BY <2>2, GrantTypes
    <3> QED
      BY <1>4, <1>5, <3>1
  <2> QED
    BY <2>1, <2>2, GoneWasGiven DEF KeeperInv
<1>6. keys \cap added = {}
  BY <1>2, <1>4
<1> HIDE DEF keys, added
<1>7. IsFiniteSet(keys \cup added)
      /\ Cardinality(keys \cup added) = Cardinality(keys) + Cardinality(added) - Cardinality(keys \cap added)
  BY <1>2, <1>3, FS_Union
<1>8. Cardinality(keys \cap added) = 0
  BY <1>6, FS_EmptySet
<1>9. Cardinality(keys \cup added) <= Cardinality(local[p])
  BY <1>2, <1>5, <1>7, FS_Subset
<1>10. Cardinality(local[p]) <= MaxPool
  <2>1. Cardinality(local[p]) <= MaxLocal /\ Cardinality(local[p]) \in Nat
    BY <1>1, <1>2, FS_CardinalityType DEF KeeperInv, PairsAreKept
  <2> QED
    BY <2>1, KeysAssumption, DirectoryAssumption
<1>11. /\ Cardinality(keys) \in Nat /\ Cardinality(added) \in Nat
       /\ Cardinality(keys \cup added) \in Nat /\ Cardinality(local[p]) \in Nat
  BY <1>2, <1>3, <1>7, FS_CardinalityType
<1>12. Cardinality(keys) + Cardinality(added) <= MaxPool
  BY <1>7, <1>8, <1>9, <1>10, <1>11, DirectoryAssumption
<1> QED
  BY <1>1, <1>12 DEF Publishable, keys, added

\* However publications overlap, time out and come late, no key is left behind
\* the high-water mark, and none is refused for want of room.
THEOREM AllIsPublished == Spec => []PublicationsSucceed
<1>1. KeyInv /\ KeeperInv => PublicationsSucceed
  <2> SUFFICES ASSUME KeyInv, KeeperInv PROVE NothingSkipped /\ NeverRefused
    BY DEF PublicationsSucceed
  <2>1. ASSUME NEW x \in Pumps, unlinks[x[1]] = 0
        PROVE  Publishable(x[1], pump[x].batch)
    <3>1. x[1] \in Keepers /\ IsFiniteSet(pump[x].batch) /\ Gapless(x[1], pump[x].batch)
      BY DEF Pumps, KeyInv, FiniteStocks, KeeperInv, PumpsLeaveNoGap
    <3> QED
      BY <2>1, <3>1, RoomForAll DEF FirstEra
  <2>2. ASSUME NEW o \in late, unlinks[o.owner] = 0
        PROVE  Publishable(o.owner, o.batch)
    <3>1. o.owner \in Keepers /\ IsFiniteSet(o.batch) /\ Gapless(o.owner, o.batch)
      BY DEF KeyInv, FiniteStocks, KeeperInv, LateLeavesNoGap
    <3> QED
      BY <2>2, <3>1, RoomForAll DEF FirstEra
  <2> QED
    BY <2>1, <2>2 DEF NeverRefused, KeeperInv
<1> QED
  BY <1>1, KeyInvariant, KeepersInvariant, PTL
=============================================================================
