---------------------------- MODULE SignalDirectory ----------------------------
(***************************************************************************)
(* The directory of public Signal keys in the identity service             *)
(* (identity/signal-directory.ts, reached through delivery-service.ts).    *)
(*                                                                         *)
(* A device publishes its signed identity with a stock of one-time keys,   *)
(* which it numbers in the order of their creation.  A correspondent who   *)
(* has no session leases the lowest one; the lease is what makes a retry   *)
(* of the request get the same key again.  Of a key only its number        *)
(* matters: all checks of content (signatures, equal hashes) succeed for   *)
(* the keys an honest device publishes.                                    *)
(***************************************************************************)
EXTENDS Integers, FiniteSets

CONSTANTS
  Peers,       \* the device identities
  Requests,    \* request ids, the ids of outbox rows
  LeaseTTL,    \* 600000 ms
  MaxPool,     \* one-time keys kept per owner (200)
  MaxLeases    \* living leases (10000)

ASSUME DirectoryAssumption ==
  /\ LeaseTTL \in Nat \ {0}
  /\ MaxPool \in Nat
  /\ MaxLeases \in Nat

VARIABLES
  now,         \* the time
  directory,   \* directory[p]: [present, highWater, keys]
  leases,      \* signal_key_leases: [actor, owner, request, id, expires]
  registered   \* keys with a phone registration

Absent == [present |-> FALSE, highWater |-> 0, keys |-> {}]

-----------------------------------------------------------------------------
(* publish *)

\* Defect: what is not in stock is new.
AddedUnlessStocked(p, ids) == ids \ directory[p].keys

\* A number at or below the high-water mark was published before.
Added(p, ids) == {i \in ids : i > directory[p].highWater}

Publishable(p, ids) ==
  /\ p \in registered
  /\ Cardinality(directory[p].keys) + Cardinality(Added(p, ids)) <= MaxPool

Stocked(p, ids, top) ==
  [directory EXCEPT ![p] = [present |-> TRUE,
                            highWater |-> top,
                            keys |-> @.keys \cup Added(p, ids)]]

Publish(p, ids) ==
  /\ Publishable(p, ids)
  /\ \E top \in ids \cup {directory[p].highWater} :
       /\ \A i \in ids \cup {directory[p].highWater} : i <= top
       /\ directory' = Stocked(p, ids, top)
  /\ UNCHANGED <<leases, registered>>

-----------------------------------------------------------------------------
(* take, with a lease *)

Living == {l \in leases : l.expires > now}

LeasedTo(actor, owner, request) ==
  {l \in Living : l.actor = actor /\ l.owner = owner /\ l.request = request}

Leasable(actor, owner, request) ==
  /\ LeasedTo(actor, owner, request) = {}
  /\ actor \in registered /\ owner \in registered
  /\ directory[actor].present /\ directory[owner].present
  /\ Cardinality(Living) < MaxLeases

Lease(actor, owner, request, id) ==
  [actor |-> actor, owner |-> owner, request |-> request, id |-> id,
   expires |-> now + LeaseTTL]

\* A living lease answers its request again.
Retake(actor, owner, request, id) ==
  /\ actor \in registered /\ owner \in registered
  /\ directory[actor].present
  /\ \E l \in LeasedTo(actor, owner, request) : l.id = id
  /\ leases' = Living
  /\ UNCHANGED <<directory, registered>>

\* Defect: the key stays in stock.
TakeAndKeep(actor, owner, request, id) ==
  /\ Leasable(actor, owner, request)
  /\ id \in directory[owner].keys
  /\ \A i \in directory[owner].keys : id <= i
  /\ leases' = Living \cup {Lease(actor, owner, request, id)}
  /\ UNCHANGED <<directory, registered>>

\* Without one, the lowest key leaves the stock.
TakeNew(actor, owner, request, id) ==
  /\ Leasable(actor, owner, request)
  /\ id \in directory[owner].keys
  /\ \A i \in directory[owner].keys : id <= i
  /\ directory' = [directory EXCEPT ![owner].keys = @ \ {id}]
  /\ leases' = Living \cup {Lease(actor, owner, request, id)}
  /\ UNCHANGED registered

-----------------------------------------------------------------------------
\* PhoneService 'unlink' of p, and a later registration of the same key.
Unlink(p) ==
  /\ p \in registered
  /\ leases' = {l \in leases : l.actor # p /\ l.owner # p}
  /\ directory' = [directory EXCEPT ![p] = Absent]
  /\ registered' = registered \ {p}

Register(p) ==
  /\ p \notin registered
  /\ registered' = registered \cup {p}
  /\ UNCHANGED <<directory, leases>>
=============================================================================
