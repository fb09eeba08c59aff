---------------------------- MODULE DeliverySchema ----------------------------
(***************************************************************************)
(* What the devices and the mailbox agree on                               *)
(* (src/messenger/delivery/schema.ts): who can be an endpoint, how long an *)
(* envelope may live, and when it is over.                                 *)
(*                                                                         *)
(* All endpoints read one clock.  The code tolerates a sender that is      *)
(* ahead by Skew; only the mailbox, which computes a deadline of its own,  *)
(* is modelled with clocks apart (module DeliveryServer).                  *)
(***************************************************************************)
EXTENDS Integers, FiniteSets

CONSTANTS
  Peers,       \* the device identities (Ed25519 keys)
  TTL          \* DELIVERY_TTL_MS, 30 days in the code

ASSUME SchemaAssumption == TTL \in Nat \ {0}

VARIABLE now   \* the time

\* An envelope, or anything else stamped with its creation time, is over
\* when its TTL has passed since then.
Live(e) == e.at + TTL > now

\* Envelopes are identified by sender, recipient and id.
SameKey(e, f) == e.from = f.from /\ e.to = f.to /\ e.id = f.id
=============================================================================
