------------------------------- MODULE Mailbox -------------------------------
(***************************************************************************)
(* What delivery promises the two ends of a conversation, with no devices, *)
(* processes, envelopes or service in it.                                  *)
(*                                                                         *)
(* A written message is either not yet, or durably, with its recipient;    *)
(* the sender comes to know that it is.  Only a block takes back what the  *)
(* recipient has not put into its history, and only then may the sender    *)
(* know of a delivery that is no longer there.                             *)
(***************************************************************************)
CONSTANTS
  Peers,      \* the ends of conversations
  Messages    \* records with from and to

VARIABLES
  written,   \* messages in their sender's history
  history,   \* messages in their recipient's history
  held,      \* messages durably with their recipient, in history or not
  known,     \* messages whose sender knows that they were delivered
  severed    \* pairs of peers that were blocked at some time

vars == <<written, history, held, known, severed>>

Between(m, pair) == {m.from, m.to} = pair

Init ==
  /\ written = {} /\ history = {} /\ held = {} /\ known = {}
  /\ severed = {}

Write(m) ==
  /\ m \notin written
  /\ written' = written \cup {m}
  /\ UNCHANGED <<history, held, known, severed>>

Hold(m) ==
  /\ m \in written \ held
  /\ held' = held \cup {m}
  /\ UNCHANGED <<written, history, known, severed>>

Show(m) ==
  /\ m \in held \ history
  /\ history' = history \cup {m}
  /\ UNCHANGED <<written, held, known, severed>>

Know(m) ==
  /\ m \notin known
  /\ m \in held \/ {m.from, m.to} \in severed
  /\ known' = known \cup {m}
  /\ UNCHANGED <<written, history, held, severed>>

\* One side blocks the other: what is not in the history yet may be lost.
Sever(pair) ==
  /\ severed' = severed \cup {pair}
  /\ \E lost \in SUBSET {m \in held \ history : Between(m, pair)} :
       held' = held \ lost
  /\ UNCHANGED <<written, history, known>>

Next ==
  \/ \E m \in Messages : Write(m) \/ Hold(m) \/ Show(m) \/ Know(m)
  \/ \E p, q \in Peers : Sever({p, q})

Spec == Init /\ [][Next]_vars
=============================================================================
