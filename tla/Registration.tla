------------------------------ MODULE Registration ------------------------------
(*****************************************************************************)
(* PhoneService, PhoneRegistry and PublicSmsGuard: a device proves a phone   *)
(* number with a texted code, is bound to it, and unlinks itself. The        *)
(* service is one thread that interleaves at the awaits on the SMS           *)
(* provider; the registry and the reservations are durable, the attempts     *)
(* are not.                                                                  *)
(*****************************************************************************)
EXTENDS Naturals

CONSTANTS Keys,        \* device identity keys
          Numbers,     \* phone indexes
          NoKey,       \* no device
          MaxChecks,   \* codes an attempt takes (5)
          Quota,       \* texts to a number in a window (10 a day)
          MaxTexts,    \* bound: sends in a run
          MaxRestarts  \* bound: restarts in a run

ASSUME RegistrationAssumption ==
    NoKey \notin Keys /\ MaxChecks \in Nat /\ Quota \in Nat /\ MaxTexts \in Nat /\ MaxRestarts \in Nat

VARIABLES
    bound,     \* [Numbers -> Keys or NoKey]: phone_identities
    listed,    \* numbers that are discoverable
    owned,     \* [Keys -> SUBSET Stores]: rows of the key in push and delivery
    attempts,  \* the codes that are waiting to be verified
    sendingTo, \* [Keys -> sms.send that is awaited: {} or {number}]: sending
    checking,  \* sms.check that are awaited
    spent,     \* attempts whose ten minutes are over
    reserved,  \* [Numbers -> sms_abuse_limits.used in this window]
    texted,    \* [Numbers -> texts that the provider was asked for in this window]
    sends,     \* sends so far, the name of the next attempt
    newest,    \* history: [Keys -> the last attempt that was answered to it]
    restarts   \* restarts so far

registrationVars == <<bound, listed, owned, attempts, sendingTo, checking, spent, reserved, texted,
                      sends, newest, restarts>>
------------------------------------------------------------------------------
Stores == {"wake", "delivery"}
Attempts == [id: 1 .. MaxTexts, key: Keys, number: Numbers, checks: 0 .. MaxChecks, busy: BOOLEAN]

Registered(k) == \E n \in Numbers : bound[n] = k

\* prune, at the start of every command.
Young == {a \in attempts : a.id \notin spent}
Attempt(id) == {a \in attempts : a.id = id}

RegistrationInit ==
    /\ bound = [n \in Numbers |-> NoKey] /\ listed = {}
    /\ owned = [k \in Keys |-> {}]
    /\ attempts = {} /\ sendingTo = [k \in Keys |-> {}] /\ checking = {} /\ spent = {}
    /\ reserved = [n \in Numbers |-> 0] /\ texted = [n \in Numbers |-> 0]
    /\ sends = 0 /\ newest = [k \in Keys |-> 0] /\ restarts = 0

registry == <<bound, listed, owned>>
provider == <<reserved, texted>>
------------------------------------------------------------------------------
(* send                                                                      *)

\* The reservation is written before the provider is asked.
SendCode(k, n) ==
    /\ sends < MaxTexts /\ sends' = sends + 1
    /\ sendingTo[k] = {} /\ reserved[n] < Quota
    /\ reserved' = [reserved EXCEPT ![n] = @ + 1]
    /\ texted' = [texted EXCEPT ![n] = @ + 1]
    /\ sendingTo' = [sendingTo EXCEPT ![k] = {[number |-> n, id |-> sends + 1]}]
    /\ attempts' = Young
    /\ UNCHANGED <<registry, checking, spent, newest, restarts>>

\* sms.send resolves: the new attempt replaces those of the key.
CodeSent(k, sent) ==
    /\ sent \in sendingTo[k]
    /\ sendingTo' = [sendingTo EXCEPT ![k] = {}]
    /\ attempts' = {a \in attempts : a.key # k} \cup
           {[id |-> sent.id, key |-> k, number |-> sent.number, checks |-> 0, busy |-> FALSE]}
    /\ newest' = [newest EXCEPT ![k] = sent.id]
    /\ UNCHANGED <<registry, checking, spent, provider, sends, restarts>>

\* Defect: a failed send gives its reservation back.
SendFailsRefunded(k) ==
    /\ sendingTo[k] # {}
    /\ sendingTo' = [sendingTo EXCEPT ![k] = {}]
    /\ reserved' = [n \in Numbers |-> IF \E s \in sendingTo[k] : s.number = n /\ reserved[n] > 0
                                      THEN reserved[n] - 1 ELSE reserved[n]]
    /\ UNCHANGED <<registry, attempts, checking, spent, texted, sends, newest, restarts>>

\* sms.send rejects: the previous code stays, the reservation is not refunded.
SendFails(k) ==
    /\ sendingTo[k] # {}
    /\ sendingTo' = [sendingTo EXCEPT ![k] = {}]
    /\ UNCHANGED <<registry, attempts, checking, spent, provider, sends, newest, restarts>>
------------------------------------------------------------------------------
(* verify                                                                    *)

\* A check is counted before it is asked for, and one is under way at a time.
Verify(k, a) ==
    LET asked == [a EXCEPT !.checks = @ + 1, !.busy = TRUE] IN
    /\ sendingTo[k] = {} /\ a \in Young /\ a.key = k
    /\ ~a.busy /\ a.checks < MaxChecks
    /\ attempts' = (Young \ {a}) \cup {asked}
    /\ checking' = checking \cup {[id |-> a.id, key |-> k, number |-> a.number]}
    /\ UNCHANGED <<registry, sendingTo, spent, provider, sends, newest, restarts>>

\* bind: a number that is taken stays with its key, a key has one number.
Bind(n, k, show) ==
    IF bound[n] \notin {NoKey, k} THEN UNCHANGED <<bound, listed>>
    ELSE /\ bound' = [m \in Numbers |-> IF m = n THEN k ELSE IF bound[m] = k THEN NoKey ELSE bound[m]]
         /\ listed' = {m \in listed : bound[m] # k} \cup (IF show THEN {n} ELSE {})

\* Defect: the attempt is not looked up again after the await.
RightUnchecked(c, show) ==
    /\ c \in checking
    /\ checking' = checking \ {c}
    /\ attempts' = attempts \ Attempt(c.id) /\ Bind(c.number, c.key, show)
    /\ UNCHANGED <<owned, sendingTo, spent, provider, sends, newest, restarts>>

\* sms.check resolves with true: the attempt must still be the one of its id,
\* and young. It is used up even if the number is taken.
Right(c, show) ==
    /\ c \in checking
    /\ checking' = checking \ {c}
    /\ IF Attempt(c.id) # {} /\ c.id \notin spent
       THEN attempts' = attempts \ Attempt(c.id) /\ Bind(c.number, c.key, show)
       ELSE /\ attempts' = {IF a.id = c.id THEN [a EXCEPT !.busy = FALSE] ELSE a : a \in attempts}
            /\ UNCHANGED <<bound, listed>>
    /\ UNCHANGED <<owned, sendingTo, spent, provider, sends, newest, restarts>>

\* sms.check resolves with false, or rejects.
Wrong(c) ==
    /\ c \in checking
    /\ checking' = checking \ {c}
    /\ attempts' = {IF a.id = c.id THEN [a EXCEPT !.busy = FALSE] ELSE a : a \in attempts}
    /\ UNCHANGED <<registry, sendingTo, spent, provider, sends, newest, restarts>>
------------------------------------------------------------------------------
\* visibility
Visibility(k, show) ==
    LET mine == {n \in Numbers : bound[n] = k} IN
    /\ mine # {}
    /\ listed' = IF show THEN listed \cup mine ELSE listed \ mine
    /\ attempts' = Young
    /\ UNCHANGED <<bound, owned, sendingTo, checking, spent, provider, sends, newest, restarts>>

\* A push route, or rows of the mailbox, of a registered key.
Store(k, s) ==
    /\ Registered(k)
    /\ owned' = [owned EXCEPT ![k] = @ \cup {s}]
    /\ attempts' = Young
    /\ UNCHANGED <<bound, listed, sendingTo, checking, spent, provider, sends, newest, restarts>>

\* What a restart leaves of the attempts.
Forget == /\ restarts < MaxRestarts /\ restarts' = restarts + 1
          /\ attempts' = {} /\ checking' = {} /\ sendingTo' = [k \in Keys |-> {}]

\* Defect: the registry first.
UnlinkKeyFirst(k, done) ==
    /\ Registered(k)
    /\ owned' = [owned EXCEPT ![k] = @ \ ({s \in {"wake"} : done > 1} \cup {s \in {"delivery"} : done = 3})]
    /\ bound' = [n \in Numbers |-> IF bound[n] = k THEN NoKey ELSE bound[n]]
    /\ listed' = {n \in listed : bound[n] # k}
    /\ IF done = 3 THEN attempts' = Young /\ UNCHANGED <<checking, sendingTo, restarts>> ELSE Forget
    /\ UNCHANGED <<spent, provider, sends, newest>>

\* unlink: three databases one after the other. The process may die after any.
UnlinkKey(k, done) ==
    /\ Registered(k)
    /\ owned' = [owned EXCEPT ![k] = @ \ ({"wake"} \cup IF done > 1 THEN {"delivery"} ELSE {})]
    /\ IF done = 3
       THEN /\ bound' = [n \in Numbers |-> IF bound[n] = k THEN NoKey ELSE bound[n]]
            /\ listed' = {n \in listed : bound[n] # k}
            /\ attempts' = Young
            /\ UNCHANGED <<checking, sendingTo, restarts>>
       ELSE Forget /\ UNCHANGED <<bound, listed>>
    /\ UNCHANGED <<spent, provider, sends, newest>>

Restart ==
    /\ Forget
    /\ UNCHANGED <<registry, spent, provider, sends, newest>>

\* Ten minutes pass for an attempt, a window for the limits of a number.
Spend(a) ==
    /\ a \in attempts /\ a.id \notin spent
    /\ spent' = spent \cup {a.id}
    /\ UNCHANGED <<registry, attempts, sendingTo, checking, provider, sends, newest, restarts>>

NewWindow(n) ==
    /\ reserved[n] > 0
    /\ reserved' = [reserved EXCEPT ![n] = 0] /\ texted' = [texted EXCEPT ![n] = 0]
    /\ UNCHANGED <<registry, attempts, sendingTo, checking, spent, sends, newest, restarts>>

RegistrationNext ==
    \/ \E k \in Keys, n \in Numbers : SendCode(k, n)
    \/ \E k \in Keys : SendFails(k) \/ \E sent \in sendingTo[k] : CodeSent(k, sent)
    \/ \E k \in Keys, a \in attempts : Verify(k, a)
    \/ \E c \in checking, show \in BOOLEAN : Right(c, show)
    \/ \E c \in checking : Wrong(c)
    \/ \E k \in Keys, show \in BOOLEAN : Visibility(k, show)
    \/ \E k \in Keys, s \in Stores : Store(k, s)
    \/ \E k \in Keys, done \in 1 .. 3 : UnlinkKey(k, done)
    \/ Restart
    \/ \E a \in attempts : Spend(a)
    \/ \E n \in Numbers : NewWindow(n)

RegistrationSpec == RegistrationInit /\ [][RegistrationNext]_registrationVars
------------------------------------------------------------------------------
RegistrationTypeOK ==
    /\ bound \in [Numbers -> Keys \cup {NoKey}] /\ listed \subseteq {n \in Numbers : bound[n] # NoKey}
    /\ owned \in [Keys -> SUBSET Stores]
    /\ attempts \subseteq Attempts
    /\ sendingTo \in [Keys -> SUBSET [number: Numbers, id: 1 .. MaxTexts]]
    /\ checking \subseteq [id: 1 .. MaxTexts, key: Keys, number: Numbers]
    /\ spent \subseteq 1 .. MaxTexts
    /\ reserved \in [Numbers -> 0 .. Quota] /\ texted \in [Numbers -> 0 .. MaxTexts]
    /\ sends \in 0 .. MaxTexts /\ newest \in [Keys -> 0 .. MaxTexts] /\ restarts \in 0 .. MaxRestarts

\* A number passes to another device only after its device left it, a device
\* holds one number, and a verification that ends, in whatever way, never leaves
\* a registered device without one (registry.ts bind: a text alone never replaces
\* a pinned key; PHONE_IDENTITY.md: a failed number change leaves the enrollment).
NumberKeepsItsOwner ==
    [][/\ \A n \in Numbers : bound[n] # NoKey => bound'[n] \in {bound[n], NoKey}
       /\ \A n, m \in Numbers : bound'[n] = bound'[m] /\ bound'[n] # NoKey => n = m
       /\ \A k \in Keys : checking' # checking /\ Registered(k) => Registered(k)']_registrationVars

\* A device is bound only by the code that was texted last for it, within its ten
\* minutes, whatever was resent or expired while the provider was asked.
NewestCodeBinds ==
    [][\A n \in Numbers, k \in Keys : bound[n] # k /\ bound'[n] = k =>
           \E c \in checking : c.key = k /\ c.number = n /\ c.id = newest[k] /\ c.id \notin spent
      ]_registrationVars

\* Every binding is earned by a code of its own and from nobody (service.ts
\* verify, registry.ts bind).
BindingIsEarned == NumberKeepsItsOwner /\ NewestCodeBinds

\* No number is texted more often than the limits allow, whatever the provider
\* answers and however often the service restarts.
TextsWithinQuota == \A n \in Numbers : texted[n] <= Quota

\* Push routes and mailbox rows are held for registered devices only, also when an
\* unlink stops half way: what is left can be unlinked again.
NothingOutlivesUnlink == \A k \in Keys : owned[k] # {} => Registered(k)
=============================================================================
