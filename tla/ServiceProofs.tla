--------------------------- MODULE ServiceProofs ------------------------------
(*****************************************************************************)
(* What the registration of phone numbers keeps for every set of devices and *)
(* numbers, every quota and every number of checks, sends and restarts       *)
(* (module Registration), the pushes of queued envelopes for every set of    *)
(* envelopes, page, batch and ring window (module PushWorker), the           *)
(* attachments that the service holds for every set of them, their chunks,   *)
(* the processes that upload and the faults (module MediaTransfer), and the  *)
(* queue that paces all commands to it, for every bucket and pause (module   *)
(* RequestQueue).                                                            *)
(*****************************************************************************)
EXTENDS Registration, PushWorker, MediaTransfer, RequestQueue, SequenceTheorems,
        FiniteSetTheorems, WellFoundedInduction, TLAPS

\* A device has one number.
OneNumber == \A n, m \in Numbers : bound[n] = bound[m] /\ bound[n] # NoKey => n = m

\* A text is counted before it is asked for, and both counts end with the window.
EachTextIsCounted == \A n \in Numbers : texted[n] = reserved[n] /\ texted[n] <= sends

\* The id of a send that is awaited names nothing else yet.
SendsAreFresh ==
    \A k \in Keys : \A s \in sendingTo[k] :
        /\ s.id <= sends
        /\ \A j \in Keys : newest[j] # s.id
        /\ \A j \in Keys : \A t \in sendingTo[j] : s.id = t.id => j = k /\ s = t
        /\ \A c \in checking : c.id # s.id

\* The attempt that is kept for a device is its newest, an id is that of one
\* attempt, and a check is one of the attempt of its id.
CodesAreKnown ==
    /\ \A k \in Keys : newest[k] <= sends
    /\ \A c \in checking : c.id <= sends
    /\ \A a \in attempts : a.id = newest[a.key]
    /\ \A a, b \in attempts : a.id = b.id => a = b
    /\ \A a \in attempts, c \in checking : a.id = c.id => a.key = c.key /\ a.number = c.number

RegistrationInv ==
    /\ RegistrationTypeOK
    /\ OneNumber /\ EachTextIsCounted /\ SendsAreFresh /\ CodesAreKnown
    /\ NothingOutlivesUnlink
------------------------------------------------------------------------------
(* Types *)

LEMMA InitIsTyped == RegistrationInit => RegistrationTypeOK
BY RegistrationAssumption DEF RegistrationInit, RegistrationTypeOK

\* A number passes to its device, and only a number that is bound is listed.
LEMMA BindIsTyped ==
  ASSUME RegistrationTypeOK, NEW n \in Numbers, NEW k \in Keys, NEW show \in BOOLEAN, Bind(n, k, show)
  PROVE  /\ bound' \in [Numbers -> Keys \cup {NoKey}]
         /\ listed' \subseteq {m \in Numbers : bound'[m] # NoKey}
BY RegistrationAssumption DEF RegistrationTypeOK, Bind

LEMMA SendIsTyped ==
  ASSUME RegistrationTypeOK, EachTextIsCounted, NEW k \in Keys,
         \/ \E n \in Numbers : SendCode(k, n)
         \/ SendFails(k)
         \/ \E sent \in sendingTo[k] : CodeSent(k, sent)
  PROVE  RegistrationTypeOK'
<1> USE RegistrationAssumption
<1>1. ASSUME NEW n \in Numbers, SendCode(k, n)
      PROVE  RegistrationTypeOK'
  <2>1. texted[n] + 1 \in 0 .. MaxTexts /\ reserved[n] + 1 \in 0 .. Quota /\ sends + 1 \in 1 .. MaxTexts
    BY <1>1 DEF SendCode, RegistrationTypeOK, EachTextIsCounted
  <2> QED
    BY <1>1, <2>1 DEF SendCode, RegistrationTypeOK, registry, Young
<1>2. CASE SendFails(k)
  BY <1>2 DEF SendFails, RegistrationTypeOK, registry, provider
<1>3. ASSUME NEW sent \in sendingTo[k], CodeSent(k, sent)
      PROVE  RegistrationTypeOK'
  <2>1. [id |-> sent.id, key |-> k, number |-> sent.number, checks |-> 0, busy |-> FALSE] \in Attempts
    BY DEF RegistrationTypeOK, Attempts
  <2>2. attempts' \subseteq Attempts
    BY <1>3, <2>1 DEF CodeSent, RegistrationTypeOK
  <2> QED
    BY <1>3, <2>2 DEF CodeSent, RegistrationTypeOK, registry, provider
<1> QED
  BY <1>1, <1>2, <1>3

LEMMA CheckIsTyped ==
  ASSUME RegistrationTypeOK,
         \/ \E k \in Keys, a \in attempts : Verify(k, a)
         \/ \E c \in checking, show \in BOOLEAN : Right(c, show)
         \/ \E c \in checking : Wrong(c)
  PROVE  RegistrationTypeOK'
<1> USE RegistrationAssumption
<1>1. ASSUME NEW k \in Keys, NEW a \in attempts, Verify(k, a)
      PROVE  RegistrationTypeOK'
  <2>1. a \in Attempts /\ a.checks < MaxChecks
    BY <1>1 DEF Verify, RegistrationTypeOK
  <2>2. [a EXCEPT !.checks = @ + 1, !.busy = TRUE] \in Attempts
    <3> DEFINE counted == [a EXCEPT !.checks = a.checks + 1]
    <3>1. counted \in Attempts
      BY <2>1 DEF Attempts
    <3>2. [counted EXCEPT !.busy = TRUE] \in Attempts
      <4> HIDE DEF counted
      <4> QED
        BY <3>1 DEF Attempts
    <3> QED
      BY <2>1, <3>1, <3>2 DEF Attempts
  <2>3. [id |-> a.id, key |-> k, number |-> a.number] \in [id: 1 .. MaxTexts, key: Keys, number: Numbers]
    BY <2>1 DEF Attempts
  <2>4. attempts' \subseteq Attempts
    BY <1>1, <2>2 DEF Verify, RegistrationTypeOK, Young
  <2>5. checking' \subseteq [id: 1 .. MaxTexts, key: Keys, number: Numbers]
    BY <1>1, <2>3 DEF Verify, RegistrationTypeOK
  <2> QED
    BY <1>1, <2>4, <2>5 DEF Verify, RegistrationTypeOK, registry, provider
<1>2. ASSUME NEW c \in checking, {IF a.id = c.id THEN [a EXCEPT !.busy = FALSE] ELSE a : a \in attempts} = attempts'
      PROVE  attempts' \subseteq Attempts
  <2>1. \A a \in Attempts : [a EXCEPT !.busy = FALSE] \in Attempts
    BY DEF Attempts
  <2> QED
    BY <1>2, <2>1 DEF RegistrationTypeOK
<1>3. ASSUME NEW c \in checking, NEW show \in BOOLEAN, Right(c, show)
      PROVE  RegistrationTypeOK'
  <2>1. c.number \in Numbers /\ c.key \in Keys
    BY DEF RegistrationTypeOK
  <2>2. /\ bound' \in [Numbers -> Keys \cup {NoKey}]
        /\ listed' \subseteq {m \in Numbers : bound'[m] # NoKey}
    BY <1>3, <2>1, BindIsTyped DEF Right, RegistrationTypeOK
  <2>3. attempts' \subseteq Attempts
    BY <1>2, <1>3 DEF Right, RegistrationTypeOK
  <2> QED
    BY <1>3, <2>2, <2>3 DEF Right, RegistrationTypeOK, provider
<1>4. ASSUME NEW c \in checking, Wrong(c)
      PROVE  RegistrationTypeOK'
  BY <1>2, <1>4 DEF Wrong, RegistrationTypeOK, registry, provider
<1> QED
  BY <1>1, <1>3, <1>4

LEMMA RestIsTyped ==
  ASSUME RegistrationTypeOK,
         \/ \E k \in Keys, show \in BOOLEAN : Visibility(k, show)
         \/ \E k \in Keys, s \in Stores : Store(k, s)
         \/ \E k \in Keys, done \in 1 .. 3 : UnlinkKey(k, done)
         \/ Restart
         \/ \E a \in attempts : Spend(a)
         \/ \E n \in Numbers : NewWindow(n)
         \/ UNCHANGED registrationVars
  PROVE  RegistrationTypeOK'
<1> USE RegistrationAssumption
<1>1. ASSUME NEW k \in Keys, NEW show \in BOOLEAN, Visibility(k, show)
      PROVE  RegistrationTypeOK'
  BY <1>1 DEF Visibility, RegistrationTypeOK, provider, Young
<1>2. ASSUME NEW k \in Keys, NEW s \in Stores, Store(k, s)
      PROVE  RegistrationTypeOK'
  BY <1>2 DEF Store, RegistrationTypeOK, provider, Young
<1>3. ASSUME NEW k \in Keys, NEW done \in 1 .. 3, UnlinkKey(k, done)
      PROVE  RegistrationTypeOK'
  <2>1. owned' \in [Keys -> SUBSET Stores]
    BY <1>3 DEF UnlinkKey, RegistrationTypeOK
  <2> QED
    BY <1>3, <2>1 DEF UnlinkKey, Forget, RegistrationTypeOK, provider, Young
<1>4. CASE Restart
  BY <1>4 DEF Restart, Forget, RegistrationTypeOK, registry, provider
<1>5. ASSUME NEW a \in attempts, Spend(a)
      PROVE  RegistrationTypeOK'
  BY <1>5 DEF Spend, RegistrationTypeOK, registry, provider, Attempts
<1>6. ASSUME NEW n \in Numbers, NewWindow(n)
      PROVE  RegistrationTypeOK'
  BY <1>6 DEF NewWindow, RegistrationTypeOK, registry
<1>7. CASE UNCHANGED registrationVars
  BY <1>7 DEF registrationVars, RegistrationTypeOK
<1> QED
  BY <1>1, <1>2, <1>3, <1>4, <1>5, <1>6, <1>7

LEMMA StepIsTyped ==
  ASSUME RegistrationTypeOK, EachTextIsCounted, [RegistrationNext]_registrationVars
  PROVE  RegistrationTypeOK'
BY SendIsTyped, CheckIsTyped, RestIsTyped DEF RegistrationNext
------------------------------------------------------------------------------
(* Quota and numbers *)

LEMMA StepCountsTexts ==
  ASSUME RegistrationTypeOK, EachTextIsCounted, [RegistrationNext]_registrationVars
  PROVE  EachTextIsCounted'
<1> USE RegistrationAssumption DEF EachTextIsCounted
<1>1. ASSUME NEW k \in Keys, NEW n \in Numbers, SendCode(k, n)
      PROVE  EachTextIsCounted'
  BY <1>1 DEF SendCode, RegistrationTypeOK
<1>2. ASSUME NEW n \in Numbers, NewWindow(n)
      PROVE  EachTextIsCounted'
  BY <1>2 DEF NewWindow, RegistrationTypeOK
<1>3. CASE UNCHANGED <<reserved, texted, sends>>
  BY <1>3
<1> QED
  BY <1>1, <1>2, <1>3
  DEF RegistrationNext, registrationVars, provider, SendFails, CodeSent, Verify, Right, Wrong,
      Visibility, Store, UnlinkKey, Restart, Spend

\* A binding leaves the other numbers of the device, and takes none from another.
LEMMA BindKeepsOneNumber ==
  ASSUME RegistrationTypeOK, OneNumber, NEW n \in Numbers, NEW k \in Keys, NEW show \in BOOLEAN,
         Bind(n, k, show)
  PROVE  /\ OneNumber'
         /\ \A m \in Numbers : bound[m] # NoKey => bound'[m] \in {bound[m], NoKey}
         /\ \A j \in Keys : Registered(j) => Registered(j)'
<1>1. CASE bound[n] \notin {NoKey, k}
  BY <1>1 DEF Bind, OneNumber, Registered
<1>2. CASE bound[n] \in {NoKey, k}
  <2>1. bound' = [m \in Numbers |-> IF m = n THEN k ELSE IF bound[m] = k THEN NoKey ELSE bound[m]]
    BY <1>2 DEF Bind
  <2>2. OneNumber'
    BY <1>2, <2>1 DEF OneNumber, RegistrationTypeOK
  <2>3. \A m \in Numbers : bound[m] # NoKey => bound'[m] \in {bound[m], NoKey}
    BY <1>2, <2>1
  <2>4. ASSUME NEW j \in Keys, Registered(j)
        PROVE  Registered(j)'
    <3>1. CASE j = k
      BY <2>1, <3>1 DEF Registered
    <3>2. CASE j # k
      <4>1. PICK m \in Numbers : bound[m] = j
        BY <2>4 DEF Registered
      <4>2. m # n
        BY <1>2, <3>2, <4>1, RegistrationAssumption
      <4> QED
        BY <2>1, <3>2, <4>1, <4>2 DEF Registered
    <3> QED
      BY <3>1, <3>2
  <2> QED
    BY <2>2, <2>3, <2>4
<1> QED
  BY <1>1, <1>2

\* An unlinked device gives up its number, no other does.
LEMMA UnlinkKeepsOneNumber ==
  ASSUME RegistrationTypeOK, OneNumber, NEW k \in Keys, NEW done \in 1 .. 3, UnlinkKey(k, done)
  PROVE  /\ OneNumber'
         /\ \A m \in Numbers : bound[m] # NoKey => bound'[m] \in {bound[m], NoKey}
         /\ \A j \in Keys : j # k /\ Registered(j) => Registered(j)'
         /\ done # 3 => bound' = bound
<1>1. CASE done = 3
  BY <1>1 DEF UnlinkKey, OneNumber, RegistrationTypeOK, Registered
<1>2. CASE done # 3
  BY <1>2 DEF UnlinkKey, OneNumber, Registered
<1> QED
  BY <1>1, <1>2

\* What one step does to the numbers.
LEMMA StepKeepsNumbers ==
  ASSUME RegistrationTypeOK, OneNumber, [RegistrationNext]_registrationVars
  PROVE  /\ OneNumber'
         /\ \A m \in Numbers : bound[m] # NoKey => bound'[m] \in {bound[m], NoKey}
         /\ \A j \in Keys : checking' # checking /\ Registered(j) => Registered(j)'
<1>1. ASSUME NEW c \in checking, NEW show \in BOOLEAN, Right(c, show)
      PROVE  /\ OneNumber'
             /\ \A m \in Numbers : bound[m] # NoKey => bound'[m] \in {bound[m], NoKey}
             /\ \A j \in Keys : Registered(j) => Registered(j)'
  <2>1. c.number \in Numbers /\ c.key \in Keys
    BY DEF RegistrationTypeOK
  <2>2. bound' = bound \/ Bind(c.number, c.key, show)
    BY <1>1 DEF Right
  <2>3. CASE bound' = bound
    BY <2>3 DEF OneNumber, Registered
  <2> QED
    BY <2>1, <2>2, <2>3, BindKeepsOneNumber
<1>2. ASSUME NEW k \in Keys, NEW done \in 1 .. 3, UnlinkKey(k, done)
      PROVE  /\ OneNumber'
             /\ \A m \in Numbers : bound[m] # NoKey => bound'[m] \in {bound[m], NoKey}
             /\ \A j \in Keys : checking' # checking /\ Registered(j) => Registered(j)'
  <2>1. done = 3 => checking' = checking
    BY <1>2 DEF UnlinkKey
  <2> QED
    BY <1>2, <2>1, UnlinkKeepsOneNumber DEF Registered
<1>3. CASE bound' = bound
  BY <1>3 DEF OneNumber, Registered
<1> QED
  BY <1>1, <1>2, <1>3
  DEF RegistrationNext, registrationVars, registry, SendCode, SendFails, CodeSent, Verify, Wrong,
      Visibility, Store, Restart, Spend, NewWindow
------------------------------------------------------------------------------
(* Codes *)

LEMMA SendKeepsCodes ==
  ASSUME RegistrationTypeOK, SendsAreFresh, CodesAreKnown, NEW k \in Keys,
         \/ \E n \in Numbers : SendCode(k, n)
         \/ SendFails(k)
         \/ \E sent \in sendingTo[k] : CodeSent(k, sent)
  PROVE  SendsAreFresh' /\ CodesAreKnown'
<1>1. ASSUME NEW n \in Numbers, SendCode(k, n)
      PROVE  SendsAreFresh' /\ CodesAreKnown'
  <2> DEFINE new == [number |-> n, id |-> sends + 1]
  <2>1. /\ sends' = sends + 1 /\ sends \in Nat
        /\ \A j \in Keys : sendingTo'[j] = IF j = k THEN {new} ELSE sendingTo[j]
        /\ attempts' \subseteq attempts
        /\ checking' = checking /\ newest' = newest
    BY <1>1 DEF SendCode, RegistrationTypeOK, Young
  <2>2. /\ \A j \in Keys : newest[j] \in Nat /\ \A s \in sendingTo[j] : s.id \in Nat
        /\ \A c \in checking : c.id \in Nat
    BY DEF RegistrationTypeOK
  <2>3. SendsAreFresh'
    <3> SUFFICES ASSUME NEW j \in Keys, NEW s \in sendingTo'[j]
                 PROVE  /\ s.id <= sends'
                        /\ \A i \in Keys : newest'[i] # s.id
                        /\ \A i \in Keys : \A t \in sendingTo'[i] : s.id = t.id => i = j /\ s = t
                        /\ \A c \in checking' : c.id # s.id
      BY DEF SendsAreFresh
    <3>1. CASE j = k
      BY <2>1, <2>2, <3>1 DEF SendsAreFresh, CodesAreKnown
    <3>2. CASE j # k
      BY <2>1, <2>2, <3>2 DEF SendsAreFresh
    <3> QED
      BY <3>1, <3>2
  <2>4. CodesAreKnown'
    BY <2>1, <2>2 DEF CodesAreKnown
  <2> QED
    BY <2>3, <2>4
<1>2. CASE SendFails(k)
  BY <1>2 DEF SendFails, RegistrationTypeOK, SendsAreFresh, CodesAreKnown
<1>3. ASSUME NEW sent \in sendingTo[k], CodeSent(k, sent)
      PROVE  SendsAreFresh' /\ CodesAreKnown'
  <2> DEFINE new == [id |-> sent.id, key |-> k, number |-> sent.number, checks |-> 0, busy |-> FALSE]
  <2>1. /\ sends' = sends /\ checking' = checking
        /\ \A j \in Keys : sendingTo'[j] = IF j = k THEN {} ELSE sendingTo[j]
        /\ \A j \in Keys : newest'[j] = IF j = k THEN sent.id ELSE newest[j]
        /\ attempts' = {a \in attempts : a.key # k} \cup {new}
    BY <1>3 DEF CodeSent, RegistrationTypeOK
  <2>2. SendsAreFresh'
    BY <2>1 DEF SendsAreFresh
  <2>3. \A a \in attempts : a.key \in Keys /\ a.id # sent.id
    BY DEF RegistrationTypeOK, Attempts, SendsAreFresh, CodesAreKnown
  <2>4. /\ \A j \in Keys : newest'[j] <= sends'
        /\ \A c \in checking' : c.id <= sends'
    BY <2>1 DEF SendsAreFresh, CodesAreKnown
  <2>5. \A a \in attempts' : a.id = newest'[a.key]
    BY <2>1, <2>3 DEF CodesAreKnown
  <2>6. \A a, b \in attempts' : a.id = b.id => a = b
    <3>1. \A a \in attempts' : a = new \/ (a \in attempts /\ a.id # new.id)
      BY <2>1, <2>3
    <3> QED
      BY <3>1 DEF CodesAreKnown
  <2>7. \A a \in attempts', c \in checking' : a.id = c.id => a.key = c.key /\ a.number = c.number
    BY <2>1, <2>3 DEF SendsAreFresh, CodesAreKnown
  <2> QED
    BY <2>2, <2>4, <2>5, <2>6, <2>7 DEF CodesAreKnown
<1> QED
  BY <1>1, <1>2, <1>3

\* What a check that ended, or a clean-up, leaves of the attempts: the same codes.
LEMMA FewerCodesAreKnown ==
  ASSUME SendsAreFresh, CodesAreKnown,
         \A b \in attempts' : \E a \in attempts : b.id = a.id /\ b.key = a.key /\ b.number = a.number,
         \A a, b \in attempts' : a.id = b.id => a = b,
         checking' \subseteq checking, UNCHANGED <<sends, newest>>,
         sendingTo' = sendingTo \/ sendingTo' = [k \in Keys |-> {}]
  PROVE  SendsAreFresh' /\ CodesAreKnown'
<1>1. SendsAreFresh'
  <2>1. CASE sendingTo' = sendingTo
    BY <2>1 DEF SendsAreFresh
  <2>2. CASE sendingTo' = [k \in Keys |-> {}]
    BY <2>2 DEF SendsAreFresh
  <2> QED
    BY <2>1, <2>2
<1>2. CodesAreKnown'
  BY DEF CodesAreKnown
<1> QED
  BY <1>1, <1>2

LEMMA CheckKeepsCodes ==
  ASSUME RegistrationTypeOK, SendsAreFresh, CodesAreKnown,
         \/ \E k \in Keys, a \in attempts : Verify(k, a)
         \/ \E c \in checking, show \in BOOLEAN : Right(c, show)
         \/ \E c \in checking : Wrong(c)
  PROVE  SendsAreFresh' /\ CodesAreKnown'
<1>1. ASSUME NEW k \in Keys, NEW a \in attempts, Verify(k, a)
      PROVE  SendsAreFresh' /\ CodesAreKnown'
  <2> DEFINE begun == [a EXCEPT !.checks = @ + 1, !.busy = TRUE]
             new == [id |-> a.id, key |-> k, number |-> a.number]
  <2>1. /\ UNCHANGED <<sends, newest, sendingTo>>
        /\ attempts' \subseteq (attempts \ {a}) \cup {begun}
        /\ checking' = checking \cup {new}
        /\ a.key = k
    BY <1>1 DEF Verify, Young
  <2>2. a \in Attempts
    BY DEF RegistrationTypeOK
  <2>3. begun.id = a.id /\ begun.key = a.key /\ begun.number = a.number
    BY <2>2 DEF Attempts
  <2>4. /\ a.id <= sends
        /\ \A j \in Keys : \A s \in sendingTo[j] : s.id # a.id
    BY <2>2 DEF SendsAreFresh, CodesAreKnown, Attempts
  <2>5. SendsAreFresh'
    BY <2>1, <2>4 DEF SendsAreFresh
  <2>6. \A b, c \in attempts' : b.id = c.id => b = c
    <3>1. \A b \in attempts' : b = begun \/ (b \in attempts /\ b.id # begun.id)
      BY <2>1, <2>3 DEF CodesAreKnown
    <3> QED
      BY <3>1 DEF CodesAreKnown
  <2>7. \A b \in attempts' : \E d \in attempts : b.id = d.id /\ b.key = d.key /\ b.number = d.number
    BY <2>1, <2>3
  <2>8. \A b \in attempts', c \in checking' : b.id = c.id => b.key = c.key /\ b.number = c.number
    <3> SUFFICES ASSUME NEW b \in attempts', NEW c \in checking', b.id = c.id
                 PROVE  b.key = c.key /\ b.number = c.number
      OBVIOUS
    <3>1. PICK d \in attempts : b.id = d.id /\ b.key = d.key /\ b.number = d.number
      BY <2>7
    <3>2. CASE c \in checking
      BY <3>1, <3>2, ZenonT(60) DEF CodesAreKnown
    <3>3. CASE c = new
      <4>1. d = a
        BY <3>1, <3>3 DEF CodesAreKnown
      <4> QED
        BY <2>1, <3>1, <3>3, <4>1
    <3> QED
      BY <2>1, <3>2, <3>3
  <2> QED
    BY <2>1, <2>4, <2>5, <2>6, <2>7, <2>8 DEF CodesAreKnown
<1>2. ASSUME NEW c \in checking, UNCHANGED <<sends, newest, sendingTo>>, checking' = checking \ {c},
             \/ attempts' \subseteq attempts
             \/ attempts' = {IF a.id = c.id THEN [a EXCEPT !.busy = FALSE] ELSE a : a \in attempts}
      PROVE  SendsAreFresh' /\ CodesAreKnown'
  <2>1. CASE attempts' \subseteq attempts
    <3>1. \A a, b \in attempts' : a.id = b.id => a = b
      BY <2>1 DEF CodesAreKnown
    <3> QED
      BY <1>2, <2>1, <3>1, FewerCodesAreKnown
  <2>2. CASE attempts' = {IF a.id = c.id THEN [a EXCEPT !.busy = FALSE] ELSE a : a \in attempts}
    <3> DEFINE Idle(a) == IF a.id = c.id THEN [a EXCEPT !.busy = FALSE] ELSE a
    <3>1. ASSUME NEW a \in attempts
          PROVE  Idle(a).id = a.id /\ Idle(a).key = a.key /\ Idle(a).number = a.number
      <4>1. a \in Attempts
        BY DEF RegistrationTypeOK
      <4> QED
        BY <4>1 DEF Attempts
    <3>2. \A b \in attempts' : \E a \in attempts : b = Idle(a)
      BY <2>2
    <3> HIDE DEF Idle
    <3>3. ASSUME NEW b \in attempts', NEW d \in attempts', b.id = d.id
          PROVE  b = d
      <4>1. PICK a \in attempts : b = Idle(a)
        BY <3>2
      <4>2. PICK e \in attempts : d = Idle(e)
        BY <3>2
      <4>3. a.id = e.id
        BY <3>1, <3>3, <4>1, <4>2
      <4>4. a = e
        BY <4>3 DEF CodesAreKnown
      <4> QED
        BY <4>1, <4>2, <4>4
    <3>4. \A b \in attempts' : \E a \in attempts : b.id = a.id /\ b.key = a.key /\ b.number = a.number
      BY <3>1, <3>2
    <3> QED
      BY <1>2, <3>3, <3>4, FewerCodesAreKnown
  <2> QED
    BY <1>2, <2>1, <2>2
<1>3. ASSUME NEW c \in checking, NEW show \in BOOLEAN, Right(c, show)
      PROVE  SendsAreFresh' /\ CodesAreKnown'
  BY <1>2, <1>3 DEF Right
<1>4. ASSUME NEW c \in checking, Wrong(c)
      PROVE  SendsAreFresh' /\ CodesAreKnown'
  BY <1>2, <1>4 DEF Wrong
<1> QED
  BY <1>1, <1>3, <1>4

LEMMA StepKeepsCodes ==
  ASSUME RegistrationTypeOK, SendsAreFresh, CodesAreKnown, [RegistrationNext]_registrationVars
  PROVE  SendsAreFresh' /\ CodesAreKnown'
<1>1. ASSUME attempts' \subseteq attempts, checking' \subseteq checking, UNCHANGED <<sends, newest>>,
             sendingTo' = sendingTo \/ sendingTo' = [k \in Keys |-> {}]
      PROVE  SendsAreFresh' /\ CodesAreKnown'
  <2>1. \A a, b \in attempts' : a.id = b.id => a = b
    BY <1>1 DEF CodesAreKnown
  <2> QED
    BY <1>1, <2>1, FewerCodesAreKnown
<1>2. ASSUME \/ \E k \in Keys, show \in BOOLEAN : Visibility(k, show)
             \/ \E k \in Keys, s \in Stores : Store(k, s)
             \/ \E k \in Keys, done \in 1 .. 3 : UnlinkKey(k, done)
             \/ Restart
             \/ \E a \in attempts : Spend(a)
             \/ \E n \in Numbers : NewWindow(n)
             \/ UNCHANGED registrationVars
      PROVE  SendsAreFresh' /\ CodesAreKnown'
  BY <1>1, <1>2
  DEF Visibility, Store, UnlinkKey, Restart, Forget, Spend, NewWindow, registrationVars, Young, provider
<1> QED
  BY <1>2, SendKeepsCodes, CheckKeepsCodes DEF RegistrationNext
------------------------------------------------------------------------------
(* What is stored for a device *)

LEMMA StepKeepsOwners ==
  ASSUME RegistrationTypeOK, OneNumber, NothingOutlivesUnlink, [RegistrationNext]_registrationVars
  PROVE  NothingOutlivesUnlink'
<1>1. ASSUME NEW c \in checking, NEW show \in BOOLEAN, Right(c, show)
      PROVE  NothingOutlivesUnlink'
  <2>1. c.number \in Numbers /\ c.key \in Keys
    BY DEF RegistrationTypeOK
  <2>2. owned' = owned /\ (bound' = bound \/ Bind(c.number, c.key, show))
    BY <1>1 DEF Right
  <2>3. \A j \in Keys : Registered(j) => Registered(j)'
    BY <2>1, <2>2, BindKeepsOneNumber DEF Registered
  <2> QED
    BY <2>2, <2>3 DEF NothingOutlivesUnlink
<1>2. ASSUME NEW k \in Keys, NEW done \in 1 .. 3, UnlinkKey(k, done)
      PROVE  NothingOutlivesUnlink'
  <2>1. \A j \in Keys : owned'[j] # {} => owned[j] # {}
    BY <1>2 DEF UnlinkKey, RegistrationTypeOK
  <2>2. done = 3 => owned'[k] = {}
    BY <1>2 DEF UnlinkKey, RegistrationTypeOK, Stores
  <2>3. done # 3 => bound' = bound
    BY <1>2, UnlinkKeepsOneNumber
  <2>4. \A j \in Keys : j # k /\ Registered(j) => Registered(j)'
    BY <1>2, UnlinkKeepsOneNumber
  <2> QED
    BY <2>1, <2>2, <2>3, <2>4 DEF NothingOutlivesUnlink, Registered
<1>3. ASSUME NEW k \in Keys, NEW s \in Stores, Store(k, s)
      PROVE  NothingOutlivesUnlink'
  BY <1>3 DEF Store, NothingOutlivesUnlink, Registered, RegistrationTypeOK
<1>4. CASE UNCHANGED <<bound, owned>>
  BY <1>4 DEF NothingOutlivesUnlink, Registered
<1> QED
  BY <1>1, <1>2, <1>3, <1>4
  DEF RegistrationNext, registrationVars, registry, SendCode, SendFails, CodeSent, Verify, Wrong,
      Visibility, Restart, Spend, NewWindow
------------------------------------------------------------------------------
(* The theorems *)

LEMMA RegistrationInvHolds == RegistrationSpec => []RegistrationInv
<1>1. RegistrationInit => RegistrationInv
  <2>1. RegistrationInit => RegistrationTypeOK
    BY InitIsTyped
  <2> QED
    BY <2>1, RegistrationAssumption
    DEF RegistrationInit, RegistrationInv, OneNumber, EachTextIsCounted, SendsAreFresh, CodesAreKnown,
        NothingOutlivesUnlink
<1>2. RegistrationInv /\ [RegistrationNext]_registrationVars => RegistrationInv'
  BY StepIsTyped, StepCountsTexts, StepKeepsNumbers, StepKeepsCodes, StepKeepsOwners DEF RegistrationInv
<1> QED
  BY <1>1, <1>2, PTL DEF RegistrationSpec

\* What is stored has the types the tables and the maps of the service give it.
THEOREM RegistrationIsTyped == RegistrationSpec => []RegistrationTypeOK
<1>1. RegistrationInv => RegistrationTypeOK
  BY DEF RegistrationInv
<1> QED
  BY <1>1, RegistrationInvHolds, PTL

\* No number is texted beyond its quota, however often the provider fails and the
\* service restarts (PublicSmsGuard: a reservation is written first and kept).
THEOREM QuotaHolds == RegistrationSpec => []TextsWithinQuota
<1>1. RegistrationInv => TextsWithinQuota
  BY RegistrationAssumption DEF RegistrationInv, RegistrationTypeOK, EachTextIsCounted, TextsWithinQuota
<1> QED
  BY <1>1, RegistrationInvHolds, PTL

\* An unlink that stops after any of its three databases leaves no row of a device
\* that is not registered (PhoneService unlink).
THEOREM UnlinkLeavesNothing == RegistrationSpec => []NothingOutlivesUnlink
<1>1. RegistrationInv => NothingOutlivesUnlink
  BY DEF RegistrationInv
<1> QED
  BY <1>1, RegistrationInvHolds, PTL

\* Only a check of the newest code of the device, that is not spent, binds it.
LEMMA OnlyNewestBinds ==
  ASSUME RegistrationInv, [RegistrationNext]_registrationVars,
         NEW n \in Numbers, NEW k \in Keys, bound[n] # k, bound'[n] = k
  PROVE  \E c \in checking : c.key = k /\ c.number = n /\ c.id = newest[k] /\ c.id \notin spent
<1> USE RegistrationAssumption DEF RegistrationInv
<1>1. ASSUME NEW c \in checking, NEW show \in BOOLEAN, Right(c, show)
      PROVE  c.key = k /\ c.number = n /\ c.id = newest[k] /\ c.id \notin spent
  <2>1. Attempt(c.id) # {} /\ c.id \notin spent /\ Bind(c.number, c.key, show)
    BY <1>1 DEF Right
  <2>2. c.key = k /\ c.number = n
    BY <2>1 DEF Bind, RegistrationTypeOK
  <2>3. PICK a \in attempts : a.id = c.id
    BY <2>1 DEF Attempt
  <2>4. a.key = k
    BY <2>2, <2>3 DEF CodesAreKnown
  <2>5. c.id = newest[k]
    BY <2>3, <2>4 DEF CodesAreKnown
  <2> QED
    BY <2>1, <2>2, <2>5
<1>2. ASSUME NEW j \in Keys, NEW done \in 1 .. 3, UnlinkKey(j, done)
      PROVE  FALSE
  BY <1>2 DEF UnlinkKey, RegistrationTypeOK
<1>3. CASE bound' = bound
  BY <1>3
<1> QED
  BY <1>1, <1>2, <1>3
  DEF RegistrationNext, registrationVars, registry, SendCode, SendFails, CodeSent, Verify, Wrong,
      Visibility, Store, Restart, Spend, NewWindow

\* A number is bound by the newest code that was texted for the device, within its
\* ten minutes, never taken from another device, and a verification never leaves a
\* device that was registered without its number (PhoneService verify,
\* PhoneRegistry bind).
THEOREM BindingEarned == RegistrationSpec => BindingIsEarned
<1>1. RegistrationInv /\ RegistrationInv' /\ [RegistrationNext]_registrationVars =>
        [/\ \A n \in Numbers : bound[n] # NoKey => bound'[n] \in {bound[n], NoKey}
         /\ \A n, m \in Numbers : bound'[n] = bound'[m] /\ bound'[n] # NoKey => n = m
         /\ \A k \in Keys : checking' # checking /\ Registered(k) => Registered(k)']_registrationVars
  BY StepKeepsNumbers DEF RegistrationInv, OneNumber
<1>2. RegistrationInv /\ [RegistrationNext]_registrationVars =>
        [\A n \in Numbers, k \in Keys : bound[n] # k /\ bound'[n] = k =>
           \E c \in checking : c.key = k /\ c.number = n /\ c.id = newest[k] /\ c.id \notin spent
        ]_registrationVars
  BY OnlyNewestBinds
<1>3. RegistrationSpec => NumberKeepsItsOwner
  BY <1>1, RegistrationInvHolds, PTL DEF RegistrationSpec, NumberKeepsItsOwner
<1>4. RegistrationSpec => NewestCodeBinds
  BY <1>2, RegistrationInvHolds, PTL DEF RegistrationSpec, NewestCodeBinds
<1> QED
  BY <1>3, <1>4 DEF BindingIsEarned
------------------------------------------------------------------------------
(* Sequences                                                                 *)

\* A line without an element twice.
Distinct(s) == \A i, j \in 1 .. Len(s) : s[i] = s[j] => i = j

LEMMA Elements ==
  ASSUME NEW S, NEW s \in Seq(S)
  PROVE  ToSet(s) = {s[i] : i \in 1 .. Len(s)} /\ ToSet(s) \subseteq S
BY LenProperties, ElementOfSeq DEF ToSet

LEMMA InsertedAt ==
  ASSUME NEW S, NEW s \in Seq(S), NEW i \in 1 .. Len(s) + 1, NEW e \in S
  PROVE  /\ InsertAt(s, i, e) \in Seq(S)
         /\ ToSet(InsertAt(s, i, e)) = ToSet(s) \cup {e}
         /\ Distinct(s) /\ e \notin ToSet(s) => Distinct(InsertAt(s, i, e))
<1> DEFINE front == SubSeq(s, 1, i - 1)
           back == SubSeq(s, i, Len(s))
           t == InsertAt(s, i, e)
<1>1. Len(s) \in Nat /\ \A j \in 1 .. Len(s) : s[j] \in S
  BY LenProperties, ElementOfSeq
<1>2. /\ front \in Seq(S) /\ Len(front) = i - 1
      /\ \A j \in 1 .. i - 1 : front[j] = s[j]
  <2>1. \A j \in 1 .. i - 1 : s[j] \in S
    BY <1>1
  <2> QED
    BY <1>1, <2>1, SubSeqProperties
<1>3. /\ back \in Seq(S) /\ Len(back) = Len(s) - i + 1
      /\ \A j \in 1 .. Len(s) - i + 1 : back[j] = s[i + j - 1]
  <2>1. \A j \in i .. Len(s) : s[j] \in S
    BY <1>1
  <2> QED
    BY <1>1, <2>1, SubSeqProperties
<1>4. <<e>> \in Seq(S) /\ Len(<<e>>) = 1 /\ <<e>>[1] = e
  OBVIOUS
<1> HIDE DEF front, back
<1>5. /\ front \o <<e>> \in Seq(S) /\ Len(front \o <<e>>) = i
      /\ \A j \in 1 .. i : (front \o <<e>>)[j] = IF j < i THEN s[j] ELSE e
  BY <1>1, <1>2, <1>4, ConcatProperties
<1>6. t = (front \o <<e>>) \o back
  BY DEF InsertAt, front, back
<1>7. /\ t \in Seq(S) /\ Len(t) = Len(s) + 1
      /\ \A j \in 1 .. Len(s) + 1 :
           t[j] = IF j < i THEN s[j] ELSE IF j = i THEN e ELSE s[j - 1]
  <2> HIDE DEF t
  <2> DEFINE u == front \o <<e>>
  <2>1. /\ t \in Seq(S) /\ Len(t) = i + (Len(s) - i + 1)
        /\ \A j \in 1 .. i + (Len(s) - i + 1) : t[j] = IF j <= i THEN u[j] ELSE back[j - i]
    <3>1. u \in Seq(S) /\ Len(u) = i
      BY <1>5
    <3> HIDE DEF u
    <3>2. /\ u \o back \in Seq(S)
          /\ Len(u \o back) = Len(u) + Len(back)
          /\ \A j \in 1 .. Len(u) + Len(back) :
               (u \o back)[j] = IF j <= Len(u) THEN u[j] ELSE back[j - Len(u)]
      BY <1>3, <3>1, ConcatProperties
    <3>3. t = u \o back
      BY <1>6 DEF u
    <3> QED
      BY <1>3, <3>1, <3>2, <3>3
  <2>2. \A j \in 1 .. Len(s) + 1 : j > i => back[j - i] = s[j - 1]
    BY <1>1, <1>3
  <2>3. i + (Len(s) - i + 1) = Len(s) + 1
    BY <1>1
  <2>4. \A j \in 1 .. i : u[j] = IF j < i THEN s[j] ELSE e
    BY <1>5
  <2> HIDE DEF u
  <2>5. ASSUME NEW j \in 1 .. Len(s) + 1
        PROVE  t[j] = IF j < i THEN s[j] ELSE IF j = i THEN e ELSE s[j - 1]
    <3>1. t[j] = IF j <= i THEN u[j] ELSE back[j - i]
      BY <2>1, <2>3
    <3>2. j \in Nat /\ i \in Nat
      BY <1>1
    <3>3. CASE j <= i
      BY <2>4, <3>1, <3>2, <3>3
    <3>4. CASE j > i
      BY <2>2, <3>1, <3>2, <3>4
    <3> QED
      BY <3>2, <3>3, <3>4
  <2> QED
    BY <2>1, <2>3, <2>5
<1> HIDE DEF t
<1>8. ToSet(t) = ToSet(s) \cup {e}
  <2>1. ToSet(t) = {t[j] : j \in 1 .. Len(s) + 1} /\ ToSet(s) = {s[j] : j \in 1 .. Len(s)}
    BY <1>7, Elements
  <2>2. ASSUME NEW j \in 1 .. Len(s)
        PROVE  s[j] \in ToSet(t)
    <3>1. CASE j < i
      BY <1>1, <1>7, <2>1, <3>1
    <3>2. CASE j >= i
      <4>1. j + 1 \in 1 .. Len(s) + 1 /\ t[j + 1] = s[j]
        BY <1>1, <1>7, <3>2
      <4> QED
        BY <2>1, <4>1
    <3> QED
      BY <1>1, <3>1, <3>2
  <2>3. e \in ToSet(t)
    BY <1>1, <1>7, <2>1
  <2>4. ASSUME NEW j \in 1 .. Len(s) + 1
        PROVE  t[j] \in ToSet(s) \cup {e}
    BY <1>1, <1>7, <2>1
  <2> QED
    BY <2>1, <2>2, <2>3, <2>4
<1>9. ASSUME Distinct(s), e \notin ToSet(s)
      PROVE  Distinct(t)
  <2>1. \A j \in 1 .. Len(s) : s[j] # e
    BY <1>9, Elements
  <2> SUFFICES ASSUME NEW j \in 1 .. Len(s) + 1, NEW k \in 1 .. Len(s) + 1, t[j] = t[k]
               PROVE  j = k
    BY <1>7 DEF Distinct
  <2> DEFINE from(l) == IF l < i THEN l ELSE l - 1
  <2>2. \A l \in 1 .. Len(s) + 1 : l # i => from(l) \in 1 .. Len(s) /\ t[l] = s[from(l)]
    BY <1>1, <1>7
  <2>3. t[i] = e
    BY <1>1, <1>7
  <2>4. j = i <=> k = i
    BY <2>1, <2>2, <2>3
  <2>5. CASE j # i
    <3>1. from(j) = from(k)
      <4> HIDE DEF from
      <4> QED
        BY <1>9, <2>2, <2>4, <2>5 DEF Distinct
    <3> QED
      BY <1>1, <2>4, <2>5, <3>1
  <2> QED
    BY <2>4, <2>5
<1> QED
  BY <1>7, <1>8, <1>9 DEF t

LEMMA RemovedAt ==
  ASSUME NEW S, NEW s \in Seq(S), NEW i \in 1 .. Len(s)
  PROVE  /\ RemoveAt(s, i) \in Seq(S)
         /\ Len(RemoveAt(s, i)) = Len(s) - 1
         /\ Distinct(s) => Distinct(RemoveAt(s, i)) /\ ToSet(RemoveAt(s, i)) = ToSet(s) \ {s[i]}
<1> DEFINE front == SubSeq(s, 1, i - 1)
           back == SubSeq(s, i + 1, Len(s))
           t == RemoveAt(s, i)
<1>1. Len(s) \in Nat /\ \A j \in 1 .. Len(s) : s[j] \in S
  BY LenProperties, ElementOfSeq
<1>2. /\ front \in Seq(S) /\ Len(front) = i - 1
      /\ \A j \in 1 .. i - 1 : front[j] = s[j]
  <2>1. \A j \in 1 .. i - 1 : s[j] \in S
    BY <1>1
  <2> QED
    BY <1>1, <2>1, SubSeqProperties
<1>3. /\ back \in Seq(S) /\ Len(back) = Len(s) - i
      /\ \A j \in 1 .. Len(s) - i : back[j] = s[i + j]
  <2>1. \A j \in i + 1 .. Len(s) : s[j] \in S
    BY <1>1
  <2>2. /\ SubSeq(s, i + 1, Len(s)) \in Seq(S)
        /\ Len(SubSeq(s, i + 1, Len(s))) = IF i + 1 <= Len(s) THEN Len(s) - (i + 1) + 1 ELSE 0
        /\ \A j \in 1 .. Len(s) - (i + 1) + 1 : SubSeq(s, i + 1, Len(s))[j] = s[i + 1 + j - 1]
    BY <1>1, <2>1, SubSeqProperties
  <2> QED
    BY <1>1, <2>2
<1> HIDE DEF front, back
<1>4. t = front \o back
  BY DEF RemoveAt, front, back
<1>5. /\ t \in Seq(S) /\ Len(t) = Len(s) - 1
      /\ \A j \in 1 .. Len(s) - 1 : t[j] = IF j < i THEN s[j] ELSE s[j + 1]
  <2> HIDE DEF t
  <2>1. /\ t \in Seq(S) /\ Len(t) = Len(front) + Len(back)
        /\ \A j \in 1 .. Len(front) + Len(back) :
             t[j] = IF j <= Len(front) THEN front[j] ELSE back[j - Len(front)]
    BY <1>2, <1>3, <1>4, ConcatProperties
  <2>2. \A j \in 1 .. Len(s) - 1 : j >= i => back[j - (i - 1)] = s[j + 1]
    BY <1>1, <1>3
  <2>3. Len(front) + Len(back) = Len(s) - 1 /\ Len(front) = i - 1
    BY <1>1, <1>2, <1>3
  <2>4. ASSUME NEW j \in 1 .. Len(s) - 1
        PROVE  t[j] = IF j < i THEN s[j] ELSE s[j + 1]
    <3>1. t[j] = IF j <= i - 1 THEN front[j] ELSE back[j - (i - 1)]
      BY <2>1, <2>3
    <3>2. j \in Nat /\ i \in Nat
      BY <1>1
    <3> QED
      BY <1>2, <2>2, <3>1, <3>2
  <2> QED
    BY <2>1, <2>3, <2>4
<1> HIDE DEF t
<1>6. ASSUME Distinct(s)
      PROVE  Distinct(t)
  <2> SUFFICES ASSUME NEW j \in 1 .. Len(t), NEW k \in 1 .. Len(t), t[j] = t[k]
               PROVE  j = k
    BY DEF Distinct
  <2> DEFINE at(l) == IF l < i THEN l ELSE l + 1
  <2>1. at(j) \in 1 .. Len(s) /\ at(k) \in 1 .. Len(s)
    BY <1>1, <1>5
  <2>2. t[j] = s[at(j)] /\ t[k] = s[at(k)]
    BY <1>1, <1>5
  <2>3. at(j) = at(k)
    BY <1>6, <2>1, <2>2, Zenon DEF Distinct
  <2> QED
    BY <1>1, <1>5, <2>3
<1>7. ASSUME Distinct(s)
      PROVE  ToSet(t) = ToSet(s) \ {s[i]}
  <2>1. ToSet(t) = {t[j] : j \in 1 .. Len(s) - 1} /\ ToSet(s) = {s[j] : j \in 1 .. Len(s)}
    BY <1>5, Elements
  <2>2. ASSUME NEW j \in 1 .. Len(s), j # i
        PROVE  s[j] \in ToSet(t)
    <3>1. CASE j < i
      BY <1>1, <1>5, <2>1, <3>1
    <3>2. CASE j > i
      <4>1. j - 1 \in 1 .. Len(s) - 1 /\ t[j - 1] = s[j]
        BY <1>1, <1>5, <3>2
      <4> QED
        BY <2>1, <4>1
    <3> QED
      BY <1>1, <2>2, <3>1, <3>2
  <2>3. ASSUME NEW j \in 1 .. Len(s) - 1
        PROVE  t[j] \in ToSet(s) \ {s[i]}
    <3>1. CASE j < i
      BY <1>1, <1>5, <1>7, <2>1, <3>1 DEF Distinct
    <3>2. CASE j >= i
      <4>1. j + 1 \in 1 .. Len(s) /\ j + 1 # i /\ t[j] = s[j + 1]
        BY <1>1, <1>5, <3>2
      <4> QED
        BY <1>7, <2>1, <4>1 DEF Distinct
    <3> QED
      BY <1>1, <3>1, <3>2
  <2> QED
    BY <2>1, <2>2, <2>3
<1> QED
  BY <1>5, <1>6, <1>7 DEF t

LEMMA PartOf ==
  ASSUME NEW S, NEW s \in Seq(S), NEW m \in Nat \ {0}, NEW n \in 0 .. Len(s)
  PROVE  SubSeq(s, m, n) \in Seq(S) /\ Len(SubSeq(s, m, n)) <= n
<1>1. Len(s) \in Nat /\ \A j \in 1 .. Len(s) : s[j] \in S
  BY LenProperties, ElementOfSeq
<1>2. \A j \in m .. n : s[j] \in S
  BY <1>1
<1> QED
  BY <1>1, <1>2, SubSeqProperties
------------------------------------------------------------------------------
(* The pushes: the inductive invariant                                       *)

PushIsTyped ==
    /\ spool \in [Pushes -> {"unsent", "held", "gone"}]
    /\ line \in Seq(Pushes) /\ page \in Seq(Pushes) /\ Len(page) <= Page
    /\ wait \in [Pushes -> 0 .. RingTicks + LongestBackoff] /\ tries \in [Pushes -> 0 .. LongestBackoff]
    /\ ringLeft \in [Pushes -> 0 .. RingTicks]
    /\ asked \subseteq Requests /\ IsFiniteSet(asked) /\ Cardinality(asked) <= Batch
    /\ worker \in {"idle", "running"} /\ timer \in {"soon", "later"} /\ wakePending \in BOOLEAN
    /\ routeAt \in [Pushes -> 0 .. Registrations] /\ token \in [Pushes -> Tokens]
    /\ clock \in 0 .. Registrations
    /\ alerted \subseteq Pushes /\ deaths \in 0 .. MaxDeaths

\* A job is that of an envelope that is held, and an envelope has one.
JobsAreHeld == Distinct(line) /\ \A e \in Jobs : spool[e] = "held"

\* An alert is asked for, and so accepted, when the ring window is over.
AlertsFollowRings ==
    /\ \A r \in asked : ~r.ringing => ringLeft[r.push] = 0
    /\ \A e \in alerted : ringLeft[e] = 0

PushInv == PushIsTyped /\ JobsAreHeld /\ PushIsOwed /\ AlertsFollowRings

LEMMA PushConstants ==
  /\ CallPushes \subseteq Pushes
  /\ Page \in Nat /\ Batch \in Nat /\ RingTicks \in Nat /\ LongestBackoff \in Nat
  /\ Page > 0 /\ Batch > 0 /\ RingTicks > 0 /\ LongestBackoff > 0 /\ Batch <= Page
  /\ Registrations \in Nat /\ MaxDeaths \in Nat
BY PushAssumption

LEMMA PushInitInv == PushInit => PushInv
<1> SUFFICES ASSUME PushInit
             PROVE  PushInv
  OBVIOUS
<1> USE PushConstants DEF PushInit
<1>1. IsFiniteSet(asked) /\ Cardinality(asked) = 0
  BY FS_EmptySet
<1>2. PushIsTyped
  <2>1. line \in Seq(Pushes) /\ page \in Seq(Pushes) /\ Len(page) = 0
    OBVIOUS
  <2>2. ringLeft \in [Pushes -> 0 .. RingTicks]
    OBVIOUS
  <2>3. clock \in 0 .. Registrations /\ routeAt \in [Pushes -> 0 .. Registrations]
    BY PushConstants
  <2>4. /\ wait \in [Pushes -> 0 .. RingTicks + LongestBackoff] /\ tries \in [Pushes -> 0 .. LongestBackoff]
        /\ deaths \in 0 .. MaxDeaths /\ token \in [Pushes -> Tokens]
        /\ spool \in [Pushes -> {"unsent", "held", "gone"}]
    BY PushConstants DEF Tokens
  <2>5. asked \subseteq Requests /\ Cardinality(asked) <= Batch /\ Len(page) <= Page /\ alerted \subseteq Pushes
    BY <1>1, <2>1, PushConstants
  <2> QED
    BY <1>1, <2>1, <2>2, <2>3, <2>4, <2>5 DEF PushIsTyped
<1>3. JobsAreHeld
  BY DEF JobsAreHeld, Distinct, Jobs, ToSet
<1>4. PushIsOwed /\ AlertsFollowRings
  BY DEF PushIsOwed, AlertsFollowRings
<1> QED
  BY <1>2, <1>3, <1>4 DEF PushInv

\* An answer to a request is one request less.
LEMMA OneAnswered ==
  ASSUME PushIsTyped, NEW r \in asked
  PROVE  /\ asked \ {r} \subseteq Requests
         /\ IsFiniteSet(asked \ {r}) /\ Cardinality(asked \ {r}) \in 0 .. Batch - 1
<1>1. IsFiniteSet(asked) /\ Cardinality(asked) \in Nat /\ Cardinality(asked) <= Batch
  BY FS_CardinalityType DEF PushIsTyped
<1>2. IsFiniteSet(asked \ {r}) /\ Cardinality(asked \ {r}) = Cardinality(asked) - 1
  BY <1>1, FS_RemoveElement
<1>3. Cardinality(asked \ {r}) \in Nat
  BY <1>2, FS_CardinalityType
<1> QED
  BY <1>1, <1>2, <1>3, PushConstants DEF PushIsTyped

LEMMA DeleteKeepsTheOthers ==
  ASSUME PushIsTyped, JobsAreHeld, NEW e \in Pushes, Delete(e)
  PROVE  /\ line' \in Seq(Pushes)
         /\ Distinct(line')
         /\ Jobs' = Jobs \ {e}
<1>1. CASE e \notin Jobs
  BY <1>1 DEF Delete, Jobs, PushIsTyped, JobsAreHeld
<1>2. CASE e \in Jobs
  <2>1. PICK i \in 1 .. Len(line) : line[i] = e /\ line' = RemoveAt(line, i)
    BY <1>2 DEF Delete
  <2> QED
    BY <2>1, RemovedAt DEF Jobs, PushIsTyped, JobsAreHeld
<1> QED
  BY <1>1, <1>2

LEMMA RescheduleKeepsJobs ==
  ASSUME PushIsTyped, JobsAreHeld, NEW e \in Pushes, NEW ticks \in 0 .. RingTicks + LongestBackoff,
         Reschedule(e, ticks)
  PROVE  /\ line' \in Seq(Pushes)
         /\ wait' \in [Pushes -> 0 .. RingTicks + LongestBackoff]
         /\ Distinct(line')
         /\ Jobs' = Jobs
<1>1. CASE e \notin Jobs
  BY <1>1 DEF Reschedule, Jobs, PushIsTyped, JobsAreHeld
<1>2. CASE e \in Jobs
  <2>1. PICK was \in 1 .. Len(line), i \in 1 .. Len(line) :
          line[was] = e /\ line' = InsertAt(RemoveAt(line, was), i, e)
    BY <1>2 DEF Reschedule
  <2> DEFINE others == RemoveAt(line, was)
  <2>2. /\ others \in Seq(Pushes) /\ Len(others) = Len(line) - 1
        /\ Distinct(others) /\ ToSet(others) = Jobs \ {e}
    BY <2>1, RemovedAt DEF Jobs, PushIsTyped, JobsAreHeld
  <2>3. i \in 1 .. Len(others) + 1
    BY <2>2, LenProperties DEF PushIsTyped
  <2>4. line' = InsertAt(others, i, e)
    BY <2>1
  <2> HIDE DEF others
  <2>5. line' \in Seq(Pushes) /\ ToSet(line') = ToSet(others) \cup {e} /\ Distinct(line')
    BY <2>2, <2>3, <2>4, InsertedAt
  <2>6. wait' \in [Pushes -> 0 .. RingTicks + LongestBackoff]
    BY <1>2 DEF Reschedule, PushIsTyped
  <2> QED
    BY <1>2, <2>2, <2>5, <2>6 DEF Jobs
<1> QED
  BY <1>1, <1>2
------------------------------------------------------------------------------
(* The pushes: the steps                                                     *)

LEMMA SubmitPushKeepsInv ==
  ASSUME PushInv, NEW e \in Pushes, SubmitPush(e)
  PROVE  PushInv'
<1> USE DEF PushInv
<1>1. PICK i \in 1 .. Len(line) + 1 : line' = InsertAt(line, i, e)
  BY DEF SubmitPush
<1>2. e \notin Jobs /\ line \in Seq(Pushes)
  BY DEF SubmitPush, JobsAreHeld, PushIsTyped
<1>3. line' \in Seq(Pushes) /\ Jobs' = Jobs \cup {e} /\ Distinct(line')
  BY <1>1, <1>2, InsertedAt DEF Jobs, JobsAreHeld
<1>4. PushIsTyped'
  BY <1>3 DEF SubmitPush, WakeNow, PushIsTyped, routes
<1>5. JobsAreHeld' /\ PushIsOwed'
  BY <1>3 DEF SubmitPush, JobsAreHeld, PushIsOwed, PushIsTyped
<1>6. AlertsFollowRings'
  BY DEF SubmitPush, AlertsFollowRings
<1> QED
  BY <1>4, <1>5, <1>6

LEMMA ConsumedKeepsInv ==
  ASSUME PushInv, NEW e \in Pushes, Consumed(e)
  PROVE  PushInv'
<1> USE DEF PushInv
<1>1. line' \in Seq(Pushes) /\ Distinct(line') /\ Jobs' = Jobs \ {e}
  BY DeleteKeepsTheOthers DEF Consumed
<1>2. PushIsTyped'
  BY <1>1 DEF Consumed, PushIsTyped, routes, loop
<1>3. JobsAreHeld' /\ PushIsOwed'
  BY <1>1 DEF Consumed, JobsAreHeld, PushIsOwed, PushIsTyped
<1>4. AlertsFollowRings'
  BY DEF Consumed, AlertsFollowRings
<1> QED
  BY <1>2, <1>3, <1>4

LEMMA StartCycleKeepsInv ==
  ASSUME PushInv, StartCycle
  PROVE  PushInv'
<1> USE DEF PushInv
<1>1. PICK n \in 0 .. Smaller(Page, Len(line)) : page' = SubSeq(line, 1, n)
  BY DEF StartCycle
<1>2. n \in 0 .. Len(line) /\ n <= Page
  BY LenProperties, PushConstants DEF Smaller, PushIsTyped
<1>3. page' \in Seq(Pushes) /\ Len(page') <= Page
  <2>1. page' \in Seq(Pushes) /\ Len(page') <= n
    BY <1>1, <1>2, PartOf DEF PushIsTyped
  <2>2. Len(page') \in Nat
    BY <2>1, LenProperties
  <2> QED
    BY <1>2, <2>1, <2>2, PushConstants
<1>4. PushIsTyped'
  BY <1>3 DEF StartCycle, PushIsTyped, envelopes, routes
<1>5. JobsAreHeld' /\ PushIsOwed' /\ AlertsFollowRings'
  BY DEF StartCycle, JobsAreHeld, PushIsOwed, AlertsFollowRings, envelopes, Jobs
<1> QED
  BY <1>4, <1>5

\* The job of an envelope that is gone went with it, so that no job is left to
\* remove; a batch is no larger than the limit.
LEMMA AskKeepsInv ==
  ASSUME PushInv, Ask
  PROVE  PushInv'
<1> USE DEF PushInv
<1> DEFINE size == Smaller(Batch, Len(page))
           batch == {page[i] : i \in 1 .. size}
           Asked(e) == [push |-> e, ringing |-> ringLeft[e] > 0, at |-> routeAt[e], token |-> token[e],
                        dead |-> 0]
<1>1. size \in Nat /\ size <= Batch /\ size <= Len(page) /\ Len(page) \in Nat
  BY LenProperties, PushConstants DEF Smaller, PushIsTyped
<1>2. \A i \in 1 .. size : page[i] \in Pushes
  BY <1>1, ElementOfSeq DEF PushIsTyped
<1>3. line' = line
  BY DEF Ask, JobsAreHeld
<1>4. asked' = {Asked(e) : e \in {f \in batch : spool[f] = "held"}}
  BY DEF Ask
<1>5. ASSUME NEW e \in Pushes
      PROVE  Asked(e) \in Requests /\ Asked(e).push = e /\ (~Asked(e).ringing => ringLeft[e] = 0)
  <2>1. routeAt[e] \in 0 .. Registrations /\ token[e] \in Tokens /\ 0 \in 0 .. Registrations
    BY PushConstants DEF PushIsTyped
  <2>2. (ringLeft[e] > 0) \in BOOLEAN /\ (~(ringLeft[e] > 0) => ringLeft[e] = 0)
    BY DEF PushIsTyped
  <2>3. Asked(e) \in Requests
    BY <2>1, <2>2 DEF Requests
  <2>4. Asked(e).ringing = (ringLeft[e] > 0)
    BY Zenon
  <2> QED
    BY <2>2, <2>3, <2>4
<1>6. page' \in Seq(Pushes) /\ Len(page') <= Page
  <2>1. page' = SubSeq(page, Batch + 1, Len(page))
    BY DEF Ask
  <2>2. page' \in Seq(Pushes) /\ Len(page') <= Len(page)
    <3>1. Batch + 1 \in Nat \ {0} /\ Len(page) \in 0 .. Len(page) /\ page \in Seq(Pushes)
      BY <1>1, PushConstants DEF PushIsTyped
    <3> QED
      BY <2>1, <3>1, PartOf
  <2>3. Len(page') \in Nat
    BY <2>2, LenProperties
  <2> QED
    BY <1>1, <2>2, <2>3, PushConstants DEF PushIsTyped
<1>7. IsFiniteSet(asked') /\ Cardinality(asked') <= Batch
  <2> DEFINE places == {i \in 1 .. size : spool[page[i]] = "held"}
             f == [i \in places |-> Asked(page[i])]
  <2>1. IsFiniteSet(1 .. size) /\ Cardinality(1 .. size) <= Batch
    <3>2. size \in Int /\ 1 \in Int
      BY <1>1
    <3> HIDE DEF size
    <3>1. /\ IsFiniteSet(1 .. size)
          /\ Cardinality(1 .. size) = IF 1 > size THEN 0 ELSE size - 1 + 1
      BY <3>2, FS_Interval
    <3> QED
      BY <1>1, <3>1, PushConstants
  <2>2. IsFiniteSet(places) /\ Cardinality(places) <= Cardinality(1 .. size)
    BY <2>1, FS_Subset
  <2>3. f \in Surjection(places, asked')
    <3>1. \A i \in places : f[i] \in asked'
      BY <1>4
    <3>2. \A r \in asked' : \E i \in places : f[i] = r
      BY <1>4
    <3> QED
      BY <3>1, <3>2 DEF Surjection
  <2>4. IsFiniteSet(asked') /\ Cardinality(asked') <= Cardinality(places)
    BY <2>2, <2>3, FS_Surjection
  <2>5. Cardinality(asked') \in Nat /\ Cardinality(places) \in Nat /\ Cardinality(1 .. size) \in Nat
    BY <2>1, <2>2, <2>4, FS_CardinalityType
  <2> QED
    BY <1>1, <2>1, <2>2, <2>4, <2>5, PushConstants
<1>8. PushIsTyped'
  <2>1. asked' \subseteq Requests
    BY <1>2, <1>4, <1>5
  <2> QED
    BY <1>3, <1>6, <1>7, <2>1 DEF Ask, PushIsTyped, envelopes, routes
<1>9. JobsAreHeld' /\ PushIsOwed'
  BY <1>3 DEF Ask, JobsAreHeld, PushIsOwed, envelopes, Jobs
<1>10. AlertsFollowRings'
  <2>1. ringLeft' = ringLeft /\ alerted' = alerted
    BY DEF Ask, envelopes
  <2> QED
    BY <1>2, <1>4, <1>5, <2>1 DEF AlertsFollowRings
<1> QED
  BY <1>8, <1>9, <1>10

LEMMA AcceptedKeepsInv ==
  ASSUME PushInv, NEW r \in asked, Accepted(r)
  PROVE  PushInv'
<1> USE DEF PushInv
<1>1. r.push \in Pushes /\ r \in Requests
  BY DEF PushIsTyped, Requests
<1>2. asked' \subseteq Requests /\ IsFiniteSet(asked') /\ Cardinality(asked') <= Batch
  <2>1. asked' = asked \ {r}
    BY DEF Accepted, Rang, Alerted
  <2>2. asked \ {r} \subseteq Requests /\ IsFiniteSet(asked \ {r}) /\ Cardinality(asked \ {r}) \in 0 .. Batch - 1
    BY OneAnswered
  <2>3. Cardinality(asked \ {r}) <= Batch
    BY <2>2, PushConstants
  <2> QED
    BY <2>1, <2>2, <2>3
<1>3. CASE Rang(r)
  <2>1. ringLeft[r.push] \in 0 .. RingTicks + LongestBackoff
    BY <1>1, PushConstants DEF PushIsTyped
  <2>2. /\ line' \in Seq(Pushes) /\ wait' \in [Pushes -> 0 .. RingTicks + LongestBackoff]
        /\ Distinct(line') /\ Jobs' = Jobs
    BY <1>1, <1>3, <2>1, RescheduleKeepsJobs DEF Rang
  <2>3. PushIsTyped'
    BY <1>2, <1>3, <2>2 DEF Rang, PushIsTyped, envelopes, routes, loop
  <2>4. JobsAreHeld' /\ PushIsOwed' /\ AlertsFollowRings'
    BY <1>3, <2>2 DEF Rang, JobsAreHeld, PushIsOwed, AlertsFollowRings, envelopes
  <2> QED
    BY <2>3, <2>4
<1>4. CASE Alerted(r)
  <2>1. line' \in Seq(Pushes) /\ Distinct(line') /\ Jobs' = Jobs \ {r.push}
    BY <1>1, <1>4, DeleteKeepsTheOthers DEF Alerted
  <2>2. PushIsTyped'
    BY <1>1, <1>2, <1>4, <2>1 DEF Alerted, PushIsTyped, envelopes, routes, loop
  <2>3. JobsAreHeld' /\ PushIsOwed'
    BY <1>4, <2>1 DEF Alerted, JobsAreHeld, PushIsOwed, envelopes
  <2>4. AlertsFollowRings'
    BY <1>4 DEF Alerted, AlertsFollowRings, envelopes
  <2> QED
    BY <2>2, <2>3, <2>4
<1> QED
  BY <1>3, <1>4 DEF Accepted

LEMMA RefusalKeepsInv ==
  ASSUME PushInv, NEW r \in asked, Refusal(r)
  PROVE  PushInv'
<1> USE DEF PushInv
<1>1. r.push \in Pushes /\ r \in Requests
  BY DEF PushIsTyped, Requests
<1>2. asked' = asked \ {r} /\ asked' \subseteq Requests /\ IsFiniteSet(asked') /\ Cardinality(asked') <= Batch
  <2>1. asked' = asked \ {r}
    BY DEF Refusal, PutOff
  <2>2. asked \ {r} \subseteq Requests /\ IsFiniteSet(asked \ {r}) /\ Cardinality(asked \ {r}) \in 0 .. Batch - 1
    BY OneAnswered
  <2>3. Cardinality(asked \ {r}) <= Batch
    BY <2>2, PushConstants
  <2> QED
    BY <2>1, <2>2, <2>3
<1>3. Smaller(tries[r.push] + 1, LongestBackoff) \in 0 .. LongestBackoff
  BY <1>1, PushConstants, SMTT(30) DEF PushIsTyped, Smaller
<1>4. /\ line' \in Seq(Pushes) /\ wait' \in [Pushes -> 0 .. RingTicks + LongestBackoff]
      /\ Distinct(line') /\ Jobs' = Jobs
  <2>1. Smaller(tries[r.push] + 1, LongestBackoff) \in 0 .. RingTicks + LongestBackoff
    BY <1>3, PushConstants
  <2> QED
    BY <1>1, <2>1, RescheduleKeepsJobs DEF Refusal, PutOff
<1>5. tries' \in [Pushes -> 0 .. LongestBackoff]
  BY <1>3 DEF Refusal, PutOff, PushIsTyped
<1>6. routeAt' \in [Pushes -> 0 .. Registrations] /\ token' = token /\ clock' = clock
  <2>1. CASE UNCHANGED routes
    BY <2>1 DEF routes, PushIsTyped
  <2>2. CASE Invalidate(r.push, r.token, r.dead)
    <3>1. \E v \in {0, routeAt[r.push]} : routeAt' = [routeAt EXCEPT ![r.push] = v]
      BY <2>2 DEF Invalidate
    <3>2. routeAt[r.push] \in 0 .. Registrations /\ 0 \in 0 .. Registrations
      BY <1>1, PushConstants DEF PushIsTyped
    <3> QED
      BY <2>2, <3>1, <3>2 DEF Invalidate, PushIsTyped
  <2> QED
    BY <2>1, <2>2 DEF Refusal
<1>7. PushIsTyped'
  BY <1>2, <1>4, <1>5, <1>6 DEF Refusal, PutOff, PushIsTyped, envelopes, loop
<1>8. JobsAreHeld' /\ PushIsOwed' /\ AlertsFollowRings'
  BY <1>2, <1>4 DEF Refusal, PutOff, JobsAreHeld, PushIsOwed, AlertsFollowRings, envelopes
<1> QED
  BY <1>7, <1>8

LEMMA UnregisteredKeepsInv ==
  ASSUME PushInv, NEW r \in asked, Unregistered(r)
  PROVE  PushInv'
<1> USE DEF PushInv
<1> DEFINE overdue == [r EXCEPT !.dead = clock]
<1>1. overdue \in Requests /\ overdue.push = r.push /\ overdue.ringing = r.ringing
  BY DEF PushIsTyped, Requests
<1>2. asked' = (asked \ {r}) \cup {overdue}
  BY DEF Unregistered
<1> HIDE DEF overdue
<1>3. asked' \subseteq Requests /\ IsFiniteSet(asked') /\ Cardinality(asked') <= Batch
  <2> DEFINE others == asked \ {r}
  <2>1. others \subseteq Requests /\ IsFiniteSet(others) /\ Cardinality(others) \in 0 .. Batch - 1
    BY OneAnswered
  <2>2. asked' = others \cup {overdue}
    BY <1>2
  <2> HIDE DEF others
  <2>3. /\ IsFiniteSet(others \cup {overdue})
        /\ Cardinality(others \cup {overdue}) =
               IF overdue \in others THEN Cardinality(others) ELSE Cardinality(others) + 1
    BY <2>1, FS_AddElement
  <2> QED
    BY <1>1, <2>1, <2>2, <2>3, PushConstants
<1>4. PushIsTyped'
  BY <1>3 DEF Unregistered, PushIsTyped, envelopes, routes, loop
<1>5. JobsAreHeld' /\ PushIsOwed'
  BY DEF Unregistered, JobsAreHeld, PushIsOwed, envelopes, Jobs
<1>6. AlertsFollowRings'
  BY <1>1, <1>2 DEF Unregistered, AlertsFollowRings, envelopes
<1> QED
  BY <1>4, <1>5, <1>6

LEMMA RestKeepsPushInv ==
  ASSUME PushInv,
         \/ EndCycle \/ PushTick \/ ServiceDies
         \/ \E e \in Pushes, tok \in Tokens : RegisterRoute(e, tok)
         \/ UNCHANGED pushVars
  PROVE  PushInv'
<1> USE PushConstants DEF PushInv
<1>1. CASE EndCycle
  BY <1>1 DEF EndCycle, PushIsTyped, JobsAreHeld, PushIsOwed, AlertsFollowRings, envelopes, routes, Jobs
<1>2. CASE PushTick
  <2>1. wait' \in [Pushes -> 0 .. RingTicks + LongestBackoff]
    BY <1>2, SMTT(30) DEF PushTick, PushIsTyped
  <2>2. /\ ringLeft' \in [Pushes -> 0 .. RingTicks]
        /\ \A e \in Pushes : ringLeft[e] = 0 => ringLeft'[e] = 0
    BY <1>2, SMTT(30) DEF PushTick, PushIsTyped
  <2>3. PushIsTyped'
    BY <1>2, <2>1, <2>2 DEF PushTick, PushIsTyped, routes
  <2>4. JobsAreHeld' /\ PushIsOwed'
    BY <1>2 DEF PushTick, JobsAreHeld, PushIsOwed, Jobs
  <2>5. AlertsFollowRings'
    BY <1>2, <2>2 DEF PushTick, AlertsFollowRings, PushIsTyped, Requests
  <2> QED
    BY <2>3, <2>4, <2>5
<1>3. CASE ServiceDies
  <2>1. IsFiniteSet({}) /\ Cardinality({}) = 0
    BY FS_EmptySet
  <2>2. <<>> \in Seq(Pushes) /\ Len(<<>>) = 0
    OBVIOUS
  <2>3. PushIsTyped'
    <3>1. /\ asked' \subseteq Requests /\ IsFiniteSet(asked') /\ Cardinality(asked') <= Batch
          /\ page' \in Seq(Pushes) /\ Len(page') <= Page
      BY <1>3, <2>1, <2>2 DEF ServiceDies
    <3>2. deaths' \in 0 .. MaxDeaths
      BY <1>3 DEF ServiceDies, PushIsTyped
    <3> QED
      BY <1>3, <3>1, <3>2 DEF ServiceDies, PushIsTyped, envelopes, routes
  <2> QED
    BY <1>3, <2>3 DEF ServiceDies, JobsAreHeld, PushIsOwed, AlertsFollowRings, envelopes, Jobs
<1>4. ASSUME NEW e \in Pushes, NEW tok \in Tokens, RegisterRoute(e, tok)
      PROVE  PushInv'
  BY <1>4 DEF RegisterRoute, PushIsTyped, JobsAreHeld, PushIsOwed, AlertsFollowRings, envelopes, loop, Jobs
<1>5. CASE UNCHANGED pushVars
  BY <1>5 DEF pushVars, PushIsTyped, JobsAreHeld, PushIsOwed, AlertsFollowRings, Jobs
<1> QED
  BY <1>1, <1>2, <1>3, <1>4, <1>5

LEMMA PushInvHolds == PushSpec => []PushInv
<1>1. PushInv /\ [PushNext]_pushVars => PushInv'
  BY SubmitPushKeepsInv, ConsumedKeepsInv, StartCycleKeepsInv, AskKeepsInv, AcceptedKeepsInv,
     RefusalKeepsInv, UnregisteredKeepsInv, RestKeepsPushInv DEF PushNext
<1> QED
  BY <1>1, PushInitInv, PTL DEF PushSpec
------------------------------------------------------------------------------
(* The pushes: the theorems                                                  *)

\* The tables, the page and the requests have their types and their limits: one
\* job for an envelope, no more requests side by side than a batch.
THEOREM PushTypesHold == PushSpec => []PushTypeOK
<1>1. PushInv => PushTypeOK
  <2> SUFFICES ASSUME PushInv
               PROVE  PushTypeOK
    OBVIOUS
  <2> USE DEF PushInv
  <2>1. Jobs \subseteq Pushes /\ ToSet(page) \subseteq Pushes
    BY Elements DEF PushIsTyped, Jobs
  <2>2. Len(line) = Cardinality(Jobs)
    <3> DEFINE f == [i \in 1 .. Len(line) |-> line[i]]
    <3>1. Jobs = {line[i] : i \in 1 .. Len(line)} /\ Len(line) \in Nat
      BY Elements, LenProperties DEF PushIsTyped, Jobs
    <3>2. f \in Injection(1 .. Len(line), Jobs)
      BY <3>1 DEF JobsAreHeld, Distinct, Injection, IsInjective
    <3>3. f \in Surjection(1 .. Len(line), Jobs)
      BY <3>1 DEF Surjection
    <3>4. ExistsBijection(1 .. Len(line), Jobs)
      BY <3>2, <3>3 DEF ExistsBijection, Bijection
    <3> QED
      BY <3>1, <3>4, FS_CountingElements
  <2> QED
    BY <2>1, <2>2 DEF PushIsTyped, PushTypeOK
<1> QED
  BY <1>1, PushInvHolds, PTL

\* An envelope that waits for its recipient has a push that is owed or an alert
\* that was accepted, whatever fails, whoever answers late and whenever the
\* service dies (delivery_notifications, DeliveryNotificationWorker).
THEOREM NoPushIsLost == PushSpec => []PushIsOwed
<1>1. PushInv => PushIsOwed
  BY DEF PushInv
<1> QED
  BY <1>1, PushInvHolds, PTL

LEMMA OnlyCurrentIsAsked ==
  ASSUME PushInv, [PushNext]_pushVars, NEW r \in asked', r.push \notin {q.push : q \in asked}
  PROVE  /\ spool[r.push] = "held"
         /\ r.ringing => ringLeft[r.push] > 0 /\ r.push \notin alerted
<1> USE DEF PushInv
<1>1. CASE Ask
  <2>1. PICK e \in {page[i] : i \in 1 .. Smaller(Batch, Len(page))} :
          /\ spool[e] = "held"
          /\ r = [push |-> e, ringing |-> ringLeft[e] > 0, at |-> routeAt[e], token |-> token[e],
                  dead |-> 0]
    BY <1>1 DEF Ask
  <2>2. r.push = e /\ r.ringing = (ringLeft[e] > 0)
    BY <2>1, Zenon
  <2>3. ringLeft[e] > 0 => e \notin alerted
    BY DEF AlertsFollowRings, PushIsTyped
  <2> QED
    BY <2>1, <2>2, <2>3
<1>2. CASE asked' \subseteq asked
  BY <1>2
<1>3. ASSUME NEW q \in asked, Unregistered(q)
      PROVE  FALSE
  <2>1. r = [q EXCEPT !.dead = clock] \/ r \in asked
    BY <1>3 DEF Unregistered
  <2>2. q \in Requests
    BY DEF PushIsTyped
  <2> QED
    BY <2>1, <2>2 DEF Requests
<1> QED
  BY <1>1, <1>2, <1>3
  DEF PushNext, pushVars, SubmitPush, Consumed, StartCycle, EndCycle, Accepted, Rang, Alerted, Refusal,
      PutOff, RegisterRoute, PushTick, ServiceDies

LEMMA OnlyOlderRouteGoes ==
  ASSUME PushInv, [PushNext]_pushVars, NEW e \in Pushes, routeAt[e] > 0, routeAt'[e] = 0
  PROVE  \E r \in asked \ asked' : r.push = e /\ r.token = token[e] /\ routeAt[e] <= r.dead
<1> USE DEF PushInv
<1>1. ASSUME NEW r \in asked, Refusal(r)
      PROVE  r \in asked \ asked' /\ r.push = e /\ r.token = token[e] /\ routeAt[e] <= r.dead
  <2>1. r \in asked \ asked'
    BY <1>1 DEF Refusal, PutOff
  <2>2. Invalidate(r.push, r.token, r.dead)
    BY <1>1 DEF Refusal, routes, PushIsTyped
  <2> QED
    BY <2>1, <2>2 DEF Invalidate, PushIsTyped
<1>2. ASSUME NEW f \in Pushes, NEW tok \in Tokens, RegisterRoute(f, tok)
      PROVE  FALSE
  BY <1>2 DEF RegisterRoute, PushIsTyped
<1>3. CASE routeAt' = routeAt
  BY <1>3 DEF PushIsTyped
<1> QED
  BY <1>1, <1>2, <1>3
  DEF PushNext, pushVars, SubmitPush, Consumed, StartCycle, EndCycle, Accepted, Rang, Alerted, Ask,
      Unregistered, PushTick, ServiceDies, routes

\* The provider is asked for nothing that its recipient took, rings neither after
\* the window nor after the missed call, and an invalidation removes no younger
\* registration (DeliveryNotificationWorker.cycle, WakeRegistry.invalidate).
THEOREM OnlyCurrentPushes == PushSpec => PushesAreCurrent
<1>1. PushInv /\ [PushNext]_pushVars =>
        [/\ \A r \in asked' : r.push \notin {q.push : q \in asked} =>
               /\ spool[r.push] = "held"
               /\ r.ringing => ringLeft[r.push] > 0 /\ r.push \notin alerted
         /\ \A e \in Pushes : routeAt[e] > 0 /\ routeAt'[e] = 0 =>
               \E r \in asked \ asked' : r.push = e /\ r.token = token[e] /\ routeAt[e] <= r.dead]_pushVars
  BY OnlyCurrentIsAsked, OnlyOlderRouteGoes
<1> QED
  BY <1>1, PushInvHolds, PTL DEF PushSpec, PushesAreCurrent
------------------------------------------------------------------------------
(* Attachments: the invariant                                                *)

\* What is complete is whole.
WholeWhenComplete == \A b \in Blobs : store[b].state = "complete" => store[b].parts = Parts

\* What the recipient gave back, or asked the service to give back, it has filed.
GivenBackIsFiled ==
    /\ \A b \in Blobs : store[b].state = "acked" \/ inbox[b] \in {"consumed", "acked"} => b \in filed
    /\ \A c \in late : c.op = "ack" => c.blob \in filed
    /\ intake.step \in {"consume", "settle"} => intake.blob \in filed
    /\ intake.step = "get" => intake.blob \in announced

\* What counts as uploaded, is about to, or was announced, is or was complete.
UploadedIsThere ==
    ~mediaExpired => \A b \in Blobs :
        cipher[b] = "uploaded" \/ b \in announced \/ (\E h \in Hosts : UploadAt(h, b, "mark"))
            => store[b].state \in {"complete", "acked"}

LateIsTyped ==
    /\ late \subseteq [op: {"begin", "put", "finish", "get", "ack"}, blob: Blobs, part: Parts \cup {0}]
    /\ \A c \in late : c.op = "put" => c.part \in Parts

MediaInv ==
    MediaTypeOK /\ LateIsTyped /\ WholeWhenComplete /\ GivenBackIsFiled /\ UploadedIsThere

------------------------------------------------------------------------------
(* Attachments: the steps                                                    *)

MediaCommands ==
    {c \in [op: {"begin", "put", "finish", "get", "ack"}, blob: Blobs, part: Parts \cup {0}] :
        c.op = "put" => c.part \in Parts}

StoreRows == [state: {"none", "open", "complete", "acked"}, parts: SUBSET Parts]

\* What the service makes of a row: it completes what is whole, and gives up a
\* complete row for an ack only.
LEMMA CommandLeavesRow ==
    ASSUME MediaInv, NEW c \in MediaCommands, StoreAccepts(c)
    PROVE  /\ Executed(c) \in StoreRows
           /\ Executed(c).state = "complete" => Executed(c).parts = Parts
           /\ Executed(c).state = "acked" => store[c.blob].state = "acked" \/ c.op = "ack"
           /\ store[c.blob].state \in {"complete", "acked"} =>
                  Executed(c).state \in {"complete", "acked"}
           /\ c.op = "finish" => Executed(c).state \in {"complete", "acked"}
<1>1. store[c.blob] \in StoreRows /\ (store[c.blob].state = "complete" => store[c.blob].parts = Parts)
  BY DEF MediaInv, MediaTypeOK, WholeWhenComplete, MediaCommands, StoreRows
<1>2. c.op \in {"begin", "put", "finish", "get", "ack"}
  BY DEF MediaCommands
<1>3. CASE c.op = "begin"
  BY <1>1, <1>3 DEF Executed, StoreRows, Absent
<1>4. CASE c.op = "put"
  <2>1. c.part \in Parts
    BY <1>4 DEF MediaCommands
  <2> QED BY <1>1, <1>4, <2>1 DEF Executed, StoreRows
<1>5. CASE c.op = "finish"
  BY <1>1, <1>5 DEF Executed, StoreRows, StoreAccepts, Usable
<1>6. CASE c.op = "ack"
  BY <1>1, <1>6 DEF Executed, StoreRows, Absent
<1>7. CASE c.op = "get"
  BY <1>1, <1>7 DEF Executed, StoreRows
<1> QED BY <1>2, <1>3, <1>4, <1>5, <1>6, <1>7

\* The same of the whole store.
LEMMA CommandKeepsStore ==
    ASSUME MediaInv, NEW c \in MediaCommands, StoreAccepts(c),
           store' = [store EXCEPT ![c.blob] = Executed(c)]
    PROVE  /\ store' \in [Blobs -> StoreRows]
           /\ WholeWhenComplete'
           /\ \A b \in Blobs : store'[b].state = "acked" =>
                  store[b].state = "acked" \/ (b = c.blob /\ c.op = "ack")
           /\ \A b \in Blobs : store[b].state \in {"complete", "acked"} =>
                  store'[b].state \in {"complete", "acked"}
           /\ c.op = "finish" => store'[c.blob].state \in {"complete", "acked"}
<1>1. store \in [Blobs -> StoreRows] /\ c.blob \in Blobs /\ WholeWhenComplete
  BY DEF MediaInv, MediaTypeOK, MediaCommands, StoreRows
<1>2. \A b \in Blobs : store'[b] = IF b = c.blob THEN Executed(c) ELSE store[b]
  BY <1>1
<1> QED BY <1>1, <1>2, CommandLeavesRow DEF WholeWhenComplete

LEMMA CommandIsTyped ==
    ASSUME NEW b \in Blobs, NEW op \in {"begin", "finish", "ack"}
    PROVE  Command(op, b, 0) \in MediaCommands
  BY DEF Command, MediaCommands

LEMMA ChunkCommandIsTyped ==
    ASSUME NEW b \in Blobs, NEW op \in {"put", "get"}, NEW i \in Parts
    PROVE  Command(op, b, i) \in MediaCommands
  BY DEF Command, MediaCommands

\* The next chunk is one of those to do.
LEMMA FirstIsOne ==
    ASSUME NEW some \in SUBSET Parts, some # {}
    PROVE  (CHOOSE i \in some : \A j \in some : i <= j) \in some
<1>1. some \subseteq Nat
  BY MediaAssumption
<1>2. PICK i \in some : \A j \in some : ~(<<j, i>> \in OpToRel(<, Nat))
  BY <1>1, NatLessThanWellFounded, WFMin, Zenon
<1>3. \A j \in some : ~(j < i)
  BY <1>1, <1>2, Zenon DEF OpToRel
<1>4. \A j \in some : i <= j
  BY <1>1, <1>3
<1> QED BY <1>4

\* Shorthands of the step proofs.
LEMMA MediaInvParts ==
    ASSUME MediaInv
    PROVE  /\ store \in [Blobs -> StoreRows] /\ WholeWhenComplete
           /\ \A h \in Hosts, b \in Blobs : /\ uploads[h][b].todo \in SUBSET Parts
                                            /\ uploads[h][b].more \in BOOLEAN
                                            /\ uploads[h][b].step \in {"none", "put", "mark"}
           /\ intake # NoIntake => /\ intake.blob \in Blobs /\ intake.todo \in SUBSET Parts
                                   /\ intake.step \in {"get", "consume", "settle"}
           /\ filed \subseteq Blobs /\ announced \subseteq Blobs
  BY DEF MediaInv, MediaTypeOK, StoreRows

LEMMA BeginKeeps ==
    ASSUME MediaInv, NEW h \in Hosts, NEW b \in Blobs, UploadBegin(h, b)
    PROVE  MediaInv'
<1> DEFINE c == Command("begin", b, 0)
<1>1. c \in MediaCommands /\ c.blob = b /\ c.op = "begin"
  BY CommandIsTyped DEF Command
<1>2. StoreAccepts(c) /\ store' = [store EXCEPT ![c.blob] = Executed(c)]
  BY DEF UploadBegin, Answered
<1> HIDE DEF c
<1>3. /\ store' \in [Blobs -> StoreRows]
      /\ WholeWhenComplete'
      /\ \A x \in Blobs : store'[x].state = "acked" => store[x].state = "acked"
      /\ \A x \in Blobs : store[x].state \in {"complete", "acked"} => store'[x].state \in {"complete", "acked"}
  BY <1>1, <1>2, CommandKeepsStore
<1>4. UNCHANGED <<cipher, announced, recipient, bounds>>
  BY DEF UploadBegin
<1>5. PICK next \in [step: {"put", "mark"}, todo: SUBSET Parts, more: BOOLEAN] :
          /\ uploads' = [uploads EXCEPT ![h][b] = next]
          /\ next.step = "mark" => store[b].state \in {"complete", "acked"}
  <2> DEFINE missing == Parts \ store[b].parts
             rest == [step |-> "put", todo |-> FirstTwo(missing), more |-> Cardinality(missing) > 2]
             w == IF store[b].state \in {"complete", "acked"} THEN [rest EXCEPT !.step = "mark"] ELSE rest
  <2>1. uploads' = [uploads EXCEPT ![h][b] = w]
    BY DEF UploadBegin, Move
  <2>2. FirstTwo(missing) \in SUBSET Parts /\ (Cardinality(missing) > 2) \in BOOLEAN
    BY DEF FirstTwo
  <2>3. w \in [step: {"put", "mark"}, todo: SUBSET Parts, more: BOOLEAN]
        /\ (w.step = "mark" => store[b].state \in {"complete", "acked"})
    BY <2>2
  <2> HIDE DEF w
  <2> QED BY <2>1, <2>3
<1>6. MediaTypeOK'
  BY <1>3, <1>4, <1>5 DEF MediaInv, MediaTypeOK, StoreRows, recipient, bounds
<1>7. LateIsTyped' /\ GivenBackIsFiled'
  BY <1>3, <1>4 DEF MediaInv, LateIsTyped, GivenBackIsFiled, recipient, bounds
<1>8. UploadedIsThere'
  BY <1>3, <1>4, <1>5 DEF MediaInv, MediaTypeOK, UploadedIsThere, UploadAt, bounds
<1> QED BY <1>3, <1>6, <1>7, <1>8 DEF MediaInv

LEMMA PutKeeps ==
    ASSUME MediaInv, NEW h \in Hosts, NEW b \in Blobs, UploadPut(h, b)
    PROVE  MediaInv'
<1>1. PICK i \in Parts : /\ Answered(Command("put", b, i))
                         /\ uploads' = [uploads EXCEPT ![h][b] = [uploads[h][b] EXCEPT !.todo = @ \ {i}]]
  <2> DEFINE i == CHOOSE i \in uploads[h][b].todo : \A j \in uploads[h][b].todo : i <= j
  <2>1. uploads[h][b].todo \in SUBSET Parts /\ uploads[h][b].todo # {}
    BY MediaInvParts DEF UploadPut
  <2>2. i \in Parts
    BY <2>1, FirstIsOne
  <2>3. /\ Answered(Command("put", b, i))
        /\ uploads' = [uploads EXCEPT ![h][b] = [uploads[h][b] EXCEPT !.todo = @ \ {i}]]
    BY DEF UploadPut, Move
  <2> HIDE DEF i
  <2> QED BY <2>2, <2>3
<1> DEFINE c == Command("put", b, i)
<1>2. c \in MediaCommands /\ c.blob = b /\ c.op = "put"
  BY ChunkCommandIsTyped DEF Command
<1>3. StoreAccepts(c) /\ store' = [store EXCEPT ![c.blob] = Executed(c)]
  BY <1>1 DEF Answered
<1> HIDE DEF c
<1>4. /\ store' \in [Blobs -> StoreRows]
      /\ WholeWhenComplete'
      /\ \A x \in Blobs : store'[x].state = "acked" => store[x].state = "acked"
      /\ \A x \in Blobs : store[x].state \in {"complete", "acked"} => store'[x].state \in {"complete", "acked"}
  BY <1>2, <1>3, CommandKeepsStore
<1>5. UNCHANGED <<cipher, announced, recipient, bounds>>
  BY DEF UploadPut
<1>6. MediaTypeOK'
  <2> DEFINE w == [uploads[h][b] EXCEPT !.todo = @ \ {i}]
  <2>0. uploads[h][b] \in [step: {"none", "put", "mark"}, todo: SUBSET Parts, more: BOOLEAN]
    BY DEF MediaInv, MediaTypeOK
  <2>1. w \in [step: {"none", "put", "mark"}, todo: SUBSET Parts, more: BOOLEAN]
    BY <2>0
  <2>2. uploads' = [uploads EXCEPT ![h][b] = w]
    BY <1>1
  <2> HIDE DEF w
  <2> QED BY <2>1, <2>2, <1>4, <1>5 DEF MediaInv, MediaTypeOK, StoreRows, recipient, bounds
<1>7. LateIsTyped' /\ GivenBackIsFiled'
  BY <1>4, <1>5 DEF MediaInv, LateIsTyped, GivenBackIsFiled, recipient, bounds
<1>8. \A x \in Blobs, g \in Hosts : uploads'[g][x].step = uploads[g][x].step
  BY <1>1 DEF MediaInv, MediaTypeOK
<1>9. UploadedIsThere'
  BY <1>4, <1>5, <1>8 DEF MediaInv, UploadedIsThere, UploadAt, bounds
<1> QED BY <1>4, <1>6, <1>7, <1>9 DEF MediaInv

LEMMA FinishKeeps ==
    ASSUME MediaInv, NEW h \in Hosts, NEW b \in Blobs, UploadFinish(h, b)
    PROVE  MediaInv'
<1> DEFINE c == Command("finish", b, 0)
<1>1. c \in MediaCommands /\ c.blob = b /\ c.op = "finish"
  BY CommandIsTyped DEF Command
<1>2. /\ StoreAccepts(c) /\ store' = [store EXCEPT ![c.blob] = Executed(c)]
      /\ uploads' = [uploads EXCEPT ![h][b] = [uploads[h][b] EXCEPT !.step = "mark"]]
  BY DEF UploadFinish, Answered, Move
<1> HIDE DEF c
<1>3. /\ store' \in [Blobs -> StoreRows]
      /\ WholeWhenComplete'
      /\ \A x \in Blobs : store'[x].state = "acked" => store[x].state = "acked"
      /\ \A x \in Blobs : store[x].state \in {"complete", "acked"} => store'[x].state \in {"complete", "acked"}
      /\ store'[b].state \in {"complete", "acked"}
  BY <1>1, <1>2, CommandKeepsStore
<1>4. UNCHANGED <<cipher, announced, recipient, bounds>>
  BY DEF UploadFinish
<1>5. MediaTypeOK'
  <2> DEFINE w == [uploads[h][b] EXCEPT !.step = "mark"]
  <2>0. uploads[h][b] \in [step: {"none", "put", "mark"}, todo: SUBSET Parts, more: BOOLEAN]
    BY DEF MediaInv, MediaTypeOK
  <2>1. w \in [step: {"none", "put", "mark"}, todo: SUBSET Parts, more: BOOLEAN]
    BY <2>0
  <2>2. uploads' = [uploads EXCEPT ![h][b] = w]
    BY <1>2
  <2> HIDE DEF w
  <2> QED BY <2>1, <2>2, <1>3, <1>4 DEF MediaInv, MediaTypeOK, StoreRows, recipient, bounds
<1>6. LateIsTyped' /\ GivenBackIsFiled'
  BY <1>3, <1>4 DEF MediaInv, LateIsTyped, GivenBackIsFiled, recipient, bounds
<1>7. \A x \in Blobs, g \in Hosts : x # b => uploads'[g][x] = uploads[g][x]
  BY <1>2 DEF MediaInv, MediaTypeOK
<1>8. UploadedIsThere'
  BY <1>3, <1>4, <1>7 DEF MediaInv, UploadedIsThere, UploadAt, bounds
<1> QED BY <1>3, <1>5, <1>6, <1>8 DEF MediaInv

\* A step that rests marks nothing.
LEMMA RestKeeps ==
    ASSUME MediaInv, NEW h \in Hosts, NEW b \in Blobs, Rest(h, b)
    PROVE  /\ uploads' \in [Hosts -> [Blobs -> [step: {"none", "put", "mark"}, todo: SUBSET Parts, more: BOOLEAN]]]
           /\ \A g \in Hosts, x \in Blobs : uploads'[g][x].step = "mark" => uploads[g][x].step = "mark"
<1>1. Resting \in [step: {"none", "put", "mark"}, todo: SUBSET Parts, more: BOOLEAN]
      /\ Resting.step # "mark"
  BY DEF Resting
<1>2. uploads' = [uploads EXCEPT ![h][b] = Resting]
  BY DEF Rest, Move
<1> HIDE DEF Resting
<1> QED BY <1>1, <1>2 DEF MediaInv, MediaTypeOK

\* A failure leaves at most its command behind.
LEMMA FailKeeps ==
    ASSUME MediaInv, NEW c \in MediaCommands, Fails(c), c.op = "ack" => c.blob \in filed
    PROVE  /\ LateIsTyped'
           /\ \A d \in late' : d.op = "ack" => d.blob \in filed
           /\ mediaFaults' \in 0 .. MaxMediaFaults
           /\ UNCHANGED <<store, mediaExpired>>
<1>1. late' \subseteq late \cup {c} /\ UNCHANGED <<store, mediaExpired>>
  BY DEF Fails
<1>2. mediaFaults' \in 0 .. MaxMediaFaults
  BY MediaAssumption DEF Fails, Fault, MediaInv, MediaTypeOK
<1> QED BY <1>1, <1>2 DEF MediaInv, LateIsTyped, GivenBackIsFiled, MediaCommands

LEMMA UploadFailsKeeps ==
    ASSUME MediaInv, NEW h \in Hosts, NEW b \in Blobs, UploadFails(h, b)
    PROVE  MediaInv'
<1>1. PICK c \in MediaCommands : Fails(c) /\ c.op # "ack"
  <2>1. CASE Fails(Command("begin", b, 0))
    BY <2>1, CommandIsTyped DEF Command
  <2>2. CASE Fails(Command("finish", b, 0))
    BY <2>2, CommandIsTyped DEF Command
  <2>3. CASE \E i \in uploads[h][b].todo : Fails(Command("put", b, i))
    <3>1. PICK i \in uploads[h][b].todo : Fails(Command("put", b, i))
      BY <2>3
    <3>2. i \in Parts
      BY MediaInvParts
    <3> QED BY <3>1, <3>2, ChunkCommandIsTyped DEF Command
  <2> QED BY <2>1, <2>2, <2>3 DEF UploadFails
<1>2. /\ LateIsTyped'
      /\ \A d \in late' : d.op = "ack" => d.blob \in filed
      /\ mediaFaults' \in 0 .. MaxMediaFaults
      /\ UNCHANGED <<store, mediaExpired>>
  BY <1>1, FailKeeps
<1>3. UNCHANGED <<cipher, announced, recipient>>
  BY DEF UploadFails
<1>4. Rest(h, b)
  BY DEF UploadFails
<1>5. MediaTypeOK'
  BY <1>2, <1>3, <1>4, RestKeeps DEF MediaInv, MediaTypeOK, recipient
<1>6. WholeWhenComplete' /\ GivenBackIsFiled'
  BY <1>2, <1>3 DEF MediaInv, WholeWhenComplete, GivenBackIsFiled, recipient
<1>7. UploadedIsThere'
  BY <1>2, <1>3, <1>4, RestKeeps DEF MediaInv, UploadedIsThere, UploadAt
<1> QED BY <1>2, <1>5, <1>6, <1>7 DEF MediaInv

LEMMA SenderKeeps ==
    ASSUME MediaInv, NEW b \in Blobs,
           \/ Prepare(b) \/ Announce(b) \/ DropRow(b)
           \/ \E h \in Hosts : UploadPause(h, b) \/ Uploaded(h, b)
    PROVE  MediaInv'
<1>1. UNCHANGED <<store, recipient, bounds>>
  BY DEF Prepare, Announce, DropRow, UploadPause, Uploaded
<1>2. LateIsTyped' /\ WholeWhenComplete'
  BY <1>1 DEF MediaInv, LateIsTyped, WholeWhenComplete, bounds
<1>3. CASE Prepare(b)
  <2>1. MediaTypeOK' /\ GivenBackIsFiled'
    BY <1>1, <1>3 DEF Prepare, MediaInv, MediaTypeOK, GivenBackIsFiled, recipient, bounds
  <2>2. UploadedIsThere'
    BY <1>1, <1>3 DEF Prepare, MediaInv, MediaTypeOK, UploadedIsThere, UploadAt, recipient, bounds
  <2> QED BY <1>2, <2>1, <2>2 DEF MediaInv
<1>4. CASE Announce(b)
  <2>1. MediaTypeOK' /\ GivenBackIsFiled'
    BY <1>1, <1>4 DEF Announce, MediaInv, MediaTypeOK, GivenBackIsFiled, recipient, bounds
  <2>2. UploadedIsThere'
    BY <1>1, <1>4 DEF Announce, MediaInv, UploadedIsThere, UploadAt, recipient, bounds
  <2> QED BY <1>2, <2>1, <2>2 DEF MediaInv
<1>5. CASE DropRow(b)
  <2>1. MediaTypeOK' /\ GivenBackIsFiled'
    BY <1>1, <1>5 DEF DropRow, MediaInv, MediaTypeOK, GivenBackIsFiled, recipient, bounds
  <2>2. UploadedIsThere'
    BY <1>1, <1>5 DEF DropRow, MediaInv, MediaTypeOK, UploadedIsThere, UploadAt, recipient, bounds
  <2> QED BY <1>2, <2>1, <2>2 DEF MediaInv
<1>6. ASSUME NEW h \in Hosts, UploadPause(h, b)
      PROVE  MediaInv'
  <2>1. Rest(h, b) /\ UNCHANGED <<cipher, announced>>
    BY <1>6 DEF UploadPause
  <2>2. MediaTypeOK'
    BY <1>1, <2>1, RestKeeps DEF MediaInv, MediaTypeOK, recipient, bounds
  <2>3. GivenBackIsFiled'
    BY <1>1, <2>1 DEF MediaInv, GivenBackIsFiled, recipient, bounds
  <2>4. UploadedIsThere'
    BY <1>1, <2>1, RestKeeps DEF MediaInv, UploadedIsThere, UploadAt, recipient, bounds
  <2> QED BY <1>2, <2>2, <2>3, <2>4 DEF MediaInv
<1>7. ASSUME NEW h \in Hosts, Uploaded(h, b)
      PROVE  MediaInv'
  <2>1. /\ Rest(h, b) /\ UNCHANGED announced /\ uploads[h][b].step = "mark"
        /\ cipher' = [cipher EXCEPT ![b] = IF @ = "held" THEN "uploaded" ELSE @]
    BY <1>7 DEF Uploaded, UploadAt
  <2>2. MediaTypeOK'
    BY <1>1, <2>1, RestKeeps DEF MediaInv, MediaTypeOK, recipient, bounds
  <2>3. GivenBackIsFiled'
    BY <1>1, <2>1 DEF MediaInv, GivenBackIsFiled, recipient, bounds
  <2>4. \A x \in Blobs : cipher'[x] = "uploaded" => cipher[x] = "uploaded" \/ x = b
    BY <2>1 DEF MediaInv, MediaTypeOK
  <2>5. UploadedIsThere'
    BY <1>1, <2>1, <2>4, RestKeeps DEF MediaInv, UploadedIsThere, UploadAt, recipient, bounds
  <2> QED BY <1>2, <2>2, <2>3, <2>5 DEF MediaInv
<1> QED BY <1>3, <1>4, <1>5, <1>6, <1>7

\* What the recipient does leaves the sender's half of the invariant.
LEMMA RecipientFrame ==
    ASSUME MediaInv, UNCHANGED <<store, sender, late, mediaExpired>>, MediaTypeOK', GivenBackIsFiled'
    PROVE  MediaInv'
  BY DEF MediaInv, LateIsTyped, WholeWhenComplete, UploadedIsThere, UploadAt, sender

LEMMA DownloadGetKeeps ==
    ASSUME MediaInv, DownloadGet
    PROVE  MediaInv'
<1>1. intake # NoIntake /\ intake.blob \in Blobs /\ intake.todo \in SUBSET Parts /\ intake.step = "get"
  BY MediaInvParts DEF DownloadGet, Here, NoIntake
<1>2. PICK i \in Parts : /\ Answered(Command("get", intake.blob, i))
                         /\ chunks' = [chunks EXCEPT ![intake.blob] = @ \cup {i}]
                         /\ intake' = [intake EXCEPT !.todo = @ \ {i}]
  <2> DEFINE i == CHOOSE i \in intake.todo : \A j \in intake.todo : i <= j
  <2>1. i \in Parts
    BY <1>1, FirstIsOne DEF DownloadGet
  <2>2. /\ Answered(Command("get", intake.blob, i))
        /\ chunks' = [chunks EXCEPT ![intake.blob] = @ \cup {i}]
        /\ intake' = [intake EXCEPT !.todo = @ \ {i}]
    BY DEF DownloadGet
  <2> HIDE DEF i
  <2> QED BY <2>1, <2>2
<1>3. store' = store
  <2>1. /\ store' = [store EXCEPT ![intake.blob] = store[intake.blob]]
    BY <1>2 DEF Answered, Executed, Command
  <2> QED BY <1>1, <2>1 DEF MediaInv, MediaTypeOK
<1>4. UNCHANGED <<sender, inbox, filed, settled, bounds>>
  BY DEF DownloadGet
<1>5. intake' \in [blob: Blobs, step: {"get", "consume", "settle"}, todo: SUBSET Parts, more: BOOLEAN]
      /\ intake'.blob = intake.blob /\ intake'.step = intake.step
  <2>1. intake \in [blob: Blobs, step: {"get", "consume", "settle"}, todo: SUBSET Parts, more: BOOLEAN]
    BY <1>1 DEF MediaInv, MediaTypeOK
  <2> QED BY <2>1, <1>2
<1>6. MediaTypeOK'
  BY <1>1, <1>2, <1>3, <1>4, <1>5 DEF MediaInv, MediaTypeOK, sender, bounds
<1>7. GivenBackIsFiled'
  BY <1>3, <1>4, <1>5 DEF MediaInv, GivenBackIsFiled, sender, bounds
<1> QED BY <1>3, <1>4, <1>6, <1>7, RecipientFrame DEF bounds

LEMMA BeginDownloadKeeps ==
    ASSUME MediaInv, NEW b \in Blobs, BeginDownload(b)
    PROVE  MediaInv'
<1>1. PICK todo \in SUBSET Parts, more \in BOOLEAN :
          intake' = [blob |-> b, step |-> IF b \in filed THEN "consume" ELSE "get",
                     todo |-> todo, more |-> more]
  <2> DEFINE missing == Parts \ chunks[b]
             todo == FirstTwo(missing)
             more == Cardinality(missing) > 2
  <2>1. todo \in SUBSET Parts /\ more \in BOOLEAN
    BY DEF FirstTwo
  <2>2. intake' = [blob |-> b, step |-> IF b \in filed THEN "consume" ELSE "get",
                   todo |-> todo, more |-> more]
    BY DEF BeginDownload
  <2> HIDE DEF todo, more
  <2> QED BY <2>1, <2>2
<1>2. /\ UNCHANGED <<store, sender, chunks, filed, settled, bounds>>
      /\ inbox' = [inbox EXCEPT ![b] = IF @ = "none" THEN "partial" ELSE @]
      /\ b \in announced
  BY DEF BeginDownload
<1>3. MediaTypeOK'
  BY <1>1, <1>2 DEF MediaInv, MediaTypeOK, sender, bounds
<1>4. \A x \in Blobs : inbox'[x] \in {"consumed", "acked"} => inbox[x] \in {"consumed", "acked"}
  BY <1>2 DEF MediaInv, MediaTypeOK
<1>5. GivenBackIsFiled'
  BY <1>1, <1>2, <1>4 DEF MediaInv, GivenBackIsFiled, sender, bounds
<1> QED BY <1>2, <1>3, <1>5, RecipientFrame DEF bounds

LEMMA ProjectionKeeps ==
    ASSUME MediaInv, DownloadPause \/ FileMessage \/ Consume \/ Settle
    PROVE  MediaInv'
<1>1. intake # NoIntake /\ intake.blob \in Blobs
      /\ intake \in [blob: Blobs, step: {"get", "consume", "settle"}, todo: SUBSET Parts, more: BOOLEAN]
  BY DEF MediaInv, MediaTypeOK, NoIntake, DownloadPause, FileMessage, Consume, Settle, Here
<1>2. UNCHANGED <<store, sender, bounds>>
  BY DEF DownloadPause, FileMessage, Consume, Settle
<1>3. CASE DownloadPause
  <2>1. MediaTypeOK' /\ GivenBackIsFiled'
    BY <1>2, <1>3 DEF DownloadPause, NoIntake, MediaInv, MediaTypeOK, GivenBackIsFiled, sender, bounds
  <2> QED BY <1>2, <2>1, RecipientFrame DEF bounds
<1>4. CASE FileMessage
  <2>1. intake.blob \in announced
    BY <1>4 DEF FileMessage, Here, MediaInv, GivenBackIsFiled
  <2> DEFINE w == [intake EXCEPT !.step = "consume"]
  <2>2. w \in [blob: Blobs, step: {"get", "consume", "settle"}, todo: SUBSET Parts, more: BOOLEAN]
        /\ w.blob = intake.blob /\ w.step = "consume"
    BY <1>1
  <2>3. intake' = w /\ filed' = filed \cup {intake.blob} /\ UNCHANGED <<inbox, chunks, settled>>
    BY <1>4 DEF FileMessage
  <2> HIDE DEF w
  <2>4. MediaTypeOK'
    BY <1>1, <1>2, <2>1, <2>2, <2>3 DEF MediaInv, MediaTypeOK, sender, bounds
  <2>5. GivenBackIsFiled'
    BY <1>1, <1>2, <2>1, <2>2, <2>3 DEF MediaInv, GivenBackIsFiled, sender, bounds
  <2> QED BY <1>2, <2>4, <2>5, RecipientFrame DEF bounds
<1>5. CASE Consume
  <2>1. intake.blob \in filed
    BY <1>5 DEF Consume, Here, MediaInv, GivenBackIsFiled
  <2> DEFINE w == [intake EXCEPT !.step = "settle"]
  <2>2. w \in [blob: Blobs, step: {"get", "consume", "settle"}, todo: SUBSET Parts, more: BOOLEAN]
        /\ w.blob = intake.blob /\ w.step = "settle"
    BY <1>1
  <2>3. /\ intake' = w /\ UNCHANGED <<filed, settled>>
        /\ inbox' = [inbox EXCEPT ![intake.blob] = IF @ = "partial" THEN "consumed" ELSE @]
        /\ chunks' = [chunks EXCEPT ![intake.blob] = {}]
    BY <1>5 DEF Consume
  <2> HIDE DEF w
  <2>4. MediaTypeOK'
    BY <1>1, <1>2, <2>2, <2>3 DEF MediaInv, MediaTypeOK, sender, bounds
  <2>5. \A x \in Blobs : inbox'[x] \in {"consumed", "acked"} =>
            inbox[x] \in {"consumed", "acked"} \/ x = intake.blob
    BY <2>3 DEF MediaInv, MediaTypeOK
  <2>6. GivenBackIsFiled'
    BY <1>1, <1>2, <2>1, <2>2, <2>3, <2>5 DEF MediaInv, GivenBackIsFiled, sender, bounds
  <2> QED BY <1>2, <2>4, <2>6, RecipientFrame DEF bounds
<1>6. CASE Settle
  <2>1. intake.blob \in filed
    BY <1>6 DEF Settle, Here, MediaInv, GivenBackIsFiled
  <2>2. MediaTypeOK' /\ GivenBackIsFiled'
    BY <1>1, <1>2, <1>6, <2>1 DEF Settle, NoIntake, MediaInv, MediaTypeOK, GivenBackIsFiled, sender, bounds
  <2> QED BY <1>2, <2>2, RecipientFrame DEF bounds
<1> QED BY <1>3, <1>4, <1>5, <1>6

LEMMA DownloadFailsKeeps ==
    ASSUME MediaInv, DownloadFails
    PROVE  MediaInv'
<1>1. PICK i \in intake.todo : Fails(Command("get", intake.blob, i))
  BY DEF DownloadFails
<1>2. intake.blob \in Blobs /\ i \in Parts
  BY <1>1, MediaInvParts DEF DownloadFails, Here, NoIntake
<1> DEFINE c == Command("get", intake.blob, i)
<1>3. c \in MediaCommands /\ c.op # "ack" /\ Fails(c)
  BY <1>1, <1>2, ChunkCommandIsTyped DEF Command
<1> HIDE DEF c
<1>4. /\ LateIsTyped'
      /\ \A d \in late' : d.op = "ack" => d.blob \in filed
      /\ mediaFaults' \in 0 .. MaxMediaFaults
      /\ UNCHANGED <<store, mediaExpired>>
  BY <1>3, FailKeeps
<1>5. intake' = NoIntake /\ UNCHANGED <<sender, inbox, chunks, filed, settled>>
  BY DEF DownloadFails
<1>6. MediaTypeOK' /\ GivenBackIsFiled'
  BY <1>4, <1>5 DEF NoIntake, MediaInv, MediaTypeOK, GivenBackIsFiled, sender
<1>7. WholeWhenComplete' /\ UploadedIsThere'
  BY <1>4, <1>5 DEF MediaInv, WholeWhenComplete, UploadedIsThere, UploadAt, sender
<1> QED BY <1>4, <1>6, <1>7 DEF MediaInv

LEMMA AcknowledgeKeeps ==
    ASSUME MediaInv, NEW b \in Blobs, AcknowledgeBlob(b)
    PROVE  MediaInv'
<1> DEFINE c == Command("ack", b, 0)
<1>1. c \in MediaCommands /\ c.blob = b /\ c.op = "ack"
  BY CommandIsTyped DEF Command
<1>2. /\ UNCHANGED <<sender, chunks, intake, filed, settled>>
      /\ \/ Answered(c) /\ inbox' = [inbox EXCEPT ![b] = "acked"] /\ UNCHANGED bounds
         \/ Fails(c) /\ UNCHANGED inbox
  BY DEF AcknowledgeBlob
<1> HIDE DEF c
<1>3. b \in filed
  BY DEF AcknowledgeBlob, MediaInv, GivenBackIsFiled
<1>4. CASE Answered(c) /\ inbox' = [inbox EXCEPT ![b] = "acked"] /\ UNCHANGED bounds
  <2>1. StoreAccepts(c) /\ store' = [store EXCEPT ![c.blob] = Executed(c)]
    BY <1>4 DEF Answered
  <2>2. /\ store' \in [Blobs -> StoreRows]
        /\ WholeWhenComplete'
        /\ \A x \in Blobs : store'[x].state = "acked" => store[x].state = "acked" \/ x = b
        /\ \A x \in Blobs : store[x].state \in {"complete", "acked"} => store'[x].state \in {"complete", "acked"}
    BY <1>1, <2>1, CommandKeepsStore
  <2>3. MediaTypeOK'
    BY <1>2, <1>4, <2>2 DEF MediaInv, MediaTypeOK, StoreRows, sender, bounds
  <2>4. \A x \in Blobs : inbox'[x] \in {"consumed", "acked"} => inbox[x] \in {"consumed", "acked"} \/ x = b
    BY <1>4 DEF MediaInv, MediaTypeOK
  <2>5. LateIsTyped' /\ GivenBackIsFiled'
    BY <1>2, <1>3, <1>4, <2>2, <2>4 DEF MediaInv, LateIsTyped, GivenBackIsFiled, sender, bounds
  <2>6. UploadedIsThere'
    BY <1>2, <1>4, <2>2 DEF MediaInv, UploadedIsThere, UploadAt, sender, bounds
  <2> QED BY <2>2, <2>3, <2>5, <2>6 DEF MediaInv
<1>5. CASE Fails(c) /\ UNCHANGED inbox
  <2>1. /\ LateIsTyped'
        /\ \A d \in late' : d.op = "ack" => d.blob \in filed
        /\ mediaFaults' \in 0 .. MaxMediaFaults
        /\ UNCHANGED <<store, mediaExpired>>
    BY <1>1, <1>3, <1>5, FailKeeps
  <2>2. MediaTypeOK' /\ GivenBackIsFiled'
    BY <1>2, <1>5, <2>1 DEF MediaInv, MediaTypeOK, GivenBackIsFiled, sender
  <2>3. WholeWhenComplete' /\ UploadedIsThere'
    BY <1>2, <2>1 DEF MediaInv, WholeWhenComplete, UploadedIsThere, UploadAt, sender
  <2> QED BY <2>1, <2>2, <2>3 DEF MediaInv
<1> QED BY <1>2, <1>4, <1>5

LEMMA ExecuteLateKeeps ==
    ASSUME MediaInv, NEW c \in late, ExecuteLate(c)
    PROVE  MediaInv'
<1>1. c \in MediaCommands /\ (c.op = "ack" => c.blob \in filed)
  BY DEF MediaInv, LateIsTyped, GivenBackIsFiled, MediaCommands
<1>2. late' \subseteq late /\ UNCHANGED <<sender, recipient, mediaExpired, mediaFaults>>
  BY DEF ExecuteLate
<1>3. /\ store' \in [Blobs -> StoreRows]
      /\ WholeWhenComplete'
      /\ \A x \in Blobs : store'[x].state = "acked" => store[x].state = "acked" \/ x \in filed
      /\ \A x \in Blobs : store[x].state \in {"complete", "acked"} => store'[x].state \in {"complete", "acked"}
  <2>1. CASE StoreAccepts(c)
    BY <1>1, <2>1, CommandKeepsStore DEF ExecuteLate
  <2>2. CASE ~StoreAccepts(c)
    BY <2>2, MediaInvParts DEF ExecuteLate, WholeWhenComplete
  <2> QED BY <2>1, <2>2
<1>4. MediaTypeOK'
  BY <1>2, <1>3 DEF MediaInv, MediaTypeOK, StoreRows, sender, recipient
<1>5. LateIsTyped' /\ GivenBackIsFiled'
  BY <1>2, <1>3 DEF MediaInv, LateIsTyped, GivenBackIsFiled, sender, recipient
<1>6. UploadedIsThere'
  BY <1>2, <1>3 DEF MediaInv, UploadedIsThere, UploadAt, sender
<1> QED BY <1>3, <1>4, <1>5, <1>6 DEF MediaInv

\* The end of the TTL, the two prunes and the two deaths.
LEMMA EndsKeep ==
    ASSUME MediaInv, PruneStore \/ Expire \/ PruneInbox \/ RecipientDies \/ \E h \in Hosts : SenderDies(h)
    PROVE  MediaInv'
<1>1. CASE PruneStore
  <2>1. Absent \in StoreRows /\ Absent.state = "none"
    BY DEF Absent, StoreRows
  <2>2. MediaTypeOK'
    BY <1>1, <2>1 DEF PruneStore, MediaInv, MediaTypeOK, StoreRows, sender, recipient, bounds
  <2>3. LateIsTyped' /\ WholeWhenComplete' /\ GivenBackIsFiled'
    BY <1>1, <2>1 DEF PruneStore, MediaInv, LateIsTyped, WholeWhenComplete, GivenBackIsFiled, sender,
                      recipient, bounds
  <2>4. UploadedIsThere'
    BY <1>1 DEF PruneStore, UploadedIsThere, bounds
  <2> QED BY <2>2, <2>3, <2>4 DEF MediaInv
<1>2. CASE Expire
  BY <1>2 DEF Expire, MediaInv, MediaTypeOK, LateIsTyped, WholeWhenComplete, GivenBackIsFiled,
              UploadedIsThere, sender, recipient
<1>3. CASE PruneInbox
  <2>1. MediaTypeOK' /\ GivenBackIsFiled'
    BY <1>3 DEF PruneInbox, MediaInv, MediaTypeOK, GivenBackIsFiled, sender, bounds
  <2> QED BY <1>3, <2>1, RecipientFrame DEF PruneInbox, bounds
<1>4. CASE RecipientDies
  <2>1. mediaFaults' \in 0 .. MaxMediaFaults
    BY <1>4, MediaAssumption DEF RecipientDies, Fault, MediaInv, MediaTypeOK
  <2>2. MediaTypeOK' /\ GivenBackIsFiled'
    BY <1>4, <2>1 DEF RecipientDies, NoIntake, MediaInv, MediaTypeOK, GivenBackIsFiled, sender
  <2> QED BY <1>4, <2>2, RecipientFrame DEF RecipientDies
<1>5. ASSUME NEW h \in Hosts, SenderDies(h)
      PROVE  MediaInv'
  <2>1. mediaFaults' \in 0 .. MaxMediaFaults /\ UNCHANGED <<store, cipher, announced, recipient, late, mediaExpired>>
    BY <1>5, MediaAssumption DEF SenderDies, Fault, MediaInv, MediaTypeOK
  <2>2. Resting \in [step: {"none", "put", "mark"}, todo: SUBSET Parts, more: BOOLEAN]
        /\ Resting.step # "mark"
    BY DEF Resting
  <2>3. uploads' = [uploads EXCEPT ![h] = [b \in Blobs |-> Resting]]
    BY <1>5 DEF SenderDies
  <2> HIDE DEF Resting
  <2>4. /\ uploads' \in [Hosts -> [Blobs -> [step: {"none", "put", "mark"}, todo: SUBSET Parts, more: BOOLEAN]]]
        /\ \A g \in Hosts, x \in Blobs : uploads'[g][x].step = "mark" => uploads[g][x].step = "mark"
    BY <2>2, <2>3 DEF MediaInv, MediaTypeOK
  <2>5. MediaTypeOK'
    BY <2>1, <2>4 DEF MediaInv, MediaTypeOK, recipient
  <2>6. LateIsTyped' /\ WholeWhenComplete' /\ GivenBackIsFiled'
    BY <2>1 DEF MediaInv, LateIsTyped, WholeWhenComplete, GivenBackIsFiled, recipient
  <2>7. UploadedIsThere'
    BY <2>1, <2>4 DEF MediaInv, UploadedIsThere, UploadAt
  <2> QED BY <2>5, <2>6, <2>7 DEF MediaInv
<1> QED BY <1>1, <1>2, <1>3, <1>4, <1>5

LEMMA MediaStarts == MediaInit => MediaInv
<1> SUFFICES ASSUME MediaInit PROVE MediaInv
  OBVIOUS
<1>1. MediaTypeOK
  BY MediaAssumption DEF MediaInit, MediaTypeOK, Absent, Resting
<1>2. LateIsTyped /\ GivenBackIsFiled
  BY DEF MediaInit, LateIsTyped, GivenBackIsFiled, Absent, NoIntake
<1>3. WholeWhenComplete
  BY DEF MediaInit, WholeWhenComplete, Absent
<1>4. UploadedIsThere
  BY DEF MediaInit, UploadedIsThere, UploadAt, Resting, Absent
<1> QED BY <1>1, <1>2, <1>3, <1>4 DEF MediaInv

LEMMA MediaStep == MediaInv /\ [MediaNext]_mediaVars => MediaInv'
<1> SUFFICES ASSUME MediaInv, [MediaNext]_mediaVars PROVE MediaInv'
  OBVIOUS
<1>1. CASE UNCHANGED mediaVars
  BY <1>1 DEF mediaVars, MediaInv, MediaTypeOK, LateIsTyped, WholeWhenComplete, GivenBackIsFiled,
              UploadedIsThere, UploadAt
<1>2. CASE MediaNext
  BY <1>2, BeginKeeps, PutKeeps, FinishKeeps, UploadFailsKeeps, SenderKeeps, DownloadGetKeeps,
     BeginDownloadKeeps, ProjectionKeeps, DownloadFailsKeeps, AcknowledgeKeeps, ExecuteLateKeeps,
     EndsKeep DEF MediaNext, Upload, Download
<1> QED BY <1>1, <1>2

\* What the sender, the service and the recipient know of a file agrees, whatever
\* answers are lost, whatever is executed late and whoever dies (uploadStep,
\* MediaStore, downloadStep).
THEOREM MediaInvariant == MediaSpec => []MediaInv
  BY MediaStarts, MediaStep, PTL DEF MediaSpec

\* The rows, requests and chunks of attachments keep their types.
THEOREM MediaIsTyped == MediaSpec => []MediaTypeOK
<1>1. MediaInv => MediaTypeOK
  BY DEF MediaInv
<1> QED BY MediaInvariant, <1>1, PTL

\* Until the TTL is over a file is whole at the sender or whole at the service,
\* until it is in the recipient's history (media-journal uploaded, media-store
\* finish and acknowledge).
THEOREM FilesAreKept == MediaSpec => []FileSomewhere
<1>1. MediaInv => FileSomewhere
  <2> SUFFICES ASSUME MediaInv, ~mediaExpired, NEW b \in Blobs \ filed
               PROVE  /\ b \in announced \/ cipher[b] = "uploaded" =>
                            store[b] = [state |-> "complete", parts |-> Parts]
                      /\ cipher[b] = "held" => store[b].state # "acked"
    BY DEF FileSomewhere
  <2>1. store[b] \in StoreRows /\ store[b].state # "acked"
    BY DEF MediaInv, MediaTypeOK, GivenBackIsFiled, StoreRows
  <2>2. b \in announced \/ cipher[b] = "uploaded" => store[b].state = "complete"
    BY <2>1 DEF MediaInv, UploadedIsThere
  <2>3. store[b].state = "complete" => store[b] = [state |-> "complete", parts |-> Parts]
    BY <2>1 DEF MediaInv, WholeWhenComplete, StoreRows
  <2> QED BY <2>1, <2>2, <2>3
<1> QED BY MediaInvariant, <1>1, PTL
------------------------------------------------------------------------------
(*****************************************************************************)
(* The queue that paces the commands of a device (module RequestQueue).      *)
(*****************************************************************************)

\* What was started t ticks ago was paid for from the bucket: if the bucket was
\* not updated since then, nothing was started; otherwise what was started and
\* what is left come from a full bucket and the refill of the time between.
RateInvariant ==
    /\ waitingFor["bulk"] + waitingFor["urgent"] <= requested
    /\ tokens <= Capacity[synced]
    /\ \A t \in 0 .. Window :
          /\ started[t] + waitingFor["bulk"] + waitingFor["urgent"] <= requested
          /\ t < since => started[t] = 0
          /\ t >= since =>
                started[t] + tokens <= Capacity[synced] + (t - since) * Refill[synced]

\* A wait that an urgent request sits through ends with the pause, or is for
\* the one token that is missing.
UrgentInvariant ==
    drain = "waiting" /\ waitingFor["urgent"] > 0 =>
        waitFor <= paused \/ (Balance = 0 /\ waitFor <= 1)

\* The greater of two numbers, as FiniteSetsExt defines it.
LEMMA MaxOfTwo ==
    ASSUME NEW a \in Int, NEW b \in Int
    PROVE Max({a, b}) = IF a >= b THEN a ELSE b
<1> DEFINE m == IF a >= b THEN a ELSE b
<1>1. m \in {a, b} /\ (\A y \in {a, b} : m >= y)
  OBVIOUS
<1>2. \A x \in {a, b} : (\A y \in {a, b} : x >= y) => x = m
  OBVIOUS
<1> HIDE DEF m
<1>3. Max({a, b}) = m
  BY <1>1, <1>2 DEF Max
<1> QED
  BY <1>3 DEF m

\* A product grows with its first factor.
LEMMA TimesGrows ==
    ASSUME NEW a \in Nat, NEW b \in Nat, NEW r \in Nat, a <= b
    PROVE a * r \in Nat /\ b * r \in Nat /\ a * r <= b * r
<1>1. PICK c \in Nat : b = a + c
  <2>1. b - a \in Nat /\ b = a + (b - a)
    OBVIOUS
  <2> QED
    BY <2>1
<1>2. b * r = a * r + c * r /\ a * r \in Nat /\ c * r \in Nat
  BY <1>1
<1> QED
  BY <1>2

\* and with its second.
LEMMA TimesMore ==
    ASSUME NEW a \in Nat, NEW r \in Nat, NEW s \in Nat, r <= s
    PROVE a * r \in Nat /\ a * s \in Nat /\ a * r <= a * s
<1>1. r * a <= s * a /\ r * a \in Nat /\ s * a \in Nat
  BY TimesGrows
<1>2. a * r = r * a /\ a * s = s * a
  OBVIOUS
<1> QED
  BY <1>1, <1>2

\* The rounded quotient is positive just when something is divided.
LEMMA CeilDivSign ==
    ASSUME NEW a \in Nat, NEW r \in Nat \ {0}
    PROVE /\ CeilDiv(a, r) \in Nat
          /\ CeilDiv(a, r) = 0 <=> a = 0
          /\ a = 1 => CeilDiv(a, r) = 1
<1> DEFINE n == a + r - 1
           q == n \div r
<1>1. n \in Nat /\ q \in Int
  OBVIOUS
<1>2. r * q <= n /\ n < r * q + r
  BY <1>1
<1>3. CeilDiv(a, r) = q
  BY DEF CeilDiv
<1>4. q \in Nat
  BY <1>1
<1>5. q = 0 => a = 0
  BY <1>2
<1>6. a = 0 => q = 0
  <2> SUFFICES ASSUME a = 0 PROVE q = 0
    OBVIOUS
  <2>1. n = r - 1
    OBVIOUS
  <2> QED
    BY <2>1
<1>7. a = 1 => q = 1
  <2> SUFFICES ASSUME a = 1 PROVE q = 1
    OBVIOUS
  <2>1. n = r
    OBVIOUS
  <2> QED
    BY <2>1
<1> HIDE DEF q
<1> QED
  BY <1>3, <1>4, <1>5, <1>6, <1>7

\* A difference that is not below zero.
LEMMA NatMinus ==
    ASSUME NEW a \in Nat, NEW b \in Nat, a >= b
    PROVE a - b \in Nat
  OBVIOUS

\* What the constants give a proof.
LEMMA QueueConstants ==
    /\ \A m \in BOOLEAN : Refill[m] \in Nat \ {0} /\ Capacity[m] \in Nat /\ Capacity[m] <= Capacity[TRUE]
    /\ \A m, n \in BOOLEAN : (m => n) => Capacity[m] <= Capacity[n] /\ Refill[m] <= Refill[n]
    /\ BulkNeeds \in Nat \ {0} /\ Burst \in Nat \ {0} /\ Pause \in Nat \ {0}
    /\ LongestWait \in Nat \ {0} /\ Window \in Nat \ {0} /\ MaxRequests \in Nat \ {0}
    /\ LongSince \in Nat
<1>1. \A m \in BOOLEAN : Refill[m] \in Nat \ {0} /\ Capacity[m] \in Nat
  BY QueueAssumption
<1>2. BulkNeeds \in Nat \ {0} /\ Burst \in Nat \ {0} /\ Pause \in Nat \ {0}
      /\ LongestWait \in Nat \ {0} /\ Window \in Nat \ {0} /\ MaxRequests \in Nat \ {0}
  BY QueueAssumption
<1>3. Capacity[FALSE] <= Capacity[TRUE] /\ Refill[FALSE] <= Refill[TRUE]
  BY QueueAssumption
<1>4. \A m \in BOOLEAN : Capacity[m] <= Capacity[TRUE]
  <2> TAKE m \in BOOLEAN
  <2>1. CASE m = TRUE
    <3>1. Capacity[TRUE] \in Nat
      BY <1>1
    <3>2. \A x \in Nat : x <= x
      OBVIOUS
    <3> QED
      BY <2>1, <3>1, <3>2, Zenon
  <2>2. CASE m = FALSE
    BY <2>2, <1>3
  <2> QED
    BY <2>1, <2>2
<1>5. \A m, n \in BOOLEAN : (m => n) => Capacity[m] <= Capacity[n] /\ Refill[m] <= Refill[n]
  <2> TAKE m, n \in BOOLEAN
  <2>1. CASE m = n
    BY <2>1, <1>1
  <2>2. CASE m = FALSE /\ n = TRUE
    BY <2>2, <1>3
  <2> QED
    BY <2>1, <2>2
<1>6. LongSince \in Nat
  BY <1>1, CeilDivSign DEF LongSince
<1> QED
  BY <1>1, <1>2, <1>4, <1>5, <1>6

\* The balance that an update finds is at most the bucket and at most what the
\* tokens and the refill give.
LEMMA BalanceBounds ==
    ASSUME QueueTypeOK
    PROVE /\ Balance \in Nat
          /\ Balance <= Capacity[synced]
          /\ Balance <= tokens + since * Refill[synced]
          /\ since = 0 /\ tokens <= Capacity[synced] => Balance = tokens
<1>1. tokens \in Nat /\ since \in Nat /\ synced \in BOOLEAN
  BY QueueConstants DEF QueueTypeOK
<1>2. Capacity[synced] \in Nat /\ Refill[synced] \in Nat
  BY <1>1, QueueConstants
<1>3. since * Refill[synced] \in Nat /\ (since = 0 => since * Refill[synced] = 0)
  BY <1>1, <1>2
<1> QED
  BY <1>1, <1>2, <1>3 DEF Balance, Least

\* The inductive invariant of the queue.
QueueInvariant == QueueTypeOK /\ RateInvariant /\ UrgentInvariant

\* What fits a bucket fits the larger one.
LEMMA FitsTheBucket ==
    ASSUME NEW n \in Nat, NEW m \in BOOLEAN, n <= Capacity[m]
    PROVE n \in 0 .. Capacity[TRUE]
<1>1. Capacity[m] \in Nat /\ Capacity[TRUE] \in Nat /\ Capacity[m] <= Capacity[TRUE]
  BY QueueConstants
<1>2. \A x, y, z \in Nat : x <= y /\ y <= z => x \in 0 .. z
  OBVIOUS
<1> QED
  BY <1>1, <1>2, Zenon

\* The types, read for arithmetic.
LEMMA QueueNumbers ==
    ASSUME QueueTypeOK
    PROVE /\ waitingFor["bulk"] \in Nat /\ waitingFor["urgent"] \in Nat
          /\ waitingFor["bulk"] <= MaxRequests /\ waitingFor["urgent"] <= MaxRequests
          /\ tokens \in Nat /\ since \in Nat /\ synced \in BOOLEAN
          /\ Capacity[synced] \in Nat /\ Refill[synced] \in Nat \ {0}
          /\ paused \in Nat /\ waitFor \in Nat /\ inRow \in Nat
          /\ requested \in Nat /\ requested <= MaxRequests
          /\ \A t \in 0 .. Window : started[t] \in Nat
<1>1. tokens \in Nat /\ since \in Nat /\ synced \in BOOLEAN
      /\ paused \in Nat /\ waitFor \in Nat /\ inRow \in Nat
      /\ requested \in Nat /\ requested <= MaxRequests
  BY QueueConstants DEF QueueTypeOK
<1>2. Capacity[synced] \in Nat /\ Refill[synced] \in Nat \ {0}
  BY <1>1, QueueConstants
<1>3. \A kind \in {"bulk", "urgent"} : waitingFor[kind] \in 0 .. MaxRequests
  BY DEF QueueTypeOK
<1>4. \A t \in 0 .. Window : started[t] \in Nat
  BY QueueConstants DEF QueueTypeOK
<1> QED
  BY <1>1, <1>2, <1>3, <1>4, QueueConstants

LEMMA QueueInitHolds == QueueInit => QueueInvariant
<1> SUFFICES ASSUME QueueInit PROVE QueueInvariant
  OBVIOUS
<1>1. synced \in BOOLEAN /\ tokens = Capacity[synced]
  BY Zenon DEF QueueInit
<1>2. QueueTypeOK
  <2>1. tokens \in Nat /\ tokens <= Capacity[synced]
    BY <1>1, QueueConstants
  <2>2. tokens \in 0 .. Capacity[TRUE]
    BY <2>1, <1>1, FitsTheBucket
  <2>3. /\ waitingFor \in [{"bulk", "urgent"} -> 0 .. MaxRequests]
        /\ drain \in {"idle", "ready", "waiting", "running"} /\ since \in 0 .. LongSince
        /\ paused \in 0 .. Pause /\ waitFor \in 0 .. LongestWait /\ inRow \in 0 .. Burst
        /\ started \in [0 .. Window -> 0 .. MaxRequests] /\ requested \in 0 .. MaxRequests
    BY QueueConstants DEF QueueInit
  <2> QED
    BY <2>2, <2>3, <1>1 DEF QueueTypeOK
<1>3. UrgentInvariant
  BY DEF QueueInit, UrgentInvariant
<1>4. RateInvariant
  <2>1. tokens <= Capacity[synced]
    BY <1>1, QueueConstants
  <2>2. waitingFor["bulk"] + waitingFor["urgent"] <= requested
    BY DEF QueueInit
  <2>3. ASSUME NEW t \in 0 .. Window
        PROVE /\ started[t] + waitingFor["bulk"] + waitingFor["urgent"] <= requested
              /\ t < since => started[t] = 0
              /\ t >= since => started[t] + tokens <= Capacity[synced] + (t - since) * Refill[synced]
    <3>1. started[t] = 0 /\ waitingFor["bulk"] = 0 /\ waitingFor["urgent"] = 0 /\ requested = 0
      BY DEF QueueInit
    <3>2. ASSUME t >= since PROVE (t - since) * Refill[synced] \in Nat
      <4>1. t - since \in Nat
        BY <3>2, <1>2, QueueNumbers, QueueConstants
      <4> QED
        BY <4>1, <1>2, QueueNumbers
    <3> QED
      BY <3>1, <3>2, <2>1, <1>2, QueueNumbers
  <2> QED
    BY <2>1, <2>2, <2>3 DEF RateInvariant
<1> QED
  BY <1>2, <1>3, <1>4 DEF QueueInvariant

LEMMA RequestKeeps ==
    ASSUME QueueInvariant, NEW kind \in {"bulk", "urgent"}, Request(kind)
    PROVE QueueInvariant'
<1> DEFINE other == IF kind = "bulk" THEN "urgent" ELSE "bulk"
<1>1. QueueTypeOK /\ RateInvariant /\ UrgentInvariant
  BY DEF QueueInvariant
<1>2. requested < MaxRequests /\ requested' = requested + 1
      /\ waitingFor' = [waitingFor EXCEPT ![kind] = @ + 1]
      /\ UNCHANGED <<tokens, since, synced, paused, started>>
  BY DEF Request
<1>3. waitingFor'["bulk"] + waitingFor'["urgent"] = waitingFor["bulk"] + waitingFor["urgent"] + 1
      /\ waitingFor'["bulk"] \in Nat /\ waitingFor'["urgent"] \in Nat
  BY <1>1, <1>2, QueueNumbers DEF QueueTypeOK
<1>4. waitingFor["bulk"] + waitingFor["urgent"] <= requested
  BY <1>1 DEF RateInvariant
<1>5. waitingFor' \in [{"bulk", "urgent"} -> 0 .. MaxRequests]
  <2>1. waitingFor[kind] <= requested
    BY <1>4, <1>1, QueueNumbers
  <2>2. waitingFor[kind] + 1 \in 0 .. MaxRequests
    BY <2>1, <1>2, <1>1, QueueNumbers, QueueConstants
  <2> QED
    BY <2>2, <1>2, <1>1 DEF QueueTypeOK
<1>6. drain' \in {"idle", "ready", "waiting", "running"} /\ waitFor' \in 0 .. LongestWait
      /\ inRow' \in 0 .. Burst
  BY <1>1, QueueConstants DEF Request, QueueTypeOK
<1>7. requested' \in 0 .. MaxRequests
  BY <1>1, <1>2, QueueNumbers, QueueConstants
<1>8. QueueTypeOK'
  BY <1>1, <1>2, <1>5, <1>6, <1>7 DEF QueueTypeOK
<1>9. RateInvariant'
  <2>1. \A t \in 0 .. Window :
          started[t] + waitingFor'["bulk"] + waitingFor'["urgent"] <= requested'
    <3> TAKE t \in 0 .. Window
    <3>1. started[t] + waitingFor["bulk"] + waitingFor["urgent"] <= requested /\ started[t] \in Nat
      BY <1>1, QueueNumbers DEF RateInvariant
    <3> QED
      BY <3>1, <1>2, <1>3, <1>1, QueueNumbers
  <2>2. waitingFor'["bulk"] + waitingFor'["urgent"] <= requested'
    BY <1>2, <1>3, <1>4, <1>1, QueueNumbers
  <2> QED
    BY <2>1, <2>2, <1>1, <1>2 DEF RateInvariant
<1>10. UrgentInvariant'
  <2> SUFFICES ASSUME drain' = "waiting", waitingFor'["urgent"] > 0
               PROVE waitFor' <= paused' \/ (Balance' = 0 /\ waitFor' <= 1)
    BY DEF UrgentInvariant
  <2>1. drain = "waiting" /\ kind = "bulk" /\ waitFor' = waitFor
    BY DEF Request
  <2>2. waitingFor["urgent"] > 0
    BY <2>1, <1>1, <1>2 DEF QueueTypeOK
  <2>3. Balance' = Balance
    BY <1>2 DEF Balance
  <2> QED
    BY <2>1, <2>2, <2>3, <1>1, <1>2 DEF UrgentInvariant
<1> QED
  BY <1>8, <1>9, <1>10 DEF QueueInvariant

LEMMA CompletesKeeps ==
    ASSUME QueueInvariant, NEW limited \in BOOLEAN, NEW sync \in BOOLEAN, Completes(limited, sync)
    PROVE QueueInvariant'
<1>1. QueueTypeOK /\ RateInvariant
  BY DEF QueueInvariant
<1>2. drain' = "ready" /\ synced' = (synced \/ sync) /\ paused' \in {Pause, paused}
      /\ UNCHANGED <<waitingFor, tokens, since, waitFor, inRow, started, requested>>
  BY DEF Completes
<1>3. synced' \in BOOLEAN /\ (synced => synced')
  BY <1>1, <1>2 DEF QueueTypeOK
<1>4. paused' \in 0 .. Pause
  BY <1>1, <1>2, QueueConstants DEF QueueTypeOK
<1>5. QueueTypeOK'
  BY <1>1, <1>2, <1>3, <1>4 DEF QueueTypeOK
<1>6. UrgentInvariant'
  BY <1>2 DEF UrgentInvariant
<1>7. Capacity[synced] <= Capacity[synced'] /\ Refill[synced] <= Refill[synced']
      /\ Capacity[synced'] \in Nat /\ Refill[synced'] \in Nat
  BY <1>1, <1>3, QueueConstants, QueueNumbers
<1>8. RateInvariant'
  <2>1. tokens' <= Capacity[synced']
    BY <1>1, <1>2, <1>7, QueueNumbers DEF RateInvariant
  <2>2. ASSUME NEW t \in 0 .. Window, t >= since
        PROVE started[t] + tokens <= Capacity[synced'] + (t - since) * Refill[synced']
    <3> DEFINE old == (t - since) * Refill[synced]
               new == (t - since) * Refill[synced']
    <3>1. t - since \in Nat
      BY <2>2, <1>1, QueueNumbers, QueueConstants
    <3>2. old \in Nat /\ new \in Nat /\ old <= new
      BY <3>1, <1>7, <1>1, QueueNumbers, TimesMore
    <3>3. started[t] + tokens <= Capacity[synced] + old
      BY <2>2, <1>1 DEF RateInvariant
    <3> HIDE DEF old, new
    <3>4. started[t] + tokens <= Capacity[synced'] + new
      BY <3>2, <3>3, <1>7, <1>1, QueueNumbers
    <3> QED
      BY <3>4 DEF new
  <2> QED
    BY <2>1, <2>2, <1>1, <1>2 DEF RateInvariant
<1> QED
  BY <1>5, <1>6, <1>8 DEF QueueInvariant

LEMMA WaitEndsKeeps ==
    ASSUME QueueInvariant, WaitEnds
    PROVE QueueInvariant'
<1>1. QueueTypeOK /\ RateInvariant
  BY DEF QueueInvariant
<1>2. drain' = "ready"
      /\ UNCHANGED <<waitingFor, tokens, since, synced, paused, waitFor, inRow, started, requested>>
  BY DEF WaitEnds
<1>3. QueueTypeOK'
  BY <1>1, <1>2 DEF QueueTypeOK
<1>4. RateInvariant'
  BY <1>1, <1>2 DEF RateInvariant
<1>5. UrgentInvariant'
  BY <1>2 DEF UrgentInvariant
<1> QED
  BY <1>3, <1>4, <1>5 DEF QueueInvariant

\* A balance of nothing lacks one token; any other lacks none for an urgent request.
LEMMA UrgentLack ==
    ASSUME NEW b \in Nat, NEW r \in Nat \ {0}
    PROVE CeilDiv(Max({1 - b, 0}), r) = IF b = 0 THEN 1 ELSE 0
<1>1. Max({1 - b, 0}) = IF b = 0 THEN 1 ELSE 0
  BY MaxOfTwo
<1>2. CeilDiv(0, r) = 0 /\ CeilDiv(1, r) = 1
  BY CeilDivSign
<1> QED
  BY <1>1, <1>2

LEMMA QueueTickKeeps ==
    ASSUME QueueInvariant, QueueTick
    PROVE QueueInvariant'
<1>1. QueueTypeOK /\ RateInvariant /\ UrgentInvariant
  BY DEF QueueInvariant
<1>2. /\ paused' = IF paused = 0 THEN 0 ELSE paused - 1
      /\ waitFor' = IF waitFor = 0 THEN 0 ELSE waitFor - 1
  <2>1. Max({paused - 1, 0}) = (IF paused = 0 THEN 0 ELSE paused - 1)
        /\ Max({waitFor - 1, 0}) = (IF waitFor = 0 THEN 0 ELSE waitFor - 1)
    BY <1>1, QueueNumbers, MaxOfTwo
  <2> QED
    BY <2>1 DEF QueueTick
<1>3. since' \in 0 .. LongSince /\ since <= since' /\ since' <= since + 1
  BY <1>1, QueueConstants DEF QueueTick, Least, QueueTypeOK
<1>9. since' \in Nat /\ \A t \in 0 .. Window : t \in Nat
  BY <1>3, QueueConstants
<1>4. started' = [t \in 0 .. Window |-> IF t = 0 THEN 0 ELSE started[t - 1]]
      /\ UNCHANGED <<waitingFor, drain, tokens, synced, inRow, requested>>
  BY DEF QueueTick
<1>5. \A t \in 0 .. Window : t # 0 => t - 1 \in 0 .. Window
  BY QueueConstants
<1>6. QueueTypeOK'
  <2>1. paused' \in 0 .. Pause /\ waitFor' \in 0 .. LongestWait
    BY <1>1, <1>2, QueueConstants DEF QueueTypeOK
  <2>2. started' \in [0 .. Window -> 0 .. MaxRequests]
    BY <1>1, <1>4, <1>5, QueueConstants DEF QueueTypeOK
  <2> QED
    BY <1>1, <1>3, <1>4, <2>1, <2>2 DEF QueueTypeOK
<1>7. RateInvariant'
  <2>1. ASSUME NEW t \in 0 .. Window
        PROVE /\ started'[t] + waitingFor["bulk"] + waitingFor["urgent"] <= requested
              /\ t < since' => started'[t] = 0
              /\ t >= since' =>
                    started'[t] + tokens <= Capacity[synced] + (t - since') * Refill[synced]
    <3>0. t \in Nat /\ since' \in Nat
      BY <1>9
    <3>1. CASE t = 0
      <4>1. started'[t] = 0
        BY <3>1, <1>4
      <4>2. waitingFor["bulk"] + waitingFor["urgent"] <= requested /\ tokens <= Capacity[synced]
        BY <1>1 DEF RateInvariant
      <4>3. ASSUME t >= since' PROVE (t - since') * Refill[synced] \in Nat
        <5>1. t - since' \in Nat
          BY <4>3, <3>0, NatMinus
        <5> QED
          BY <5>1, <1>1, QueueNumbers
      <4> QED
        BY <4>1, <4>2, <4>3, <1>1, QueueNumbers
    <3>2. CASE t # 0
      <4>1. started'[t] = started[t - 1] /\ t - 1 \in 0 .. Window
        BY <3>2, <1>4, <1>5
      <4>2. /\ started[t - 1] + waitingFor["bulk"] + waitingFor["urgent"] <= requested
            /\ t - 1 < since => started[t - 1] = 0
            /\ t - 1 >= since =>
                  started[t - 1] + tokens <= Capacity[synced] + ((t - 1) - since) * Refill[synced]
        BY <4>1, <1>1 DEF RateInvariant
      <4>3. t < since' => t - 1 < since
        BY <1>1, <1>3, QueueNumbers, QueueConstants
      <4>4. ASSUME t >= since'
            PROVE started[t - 1] + tokens <= Capacity[synced] + (t - since') * Refill[synced]
        <5> DEFINE new == (t - since') * Refill[synced]
                   old == ((t - 1) - since) * Refill[synced]
        <5>1. t - since' \in Nat /\ new \in Nat
          <6>1. t - since' \in Nat
            BY <4>4, <3>0, NatMinus
          <6> QED
            BY <6>1, <1>1, QueueNumbers
        <5>2. CASE t - 1 < since
          <6>1. started[t - 1] = 0 /\ tokens <= Capacity[synced]
            BY <5>2, <4>2, <1>1 DEF RateInvariant
          <6> HIDE DEF new
          <6>2. started[t - 1] + tokens <= Capacity[synced] + new
            BY <6>1, <5>1, <1>1, QueueNumbers
          <6> QED
            BY <6>2 DEF new
        <5>3. CASE t - 1 >= since
          <6>1. (t - 1) - since \in Nat /\ (t - 1) - since <= t - since'
            BY <5>3, <1>1, <1>3, QueueNumbers, QueueConstants
          <6>2. old \in Nat /\ old <= new
            BY <6>1, <5>1, <1>1, QueueNumbers, TimesGrows
          <6>3. started[t - 1] + tokens <= Capacity[synced] + old
            BY <5>3, <4>2
          <6>4. started[t - 1] \in Nat
            BY <4>1, <1>1, QueueNumbers
          <6> HIDE DEF new, old
          <6>5. started[t - 1] + tokens <= Capacity[synced] + new
            BY <6>2, <6>3, <6>4, <5>1, <1>1, QueueNumbers
          <6> QED
            BY <6>5 DEF new
        <5>4. t - 1 < since \/ t - 1 >= since
          BY <1>1, QueueNumbers, QueueConstants
        <5> QED
          BY <5>2, <5>3, <5>4
      <4> QED
        BY <4>1, <4>2, <4>3, <4>4
    <3> QED
      BY <3>1, <3>2
  <2>2. waitingFor["bulk"] + waitingFor["urgent"] <= requested /\ tokens <= Capacity[synced]
    BY <1>1 DEF RateInvariant
  <2> QED
    BY <2>1, <2>2, <1>4 DEF RateInvariant
<1>8. UrgentInvariant'
  <2> SUFFICES ASSUME drain = "waiting", waitingFor["urgent"] > 0
               PROVE waitFor' <= paused'
    BY <1>4 DEF UrgentInvariant
  <2>1. waitFor <= paused \/ waitFor <= 1
    BY <1>1 DEF UrgentInvariant
  <2> QED
    BY <2>1, <1>2, <1>1, QueueNumbers
<1> QED
  BY <1>6, <1>7, <1>8 DEF QueueInvariant

\* A pass picks a request that waits, and a bulk one before an urgent one only
\* with the tokens for it at hand.
LEMMA PickedWaits ==
    ASSUME QueueTypeOK, waitingFor["bulk"] + waitingFor["urgent"] # 0, NEW b \in Nat
    PROVE /\ Picked(b) \in {"bulk", "urgent"}
          /\ waitingFor[Picked(b)] > 0
          /\ Picked(b) = "bulk" /\ waitingFor["urgent"] > 0 => b >= BulkNeeds
<1> DEFINE Other(kind) == CHOOSE other \in {"bulk", "urgent"} : other # kind
<1>1. waitingFor["bulk"] \in Nat /\ waitingFor["urgent"] \in Nat
  BY QueueNumbers
<1>2. Other("bulk") = "urgent" /\ Other("urgent") = "bulk"
  OBVIOUS
<1> HIDE DEF Other
<1>3. \A kind \in {"bulk", "urgent"} :
        Present(kind) = IF waitingFor[kind] > 0 THEN kind ELSE Other(kind)
  BY DEF Present, Other
<1>4. \A kind \in {"bulk", "urgent"} :
        Present(kind) \in {"bulk", "urgent"} /\ waitingFor[Present(kind)] > 0
  BY <1>1, <1>2, <1>3
<1>5. waitingFor["urgent"] > 0 => Present("urgent") = "urgent"
  BY <1>3
<1>6. Preferred \in {"bulk", "urgent"}
  BY DEF Preferred
<1>7. Picked(b) = IF Present(Preferred) = "bulk" /\ b < BulkNeeds THEN Present("urgent")
                  ELSE Present(Preferred)
  BY DEF Picked
<1> QED
  BY <1>4, <1>5, <1>6, <1>7, QueueConstants

\* A pass waits for the pause or for the tokens that its request lacks.
LEMMA DelayIsDue ==
    ASSUME QueueTypeOK, NEW kind \in {"bulk", "urgent"}, NEW b \in Nat
    PROVE /\ Delay(kind, b) \in Nat
          /\ Delay(kind, b) = 0 => b >= 1
          /\ b >= Needs(kind) => Delay(kind, b) <= paused
          /\ kind = "urgent" =>
                Delay(kind, b) <= paused \/ (b = 0 /\ Delay(kind, b) <= 1)
<1> DEFINE lack == Max({Needs(kind) - b, 0})
           c == CeilDiv(lack, Refill[synced])
<1>1. Needs(kind) \in Nat \ {0} /\ (kind = "urgent" => Needs(kind) = 1)
  BY QueueConstants DEF Needs
<1>2. lack = IF Needs(kind) > b THEN Needs(kind) - b ELSE 0
  BY <1>1, MaxOfTwo
<1>3. lack \in Nat /\ (lack = 0 <=> b >= Needs(kind)) /\ (kind = "urgent" => lack = IF b = 0 THEN 1 ELSE 0)
  BY <1>1, <1>2
<1> HIDE DEF lack
<1>4. c \in Nat /\ (c = 0 <=> lack = 0) /\ (lack = 1 => c = 1)
  BY <1>3, QueueNumbers, CeilDivSign
<1>5. Delay(kind, b) = Max({paused, c})
  BY DEF Delay, lack
<1> HIDE DEF c
<1>6. paused \in Nat /\ Delay(kind, b) = IF paused >= c THEN paused ELSE c
  BY <1>4, <1>5, QueueNumbers, MaxOfTwo
<1> QED
  BY <1>1, <1>3, <1>4, <1>6

LEMMA PassKeeps ==
    ASSUME QueueInvariant, Pass
    PROVE QueueInvariant'
<1> DEFINE kind == Picked(Balance)
           delay == Delay(kind, Balance)
           bulk == waitingFor["bulk"]
           urgent == waitingFor["urgent"]
<1>1. QueueTypeOK /\ RateInvariant
  BY DEF QueueInvariant
<1>2. UNCHANGED <<synced, paused, requested>>
  BY DEF Pass
<1>3. Balance \in Nat /\ Balance <= Capacity[synced] /\ Balance <= tokens + since * Refill[synced]
  BY <1>1, BalanceBounds
<1>4. \/ bulk + urgent = 0 /\ drain' = "idle" /\ UNCHANGED <<tokens, since, waitingFor, waitFor, inRow, started>>
      \/ bulk + urgent # 0 /\ delay > 0 /\ drain' = "waiting" /\ waitFor' = Least(LongestWait, delay)
         /\ tokens' = Balance /\ since' = 0 /\ UNCHANGED <<waitingFor, inRow, started>>
      \/ bulk + urgent # 0 /\ ~(delay > 0) /\ drain' = "running" /\ tokens' = Balance - 1 /\ since' = 0
         /\ waitingFor' = [waitingFor EXCEPT ![kind] = @ - 1]
         /\ inRow' = (IF kind = "urgent" THEN Least(inRow + 1, Burst) ELSE 0)
         /\ started' = [t \in 0 .. Window |-> started[t] + 1]
         /\ UNCHANGED waitFor
  BY DEF Pass
\* What was started and the balance come from a bucket and its refill.
<1>5. ASSUME NEW t \in 0 .. Window
      PROVE t * Refill[synced] \in Nat /\ started[t] + Balance <= Capacity[synced] + t * Refill[synced]
  <2> DEFINE all == t * Refill[synced]
             rest == (t - since) * Refill[synced]
             gone == since * Refill[synced]
  <2>1. t \in Nat /\ since \in Nat /\ Refill[synced] \in Nat
    BY <1>1, QueueNumbers, QueueConstants
  <2>2. all \in Nat /\ gone \in Nat /\ started[t] \in Nat
    BY <2>1, <1>1, QueueNumbers
  <2>3. CASE t < since
    <3>1. started[t] = 0
      BY <2>3, <1>1 DEF RateInvariant
    <3> HIDE DEF all
    <3>2. started[t] + Balance <= Capacity[synced] + all
      BY <3>1, <2>2, <1>3, <1>1, QueueNumbers
    <3> QED
      BY <3>2, <2>2 DEF all
  <2>4. CASE t >= since
    <3>1. t - since \in Nat
      BY <2>1, <2>4, NatMinus
    <3>2. rest \in Nat /\ all = rest + gone
      BY <2>1, <3>1
    <3>3. started[t] + tokens <= Capacity[synced] + rest
      BY <2>4, <1>1 DEF RateInvariant
    <3>4. Balance <= tokens + gone
      BY <1>3
    <3> HIDE DEF all, rest, gone
    <3>5. started[t] + Balance <= Capacity[synced] + all
      BY <2>2, <3>2, <3>3, <3>4, <1>3, <1>1, QueueNumbers
    <3> QED
      BY <3>5, <2>2 DEF all
  <2> QED
    BY <2>1, <2>3, <2>4
<1>6. ASSUME since' = 0, NEW t \in 0 .. Window
      PROVE (t < since' => started'[t] = 0) /\ (t - since') * Refill[synced] = t * Refill[synced]
  <2>1. t \in Nat /\ since' = 0
    BY <1>6, QueueConstants
  <2> QED
    BY <2>1
<1>7. CASE bulk + urgent = 0
  <2>1. drain' = "idle" /\ UNCHANGED <<tokens, since, waitingFor, waitFor, inRow, started>>
    BY <1>7, <1>4
  <2>2. QueueTypeOK'
    BY <2>1, <1>1, <1>2 DEF QueueTypeOK
  <2>3. RateInvariant'
    BY <2>1, <1>1, <1>2 DEF RateInvariant
  <2>4. UrgentInvariant'
    BY <2>1 DEF UrgentInvariant
  <2> QED
    BY <2>2, <2>3, <2>4 DEF QueueInvariant
<1>8. CASE bulk + urgent # 0 /\ delay > 0
  <2>1. drain' = "waiting" /\ waitFor' = Least(LongestWait, delay) /\ tokens' = Balance /\ since' = 0
        /\ UNCHANGED <<waitingFor, inRow, started>>
    BY <1>8, <1>4
  <2>2. kind \in {"bulk", "urgent"} /\ (kind = "bulk" /\ urgent > 0 => Balance >= BulkNeeds)
    BY <1>8, <1>1, <1>3, PickedWaits
  <2>3. delay \in Nat /\ (Balance >= Needs(kind) => delay <= paused)
        /\ (kind = "urgent" => delay <= paused \/ (Balance = 0 /\ delay <= 1))
    BY <2>2, <1>1, <1>3, DelayIsDue
  <2>4. waitFor' \in 0 .. LongestWait /\ waitFor' <= delay
    BY <2>1, <2>3, QueueConstants DEF Least
  <2>5. QueueTypeOK'
    <3>1. tokens' \in 0 .. Capacity[TRUE]
      <4>1. synced \in BOOLEAN
        BY <1>1, QueueNumbers
      <4> QED
        BY <2>1, <1>3, <4>1, FitsTheBucket
    <3>2. since' \in 0 .. LongSince
      BY <2>1, QueueConstants
    <3> QED
      BY <3>1, <3>2, <2>1, <2>4, <1>1, <1>2 DEF QueueTypeOK
  <2>6. RateInvariant'
    <3>1. ASSUME NEW t \in 0 .. Window
          PROVE /\ started'[t] + waitingFor'["bulk"] + waitingFor'["urgent"] <= requested'
                /\ t < since' => started'[t] = 0
                /\ t >= since' =>
                      started'[t] + tokens' <= Capacity[synced'] + (t - since') * Refill[synced']
      <4>1. started[t] + waitingFor["bulk"] + waitingFor["urgent"] <= requested
        BY <1>1 DEF RateInvariant
      <4>2. (t < since' => started'[t] = 0) /\ (t - since') * Refill[synced] = t * Refill[synced]
        BY <2>1, <1>6
      <4> QED
        BY <4>1, <4>2, <2>1, <1>2, <1>5
    <3>2. waitingFor["bulk"] + waitingFor["urgent"] <= requested
      BY <1>1 DEF RateInvariant
    <3> QED
      BY <3>1, <3>2, <2>1, <1>2, <1>3 DEF RateInvariant
  <2>7. UrgentInvariant'
    <3> SUFFICES ASSUME urgent > 0
                 PROVE waitFor' <= paused \/ (Balance' = 0 /\ waitFor' <= 1)
      BY <2>1, <1>2 DEF UrgentInvariant
    <3>1. Balance' = Balance
      <4>1. Balance' = Least(Capacity[synced], Balance + 0 * Refill[synced])
        BY <2>1, <1>2 DEF Balance, Least
      <4>2. 0 * Refill[synced] = 0 /\ Capacity[synced] \in Nat
        BY <1>1, QueueNumbers
      <4> QED
        BY <4>1, <4>2, <1>3 DEF Least
    <3>2. delay <= paused \/ (Balance = 0 /\ delay <= 1)
      <4>1. CASE kind = "bulk"
        BY <4>1, <2>2, <2>3 DEF Needs
      <4>2. CASE kind = "urgent"
        BY <4>2, <2>3
      <4> QED
        BY <4>1, <4>2, <2>2
    <3>3. paused \in Nat /\ waitFor' \in Nat
      BY <2>4, <1>1, QueueNumbers, QueueConstants
    <3> QED
      BY <3>1, <3>2, <3>3, <2>3, <2>4
  <2> QED
    BY <2>5, <2>6, <2>7 DEF QueueInvariant
<1>9. CASE bulk + urgent # 0 /\ ~(delay > 0)
  <2>1. /\ drain' = "running" /\ tokens' = Balance - 1 /\ since' = 0
        /\ waitingFor' = [waitingFor EXCEPT ![kind] = @ - 1]
        /\ inRow' = (IF kind = "urgent" THEN Least(inRow + 1, Burst) ELSE 0)
        /\ started' = [t \in 0 .. Window |-> started[t] + 1]
        /\ UNCHANGED waitFor
    BY <1>9, <1>4
  <2>2. kind \in {"bulk", "urgent"} /\ waitingFor[kind] > 0
    BY <1>9, <1>1, <1>3, PickedWaits
  <2>3. Balance >= 1
    <3>1. delay \in Nat /\ (delay = 0 => Balance >= 1)
      BY <2>2, <1>1, <1>3, DelayIsDue
    <3> QED
      BY <3>1, <1>9
  <2>4. tokens' \in Nat /\ tokens' <= Capacity[synced]
    BY <2>1, <2>3, <1>1, <1>3, QueueNumbers
  <2> HIDE DEF kind, delay
  <2>5. waitingFor' \in [{"bulk", "urgent"} -> 0 .. MaxRequests]
        /\ waitingFor'["bulk"] + waitingFor'["urgent"] = bulk + urgent - 1
        /\ waitingFor'["bulk"] \in Nat /\ waitingFor'["urgent"] \in Nat
    <3>1. waitingFor \in [{"bulk", "urgent"} -> 0 .. MaxRequests] /\ MaxRequests \in Nat
      BY <1>1, QueueConstants DEF QueueTypeOK
    <3>2. waitingFor[kind] - 1 \in 0 .. MaxRequests
      BY <3>1, <2>2
    <3> QED
      BY <3>1, <3>2, <2>1, <2>2
  <2>6. ASSUME NEW t \in 0 .. Window
        PROVE /\ started'[t] = started[t] + 1 /\ started[t] \in Nat
              /\ started'[t] + waitingFor'["bulk"] + waitingFor'["urgent"] <= requested
              /\ started'[t] <= MaxRequests
    <3>1. started'[t] = started[t] + 1 /\ started[t] \in Nat
      BY <2>1, <1>1, QueueNumbers
    <3>2. started[t] + waitingFor["bulk"] + waitingFor["urgent"] <= requested
      BY <1>1 DEF RateInvariant
    <3> QED
      BY <3>1, <3>2, <2>5, <1>1, QueueNumbers, QueueConstants
  <2>7. QueueTypeOK'
    <3>1. tokens' \in 0 .. Capacity[TRUE]
      <4>1. synced \in BOOLEAN
        BY <1>1, QueueNumbers
      <4> QED
        BY <2>4, <4>1, FitsTheBucket
    <3>2. since' \in 0 .. LongSince
      BY <2>1, QueueConstants
    <3>3. inRow' \in 0 .. Burst
      BY <2>1, <1>1, QueueConstants DEF Least, QueueTypeOK
    <3>4. started' \in [0 .. Window -> 0 .. MaxRequests]
      <4>1. \A t \in 0 .. Window : started[t] + 1 \in 0 .. MaxRequests
        BY <2>6, QueueConstants
      <4> QED
        BY <4>1, <2>1
    <3> QED
      BY <3>1, <3>2, <3>3, <3>4, <2>1, <2>5, <1>1, <1>2 DEF QueueTypeOK
  <2>8. RateInvariant'
    <3>1. ASSUME NEW t \in 0 .. Window
          PROVE /\ t < since' => started'[t] = 0
                /\ started'[t] + tokens' <= Capacity[synced'] + (t - since') * Refill[synced']
      <4> DEFINE all == t * Refill[synced]
      <4>1. (t < since' => started'[t] = 0) /\ (t - since') * Refill[synced] = all
        BY <2>1, <1>6
      <4>2. all \in Nat /\ started[t] + Balance <= Capacity[synced] + all
        BY <1>5
      <4>3. started'[t] + tokens' = started[t] + Balance
        BY <2>1, <2>3, <2>6, <1>3
      <4> QED
        BY <4>1, <4>2, <4>3, <1>2
    <3>2. waitingFor'["bulk"] + waitingFor'["urgent"] <= requested
      <4>1. waitingFor["bulk"] + waitingFor["urgent"] <= requested
        BY <1>1 DEF RateInvariant
      <4> QED
        BY <4>1, <2>5, <1>1, QueueNumbers
    <3> QED
      BY <3>1, <3>2, <2>4, <2>6, <1>2 DEF RateInvariant
  <2>9. UrgentInvariant'
    BY <2>1 DEF UrgentInvariant
  <2> QED
    BY <2>7, <2>8, <2>9 DEF QueueInvariant
<1> QED
  BY <1>4, <1>7, <1>8, <1>9

LEMMA QueueStepKeeps == QueueInvariant /\ [QueueNext]_queueVars => QueueInvariant'
<1> SUFFICES ASSUME QueueInvariant, [QueueNext]_queueVars PROVE QueueInvariant'
  OBVIOUS
<1>1. ASSUME NEW kind \in {"bulk", "urgent"}, Request(kind) PROVE QueueInvariant'
  BY <1>1, RequestKeeps
<1>2. CASE Pass
  BY <1>2, PassKeeps
<1>3. CASE WaitEnds
  BY <1>3, WaitEndsKeeps
<1>4. CASE QueueTick
  BY <1>4, QueueTickKeeps
<1>5. ASSUME NEW limited \in BOOLEAN, NEW sync \in BOOLEAN, Completes(limited, sync) PROVE QueueInvariant'
  BY <1>5, CompletesKeeps
<1>6. CASE UNCHANGED queueVars
  BY <1>6 DEF queueVars, QueueInvariant, QueueTypeOK, RateInvariant, UrgentInvariant, Balance
<1> QED
  BY <1>1, <1>2, <1>3, <1>4, <1>5, <1>6, Zenon DEF QueueNext

LEMMA QueueInvariantPaces == QueueInvariant => RequestsArePaced
<1> SUFFICES ASSUME QueueInvariant PROVE RequestsArePaced
  OBVIOUS
<1>1. QueueTypeOK /\ RateInvariant /\ UrgentInvariant
  BY DEF QueueInvariant
<1>2. WithinRate
  <2> DEFINE all == Window * Refill[synced]
             rest == (Window - since) * Refill[synced]
  <2>1. Window \in 0 .. Window /\ Window \in Nat
    BY QueueConstants
  <2>2. since \in Nat /\ Refill[synced] \in Nat /\ Capacity[synced] \in Nat /\ tokens \in Nat
        /\ started[Window] \in Nat
    BY <2>1, <1>1, QueueNumbers
  <2>3. all \in Nat
    BY <2>1, <2>2
  <2>4. CASE Window < since
    <3>1. started[Window] = 0
      BY <2>1, <2>4, <1>1 DEF RateInvariant
    <3> HIDE DEF all
    <3>2. started[Window] <= Capacity[synced] + all
      BY <3>1, <2>2, <2>3
    <3> QED
      BY <3>2 DEF WithinRate, all
  <2>5. CASE Window >= since
    <3>1. Window - since \in Nat /\ Window - since <= Window
      BY <2>1, <2>2, <2>5
    <3>2. rest \in Nat /\ rest <= all
      BY <3>1, <2>1, <2>2, TimesGrows
    <3>3. started[Window] + tokens <= Capacity[synced] + rest
      BY <2>1, <2>5, <1>1 DEF RateInvariant
    <3> HIDE DEF all, rest
    <3>4. started[Window] <= Capacity[synced] + all
      BY <3>2, <3>3, <2>2, <2>3
    <3> QED
      BY <3>4 DEF WithinRate, all
  <2> QED
    BY <2>1, <2>2, <2>4, <2>5
<1>3. UrgentIsNotHeld
  <2> DEFINE c == CeilDiv(Max({1 - Balance, 0}), Refill[synced])
  <2>1. Balance \in Nat /\ paused \in Nat /\ waitFor \in Nat /\ Refill[synced] \in Nat \ {0}
    BY <1>1, BalanceBounds, QueueNumbers
  <2>2. c = IF Balance = 0 THEN 1 ELSE 0
    BY <2>1, UrgentLack
  <2> HIDE DEF c
  <2>3. Max({paused, c}) = IF paused >= c THEN paused ELSE c
    BY <2>1, <2>2, MaxOfTwo
  <2>4. drain = "waiting" /\ waitingFor["urgent"] > 0 => waitFor <= Max({paused, c})
    BY <2>1, <2>2, <2>3, <1>1 DEF UrgentInvariant
  <2> QED
    BY <2>4 DEF UrgentIsNotHeld, c
<1> QED
  BY <1>2, <1>3 DEF RequestsArePaced

\* Tokens, waits and counts of the queue keep their types, for every capacity,
\* refill, reserve, burst, pause and window (phone-request-queue.ts drain).
THEOREM QueueIsTyped == QueueSpec => []QueueTypeOK
<1>1. QueueInvariant => QueueTypeOK
  BY DEF QueueInvariant
<1> QED
  BY <1>1, QueueInitHolds, QueueStepKeeps, PTL DEF QueueSpec

\* Whatever is requested, refused, paused and negotiated, the service sees in no
\* window more commands than a bucket and its refill, and an urgent request
\* never sits through a wait for the budget of bulk work
\* (phone-request-queue.ts drain).
THEOREM QueueIsPaced == QueueSpec => []RequestsArePaced
  BY QueueInitHolds, QueueStepKeeps, QueueInvariantPaces, PTL DEF QueueSpec
=============================================================================
