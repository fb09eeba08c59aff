------------------------------- MODULE CallProofs -------------------------------
(*****************************************************************************)
(* What a group call keeps for every number of devices and every order of    *)
(* their controls (module GroupCalls), the media of a direct call for every  *)
(* number of changes, copies and failures (module CallMedia), and direct     *)
(* calls for every number of phones, calls and troubles (module Calls).      *)
(*****************************************************************************)
EXTENDS Calls, GroupCalls, CallMedia, FiniteSetTheorems, TLAPS

------------------------------------------------------------------------------
(* The group call: the inductive invariant                                   *)

Invited(d) == GControl(Host, d, "invite")
Joined(d, e) == GControl(d, e, "accept")

\* Nobody but the host is in the call before it was invited, and the host
\* invites when its stream is there.
InvitedFirst ==
    /\ \A d \in Members \ {Host} : gview[d] # "none" => Invited(d) \in gposted
    /\ \A d \in gcapt : gview[d] \notin {"none", "incoming"}
    /\ gview[Host] # "incoming"
    /\ \A c \in gposted : gview[c.from] # "none" /\ gview[Host] # "none"
    /\ \A c \in gposted : c.act = "invite" => c.from = Host
    /\ \A d \in Members : Invited(d) \in gposted => Host \notin gcapt
    /\ \A d \in Members : Invited(d) \in gdone => gview[d] # "none"

\* A device has a stream as long as it is in the call, and what it says of its
\* departure is said at the end.
StreamsAreLive ==
    /\ \A d \in glocal : gview[d] \in {"ringing", "connecting", "active"}
    /\ \A c \in gposted : c.act \in {"decline", "end"} => gview[c.from] = "ended"
    /\ \A d \in Members : \A e \in gbanned[d] : gview[e] = "ended"

\* A participant is ready because it said so, and one that is linked was ready.
ReadyBecauseAccepted ==
    /\ \A d \in Members : \A e \in gready[d] : Joined(e, d) \in gposted
    /\ \A d, e \in Members : seat[d][e] = "active" =>
           Joined(e, d) \in gposted /\ (d \in glocal \/ gview[d] = "ended")

\* Readiness is answered, unless the answer is lost, and known once it is projected.
ReadinessIsAnswered ==
    /\ \A d \in glocal : \A e \in gready[d] : e # d /\ Seated(d, e) => Joined(d, e) \in gposted \cup glost
    /\ InOrder => \A d, e \in Members :
           /\ Joined(d, e) \in gdone /\ d # e
           /\ Seated(e, d) /\ ~Through(e) /\ d \notin gbanned[e]
           => d \in gready[e]

GroupInv ==
    /\ GroupTypeOK
    /\ InvitedFirst /\ StreamsAreLive /\ ReadyBecauseAccepted /\ ReadinessIsAnswered
------------------------------------------------------------------------------
(* The group call: what the steps are made of                                *)

Views == {"none", "missed", "incoming", "ringing", "connecting", "active", "ended"}
Seats == {"ringing", "connecting", "active"} \cup Over

LEMMA EndGroupEffect ==
  ASSUME GroupTypeOK, NEW d \in Members, NEW told \in SUBSET Peers(d), EndGroup(d, told)
  PROVE  /\ gview' \in [Members -> Views]
         /\ \A x \in Members : gview'[x] = IF x = d THEN "ended" ELSE gview[x]
         /\ glocal' = glocal \ {d}
         /\ garmed' \in [Members -> SUBSET Members]
         /\ gposted \subseteq gposted' /\ gposted' \subseteq GControls
         /\ \A c \in gposted' : c \in gposted \/ (c.from = d /\ c.act \in {"decline", "end"})
<1>1. /\ gview' \in [Members -> Views]
      /\ \A x \in Members : gview'[x] = IF x = d THEN "ended" ELSE gview[x]
  BY DEF EndGroup, GroupTypeOK, Views
<1>2. garmed' \in [Members -> SUBSET Members]
  BY DEF EndGroup, GroupTypeOK
<1>3. ASSUME NEW c \in gposted', c \notin gposted
      PROVE  c \in GControls /\ c.from = d /\ c.act \in {"decline", "end"}
  <2>1. PICK e \in told : c = GControl(d, e, IF gview[d] = "incoming" THEN "decline" ELSE "end")
    BY <1>3 DEF EndGroup
  <2>2. e \in Members
    BY DEF Peers
  <2> QED
    BY <2>1, <2>2 DEF GControl, GControls
<1> QED
  BY <1>1, <1>2, <1>3 DEF EndGroup, GroupTypeOK

LEMMA LeaveSeatEffect ==
  ASSUME GroupTypeOK, NEW d \in Members, NEW e \in Members, NEW left \in Over, LeaveSeat(d, e, left)
  PROVE  /\ seat' \in [Members -> [Members -> Seats]]
         /\ \A x, y \in Members : seat'[x][y] = IF x = d /\ y = e THEN left ELSE seat[x][y]
         /\ gready' \in [Members -> SUBSET Members]
         /\ \A x \in Members : gready'[x] = IF x = d THEN gready[x] \ {e} ELSE gready[x]
         /\ gview' \in [Members -> Views] /\ garmed' \in [Members -> SUBSET Members]
         /\ gposted' = gposted /\ glocal' \subseteq glocal
         /\ \/ gview' = gview /\ glocal' = glocal
            \/ /\ \A x \in Members : gview'[x] = IF x = d THEN "ended" ELSE gview[x]
               /\ glocal' = glocal \ {d}
<1>1. /\ seat' \in [Members -> [Members -> Seats]]
      /\ \A x, y \in Members : seat'[x][y] = IF x = d /\ y = e THEN left ELSE seat[x][y]
  BY DEF LeaveSeat, GroupTypeOK, Seats
<1>2. /\ gready' \in [Members -> SUBSET Members]
      /\ \A x \in Members : gready'[x] = IF x = d THEN gready[x] \ {e} ELSE gready[x]
  BY DEF LeaveSeat, GroupTypeOK
<1>3. CASE EndGroup(d, {})
  <2>1. gposted' = gposted
    BY <1>3 DEF EndGroup
  <2> QED
    BY <1>1, <1>2, <1>3, <2>1, EndGroupEffect
<1>4. CASE ~EndGroup(d, {})
  <2>1. /\ gview' = gview /\ glocal' = glocal /\ gposted' = gposted
        /\ garmed' = [garmed EXCEPT ![d] = @ \ {e}]
    BY <1>4 DEF LeaveSeat
  <2>2. garmed' \in [Members -> SUBSET Members]
    BY <2>1 DEF GroupTypeOK
  <2>3. gview \in [Members -> Views]
    BY DEF GroupTypeOK, Views
  <2> QED
    BY <1>1, <1>2, <2>1, <2>2, <2>3
<1> QED
  BY <1>3, <1>4

LEMMA ConnectSeatsEffect ==
  ASSUME GroupTypeOK, NEW d \in Members, NEW them \in SUBSET Members, ConnectSeats(d, them)
  PROVE  /\ seat' \in [Members -> [Members -> Seats]]
         /\ \A x, y \in Members : \/ seat'[x][y] = seat[x][y]
                                  \/ seat[x][y] \notin Over /\ seat'[x][y] = "connecting"
         /\ gview' \in [Members -> Views]
         /\ \A x \in Members : gview'[x] = gview[x] \/ (x = d /\ gview'[x] = "connecting")
         /\ goffers' \in [Members -> SUBSET Members]
<1> DEFINE go == Joinable(d, them)
<1>1. go \subseteq them /\ \A e \in go : seat[d][e] \in {"ringing", "connecting"}
  BY DEF Joinable
<1>2. seat' = [seat EXCEPT ![d] = [e \in Members |-> IF e \in go THEN "connecting" ELSE seat[d][e]]]
  BY DEF ConnectSeats
<1>3. /\ gview' = [gview EXCEPT ![d] = IF go # {} /\ gview[d] # "active" THEN "connecting" ELSE gview[d]]
      /\ goffers' = [goffers EXCEPT ![d] = goffers[d] \cup {e \in go : d < e}]
  BY DEF ConnectSeats
<1> HIDE DEF go
<1>4. /\ seat' \in [Members -> [Members -> Seats]]
      /\ \A x, y \in Members : seat'[x][y] = IF x = d /\ y \in go THEN "connecting" ELSE seat[x][y]
  BY <1>2 DEF GroupTypeOK, Seats
<1>5. /\ gview' \in [Members -> Views]
      /\ \A x \in Members : gview'[x] = gview[x] \/ (x = d /\ gview'[x] = "connecting")
  BY <1>3 DEF GroupTypeOK, Views
<1>6. goffers' \in [Members -> SUBSET Members]
  BY <1>1, <1>3 DEF GroupTypeOK
<1> QED
  BY <1>1, <1>4, <1>5, <1>6 DEF Over

\* What is sent is posted or lost.
LEMMA SendEffect ==
  ASSUME GroupTypeOK, NEW d \in Members, NEW them \in SUBSET Members, NEW lost, NEW act,
         act \in {"invite", "accept"}, Send(d, them, lost, act), lost \subseteq them
  PROVE  /\ gposted \subseteq gposted' /\ gposted' \subseteq GControls
         /\ glost \subseteq glost' /\ glost' \subseteq GControls
         /\ \A c \in gposted' : c \in gposted \/ (c \in GControls /\ c.from = d /\ c.act = act)
         /\ \A e \in them : GControl(d, e, act) \in gposted' \cup glost'
<1>1. \A e \in Members : /\ GControl(d, e, act) \in GControls
                         /\ GControl(d, e, act).from = d /\ GControl(d, e, act).act = act
  BY DEF GControl, GControls
<1> QED
  BY <1>1 DEF Send, GroupTypeOK

\* What a posted control is.
LEMMA Posted ==
  ASSUME GroupTypeOK, NEW c \in gposted
  PROVE  c \in GControls /\ c.from \in Members /\ c.to \in Members
BY DEF GroupTypeOK, GControls

LEMMA GroupInitInv == GroupInit => GroupInv
<1> SUFFICES ASSUME GroupInit
             PROVE  GroupInv
  OBVIOUS
<1>1. GroupTypeOK
  BY GroupAssumption DEF GroupInit, GroupTypeOK
<1>2. InvitedFirst /\ StreamsAreLive
  BY GroupAssumption DEF GroupInit, InvitedFirst, StreamsAreLive
<1>3. ReadyBecauseAccepted /\ ReadinessIsAnswered
  BY DEF GroupInit, ReadyBecauseAccepted, ReadinessIsAnswered
<1> QED
  BY <1>1, <1>2, <1>3 DEF GroupInv
------------------------------------------------------------------------------
(* The group call: the steps                                                 *)

\* What is banned and projected meanwhile, of departures only.
Departures ==
    /\ gbanned' \in [Members -> SUBSET Members]
    /\ \A x \in Members : /\ gbanned[x] \subseteq gbanned'[x]
                          /\ \A y \in gbanned'[x] : y \in gbanned[x] \/ gview[y] = "ended"
    /\ gdone \subseteq gdone' /\ gdone' \subseteq gposted
    /\ \A c \in gdone' : c \in gdone \/ c.act \in {"decline", "end"}

LEMMA EndKeepsInv ==
  ASSUME GroupInv, NEW d \in Members, GLive(d), NEW told \in SUBSET Peers(d), EndGroup(d, told),
         gcapt' \subseteq gcapt, Departures, UNCHANGED <<seat, gready, goffers, glost, gaged>>
  PROVE  GroupInv'
<1> USE DEF GroupInv
<1>1. /\ gview' \in [Members -> Views]
      /\ \A x \in Members : gview'[x] = IF x = d THEN "ended" ELSE gview[x]
      /\ glocal' = glocal \ {d}
      /\ garmed' \in [Members -> SUBSET Members]
      /\ gposted \subseteq gposted' /\ gposted' \subseteq GControls
      /\ \A c \in gposted' : c \in gposted \/ (c.from = d /\ c.act \in {"decline", "end"})
  BY EndGroupEffect
<1>2. gview[d] \notin {"none", "ended", "missed"}
  BY DEF GLive
<1>3. GroupTypeOK'
  BY <1>1 DEF GroupTypeOK, Departures, Views
<1>4. \A c \in gposted : c.from \in Members
  BY Posted
<1>5. \A x, y \in Members : /\ Joined(x, y) \in gposted' => Joined(x, y) \in gposted
                            /\ Joined(x, y) \in gdone' => Joined(x, y) \in gdone
                            /\ Invited(x) \in gposted' => Invited(x) \in gposted
                            /\ Invited(x) \in gdone' => Invited(x) \in gdone
  BY <1>1 DEF Joined, Invited, GControl, Departures
<1>6. InvitedFirst'
  <2>1. Host \in Members /\ (Host = d => gview[Host] # "none")
    BY <1>2, GroupAssumption
  <2>2. \A x \in Members \ {Host} : gview'[x] # "none" => Invited(x) \in gposted'
    BY <1>1, <1>2 DEF InvitedFirst, Invited
  <2>3. \A x \in gcapt' : gview'[x] \notin {"none", "incoming"}
    BY <1>1 DEF InvitedFirst, GroupTypeOK
  <2>4. gview[Host] # "none"
    <3>1. CASE d = Host
      BY <1>2, <3>1
    <3>2. CASE d # Host
      BY <1>2, <3>2 DEF InvitedFirst
    <3> QED
      BY <3>1, <3>2
  <2>5. \A c \in gposted' : gview'[c.from] # "none" /\ gview'[Host] # "none"
    BY <1>1, <1>2, <1>4, <2>1, <2>4 DEF InvitedFirst
  <2>6. \A x \in Members : Invited(x) \in gposted' => Host \notin gcapt'
    BY <1>5 DEF InvitedFirst
  <2>7. \A x \in Members : Invited(x) \in gdone' => gview'[x] # "none"
    BY <1>1, <1>5 DEF InvitedFirst
  <2>8. gview'[Host] # "incoming"
    BY <1>1, <2>1 DEF InvitedFirst
  <2>9. \A c \in gposted' : c.act = "invite" => c.from = Host
    BY <1>1 DEF InvitedFirst
  <2> QED
    BY <2>2, <2>3, <2>5, <2>6, <2>7, <2>8, <2>9 DEF InvitedFirst, Invited
<1>7. StreamsAreLive'
  <2>1. \A x \in glocal' : gview'[x] \in {"ringing", "connecting", "active"}
    BY <1>1 DEF StreamsAreLive, GroupTypeOK
  <2>2. \A c \in gposted' : c.act \in {"decline", "end"} => gview'[c.from] = "ended"
    BY <1>1, <1>4 DEF StreamsAreLive
  <2>3. \A x \in Members : \A y \in gbanned'[x] : y \in Members /\ gview'[y] = "ended"
    BY <1>1 DEF StreamsAreLive, Departures
  <2> QED
    BY <2>1, <2>2, <2>3 DEF StreamsAreLive
<1>8. ReadyBecauseAccepted'
  BY <1>1 DEF ReadyBecauseAccepted, Joined
<1>9. ReadinessIsAnswered'
  <2>1. \A x \in Members : ~Through(x)' => x # d /\ ~Through(x)
    BY <1>1 DEF Through
  <2>2. \A x, y \in Members : Seated(x, y)' = Seated(x, y)
    BY DEF Seated
  <2>3. \A x \in glocal' : \A y \in gready'[x] : y # x /\ Seated(x, y)' => Joined(x, y) \in gposted' \cup glost'
    BY <1>1, <2>2 DEF ReadinessIsAnswered, GroupTypeOK
  <2>4. \A x, y \in Members : y \in gbanned[x] => y \in gbanned'[x]
    BY DEF Departures
  <2>5. InOrder => \A x, y \in Members :
                     /\ Joined(x, y) \in gdone' /\ x # y
                     /\ Seated(y, x)' /\ ~Through(y)' /\ x \notin gbanned'[y]
                     => x \in gready'[y]
    BY <1>5, <2>1, <2>2, <2>4 DEF ReadinessIsAnswered
  <2> QED
    BY <2>3, <2>5 DEF ReadinessIsAnswered, Joined
<1> QED
  BY <1>3, <1>6, <1>7, <1>8, <1>9

LEMMA LeaveKeepsInv ==
  ASSUME GroupInv, NEW d \in Members, GLive(d), NEW e \in Members, NEW left \in Over,
         LeaveSeat(d, e, left), Departures, UNCHANGED <<goffers, gcapt, glost, gaged>>
  PROVE  GroupInv'
<1> USE DEF GroupInv
<1>1. /\ seat' \in [Members -> [Members -> Seats]]
      /\ \A x, y \in Members : seat'[x][y] = IF x = d /\ y = e THEN left ELSE seat[x][y]
      /\ gready' \in [Members -> SUBSET Members]
      /\ \A x \in Members : gready'[x] = IF x = d THEN gready[x] \ {e} ELSE gready[x]
      /\ gview' \in [Members -> Views] /\ garmed' \in [Members -> SUBSET Members]
      /\ gposted' = gposted /\ glocal' \subseteq glocal
      /\ \/ gview' = gview /\ glocal' = glocal
         \/ /\ \A x \in Members : gview'[x] = IF x = d THEN "ended" ELSE gview[x]
            /\ glocal' = glocal \ {d}
  BY LeaveSeatEffect
<1>2. gview[d] \notin {"none", "ended", "missed"}
  BY DEF GLive
<1>3. \A x \in Members : /\ gview'[x] = gview[x] \/ (gview'[x] = "ended" /\ x = d)
                         /\ x \in glocal' => x \in glocal /\ gview'[x] = gview[x]
                         /\ x \in glocal => x \in glocal' \/ gview'[x] = "ended"
  BY <1>1
<1>4. glocal' \subseteq glocal
  BY <1>1
<1>5. GroupTypeOK'
  BY <1>1, <1>4 DEF GroupTypeOK, Departures, Seats, Views
<1>6. \A x, y \in Members : /\ Joined(x, y) \in gdone' => Joined(x, y) \in gdone
                            /\ Invited(x) \in gdone' => Invited(x) \in gdone
  BY DEF Joined, Invited, GControl, Departures
<1>7. InvitedFirst'
  <2>1. \A x \in Members : gview'[x] # "none" <=> gview[x] # "none"
    BY <1>2, <1>3
  <2>2. \A c \in gposted : c.from \in Members
    BY Posted
  <2>3. \A x \in gcapt : x \in Members /\ gview'[x] \notin {"none", "incoming"}
    BY <1>3 DEF InvitedFirst, GroupTypeOK
  <2>4. gview'[Host] # "incoming"
    BY <1>3, GroupAssumption DEF InvitedFirst
  <2> QED
    BY <1>1, <1>6, <2>1, <2>2, <2>3, <2>4, GroupAssumption DEF InvitedFirst, Invited
<1>8. StreamsAreLive'
  <2>1. \A x \in Members : gview[x] = "ended" => gview'[x] = "ended"
    BY <1>3
  <2>2. \A c \in gposted : c.from \in Members
    BY Posted
  <2>3. \A x \in glocal' : gview'[x] \in {"ringing", "connecting", "active"}
    BY <1>3, <1>4 DEF StreamsAreLive, GroupTypeOK
  <2>4. \A x \in Members : \A y \in gbanned'[x] : y \in Members /\ gview'[y] = "ended"
    BY <2>1 DEF StreamsAreLive, Departures
  <2> QED
    BY <1>1, <2>1, <2>2, <2>3, <2>4 DEF StreamsAreLive
<1>9. ReadyBecauseAccepted'
  <2>1. \A x \in Members : gready'[x] \subseteq gready[x]
    BY <1>1
  <2>2. \A x, y \in Members : seat'[x][y] = "active" => seat[x][y] = "active"
    BY <1>1 DEF Over
  <2>3. \A x \in Members : gview[x] = "ended" => gview'[x] = "ended"
    BY <1>3
  <2> QED
    BY <1>1, <1>3, <2>1, <2>2, <2>3 DEF ReadyBecauseAccepted, Joined
<1>10. ReadinessIsAnswered'
  <2>1. \A x, y \in Members : Seated(x, y)' => Seated(x, y) /\ ~(x = d /\ y = e)
    BY <1>1 DEF Seated
  <2>2. \A x \in Members : ~Through(x)' => ~Through(x)
    BY <1>3 DEF Through
  <2>3. \A x, y \in Members : /\ y \in gready'[x] => y \in gready[x]
                              /\ y \in gready[x] /\ ~(x = d /\ y = e) => y \in gready'[x]
    BY <1>1
  <2>4. \A x \in glocal' : \A y \in gready'[x] : y # x /\ Seated(x, y)' => Joined(x, y) \in gposted' \cup glost'
    BY <1>1, <1>4, <2>1, <2>3 DEF ReadinessIsAnswered, GroupTypeOK
  <2>5. \A x, y \in Members : y \in gbanned[x] => y \in gbanned'[x]
    BY DEF Departures
  <2>6. InOrder => \A x, y \in Members :
                     /\ Joined(x, y) \in gdone' /\ x # y
                     /\ Seated(y, x)' /\ ~Through(y)' /\ x \notin gbanned'[y]
                     => x \in gready'[y]
    BY <1>6, <2>1, <2>2, <2>3, <2>5 DEF ReadinessIsAnswered
  <2> QED
    BY <2>4, <2>6 DEF ReadinessIsAnswered, Joined
<1> QED
  BY <1>5, <1>7, <1>8, <1>9, <1>10
\* Departures alone, a capture given up, the invites' age.
LEMMA QuietKeepsInv ==
  ASSUME GroupInv, gcapt' \subseteq gcapt, Departures, gaged' \in BOOLEAN,
         UNCHANGED <<gview, seat, glocal, gready, goffers, garmed, gposted, glost>>
  PROVE  GroupInv'
<1> USE DEF GroupInv
<1>1. GroupTypeOK'
  BY DEF GroupTypeOK, Departures
<1>2. \A x, y \in Members : /\ Joined(x, y) \in gdone' => Joined(x, y) \in gdone
                            /\ Invited(x) \in gdone' => Invited(x) \in gdone
  BY DEF Joined, Invited, GControl, Departures
<1>3. InvitedFirst'
  BY <1>2 DEF InvitedFirst, Invited
<1>4. StreamsAreLive'
  <2>1. \A x \in Members : \A y \in gbanned'[x] : gview'[y] = "ended"
    BY DEF StreamsAreLive, Departures
  <2> QED
    BY <2>1 DEF StreamsAreLive
<1>5. ReadyBecauseAccepted'
  BY DEF ReadyBecauseAccepted, Joined
<1>6. ReadinessIsAnswered'
  <2>1. \A x, y \in Members : Seated(x, y)' = Seated(x, y) /\ Through(x)' = Through(x)
    BY DEF Seated, Through
  <2>2. \A x, y \in Members : y \in gbanned[x] => y \in gbanned'[x]
    BY DEF Departures
  <2>3. \A x \in glocal' : \A y \in gready'[x] : y # x /\ Seated(x, y)' => Joined(x, y) \in gposted' \cup glost'
    BY <2>1 DEF ReadinessIsAnswered, GroupTypeOK
  <2>4. InOrder => \A x, y \in Members :
                     /\ Joined(x, y) \in gdone' /\ x # y
                     /\ Seated(y, x)' /\ ~Through(y)' /\ x \notin gbanned'[y]
                     => x \in gready'[y]
    BY <1>2, <2>1, <2>2 DEF ReadinessIsAnswered
  <2> QED
    BY <2>3, <2>4 DEF ReadinessIsAnswered, Joined
<1> QED
  BY <1>1, <1>3, <1>4, <1>5, <1>6

LEMMA NobodyDeparts ==
  ASSUME GroupTypeOK, UNCHANGED <<gbanned, gdone>>
  PROVE  Departures
<1>1. \A x \in Members : gbanned[x] \subseteq gbanned'[x] /\ \A y \in gbanned'[x] : y \in gbanned[x]
  OBVIOUS
<1> QED
  BY <1>1 DEF GroupTypeOK, Departures

\* Before the host starts the call nothing was said about it.
LEMMA StartKeepsInv == ASSUME GroupInv, StartGroup PROVE GroupInv'
<1> USE DEF GroupInv
<1>1. gposted = {} /\ gdone = {}
  BY DEF InvitedFirst, StartGroup, GroupTypeOK
<1>2. /\ gview' \in [Members -> Views] /\ gview[Host] = "none" /\ Host \in Members
      /\ \A x \in Members : gview'[x] = IF x = Host THEN "ringing" ELSE gview[x]
      /\ gcapt' = gcapt \cup {Host}
      /\ UNCHANGED <<seat, glocal, gready, goffers, garmed, gposted, glost, gdone, gbanned, gaged>>
  BY GroupAssumption DEF StartGroup, GroupTypeOK, Views
<1>3. GroupTypeOK'
  BY <1>2 DEF GroupTypeOK, Views
<1>4. InvitedFirst'
  BY <1>1, <1>2 DEF InvitedFirst, Invited, GroupTypeOK
<1>5. StreamsAreLive'
  BY <1>1, <1>2 DEF StreamsAreLive, GroupTypeOK
<1>6. ReadyBecauseAccepted'
  BY <1>1, <1>2 DEF ReadyBecauseAccepted, Joined
<1>7. ReadinessIsAnswered'
  BY <1>1, <1>2 DEF ReadinessIsAnswered, Joined, Seated
<1> QED
  BY <1>3, <1>4, <1>5, <1>6, <1>7

\* The host has nobody's readiness yet: whoever answered was invited before.
LEMMA InviteKeepsInv == ASSUME GroupInv, InviteAll PROVE GroupInv'
<1> USE DEF GroupInv
<1>1. Host \in Members /\ Host \in gcapt
  BY GroupAssumption DEF InviteAll
<1>2. CASE ~GLive(Host)
  <2>1. Departures
    BY NobodyDeparts DEF InviteAll
  <2> QED
    BY <1>2, <2>1, QuietKeepsInv DEF InviteAll, GroupTypeOK
<1>3. CASE GLive(Host)
  <2>1. PICK lost \in SUBSET Peers(Host) :
          /\ Send(Host, Peers(Host), lost, "invite")
          /\ seat' = [seat EXCEPT ![Host] = [e \in Members |-> IF e \in lost THEN "failed" ELSE seat[Host][e]]]
          /\ gready' = [gready EXCEPT ![Host] = gready[Host] \ lost]
          /\ \/ /\ gview' = [gview EXCEPT ![Host] = "ended"]
                /\ garmed' = [garmed EXCEPT ![Host] = {}]
                /\ glocal' = glocal \ {Host}
             \/ /\ glocal' = glocal \cup {Host}
                /\ garmed' = [garmed EXCEPT ![Host] = Peers(Host) \ lost]
                /\ gview' = gview
    BY <1>3 DEF InviteAll
  <2>2. gcapt' = gcapt \ {Host} /\ UNCHANGED <<goffers, gdone, gbanned, gaged>>
    BY DEF InviteAll
  <2>3. /\ gposted \subseteq gposted' /\ gposted' \subseteq GControls
        /\ glost \subseteq glost' /\ glost' \subseteq GControls
        /\ \A c \in gposted' : c \in gposted \/ (c \in GControls /\ c.from = Host /\ c.act = "invite")
    BY <1>1, <2>1, SendEffect DEF Peers
  <2>4. gview[Host] \in {"ringing", "connecting", "active"}
    BY <1>1, <1>3 DEF InvitedFirst, GLive
  <2>5. /\ gview' \in [Members -> Views] /\ garmed' \in [Members -> SUBSET Members]
        /\ \A x \in Members : gview'[x] = gview[x] \/ (x = Host /\ gview'[x] = "ended")
        /\ glocal' \subseteq glocal \cup {Host} /\ \A x \in glocal' : gview'[x] = gview[x]
        /\ \A x \in glocal : x \in glocal' \/ gview'[x] = "ended"
    <3>1. CASE /\ gview' = [gview EXCEPT ![Host] = "ended"]
               /\ garmed' = [garmed EXCEPT ![Host] = {}]
               /\ glocal' = glocal \ {Host}
      BY <1>1, <3>1 DEF GroupTypeOK, Views
    <3>2. CASE /\ glocal' = glocal \cup {Host}
               /\ garmed' = [garmed EXCEPT ![Host] = Peers(Host) \ lost]
               /\ gview' = gview
      BY <1>1, <3>2 DEF GroupTypeOK, Views, Peers
    <3> QED
      BY <2>1, <3>1, <3>2
  <2>6. /\ seat' \in [Members -> [Members -> Seats]] /\ gready' \in [Members -> SUBSET Members]
        /\ \A x, y \in Members : seat'[x][y] = IF x = Host /\ y \in lost THEN "failed" ELSE seat[x][y]
        /\ \A x \in Members : gready'[x] = IF x = Host THEN gready[x] \ lost ELSE gready[x]
    <3> DEFINE row == [e \in Members |-> IF e \in lost THEN "failed" ELSE seat[Host][e]]
    <3>1. /\ seat' = [seat EXCEPT ![Host] = row]
          /\ gready' = [gready EXCEPT ![Host] = @ \ lost]
      BY <1>1, <2>1 DEF GroupTypeOK
    <3>2. row \in [Members -> Seats]
      BY <1>1 DEF GroupTypeOK, Seats, Over
    <3> HIDE DEF row
    <3>3. seat' \in [Members -> [Members -> Seats]] /\ gready' \in [Members -> SUBSET Members]
      <4>1. seat \in [Members -> [Members -> Seats]] /\ gready \in [Members -> SUBSET Members]
        BY DEF GroupTypeOK, Seats
      <4> QED
        BY <1>1, <3>1, <3>2, <4>1
    <3>4. \A x \in Members : seat'[x] = IF x = Host THEN row ELSE seat[x]
      BY <1>1, <3>1 DEF GroupTypeOK
    <3>5. \A y \in Members : row[y] = IF y \in lost THEN "failed" ELSE seat[Host][y]
      BY DEF row
    <3>6. \A x \in Members : gready'[x] = IF x = Host THEN gready[x] \ lost ELSE gready[x]
      BY <1>1, <3>1 DEF GroupTypeOK
    <3> QED
      BY <3>3, <3>4, <3>5, <3>6
  <2>7. GroupTypeOK'
    BY <1>1, <2>2, <2>3, <2>5, <2>6 DEF GroupTypeOK, Seats, Views
  <2>8. \A x \in Members : gview[x] = "ended" => gview'[x] = "ended"
    BY <2>5
  <2>9. \A c \in gposted : c.from \in Members
    BY Posted
  <2>10. InvitedFirst'
    <3>1. \A x \in Members : gview'[x] # "none" <=> gview[x] # "none"
      BY <2>4, <2>5
    <3>2. \A x \in gcapt' : gview'[x] \notin {"none", "incoming"}
      BY <2>2, <2>5 DEF InvitedFirst, GroupTypeOK
    <3>3. \A c \in gposted' : gview'[c.from] # "none" /\ gview'[Host] # "none"
      BY <1>1, <2>3, <2>4, <2>9, <3>1 DEF InvitedFirst
    <3>4. \A c \in gposted' : c.act = "invite" => c.from = Host
      BY <2>3 DEF InvitedFirst
    <3>5. gview'[Host] # "incoming"
      BY <1>1, <2>4, <2>5
    <3>6. \A x \in Members \ {Host} : gview'[x] # "none" => Invited(x) \in gposted'
      BY <2>3, <3>1 DEF InvitedFirst
    <3>7. \A x \in Members : Invited(x) \in gdone' => gview'[x] # "none"
      BY <2>2, <3>1 DEF InvitedFirst
    <3> QED
      BY <2>2, <3>2, <3>3, <3>4, <3>5, <3>6, <3>7 DEF InvitedFirst, Invited
  <2>11. StreamsAreLive'
    <3>1. \A x \in glocal' : gview'[x] \in {"ringing", "connecting", "active"}
      BY <2>4, <2>5 DEF StreamsAreLive, GroupTypeOK
    <3>2. \A c \in gposted' : c.act \in {"decline", "end"} => gview'[c.from] = "ended"
      BY <2>3, <2>8, <2>9 DEF StreamsAreLive
    <3>3. \A x \in Members : \A y \in gbanned'[x] : gview'[y] = "ended"
      BY <2>2, <2>8 DEF StreamsAreLive, GroupTypeOK
    <3> QED
      BY <3>1, <3>2, <3>3 DEF StreamsAreLive
  <2>12. ReadyBecauseAccepted'
    <3>1. \A x, y \in Members : seat'[x][y] = "active" => seat[x][y] = "active"
      BY <2>6
    <3>2. \A x \in Members : gready'[x] \subseteq gready[x]
      BY <2>6
    <3>3. \A x, y \in Members : seat'[x][y] = "active" =>
              Joined(y, x) \in gposted' /\ (x \in glocal' \/ gview'[x] = "ended")
      BY <2>3, <2>5, <2>8, <3>1 DEF ReadyBecauseAccepted
    <3> QED
      BY <2>3, <3>2, <3>3 DEF ReadyBecauseAccepted, Joined
  <2>13. gready[Host] \subseteq {Host}
    <3> SUFFICES ASSUME NEW y \in gready[Host], y # Host
                 PROVE  FALSE
      OBVIOUS
    <3>1. y \in Members
      BY <1>1 DEF GroupTypeOK
    <3>2. Joined(y, Host) \in gposted /\ Joined(y, Host).from = y
      BY <1>1 DEF ReadyBecauseAccepted, Joined, GControl
    <3>3. Invited(y) \in gposted
      BY <3>1, <3>2 DEF InvitedFirst
    <3> QED
      BY <1>1, <3>1, <3>3 DEF InvitedFirst
  <2>14. ReadinessIsAnswered'
    <3>1. \A x, y \in Members : /\ Seated(x, y)' => Seated(x, y) /\ ~(x = Host /\ y \in lost)
                                /\ ~Through(x)' => ~Through(x)
      BY <2>6, <2>8, <2>5 DEF Seated, Through, Over
    <3>2. \A x \in glocal' : \A y \in gready'[x] : y # x /\ Seated(x, y)' => Joined(x, y) \in gposted' \cup glost'
      BY <1>1, <2>3, <2>5, <2>6, <2>13, <3>1 DEF ReadinessIsAnswered, GroupTypeOK
    <3>3. InOrder => \A x, y \in Members :
                       /\ Joined(x, y) \in gdone' /\ x # y
                       /\ Seated(y, x)' /\ ~Through(y)' /\ x \notin gbanned'[y]
                       => x \in gready'[y]
      BY <2>2, <2>6, <3>1 DEF ReadinessIsAnswered
    <3> QED
      BY <3>2, <3>3 DEF ReadinessIsAnswered, Joined
  <2> QED
    BY <2>7, <2>10, <2>11, <2>12, <2>14
<1> QED
  BY <1>2, <1>3

LEMMA AcceptKeepsInv == ASSUME GroupInv, NEW d \in Members, AcceptGroup(d) PROVE GroupInv'
<1> USE DEF GroupInv
<1>1. /\ gview[d] = "incoming" /\ d # Host /\ gview' \in [Members -> Views]
      /\ \A x \in Members : gview'[x] = IF x = d THEN "connecting" ELSE gview[x]
      /\ gcapt' = gcapt \cup {d}
      /\ UNCHANGED <<seat, glocal, gready, goffers, garmed, gposted, glost, gdone, gbanned, gaged>>
  BY DEF AcceptGroup, GroupTypeOK, InvitedFirst, Views
<1>2. GroupTypeOK'
  BY <1>1 DEF GroupTypeOK, Views
<1>3. \A c \in gposted : c.from \in Members
  BY Posted
<1>4. InvitedFirst'
  BY <1>1, <1>3, GroupAssumption DEF InvitedFirst, Invited, GroupTypeOK
<1>5. StreamsAreLive'
  BY <1>1, <1>3 DEF StreamsAreLive, GroupTypeOK
<1>6. ReadyBecauseAccepted'
  BY <1>1 DEF ReadyBecauseAccepted, Joined
<1>7. ReadinessIsAnswered'
  <2>1. \A x, y \in Members : Seated(x, y)' = Seated(x, y) /\ Through(x)' = Through(x)
    BY <1>1 DEF Seated, Through
  <2>2. \A x \in glocal' : \A y \in gready'[x] : y # x /\ Seated(x, y)' => Joined(x, y) \in gposted' \cup glost'
    BY <1>1, <2>1 DEF ReadinessIsAnswered, GroupTypeOK
  <2> QED
    BY <1>1, <2>1, <2>2 DEF ReadinessIsAnswered, Joined
<1> QED
  BY <1>2, <1>4, <1>5, <1>6, <1>7

LEMMA JoinKeepsInv == ASSUME GroupInv, NEW d \in Members, JoinAll(d) PROVE GroupInv'
<1> USE DEF GroupInv
<1>1. CASE ~GLive(d)
  <2>1. Departures
    BY NobodyDeparts DEF JoinAll
  <2> QED
    BY <1>1, <2>1, QuietKeepsInv DEF JoinAll, GroupTypeOK
<1>2. CASE GLive(d)
  <2> DEFINE them == {e \in Peers(d) : Seated(d, e)}
  <2>1. /\ d \in gcapt /\ d # Host /\ gcapt' = gcapt \ {d} /\ glocal' = glocal \cup {d}
        /\ garmed' = [garmed EXCEPT ![d] = @ \cup {e \in them : seat[d][e] # "active"}]
        /\ \E lost \in SUBSET them : Send(d, them, lost, "accept")
        /\ ConnectSeats(d, gready[d])
        /\ UNCHANGED <<gready, gdone, gbanned, gaged>>
    BY <1>2 DEF JoinAll
  <2>2. /\ seat' \in [Members -> [Members -> Seats]]
        /\ \A x, y \in Members : \/ seat'[x][y] = seat[x][y]
                                 \/ seat[x][y] \notin Over /\ seat'[x][y] = "connecting"
        /\ gview' \in [Members -> Views]
        /\ \A x \in Members : gview'[x] = gview[x] \/ (x = d /\ gview'[x] = "connecting")
        /\ goffers' \in [Members -> SUBSET Members]
    <3>1. gready[d] \in SUBSET Members
      BY DEF GroupTypeOK
    <3> QED
      BY <2>1, <3>1, ConnectSeatsEffect
  <2>3. them \subseteq Members
    BY DEF Peers
  <2>4. PICK lost \in SUBSET them : Send(d, them, lost, "accept")
    BY <2>1
  <2>5. /\ gposted \subseteq gposted' /\ gposted' \subseteq GControls
        /\ glost \subseteq glost' /\ glost' \subseteq GControls
        /\ \A c \in gposted' : c \in gposted \/ (c \in GControls /\ c.from = d /\ c.act = "accept")
        /\ \A e \in them : Joined(d, e) \in gposted' \cup glost'
    <3> HIDE DEF them
    <3> QED
      BY <2>3, <2>4, SendEffect DEF Joined
  <2>6. gview[d] \in {"ringing", "connecting", "active"}
    BY <1>2, <2>1 DEF InvitedFirst, GLive
  <2>7. garmed' \in [Members -> SUBSET Members]
    BY <2>1, <2>3 DEF GroupTypeOK
  <2>8. GroupTypeOK'
    BY <2>1, <2>2, <2>5, <2>7 DEF GroupTypeOK, Seats, Views
  <2>9. \A x \in Members : gview[x] \in {"none", "incoming", "ended", "missed"} => gview'[x] = gview[x]
    BY <2>2, <2>6
  <2>10. \A c \in gposted : c.from \in Members
    BY Posted
  <2>11. InvitedFirst'
    <3>1. Host \in Members /\ gview'[Host] = gview[Host]
      BY <2>1, <2>2, GroupAssumption
    <3>2. gview'[d] # "none" /\ gview[Host] # "none"
      BY <2>1, <2>2, <2>6 DEF InvitedFirst, Invited, GControl
    <3>3. \A x \in Members : Invited(x) \in gposted' => Invited(x) \in gposted
      BY <2>5 DEF Invited, GControl
    <3>4. \A c \in gposted' : gview'[c.from] # "none" /\ gview'[Host] # "none"
      BY <2>2, <2>5, <2>10, <3>1, <3>2 DEF InvitedFirst
    <3>5. \A x \in gcapt' : gview'[x] \notin {"none", "incoming"}
      BY <2>1, <2>2 DEF InvitedFirst, GroupTypeOK
    <3>6. \A x \in Members \ {Host} : gview'[x] # "none" => Invited(x) \in gposted'
      BY <2>5, <2>9 DEF InvitedFirst
    <3>7. \A x \in Members : Invited(x) \in gposted' => Host \notin gcapt'
      BY <2>1, <3>3 DEF InvitedFirst
    <3>8. \A x \in Members : Invited(x) \in gdone' => gview'[x] # "none"
      BY <2>1, <2>2 DEF InvitedFirst, Invited
    <3>9. \A c \in gposted' : c.act = "invite" => c.from = Host
      BY <2>5 DEF InvitedFirst
    <3>10. gview'[Host] # "incoming"
      BY <3>1 DEF InvitedFirst
    <3> QED
      BY <3>4, <3>5, <3>6, <3>7, <3>8, <3>9, <3>10 DEF InvitedFirst, Invited
  <2>12. StreamsAreLive'
    <3>1. \A x \in glocal' : gview'[x] \in {"ringing", "connecting", "active"}
      BY <2>1, <2>2, <2>6 DEF StreamsAreLive, GroupTypeOK
    <3>2. \A c \in gposted' : c.act \in {"decline", "end"} => gview'[c.from] = "ended"
      BY <2>5, <2>9, <2>10 DEF StreamsAreLive
    <3>3. \A x \in Members : \A y \in gbanned'[x] : gview'[y] = "ended"
      BY <2>1, <2>9 DEF StreamsAreLive, GroupTypeOK
    <3> QED
      BY <3>1, <3>2, <3>3 DEF StreamsAreLive
  <2>13. ReadyBecauseAccepted'
    <3>1. \A x, y \in Members : seat'[x][y] = "active" => seat[x][y] = "active"
      BY <2>2
    <3> QED
      BY <2>1, <2>5, <2>9, <3>1 DEF ReadyBecauseAccepted, Joined
  <2>14. ReadinessIsAnswered'
    <3>1. \A x, y \in Members : Seated(x, y)' = Seated(x, y)
      BY <2>2 DEF Seated, Over
    <3>2. \A x \in Members : Through(x)' = Through(x)
      BY <2>2, <2>6 DEF Through
    <3>3. ASSUME NEW y \in gready[d], y # d, Seated(d, y)
          PROVE  Joined(d, y) \in gposted' \cup glost'
      BY <2>5, <3>3 DEF Peers, GroupTypeOK
    <3>4. \A x \in glocal' : \A y \in gready'[x] : y # x /\ Seated(x, y)' => Joined(x, y) \in gposted' \cup glost'
      BY <2>1, <2>5, <3>1, <3>3 DEF ReadinessIsAnswered, GroupTypeOK
    <3> QED
      BY <2>1, <3>1, <3>2, <3>4 DEF ReadinessIsAnswered, Joined
  <2> QED
    BY <2>8, <2>11, <2>12, <2>13, <2>14
<1> QED
  BY <1>1, <1>2

LEMMA PartingKeepsInv ==
  ASSUME GroupInv, NEW d \in Members,
         GroupCaptureFails(d) \/ GroupRingOut(d) \/ LeaveGroupCall(d)
  PROVE  GroupInv'
<1> USE DEF GroupInv
<1>1. Departures
  BY NobodyDeparts DEF GroupCaptureFails, GroupRingOut, LeaveGroupCall
<1>2. CASE GLive(d)
  <2>1. EndGroup(d, Peers(d)) /\ gcapt' \subseteq gcapt /\ UNCHANGED <<seat, gready, goffers, glost, gaged>>
    BY <1>2 DEF GroupCaptureFails, GroupRingOut, LeaveGroupCall
  <2> QED
    BY <1>1, <1>2, <2>1, EndKeepsInv
<1>3. CASE ~GLive(d)
  <2>1. GroupCaptureFails(d)
    BY <1>3 DEF GroupRingOut, LeaveGroupCall
  <2> QED
    BY <1>1, <1>3, <2>1, QuietKeepsInv DEF GroupCaptureFails, GroupTypeOK
<1> QED
  BY <1>2, <1>3

LEMMA RingKeepsInv == ASSUME GroupInv, NEW c \in gposted, ProjectInvite(c) PROVE GroupInv'
<1> USE DEF GroupInv
<1> DEFINE d == c.to
<1>1. c \in GControls /\ c.from = Host /\ d \in Members /\ c.act = "invite"
  BY Posted DEF InvitedFirst, ProjectInvite
<1>2. c = Invited(d)
  BY <1>1 DEF Invited, GControl, GControls
<1>3. /\ gdone' = gdone \cup {c}
      /\ UNCHANGED <<seat, glocal, gready, goffers, garmed, gcapt, gposted, glost, gbanned, gaged>>
  BY DEF ProjectInvite, Arrives
<1>4. /\ gview' \in [Members -> Views]
      /\ gview'[d] # "none"
      /\ \A x \in Members : gview'[x] = gview[x] \/ (x = d /\ gview[x] = "none")
  BY <1>1 DEF ProjectInvite, GroupTypeOK, Views
<1>5. Host \in Members /\ gview[Host] # "none" /\ gview'[Host] = gview[Host]
  BY <1>4, GroupAssumption DEF InvitedFirst
<1>6. GroupTypeOK'
  BY <1>3, <1>4 DEF GroupTypeOK, Views
<1>7. \A x \in gposted : x.from \in Members
  BY Posted
<1>8. \A x, y \in Members : Joined(x, y) \in gdone' => Joined(x, y) \in gdone
  BY <1>1, <1>3 DEF Joined, GControl
<1>9. InvitedFirst'
  <2>1. \A x \in Members \ {Host} : gview'[x] # "none" => Invited(x) \in gposted'
    BY <1>2, <1>3, <1>4 DEF InvitedFirst
  <2>2. \A x \in gcapt' : gview'[x] \notin {"none", "incoming"}
    BY <1>3, <1>4 DEF InvitedFirst, GroupTypeOK
  <2>3. \A x \in gposted' : gview'[x.from] # "none" /\ gview'[Host] # "none"
    BY <1>3, <1>4, <1>5, <1>7 DEF InvitedFirst
  <2>4. \A x \in Members : Invited(x) \in gdone' => gview'[x] # "none"
    <3> SUFFICES ASSUME NEW x \in Members, Invited(x) \in gdone'
                 PROVE  gview'[x] # "none"
      OBVIOUS
    <3>1. CASE x = d
      BY <1>4, <3>1
    <3>2. CASE x # d
      <4>1. Invited(x).to = x
        BY DEF Invited, GControl
      <4>2. Invited(x) \in gdone
        BY <1>3, <3>2, <4>1
      <4> QED
        BY <1>4, <4>2 DEF InvitedFirst
    <3> QED
      BY <3>1, <3>2
  <2> QED
    BY <1>3, <1>5, <2>1, <2>2, <2>3, <2>4 DEF InvitedFirst, Invited
<1>10. StreamsAreLive'
  <2>1. \A x \in glocal' : gview'[x] \in {"ringing", "connecting", "active"}
    BY <1>3, <1>4 DEF StreamsAreLive, GroupTypeOK
  <2>2. \A x \in gposted' : x.act \in {"decline", "end"} => gview'[x.from] = "ended"
    BY <1>3, <1>4, <1>7 DEF StreamsAreLive
  <2>3. \A x \in Members : \A y \in gbanned'[x] : gview'[y] = "ended"
    BY <1>3, <1>4 DEF StreamsAreLive, GroupTypeOK
  <2> QED
    BY <2>1, <2>2, <2>3 DEF StreamsAreLive
<1>11. ReadyBecauseAccepted'
  BY <1>3, <1>4 DEF ReadyBecauseAccepted, Joined
<1>12. ReadinessIsAnswered'
  <2>1. \A x, y \in Members : Seated(x, y)' = Seated(x, y)
    BY <1>3 DEF Seated
  <2>2. \A x \in Members : ~Through(x)' => ~Through(x)
    BY <1>4 DEF Through
  <2>3. \A x \in glocal' : \A y \in gready'[x] : y # x /\ Seated(x, y)' => Joined(x, y) \in gposted' \cup glost'
    BY <1>3, <2>1 DEF ReadinessIsAnswered, GroupTypeOK
  <2> QED
    BY <1>3, <1>8, <2>1, <2>2, <2>3 DEF ReadinessIsAnswered, Joined
<1> QED
  BY <1>6, <1>9, <1>10, <1>11, <1>12

\* A readiness that is not noted comes to a device that is no longer in the
\* call: it was invited before it hears it, if the order is kept.
LEMMA ReadinessKeepsInv == ASSUME GroupInv, NEW c \in gposted, ProjectAccept(c) PROVE GroupInv'
<1> USE DEF GroupInv
<1> DEFINE d == c.to
           e == c.from
<1>1. c \in GControls /\ d \in Members /\ e \in Members /\ c.act = "accept"
  BY Posted DEF ProjectAccept
<1>2. c = Joined(e, d)
  BY <1>1 DEF Joined, GControl, GControls
<1>3. /\ gdone' = gdone \cup {c} /\ ~Through(d)
      /\ InOrder /\ d # Host => Invited(d) \in gdone
      /\ UNCHANGED <<glocal, garmed, gcapt, gbanned, gaged>>
  BY DEF ProjectAccept, Arrives, Invited
<1>4. \A x, y \in Members : /\ Joined(x, y) \in gdone' => Joined(x, y) \in gdone \/ (x = e /\ y = d)
                            /\ Invited(x) \in gdone' => Invited(x) \in gdone
  BY <1>1, <1>2, <1>3 DEF Joined, Invited, GControl
<1>5. gview[Host] # "none" /\ Host \in Members
  BY GroupAssumption DEF InvitedFirst
<1> DEFINE noted == GLive(d) /\ Seated(d, e) /\ e \notin gbanned[d]
<1>6. /\ gready' \in [Members -> SUBSET Members]
      /\ \A x \in Members : gready'[x] = IF x = d /\ noted THEN gready[x] \cup {e} ELSE gready[x]
  <2>1. CASE noted
    <3>1. gready' = [gready EXCEPT ![d] = @ \cup {e}]
      BY <2>1 DEF ProjectAccept
    <3> HIDE DEF noted
    <3> QED
      BY <1>1, <2>1, <3>1 DEF GroupTypeOK
  <2>2. CASE ~noted
    <3>1. gready' = gready
      BY <2>2 DEF ProjectAccept
    <3> HIDE DEF noted
    <3> QED
      BY <2>2, <3>1 DEF GroupTypeOK
  <2> QED
    BY <2>1, <2>2
<1>7. /\ gposted \subseteq gposted' /\ \A x \in gposted' : x \in gposted \/ (x = Joined(d, e) /\ d \in glocal)
      /\ glost \subseteq glost' /\ \A x \in glost' : x \in glost \/ x = Joined(d, e)
      /\ noted /\ d \in glocal => Joined(d, e) \in gposted' \cup glost' \/ e \in gready[d]
  <2>1. CASE noted /\ d \in glocal /\ e \notin gready[d]
    <3>1. PICK lost \in SUBSET {e} : Send(d, {e}, lost, "accept")
      BY <2>1 DEF ProjectAccept
    <3> QED
      BY <2>1, <3>1 DEF Send, Joined
  <2>2. CASE ~(noted /\ d \in glocal /\ e \notin gready[d])
    <3>1. UNCHANGED <<gposted, glost>>
      BY <2>2 DEF ProjectAccept
    <3> QED
      BY <2>2, <3>1
  <2> QED
    BY <2>1, <2>2
<1>8. \A x \in gposted' : x \in gposted \/ (x = Joined(d, e) /\ d \in glocal)
  BY <1>7
<1>9. Joined(d, e) \in GControls /\ Joined(d, e).from = d /\ Joined(d, e).act = "accept"
  BY <1>1 DEF Joined, GControl, GControls
<1>10. gposted \subseteq gposted' /\ gposted' \subseteq GControls /\ glost' \subseteq GControls
  BY <1>7, <1>9 DEF GroupTypeOK
<1>11. /\ seat' \in [Members -> [Members -> Seats]]
       /\ \A x, y \in Members : \/ seat'[x][y] = seat[x][y]
                                \/ seat[x][y] \notin Over /\ seat'[x][y] = "connecting"
       /\ gview' \in [Members -> Views]
       /\ \A x \in Members : gview'[x] = gview[x] \/ (x = d /\ d \in glocal /\ gview'[x] = "connecting")
       /\ goffers' \in [Members -> SUBSET Members]
  <2>1. CASE noted /\ d \in glocal
    <3>1. ConnectSeats(d, {e}) /\ {e} \in SUBSET Members
      BY <1>1, <2>1 DEF ProjectAccept
    <3> QED
      BY <1>1, <2>1, <3>1, ConnectSeatsEffect
  <2>2. CASE ~(noted /\ d \in glocal)
    <3>1. UNCHANGED <<seat, gview, goffers>>
      BY <2>2 DEF ProjectAccept
    <3> QED
      BY <3>1 DEF GroupTypeOK, Seats, Views
  <2> QED
    BY <2>1, <2>2
<1> HIDE DEF noted
<1>12. \A x \in glocal : gview[x] \in {"ringing", "connecting", "active"} /\ x \in Members
  BY DEF StreamsAreLive, GroupTypeOK
<1>13. GroupTypeOK'
  <2>1. gdone' \subseteq gposted'
    BY <1>3, <1>10 DEF GroupTypeOK
  <2> QED
    BY <1>3, <1>6, <1>10, <1>11, <2>1 DEF GroupTypeOK, Seats, Views
<1>14. \A x \in Members : gview[x] \in {"none", "incoming", "ended", "missed"} => gview'[x] = gview[x]
  BY <1>11, <1>12
<1>15. \A x \in gposted : x.from \in Members
  BY Posted
<1>16. InvitedFirst'
  <2>1. \A x \in Members : gview'[x] # "none" <=> gview[x] # "none"
    BY <1>11, <1>14
  <2>2. \A x \in Members : Invited(x) \in gposted' => Invited(x) \in gposted
    BY <1>8, <1>9 DEF Invited, GControl
  <2>3. \A x \in gcapt' : gview'[x] \notin {"none", "incoming"}
    BY <1>3, <1>11 DEF InvitedFirst, GroupTypeOK
  <2>4. gview'[Host] # "incoming"
    BY <1>5, <1>11 DEF InvitedFirst
  <2>5. \A x \in gposted' : gview'[x.from] # "none" /\ gview'[Host] # "none"
    BY <1>1, <1>5, <1>8, <1>9, <1>12, <1>15, <2>1 DEF InvitedFirst
  <2>6. \A x \in gposted' : x.act = "invite" => x.from = Host
    BY <1>8, <1>9 DEF InvitedFirst
  <2>7. \A x \in Members \ {Host} : gview'[x] # "none" => Invited(x) \in gposted'
    BY <1>10, <2>1 DEF InvitedFirst
  <2>8. \A x \in Members : Invited(x) \in gposted' => Host \notin gcapt'
    BY <1>3, <2>2 DEF InvitedFirst
  <2>9. \A x \in Members : Invited(x) \in gdone' => gview'[x] # "none"
    BY <1>4, <2>1 DEF InvitedFirst
  <2> QED
    BY <2>3, <2>4, <2>5, <2>6, <2>7, <2>8, <2>9 DEF InvitedFirst, Invited
<1>17. StreamsAreLive'
  <2>1. \A x \in glocal' : gview'[x] \in {"ringing", "connecting", "active"}
    BY <1>3, <1>11, <1>12
  <2>2. \A x \in gposted' : x.act \in {"decline", "end"} => gview'[x.from] = "ended"
    BY <1>8, <1>9, <1>14, <1>15 DEF StreamsAreLive
  <2>3. \A x \in Members : \A y \in gbanned'[x] : gview'[y] = "ended"
    BY <1>3, <1>14 DEF StreamsAreLive, GroupTypeOK
  <2> QED
    BY <2>1, <2>2, <2>3 DEF StreamsAreLive
<1>18. ReadyBecauseAccepted'
  <2>1. \A x, y \in Members : seat'[x][y] = "active" => seat[x][y] = "active"
    BY <1>11
  <2>2. \A x \in Members : \A y \in gready'[x] : Joined(y, x) \in gposted'
    <3> SUFFICES ASSUME NEW x \in Members, NEW y \in gready'[x]
                 PROVE  Joined(y, x) \in gposted'
      OBVIOUS
    <3>1. y \in gready[x] \/ (x = d /\ y = e)
      BY <1>6
    <3>2. CASE y \in gready[x]
      BY <1>10, <3>2 DEF ReadyBecauseAccepted
    <3>3. CASE x = d /\ y = e
      BY <1>2, <1>10, <3>3
    <3> QED
      BY <3>1, <3>2, <3>3
  <2>3. \A x, y \in Members : seat'[x][y] = "active" =>
            Joined(y, x) \in gposted' /\ (x \in glocal' \/ gview'[x] = "ended")
    BY <1>3, <1>10, <1>14, <2>1 DEF ReadyBecauseAccepted
  <2> QED
    BY <2>2, <2>3 DEF ReadyBecauseAccepted, Joined
<1>19. ReadinessIsAnswered'
  <2>1. \A x, y \in Members : Seated(x, y)' = Seated(x, y)
    BY <1>11 DEF Seated, Over
  <2>2. \A x \in Members : Through(x)' = Through(x)
    BY <1>11, <1>12, <1>14 DEF Through
  <2>3. \A x \in glocal' : \A y \in gready'[x] : y # x /\ Seated(x, y)' => Joined(x, y) \in gposted' \cup glost'
    <3> SUFFICES ASSUME NEW x \in glocal, NEW y \in gready'[x], y # x, Seated(x, y)
                 PROVE  Joined(x, y) \in gposted' \cup glost'
      BY <1>3, <1>6, <1>12, <2>1
    <3>1. CASE y \in gready[x]
      BY <1>7, <1>10, <3>1 DEF ReadinessIsAnswered
    <3>2. CASE y \notin gready[x]
      BY <1>6, <1>7, <1>12, <3>2
    <3> QED
      BY <3>1, <3>2
  <2>4. ASSUME InOrder, NEW x \in Members, NEW y \in Members, Joined(x, y) \in gdone', x # y,
               Seated(y, x), ~Through(y), x \notin gbanned[y]
        PROVE  x \in gready'[y]
    <3>1. CASE Joined(x, y) \in gdone
      BY <1>6, <2>4, <3>1 DEF ReadinessIsAnswered
    <3>2. CASE x = e /\ y = d
      <4>1. CASE noted
        BY <1>6, <3>2, <4>1
      <4>2. CASE ~noted
        <5>1. ~GLive(d)
          BY <2>4, <3>2, <4>2 DEF noted
        <5>2. gview[d] = "none"
          BY <1>1, <1>3, <5>1 DEF GLive, Through, GroupTypeOK
        <5>3. d # Host
          BY <1>5, <5>2
        <5> QED
          BY <1>1, <1>3, <2>4, <5>2, <5>3 DEF InvitedFirst
      <4> QED
        BY <4>1, <4>2
    <3> QED
      BY <1>4, <2>4, <3>1, <3>2
  <2>5. InOrder => \A x, y \in Members :
                     /\ Joined(x, y) \in gdone' /\ x # y
                     /\ Seated(y, x)' /\ ~Through(y)' /\ x \notin gbanned'[y]
                     => x \in gready'[y]
    BY <1>3, <2>1, <2>2, <2>4
  <2> QED
    BY <2>3, <2>5 DEF ReadinessIsAnswered, Joined
<1> QED
  BY <1>13, <1>16, <1>17, <1>18, <1>19

LEMMA DepartureKeepsInv == ASSUME GroupInv, NEW c \in gposted, ProjectLeave(c) PROVE GroupInv'
<1> USE DEF GroupInv
<1> DEFINE d == c.to
           e == c.from
<1>1. d \in Members /\ e \in Members /\ c.act \in {"decline", "end"} /\ gview[e] = "ended"
  BY Posted DEF ProjectLeave, StreamsAreLive
<1>2. /\ gdone' = gdone \cup {c} /\ gbanned' = [gbanned EXCEPT ![d] = @ \cup {e}]
      /\ UNCHANGED <<goffers, gcapt, glost, gaged>>
  BY DEF ProjectLeave, Arrives
<1>3. gposted \subseteq gposted'
  <2>1. CASE UNCHANGED gposted
    BY <2>1
  <2>2. CASE EndGroup(d, {})
    BY <2>2 DEF EndGroup
  <2>3. CASE LeaveSeat(d, e, IF c.act = "decline" THEN "declined" ELSE "left")
    BY <2>3 DEF LeaveSeat, EndGroup
  <2> QED
    BY <2>1, <2>2, <2>3 DEF ProjectLeave
<1>4. Departures
  <2>1. /\ gbanned' \in [Members -> SUBSET Members]
        /\ \A x \in Members : gbanned'[x] = IF x = d THEN gbanned[x] \cup {e} ELSE gbanned[x]
    BY <1>1, <1>2 DEF GroupTypeOK
  <2>2. gdone \subseteq gdone' /\ gdone' \subseteq gposted
    BY <1>2 DEF GroupTypeOK
  <2>3. \A x \in gdone' : x \in gdone \/ x.act \in {"decline", "end"}
    BY <1>1, <1>2
  <2> QED
    BY <1>1, <2>1, <2>2, <2>3 DEF Departures
<1>5. CASE UNCHANGED <<gview, seat, glocal, gready, garmed, gposted>>
  BY <1>2, <1>4, <1>5, QuietKeepsInv DEF GroupTypeOK
<1>6. CASE GLive(d) /\ EndGroup(d, {}) /\ UNCHANGED <<seat, gready>>
  <2>1. {} \in SUBSET Peers(d) /\ gcapt' \subseteq gcapt
    BY <1>2
  <2> QED
    BY <1>1, <1>2, <1>4, <1>6, <2>1, EndKeepsInv
<1>7. CASE GLive(d) /\ LeaveSeat(d, e, IF c.act = "decline" THEN "declined" ELSE "left")
  <2>1. (IF c.act = "decline" THEN "declined" ELSE "left") \in Over
    BY DEF Over
  <2> QED
    BY <1>1, <1>2, <1>4, <1>7, <2>1, LeaveKeepsInv
<1> QED
  BY <1>5, <1>6, <1>7 DEF ProjectLeave

LEMMA FailureKeepsInv ==
  ASSUME GroupInv, NEW d \in Members, NEW e \in Members, LinkFails(d, e) \/ SeatTimer(d, e)
  PROVE  GroupInv'
<1>1. GLive(d) /\ LeaveSeat(d, e, "failed") /\ UNCHANGED <<goffers, gcapt, glost, gaged>>
  BY DEF LinkFails, SeatTimer
<1>2. Departures
  BY NobodyDeparts DEF LinkFails, SeatTimer, GroupInv
<1>3. "failed" \in Over
  BY DEF Over
<1> QED
  BY <1>1, <1>2, <1>3, LeaveKeepsInv

LEMMA LinkKeepsInv ==
  ASSUME GroupInv, NEW d \in Members, NEW e \in Members, Link(d, e)
  PROVE  GroupInv'
<1> USE DEF GroupInv
<1>1. /\ d \in glocal /\ e \in glocal /\ e \in gready[d] /\ d \in gready[e]
      /\ Seated(d, e) /\ Seated(e, d)
      /\ gview[d] \in {"ringing", "connecting", "active"}
      /\ gview[e] \in {"ringing", "connecting", "active"}
      /\ UNCHANGED <<glocal, gready, goffers, gcapt, gposted, glost, gdone, gbanned, gaged>>
  BY DEF Link, MediaAllowed, GLive, Seated, Over
<1>2. /\ gview' \in [Members -> Views]
      /\ \A x \in Members : gview'[x] = IF x = d \/ x = e THEN "active" ELSE gview[x]
  BY DEF Link, GroupTypeOK, Views
<1>3. garmed' \in [Members -> SUBSET Members]
  BY DEF Link, GroupTypeOK
<1>4. /\ seat' \in [Members -> [Members -> Seats]]
      /\ \A x, y \in Members :
            seat'[x][y] = IF (x = d /\ y = e) \/ (x = e /\ y = d) THEN "active" ELSE seat[x][y]
  <2> DEFINE one == [seat EXCEPT ![d][e] = "active"]
  <2>1. one \in [Members -> [Members -> Seats]]
    BY DEF GroupTypeOK, Seats
  <2>2. \A x, y \in Members : one[x][y] = IF x = d /\ y = e THEN "active" ELSE seat[x][y]
    BY DEF GroupTypeOK
  <2>3. seat' = [one EXCEPT ![e][d] = "active"]
    BY DEF Link
  <2> HIDE DEF one
  <2>4. /\ seat' \in [Members -> [Members -> Seats]]
        /\ \A x, y \in Members : seat'[x][y] = IF x = e /\ y = d THEN "active" ELSE one[x][y]
    BY <2>1, <2>3 DEF Seats
  <2> QED
    BY <2>2, <2>4
<1>5. GroupTypeOK'
  BY <1>1, <1>2, <1>3, <1>4 DEF GroupTypeOK, Seats, Views
<1>6. \A x \in gposted : x.from \in Members
  BY Posted
<1>7. \A x \in Members : gview[x] \in {"none", "incoming", "ended", "missed"} => gview'[x] = gview[x]
  BY <1>1, <1>2
<1>8. InvitedFirst'
  BY <1>1, <1>2, <1>6, GroupAssumption DEF InvitedFirst, Invited, GroupTypeOK
<1>9. StreamsAreLive'
  <2>1. \A x \in glocal' : gview'[x] \in {"ringing", "connecting", "active"}
    BY <1>1, <1>2 DEF StreamsAreLive, GroupTypeOK
  <2>2. \A x \in gposted' : x.act \in {"decline", "end"} => gview'[x.from] = "ended"
    BY <1>1, <1>6, <1>7 DEF StreamsAreLive
  <2>3. \A x \in Members : \A y \in gbanned'[x] : gview'[y] = "ended"
    BY <1>1, <1>7 DEF StreamsAreLive, GroupTypeOK
  <2> QED
    BY <2>1, <2>2, <2>3 DEF StreamsAreLive
<1>10. ReadyBecauseAccepted'
  <2>1. ASSUME NEW x \in Members, NEW y \in Members, seat'[x][y] = "active"
        PROVE  Joined(y, x) \in gposted /\ (x \in glocal \/ gview'[x] = "ended")
    <3>1. CASE seat[x][y] = "active"
      BY <1>7, <3>1 DEF ReadyBecauseAccepted
    <3>2. CASE (x = d /\ y = e) \/ (x = e /\ y = d)
      BY <1>1, <3>2 DEF ReadyBecauseAccepted
    <3> QED
      BY <1>4, <2>1, <3>1, <3>2
  <2> QED
    BY <1>1, <2>1 DEF ReadyBecauseAccepted, Joined
<1>11. ReadinessIsAnswered'
  <2>1. \A x, y \in Members : Seated(x, y)' = Seated(x, y)
    BY <1>1, <1>4 DEF Seated, Over
  <2>2. \A x \in Members : Through(x)' = Through(x)
    BY <1>1, <1>2 DEF Through
  <2>3. \A x \in glocal' : \A y \in gready'[x] : y # x /\ Seated(x, y)' => Joined(x, y) \in gposted' \cup glost'
    BY <1>1, <2>1 DEF ReadinessIsAnswered, GroupTypeOK
  <2> QED
    BY <1>1, <2>1, <2>2, <2>3 DEF ReadinessIsAnswered, Joined
<1> QED
  BY <1>5, <1>8, <1>9, <1>10, <1>11

LEMMA GroupStepInv == GroupInv /\ [GroupNext]_gvars => GroupInv'
<1> SUFFICES ASSUME GroupInv, [GroupNext]_gvars
             PROVE  GroupInv'
  OBVIOUS
<1>1. CASE StartGroup
  BY <1>1, StartKeepsInv
<1>2. CASE InviteAll
  BY <1>2, InviteKeepsInv
<1>3. CASE \E d \in Members : AcceptGroup(d)
  BY <1>3, AcceptKeepsInv
<1>4. CASE \E d \in Members : JoinAll(d)
  BY <1>4, JoinKeepsInv
<1>5. CASE \E d \in Members : GroupCaptureFails(d) \/ GroupRingOut(d) \/ LeaveGroupCall(d)
  BY <1>5, PartingKeepsInv
<1>6. CASE \E c \in gposted : ProjectInvite(c)
  BY <1>6, RingKeepsInv
<1>7. CASE \E c \in gposted : ProjectAccept(c)
  BY <1>7, ReadinessKeepsInv
<1>8. CASE \E c \in gposted : ProjectLeave(c)
  BY <1>8, DepartureKeepsInv
<1>9. CASE \E d, e \in Members : Link(d, e)
  BY <1>9, LinkKeepsInv
<1>10. CASE \E d, e \in Members : LinkFails(d, e) \/ SeatTimer(d, e)
  BY <1>10, FailureKeepsInv
<1>11. CASE GroupAge
  <2>1. Departures
    BY <1>11, NobodyDeparts DEF GroupAge, GroupInv
  <2> QED
    BY <1>11, <2>1, QuietKeepsInv DEF GroupAge
<1>12. CASE UNCHANGED gvars
  <2>1. Departures
    BY <1>12, NobodyDeparts DEF gvars, GroupInv
  <2> QED
    BY <1>12, <2>1, QuietKeepsInv DEF gvars, GroupInv, GroupTypeOK
<1> QED
  BY <1>1, <1>2, <1>3, <1>4, <1>5, <1>6, <1>7, <1>8, <1>9, <1>10, <1>11, <1>12
  DEF GroupNext, GroupRuntime

LEMMA GroupHolds == GroupSpec => []GroupInv
BY GroupInitInv, GroupStepInv, PTL DEF GroupSpec
------------------------------------------------------------------------------
(* The group call: what is promised                                          *)

\* The state of a group call always has its types.
THEOREM GroupIsTyped == GroupSpec => []GroupTypeOK
<1>1. GroupInv => GroupTypeOK
  BY DEF GroupInv
<1> QED
  BY <1>1, GroupHolds, PTL

\* Among any number of devices, in any order of their controls, media flows
\* only between two that both joined: nobody is linked by an invite alone.
THEOREM MediaIsConsented == GroupSpec => []ConsentBeforeMedia
<1>1. GroupInv => ConsentBeforeMedia
  BY DEF GroupInv, ReadyBecauseAccepted, Joined, ConsentBeforeMedia, GLive
<1> QED
  BY <1>1, GroupHolds, PTL

\* When no accept overtakes the invite, two devices that joined and did not
\* part know of each other's readiness once everything posted was projected,
\* whatever could not be sent but the answer itself.
THEOREM ReadinessMeets == GroupSpec => [](InOrder => ReadyTogether)
<1>1. GroupInv => (InOrder => ReadyTogether)
  <2> SUFFICES ASSUME GroupInv, InOrder, AllProjected, NEW d \in glocal, NEW e \in glocal,
                      Seated(d, e), Seated(e, d), e \in gready[d], ~Unanswered(d, e)
               PROVE  d \in gready[e]
    BY DEF ReadyTogether
  <2>1. CASE d = e
    BY <2>1
  <2>2. CASE d # e
    <3>1. /\ d \in Members /\ e \in Members
          /\ gview[d] \in {"ringing", "connecting", "active"}
          /\ gview[e] \in {"ringing", "connecting", "active"}
      BY DEF GroupInv, GroupTypeOK, StreamsAreLive
    <3>2. Joined(d, e) \in gposted /\ Joined(d, e).to = e
      BY <2>2 DEF GroupInv, ReadinessIsAnswered, Unanswered, Joined, GControl
    <3>3. Joined(d, e) \in gdone
      BY <3>1, <3>2 DEF AllProjected, Through, Uninvited, GroupInv, InvitedFirst, Invited
    <3>4. ~Through(e) /\ d \notin gbanned[e]
      BY <3>1 DEF Through, GroupInv, StreamsAreLive
    <3> QED
      BY <2>2, <3>1, <3>3, <3>4 DEF GroupInv, ReadinessIsAnswered
  <2> QED
    BY <2>1, <2>2
<1> QED
  BY <1>1, GroupHolds, PTL
------------------------------------------------------------------------------
(* The media of a direct call: the inductive invariant                       *)

\* The prepared call of a phone: what the negotiation makes of it in between.
WarmCall == [stage: {"none", "live", "closed"}, selected: BOOLEAN, tracks: BOOLEAN,
             phase: {"transport", "media"}, far: {"none", "transport", "media"}, kept: BOOLEAN,
             signals: SUBSET {"transport", "media"},
             job: {"idle", "opening", "remote", "answer", "offer", "publishing"},
             on: {"none", "transport", "media"}, offer: {"no", "queued", "made"},
             pub: {"idle", "gather", "transport", "media"}, opener: BOOLEAN,
             sent: {"none", "transport", "media"}, up: BOOLEAN]
Sound(w) == w \in WarmCall /\ (w.job = "remote" => w.on # "none")

\* A prepared call that knows the transport only.
WithoutMedia(w) ==
    /\ ~w.selected /\ ~w.tracks /\ w.phase = "transport" /\ w.far # "media" /\ w.on # "media"
    /\ "media" \notin w.signals /\ w.job # "offer" /\ w.offer = "no"
    /\ w.pub # "media" /\ w.sent # "media"

NegotiationIsTyped == NegotiationTypeOK /\ \A e \in Ends : Sound(warm[e])

\* Until the callee answers, the call only rings and only its transport is
\* negotiated, on both phones and on the wire.
RingsOnly(e) ==
    /\ status[e] \notin {"connecting", "active"}
    /\ WithoutMedia(warm[e])
    /\ mesh[e].link = "none" /\ ~mesh[e].deferred
    /\ {"capture", "resume", "link"} \cap mesh[e].awaits = {}
    /\ "link" \notin mesh[e].wants \cup mesh[e].open
NoMediaOnWire == \A m \in wire : m.what \notin {"media", "plain", "accept", "accept prepared"}
RingsUntilAnswered ==
    /\ status["callee"] \in {"none", "ringing"} => "answered" \notin said
    /\ "answered" \notin said => NoMediaOnWire /\ \A e \in Ends : RingsOnly(e)

\* The two ways to the media of a call, of which it goes one.
OverPrepared == To("caller", "accept prepared") \in wire \/ \E e \in Ends : warm[e].selected
OverLink ==
    \/ To("caller", "accept") \in wire
    \/ \E e \in Ends : \/ To(e, "plain") \in wire \/ mesh[e].deferred \/ mesh[e].link # "none"
                       \/ "link" \in mesh[e].wants \cup mesh[e].open
OneWay == ~(OverPrepared /\ OverLink)

\* Connections are made for a call that goes on, and a new one takes the place
\* of the one before.
OneConnection(e) ==
    /\ mesh[e].open # {} \/ mesh[e].wants # {} => Going(e)
    /\ \A x, y \in mesh[e].open : x = y
    /\ "pool" \in mesh[e].wants /\ "pool" \in mesh[e].awaits => mesh[e].open = {}
    /\ status[e] = "ringing" => "link" \notin mesh[e].wants \cup mesh[e].open
    /\ "warm" \in mesh[e].open /\ Consents(e) => warm[e].selected
OneAtATime == \A e \in Ends : OneConnection(e)

NegotiationInv == NegotiationIsTyped /\ RingsUntilAnswered /\ OneWay /\ OneAtATime
------------------------------------------------------------------------------
(* The media of a direct call: what the steps are made of                    *)

Statuses == {"none", "ringing", "connecting", "active", "over"}
Tables == [captured: BOOLEAN, awaits: SUBSET {"invite", "capture", "resume", "pool", "warm", "link"},
           wants: SUBSET {"pool", "warm", "link"}, open: SUBSET {"pool", "warm", "link"},
           link: {"none", "made", "sent", "answered"}, deferred: BOOLEAN]
Letters == [to: Ends, what: {"invite", "accept", "accept prepared", "end", "transport", "media", "plain"}]

\* The type invariant, field by field.
NegotiationTypes ==
    /\ status \in [Ends -> Statuses] /\ mesh \in [Ends -> Tables] /\ warm \in [Ends -> WarmCall]
    /\ wire \subseteq Letters
    /\ news \in [Ends -> 0 .. MaxNews] /\ copies \in 0 .. MaxCopies /\ breaks \in 0 .. MaxBreaks
    /\ said \subseteq {"answered", "hung up", "broke"}

LEMMA TypesSpelled == NegotiationTypes <=> NegotiationTypeOK
BY DEF NegotiationTypes, NegotiationTypeOK, Statuses, Tables, WarmCall, Letters

LEMMA Addressed ==
  ASSUME NEW e \in Ends,
         NEW what \in {"invite", "accept", "accept prepared", "end", "transport", "media", "plain"}
  PROVE  /\ To(e, what) \in Letters /\ To(e, what).what = what /\ To(e, what).to = e
         /\ FarEnd(e) \in Ends /\ From(e, what) \in Letters
         /\ From(e, what).what = what /\ From(e, what).to = FarEnd(e)
BY DEF To, From, Letters, Ends, FarEnd

LEMMA NewWarmCall == Sound(NoWarm) /\ WithoutMedia(NoWarm)
BY DEF Sound, NoWarm, WarmCall, WithoutMedia

LEMMA ClosedWarmCall ==
  ASSUME NEW w, Sound(w)
  PROVE  /\ Sound(CloseWarm(w)) /\ ~CloseWarm(w).selected
         /\ WithoutMedia(w) => WithoutMedia(CloseWarm(w))
<1> DEFINE out == IF Sending(w) THEN w.pub ELSE "idle"
<1>1. CloseWarm(w) = [NoWarm EXCEPT !.stage = "closed", !.pub = out]
  BY DEF CloseWarm
<1>2. out \in {"idle", "gather", "transport", "media"} /\ (WithoutMedia(w) => out # "media")
  BY DEF Sound, WarmCall, WithoutMedia
<1> HIDE DEF out
<1>3. Sound(CloseWarm(w))
  <2>1. CloseWarm(w) \in WarmCall
    BY <1>1, <1>2 DEF NoWarm, WarmCall
  <2>2. CloseWarm(w).job = "idle"
    BY <1>1 DEF NoWarm
  <2> QED
    BY <2>1, <2>2 DEF Sound
<1>4. ~CloseWarm(w).selected
  BY <1>1 DEF NoWarm
<1>5. WithoutMedia(w) => WithoutMedia(CloseWarm(w))
  BY <1>1, <1>2 DEF NoWarm, WithoutMedia
<1> QED
  BY <1>3, <1>4, <1>5

LEMMA PublishedWarmCall ==
  ASSUME NEW e \in Ends, NEW w, Sound(w)
  PROVE  /\ Sound(Publish(e, w)) /\ Publish(e, w).selected = w.selected
         /\ WithoutMedia(w) => WithoutMedia(Publish(e, w))
BY DEF Sound, Publish, WarmCall, WithoutMedia

LEMMA PublishedOnWarmCall ==
  ASSUME NEW e \in Ends, NEW w, Sound(w)
  PROVE  /\ Sound(PublishOn(e, w)) /\ PublishOn(e, w).selected = w.selected
         /\ WithoutMedia(w) => WithoutMedia(PublishOn(e, w))
<1> DEFINE goes == /\ ~Negotiating(w) /\ w.sent # w.phase
                   /\ w.phase = "media" => w.selected /\ Consents(e)
<1>1. CASE goes
  <2>1. PublishOn(e, w) = [w EXCEPT !.pub = w.phase, !.sent = w.phase]
    BY <1>1 DEF PublishOn
  <2>2. Sound(PublishOn(e, w))
    BY <2>1, ZenonT(60) DEF Sound, WarmCall
  <2>3. PublishOn(e, w).selected = w.selected
    BY <2>1 DEF Sound, WarmCall
  <2>4. WithoutMedia(w) => WithoutMedia(PublishOn(e, w))
    BY <2>1 DEF Sound, WarmCall, WithoutMedia
  <2> QED
    BY <2>2, <2>3, <2>4
<1>2. CASE ~goes
  <2> DEFINE job == IF w.job = "publishing" THEN "idle" ELSE w.job
  <2>1. PublishOn(e, w) = [w EXCEPT !.pub = "idle", !.opener = FALSE, !.job = job]
    BY <1>2 DEF PublishOn
  <2>2. /\ job \in {"idle", "opening", "remote", "answer", "offer"}
        /\ job = "remote" => w.job = "remote"
        /\ job = "offer" => w.job = "offer"
    BY DEF Sound, WarmCall
  <2> HIDE DEF job
  <2>3. Sound(PublishOn(e, w))
    <3>1. PublishOn(e, w) \in WarmCall
      BY <2>1, <2>2, ZenonT(60) DEF Sound, WarmCall
    <3>2. PublishOn(e, w).job = job /\ PublishOn(e, w).on = w.on
      BY <2>1 DEF Sound, WarmCall
    <3> QED
      BY <2>2, <3>1, <3>2 DEF Sound
  <2>4. PublishOn(e, w).selected = w.selected
    BY <2>1 DEF Sound, WarmCall
  <2>5. WithoutMedia(w) => WithoutMedia(PublishOn(e, w))
    BY <2>1, <2>2 DEF Sound, WarmCall, WithoutMedia
  <2> QED
    BY <2>3, <2>4, <2>5
<1> QED
  BY <1>1, <1>2

LEMMA ActivatedWarmCall ==
  ASSUME NEW e \in Ends, NEW w, Sound(w)
  PROVE  Sound(Activate(e, w)) /\ Activate(e, w).selected = w.selected
<1>1. CASE e = "callee"
  <2> DEFINE signals == IF w.kept THEN w.signals \cup {"media"} ELSE w.signals
  <2>1. Activate(e, w) = [w EXCEPT !.tracks = TRUE, !.kept = FALSE, !.signals = signals]
    BY <1>1 DEF Activate
  <2>2. signals \in SUBSET {"transport", "media"}
    BY DEF Sound, WarmCall
  <2> HIDE DEF signals
  <2> QED
    BY <2>1, <2>2 DEF Sound, WarmCall
<1>2. CASE e # "callee"
  <2> DEFINE offer == IF w.far = w.phase /\ w.offer = "no" THEN "queued" ELSE w.offer
  <2>1. Activate(e, w) = [w EXCEPT !.tracks = TRUE, !.offer = offer]
    BY <1>2 DEF Activate
  <2>2. offer \in {"no", "queued", "made"}
    BY DEF Sound, WarmCall
  <2> HIDE DEF offer
  <2> QED
    BY <2>1, <2>2, ZenonT(60) DEF Sound, WarmCall
<1> QED
  BY <1>1, <1>2

LEMMA NegotiationInitInv == NegotiationInit => NegotiationInv
<1> SUFFICES ASSUME NegotiationInit
             PROVE  NegotiationInv
  OBVIOUS
<1>1. NegotiationIsTyped
  <2>1. warm \in [Ends -> WarmCall] /\ \A e \in Ends : warm[e] = NoWarm /\ Sound(warm[e])
    BY NewWarmCall DEF NegotiationInit, Sound
  <2>2. mesh \in [Ends -> Tables]
    BY DEF NegotiationInit, Ends, Tables, NoTables
  <2>3. wire \subseteq Letters
    BY Addressed DEF NegotiationInit, Ends
  <2>4. status \in [Ends -> Statuses]
    BY DEF NegotiationInit, Statuses
  <2>5. NegotiationTypes
    BY <2>1, <2>2, <2>3, <2>4, NegotiationAssumption DEF NegotiationInit, NegotiationTypes
  <2> QED
    BY <2>1, <2>5, TypesSpelled DEF NegotiationIsTyped
<1>2. \A e \in Ends : /\ status[e] = IF e = "caller" THEN "ringing" ELSE "none"
                      /\ WithoutMedia(warm[e]) /\ ~warm[e].selected
                      /\ mesh[e].link = "none" /\ ~mesh[e].deferred
                      /\ mesh[e].awaits \subseteq {"invite"}
                      /\ mesh[e].wants = {} /\ mesh[e].open = {}
  BY NewWarmCall DEF NegotiationInit, NoTables, Ends, WithoutMedia
<1>3. "answered" \notin said /\ \A m \in wire : m.what = "invite"
  BY DEF NegotiationInit, To
<1>4. RingsUntilAnswered
  BY <1>2, <1>3 DEF RingsUntilAnswered, RingsOnly, NoMediaOnWire
<1>5. OneWay
  BY <1>2, <1>3 DEF OneWay, OverPrepared, OverLink, To
<1>6. OneAtATime
  BY <1>2 DEF OneAtATime, OneConnection, Going
<1> QED
  BY <1>1, <1>4, <1>5, <1>6 DEF NegotiationInv
------------------------------------------------------------------------------
(* The media of a direct call: the steps                                     *)

\* The prepared call of e works on its negotiation.
WarmWorks(e) ==
    /\ warm' \in [Ends -> WarmCall] /\ Sound(warm'[e])
    /\ \A x \in Ends : x # e => warm'[x] = warm[x]
    /\ warm'[e].selected = warm[e].selected
    /\ WithoutMedia(warm[e]) => WithoutMedia(warm'[e])
    /\ status' \in [Ends -> Statuses]
    /\ \A x \in Ends : status'[x] = status[x] \/ (Consents(x) /\ status'[x] = "active")
    /\ wire' \subseteq Letters
    /\ \A m \in wire' : \/ m \in wire \/ m.what = "transport"
                        \/ m.what = "media" /\ ~WithoutMedia(warm[e])
    /\ news' \in [Ends -> 0 .. MaxNews]
    /\ UNCHANGED <<mesh, copies, breaks, said>>

\* Something of the call of e is closed, and perhaps the call with it.
Closes(e) ==
    /\ warm' \in [Ends -> WarmCall] /\ Sound(warm'[e])
    /\ \A x \in Ends : x # e => warm'[x] = warm[x]
    /\ WithoutMedia(warm[e]) => WithoutMedia(warm'[e])
    /\ warm'[e].selected => warm[e].selected
    /\ warm[e].selected /\ "warm" \in mesh'[e].open => warm'[e].selected
    /\ mesh' \in [Ends -> Tables]
    /\ \A x \in Ends : x # e => mesh'[x] = mesh[x]
    /\ mesh'[e].awaits \subseteq mesh[e].awaits
    /\ mesh'[e].wants \subseteq mesh[e].wants /\ mesh'[e].open \subseteq mesh[e].open
    /\ mesh'[e].link \in {mesh[e].link, "none"} /\ mesh'[e].deferred \in {mesh[e].deferred, FALSE}
    /\ status' \in [Ends -> Statuses]
    /\ \A x \in Ends : status'[x] = status[x] \/ (x = e /\ status'[x] = "over")
    /\ status'[e] = "over" => mesh'[e].open = {} /\ mesh'[e].wants = {}
    /\ wire' \subseteq Letters /\ \A m \in wire' : m \in wire \/ m.what = "end"
    /\ copies' \in 0 .. MaxCopies /\ breaks' \in 0 .. MaxBreaks
    /\ said' \subseteq {"answered", "hung up", "broke"}
    /\ "answered" \in said' <=> "answered" \in said
    /\ UNCHANGED news


LEMMA TypedAfter ==
  ASSUME NegotiationTypes', \A x \in Ends : Sound(warm'[x])
  PROVE  NegotiationIsTyped'
<1>1. NegotiationTypeOK'
  BY DEF NegotiationTypes, NegotiationTypeOK, Statuses, Tables, WarmCall, Letters
<1>2. (\A x \in Ends : Sound(warm[x]))'
  BY DEF Sound, WarmCall
<1> QED
  BY <1>1, <1>2 DEF NegotiationIsTyped

LEMMA WorkKeepsInv == ASSUME NegotiationInv, NEW e \in Ends, WarmWorks(e) PROVE NegotiationInv'
<1>1. NegotiationTypes /\ \A x \in Ends : Sound(warm[x])
  BY TypesSpelled DEF NegotiationInv, NegotiationIsTyped
<1>2. NegotiationIsTyped'
  <2>1. NegotiationTypes'
    BY <1>1 DEF NegotiationTypes, WarmWorks
  <2>2. \A x \in Ends : Sound(warm'[x])
    BY <1>1 DEF WarmWorks
  <2> QED
    BY <2>1, <2>2, TypedAfter
<1>3. \A x \in Ends : /\ warm'[x].selected = warm[x].selected
                      /\ WithoutMedia(warm[x]) => WithoutMedia(warm'[x])
                      /\ mesh'[x] = mesh[x]
                      /\ status'[x] = status[x] \/ (Consents(x) /\ status'[x] = "active")
  BY DEF WarmWorks
<1>4. RingsUntilAnswered'
  <2>1. said' = said
    BY DEF WarmWorks
  <2>2. \A x \in Ends : Consents(x) => status[x] \in {"connecting", "active"}
    BY DEF Consents
  <2>3. "callee" \in Ends
    BY DEF Ends
  <2>4. status'["callee"] \in {"none", "ringing"} => "answered" \notin said'
    BY <1>3, <2>1, <2>2, <2>3 DEF NegotiationInv, RingsUntilAnswered, RingsOnly, NoMediaOnWire
  <2>5. ASSUME "answered" \notin said
        PROVE  /\ \A x \in Ends : /\ status'[x] \notin {"connecting", "active"}
                                  /\ WithoutMedia(warm'[x])
               /\ \A m \in wire' : m.what \notin {"media", "plain", "accept", "accept prepared"}
    BY <1>3, <2>2, <2>5 DEF NegotiationInv, RingsUntilAnswered, RingsOnly, NoMediaOnWire, WarmWorks
  <2>6. (\A x \in Ends : WithoutMedia(warm'[x])) => (\A x \in Ends : WithoutMedia(warm[x]))'
    BY DEF WithoutMedia
  <2> QED
    BY <1>3, <2>1, <2>4, <2>5, <2>6 DEF NegotiationInv, RingsUntilAnswered, RingsOnly, NoMediaOnWire
<1>5. OneWay'
  <2>1. \A m \in wire' : m \in wire \/ m.what \in {"transport", "media"}
    BY DEF WarmWorks
  <2>2. OverPrepared' => OverPrepared
    BY <1>3, <2>1 DEF OverPrepared, To
  <2>3. OverLink' => OverLink
    BY <1>3, <2>1 DEF OverLink, To
  <2> QED
    BY <2>2, <2>3 DEF NegotiationInv, OneWay
<1>6. OneAtATime'
  BY <1>3 DEF NegotiationInv, OneAtATime, OneConnection, Going, Consents
<1> QED
  BY <1>2, <1>4, <1>5, <1>6 DEF NegotiationInv

LEMMA CloseKeepsInv == ASSUME NegotiationInv, NEW e \in Ends, Closes(e) PROVE NegotiationInv'
<1>1. NegotiationTypes /\ \A x \in Ends : Sound(warm[x])
  BY TypesSpelled DEF NegotiationInv, NegotiationIsTyped
<1>2. NegotiationIsTyped'
  <2>1. NegotiationTypes'
    BY <1>1 DEF NegotiationTypes, Closes
  <2>2. \A x \in Ends : Sound(warm'[x])
    BY <1>1 DEF Closes
  <2> QED
    BY <2>1, <2>2, TypedAfter
<1>3. \A x \in Ends : /\ warm'[x].selected => warm[x].selected
                      /\ WithoutMedia(warm[x]) => WithoutMedia(warm'[x])
                      /\ mesh'[x].awaits \subseteq mesh[x].awaits
                      /\ mesh'[x].wants \subseteq mesh[x].wants
                      /\ mesh'[x].open \subseteq mesh[x].open
                      /\ mesh'[x].link \in {mesh[x].link, "none"}
                      /\ mesh'[x].deferred \in {mesh[x].deferred, FALSE}
                      /\ status'[x] = status[x] \/ status'[x] = "over"
                      /\ status'[x] = "over" /\ status[x] # "over" => mesh'[x].open = {} /\ mesh'[x].wants = {}
                      /\ warm[x].selected /\ "warm" \in mesh'[x].open => warm'[x].selected
  BY DEF Closes
<1>4. "answered" \in said' <=> "answered" \in said
  BY DEF Closes
<1>5. \A m \in wire' : m \in wire \/ m.what = "end"
  BY DEF Closes
<1>6. RingsUntilAnswered'
  <2>1. "callee" \in Ends
    BY DEF Ends
  <2>2. status'["callee"] \in {"none", "ringing"} => "answered" \notin said'
    BY <1>3, <1>4, <2>1 DEF NegotiationInv, RingsUntilAnswered, RingsOnly, NoMediaOnWire
  <2>3. ASSUME "answered" \notin said
        PROVE  /\ \A x \in Ends : /\ status'[x] \notin {"connecting", "active"}
                                  /\ WithoutMedia(warm'[x])
                                  /\ mesh'[x].link = "none" /\ ~mesh'[x].deferred
                                  /\ {"capture", "resume", "link"} \cap mesh'[x].awaits = {}
                                  /\ "link" \notin mesh'[x].wants \cup mesh'[x].open
               /\ \A m \in wire' : m.what \notin {"media", "plain", "accept", "accept prepared"}
    BY <1>3, <1>5, <2>3 DEF NegotiationInv, RingsUntilAnswered, RingsOnly, NoMediaOnWire
  <2>4. (\A x \in Ends : WithoutMedia(warm'[x])) => (\A x \in Ends : WithoutMedia(warm[x]))'
    BY DEF WithoutMedia
  <2> QED
    BY <1>4, <2>2, <2>3, <2>4 DEF RingsUntilAnswered, RingsOnly, NoMediaOnWire
<1>7. OneWay'
  <2>1. OverPrepared' => OverPrepared
    BY <1>3, <1>5 DEF OverPrepared, To
  <2>2. OverLink' => OverLink
    BY <1>3, <1>5 DEF OverLink, To
  <2> QED
    BY <2>1, <2>2 DEF NegotiationInv, OneWay
<1>8. OneAtATime'
  <2>1. ASSUME NEW x \in Ends
        PROVE  /\ mesh'[x].open # {} \/ mesh'[x].wants # {} => Going(x)'
               /\ \A y, z \in mesh'[x].open : y = z
               /\ "pool" \in mesh'[x].wants /\ "pool" \in mesh'[x].awaits => mesh'[x].open = {}
               /\ status'[x] = "ringing" => "link" \notin mesh'[x].wants \cup mesh'[x].open
               /\ "warm" \in mesh'[x].open /\ Consents(x)' => warm'[x].selected
    <3>1. /\ mesh[x].open # {} \/ mesh[x].wants # {} => status[x] \in {"ringing", "connecting", "active"}
          /\ \A y, z \in mesh[x].open : y = z
          /\ "pool" \in mesh[x].wants /\ "pool" \in mesh[x].awaits => mesh[x].open = {}
          /\ status[x] = "ringing" => "link" \notin mesh[x].wants \cup mesh[x].open
          /\ "warm" \in mesh[x].open /\ status[x] \in {"connecting", "active"} => warm[x].selected
      BY DEF NegotiationInv, OneAtATime, OneConnection, Going, Consents
    <3>2. mesh'[x].open # {} \/ mesh'[x].wants # {} => status'[x] \in {"ringing", "connecting", "active"}
      BY <1>3, <3>1
    <3>3. \A y, z \in mesh'[x].open : y = z
      BY <1>3, <3>1
    <3>4. "pool" \in mesh'[x].wants /\ "pool" \in mesh'[x].awaits => mesh'[x].open = {}
      BY <1>3, <3>1
    <3>5. status'[x] = "ringing" => "link" \notin mesh'[x].wants \cup mesh'[x].open
      BY <1>3, <3>1
    <3>6. "warm" \in mesh'[x].open /\ status'[x] \in {"connecting", "active"} => warm'[x].selected
      BY <1>3, <3>1
    <3> QED
      BY <3>2, <3>3, <3>4, <3>5, <3>6 DEF Going, Consents
  <2> QED
    BY <2>1 DEF OneAtATime, OneConnection
<1> QED
  BY <1>2, <1>6, <1>7, <1>8 DEF NegotiationInv
\* The state of the negotiation, typed; what becomes of a prepared call.
LEMMA Typed == NegotiationInv => NegotiationTypes /\ \A x \in Ends : Sound(warm[x])
BY TypesSpelled DEF NegotiationInv, NegotiationIsTyped

LEMMA BecomesSound ==
  ASSUME NegotiationInv, NEW e \in Ends, NEW w, Sound(w), Become(e, w)
  PROVE  /\ warm' \in [Ends -> WarmCall] /\ warm'[e] = w /\ Sound(warm'[e])
         /\ \A x \in Ends : x # e => warm'[x] = warm[x]
<1>1. warm \in [Ends -> WarmCall] /\ w \in WarmCall
  BY Typed DEF NegotiationTypes, Sound
<1>2. warm'[e] = w
  BY <1>1 DEF Become
<1> QED
  BY <1>1, <1>2 DEF Become

LEMMA WorkDone ==
  ASSUME NegotiationInv, NEW e \in Ends, NEW w, Sound(w),
         w.selected = warm[e].selected, WithoutMedia(warm[e]) => WithoutMedia(w),
         BecomeFinished(e, w) \/ (Become(e, w) /\ UNCHANGED status),
         wire' \subseteq Letters,
         \A m \in wire' : m \in wire \/ m.what = "transport" \/ (m.what = "media" /\ ~WithoutMedia(warm[e])),
         news' \in [Ends -> 0 .. MaxNews], UNCHANGED <<mesh, copies, breaks, said>>
  PROVE  WarmWorks(e)
<1>1. /\ warm' \in [Ends -> WarmCall] /\ warm'[e] = w /\ Sound(warm'[e])
      /\ \A x \in Ends : x # e => warm'[x] = warm[x]
  BY BecomesSound DEF BecomeFinished
<1>2. status \in [Ends -> Statuses]
  BY Typed DEF NegotiationTypes
<1>3. /\ status' \in [Ends -> Statuses]
      /\ \A x \in Ends : status'[x] = status[x] \/ (Consents(x) /\ status'[x] = "active")
  <2>1. CASE Complete(e, w) /\ BecomeFinished(e, w)
    <3>1. status' = [status EXCEPT ![e] = "active"] /\ Consents(e)
      BY <2>1 DEF BecomeFinished, Complete
    <3> QED
      BY <1>2, <3>1 DEF Statuses
  <2>2. CASE ~Complete(e, w) \/ UNCHANGED status
    <3>1. status' = [status EXCEPT ![e] = @] \/ status' = status
      BY <2>2 DEF BecomeFinished
    <3> QED
      BY <1>2, <3>1
  <2> QED
    BY <2>1, <2>2
<1> QED
  BY <1>1, <1>3 DEF WarmWorks

\* Nothing is sent while the work goes on at home.
LEMMA NothingSent ==
  ASSUME NegotiationInv, UNCHANGED <<wire, news>>
  PROVE  /\ wire' \subseteq Letters /\ \A m \in wire' : m \in wire
         /\ news' \in [Ends -> 0 .. MaxNews]
BY Typed DEF NegotiationTypes

LEMMA ApplyWorks == ASSUME NegotiationInv, NEW e \in Ends, Apply(e) PROVE WarmWorks(e)
<1> DEFINE w == warm[e]
           what == IF "transport" \in w.signals THEN "transport" ELSE "media"
           rest == [w EXCEPT !.signals = @ \ {what}]
<1>1. Sound(w)
  BY Typed
<1>2. what \in {"transport", "media"} /\ (WithoutMedia(w) => what = "transport")
  BY <1>1 DEF Apply, WithoutMedia, Sound, WarmCall
<1>3. PICK v \in {rest, [rest EXCEPT !.kept = TRUE], [rest EXCEPT !.job = "remote", !.on = what]} :
         Become(e, v) /\ UNCHANGED warmOnly
  BY DEF Apply
<1> HIDE DEF what
<1>4. Sound(rest) /\ rest.selected = w.selected /\ (WithoutMedia(w) => WithoutMedia(rest))
  <2>1. Sound(rest)
    BY <1>1 DEF Sound, WarmCall
  <2>2. rest.selected = w.selected
    BY <1>1 DEF Sound, WarmCall
  <2>3. WithoutMedia(w) => WithoutMedia(rest)
    BY <1>1 DEF Sound, WarmCall, WithoutMedia
  <2> QED
    BY <2>1, <2>2, <2>3
<1> HIDE DEF rest
<1>5. Sound(v) /\ v.selected = w.selected /\ (WithoutMedia(w) => WithoutMedia(v))
  <2>1. CASE v = rest
    BY <1>4, <2>1
  <2>2. CASE v = [rest EXCEPT !.kept = TRUE]
    <3>1. Sound(v)
      BY <1>4, <2>2 DEF Sound, WarmCall
    <3>2. v.selected = rest.selected
      BY <1>4, <2>2 DEF Sound, WarmCall
    <3>3. WithoutMedia(rest) => WithoutMedia(v)
      BY <1>4, <2>2 DEF Sound, WarmCall, WithoutMedia
    <3> QED
      BY <1>4, <3>1, <3>2, <3>3
  <2>3. CASE v = [rest EXCEPT !.job = "remote", !.on = what]
    <3>1. Sound(v)
      <4>1. v \in WarmCall
        BY <1>2, <1>4, <2>3 DEF Sound, WarmCall
      <4>2. v.on = what
        BY <1>4, <2>3 DEF Sound, WarmCall
      <4> QED
        BY <1>2, <4>1, <4>2 DEF Sound
    <3>2. v.selected = rest.selected
      BY <1>4, <2>3 DEF Sound, WarmCall
    <3>3. WithoutMedia(w) => WithoutMedia(v)
      BY <1>2, <1>4, <2>3 DEF Sound, WarmCall, WithoutMedia
    <3> QED
      BY <1>4, <3>1, <3>2, <3>3
  <2> QED
    BY <1>3, <2>1, <2>2, <2>3
<1> QED
  BY <1>3, <1>5, NothingSent, WorkDone DEF warmOnly

LEMMA RemoteSetWorks == ASSUME NegotiationInv, NEW e \in Ends, RemoteSet(e) PROVE WarmWorks(e)
<1> DEFINE w == [warm[e] EXCEPT !.far = warm[e].on, !.on = "none", !.job = "idle"]
<1>1. Sound(warm[e]) /\ warm[e].job = "remote"
  BY Typed DEF RemoteSet
<1>2. warm[e].on \in {"transport", "media"}
  BY <1>1 DEF Sound, WarmCall
<1>3. Sound(w) /\ w.far = warm[e].on /\ w.tracks = warm[e].tracks
  <2>1. w \in WarmCall
    BY <1>1, <1>2 DEF Sound, WarmCall
  <2>2. w.job = "idle" /\ w.far = warm[e].on /\ w.tracks = warm[e].tracks
    BY <1>1 DEF Sound, WarmCall
  <2> QED
    BY <2>1, <2>2 DEF Sound
<1>4. w.selected = warm[e].selected
  BY <1>1 DEF Sound, WarmCall
<1>5. WithoutMedia(warm[e]) => WithoutMedia(w)
  BY <1>1 DEF Sound, WarmCall, WithoutMedia
<1>6. CASE e = "callee"
  <2> DEFINE v == [w EXCEPT !.phase = w.far, !.sent = "none", !.job = "answer"]
  <2>1. Become(e, v) /\ UNCHANGED status /\ UNCHANGED finishOnly
    BY <1>6 DEF RemoteSet
  <2> HIDE DEF w
  <2>2. Sound(v)
    <3>1. v \in WarmCall
      BY <1>2, <1>3 DEF Sound, WarmCall
    <3>2. v.job = "answer"
      BY <1>3 DEF Sound, WarmCall
    <3> QED
      BY <3>1, <3>2 DEF Sound
  <2>3. v.selected = w.selected
    BY <1>3 DEF Sound, WarmCall
  <2>4. WithoutMedia(w) => WithoutMedia(v)
    <3>1. WithoutMedia(w) => w.far = "transport"
      BY <1>2, <1>3 DEF WithoutMedia
    <3> QED
      BY <1>3, <3>1 DEF Sound, WarmCall, WithoutMedia
  <2> HIDE DEF v
  <2> QED
    BY <1>4, <1>5, <2>1, <2>2, <2>3, <2>4, NothingSent, WorkDone DEF finishOnly
<1>7. CASE e # "callee" /\ w.far = "transport" /\ w.tracks
  <2>1. BecomeFinished(e, Activate(e, w)) /\ UNCHANGED finishOnly
    BY <1>7 DEF RemoteSet
  <2>2. Sound(Activate(e, w)) /\ Activate(e, w).selected = w.selected
    BY <1>3, ActivatedWarmCall
  <2>3. ~WithoutMedia(warm[e])
    BY <1>3, <1>7 DEF WithoutMedia
  <2> HIDE DEF w
  <2> QED
    BY <1>4, <2>1, <2>2, <2>3, NothingSent, WorkDone DEF finishOnly
<1>8. CASE e # "callee" /\ ~(w.far = "transport" /\ w.tracks)
  <2>1. BecomeFinished(e, w) /\ UNCHANGED finishOnly
    BY <1>8 DEF RemoteSet
  <2> HIDE DEF w
  <2> QED
    BY <1>3, <1>4, <1>5, <2>1, NothingSent, WorkDone DEF finishOnly
<1> QED
  BY <1>6, <1>7, <1>8

LEMMA OfferWorks == ASSUME NegotiationInv, NEW e \in Ends, OfferMedia(e) PROVE WarmWorks(e)
<1> DEFINE v == [warm[e] EXCEPT !.job = "offer", !.offer = "made"]
<1>1. Sound(warm[e]) /\ warm[e].offer = "queued" /\ Become(e, v) /\ UNCHANGED warmOnly
  BY Typed DEF OfferMedia
<1>2. Sound(v)
  <2>1. v \in WarmCall
    BY <1>1 DEF Sound, WarmCall
  <2>2. v.job = "offer"
    BY <1>1 DEF Sound, WarmCall
  <2> QED
    BY <2>1, <2>2 DEF Sound
<1>3. v.selected = warm[e].selected
  BY <1>1 DEF Sound, WarmCall
<1>4. ~WithoutMedia(warm[e])
  BY <1>1 DEF WithoutMedia
<1> HIDE DEF v
<1> QED
  BY <1>1, <1>2, <1>3, <1>4, NothingSent, WorkDone DEF warmOnly

LEMMA LocalSetWorks == ASSUME NegotiationInv, NEW e \in Ends, LocalSet(e) PROVE WarmWorks(e)
<1> DEFINE job == warm[e].job
           w == IF job = "offer" THEN [warm[e] EXCEPT !.phase = "media", !.sent = "none", !.job = "idle"]
                                 ELSE [warm[e] EXCEPT !.job = "idle"]
           v == Publish(e, w)
<1>1. Sound(warm[e]) /\ UNCHANGED finishOnly
  BY Typed DEF LocalSet
<1>2. Sound(w) /\ w.selected = warm[e].selected /\ (WithoutMedia(warm[e]) => WithoutMedia(w))
  <2>1. CASE job = "offer"
    <3>1. w = [warm[e] EXCEPT !.phase = "media", !.sent = "none", !.job = "idle"]
      BY <2>1
    <3>2. ~WithoutMedia(warm[e])
      BY <2>1 DEF WithoutMedia
    <3> HIDE DEF w
    <3>3. w \in WarmCall
      BY <1>1, <3>1 DEF Sound, WarmCall
    <3>4. w.job = "idle"
      BY <1>1, <3>1 DEF Sound, WarmCall
    <3>5. w.selected = warm[e].selected
      BY <1>1, <3>1 DEF Sound, WarmCall
    <3> QED
      BY <3>2, <3>3, <3>4, <3>5 DEF Sound
  <2>2. CASE job # "offer"
    <3>1. w = [warm[e] EXCEPT !.job = "idle"]
      BY <2>2
    <3> HIDE DEF w
    <3>2. w \in WarmCall
      BY <1>1, <3>1 DEF Sound, WarmCall
    <3>3. w.job = "idle"
      BY <1>1, <3>1 DEF Sound, WarmCall
    <3>4. w.selected = warm[e].selected
      BY <1>1, <3>1 DEF Sound, WarmCall
    <3>5. WithoutMedia(warm[e]) => WithoutMedia(w)
      BY <1>1, <3>1 DEF Sound, WarmCall, WithoutMedia
    <3> QED
      BY <3>2, <3>3, <3>4, <3>5 DEF Sound
  <2> QED
    BY <2>1, <2>2
<1>3. PICK u \in {w, [v EXCEPT !.opener = TRUE], [v EXCEPT !.job = "publishing"]} :
         BecomeFinished(e, u) \/ (Become(e, u) /\ UNCHANGED status)
  BY DEF LocalSet
<1> HIDE DEF w
<1>4. Sound(v) /\ v.selected = w.selected /\ (WithoutMedia(w) => WithoutMedia(v))
  BY <1>2, PublishedWarmCall
<1> HIDE DEF v
<1>5. Sound(u) /\ u.selected = w.selected /\ (WithoutMedia(w) => WithoutMedia(u))
  <2>1. CASE u = w
    BY <1>2, <2>1
  <2>2. CASE u = [v EXCEPT !.opener = TRUE]
    <3>1. Sound(u)
      BY <1>4, <2>2 DEF Sound, WarmCall
    <3>2. u.selected = v.selected
      BY <1>4, <2>2 DEF Sound, WarmCall
    <3>3. WithoutMedia(v) => WithoutMedia(u)
      BY <1>4, <2>2 DEF Sound, WarmCall, WithoutMedia
    <3> QED
      BY <1>4, <3>1, <3>2, <3>3
  <2>3. CASE u = [v EXCEPT !.job = "publishing"]
    <3>1. Sound(u)
      BY <1>4, <2>3 DEF Sound, WarmCall
    <3>2. u.selected = v.selected
      BY <1>4, <2>3 DEF Sound, WarmCall
    <3>3. WithoutMedia(v) => WithoutMedia(u)
      BY <1>4, <2>3 DEF Sound, WarmCall, WithoutMedia
    <3> QED
      BY <1>4, <3>1, <3>2, <3>3
  <2> QED
    BY <1>3, <2>1, <2>2, <2>3
<1> QED
  BY <1>1, <1>2, <1>3, <1>5, NothingSent, WorkDone DEF finishOnly

LEMMA CandidateWorks == ASSUME NegotiationInv, NEW e \in Ends, Candidate(e) PROVE WarmWorks(e)
<1> DEFINE w == [warm[e] EXCEPT !.sent = "none"]
<1>1. Sound(warm[e]) /\ Become(e, Publish(e, w)) /\ UNCHANGED <<status, mesh, wire, copies, breaks, said>>
  BY Typed DEF Candidate
<1>2. Sound(w)
  BY <1>1 DEF Sound, WarmCall
<1>3. w.selected = warm[e].selected
  BY <1>1 DEF Sound, WarmCall
<1>4. WithoutMedia(warm[e]) => WithoutMedia(w)
  BY <1>1 DEF Sound, WarmCall, WithoutMedia
<1>5. news' \in [Ends -> 0 .. MaxNews] /\ wire' \subseteq Letters
  <2>1. news \in [Ends -> 0 .. MaxNews] /\ wire \subseteq Letters
    BY Typed DEF NegotiationTypes
  <2>2. news[e] + 1 \in 0 .. MaxNews
    BY <2>1, NegotiationAssumption DEF Candidate
  <2>3. news' = [news EXCEPT ![e] = news[e] + 1] /\ wire' = wire
    BY DEF Candidate
  <2> QED
    BY <2>1, <2>2, <2>3
<1> HIDE DEF w
<1> QED
  BY <1>1, <1>2, <1>3, <1>4, <1>5, PublishedWarmCall, WorkDone

LEMMA GatheredWorks == ASSUME NegotiationInv, NEW e \in Ends, Gathered(e) PROVE WarmWorks(e)
<1> DEFINE v == PublishOn(e, warm[e])
<1>1. Sound(warm[e]) /\ UNCHANGED finishOnly
      /\ (BecomeFinished(e, v) \/ (Become(e, v) /\ UNCHANGED status))
  BY Typed DEF Gathered, Published
<1> QED
  BY <1>1, PublishedOnWarmCall, NothingSent, WorkDone DEF finishOnly

LEMMA SentWorks == ASSUME NegotiationInv, NEW e \in Ends, Sent(e) PROVE WarmWorks(e)
<1> DEFINE w == warm[e]
           v == [w EXCEPT !.pub = "idle"]
<1>1. Sound(w) /\ w.pub \in {"transport", "media"} /\ UNCHANGED <<mesh, news, copies, breaks, said>>
  BY Typed DEF Sent, Sending
<1>2. wire' \subseteq Letters /\ \A m \in wire' : m \in wire \/ m = From(e, w.pub)
  <2>1. wire \subseteq Letters /\ From(e, w.pub) \in Letters
    BY <1>1, Typed, Addressed DEF NegotiationTypes
  <2> QED
    BY <2>1 DEF Sent
<1>3. \A m \in wire' : m \in wire \/ m.what = "transport" \/ (m.what = "media" /\ ~WithoutMedia(w))
  <2>1. From(e, w.pub).what = w.pub
    BY DEF From, To
  <2>2. w.pub = "media" => ~WithoutMedia(w)
    BY DEF WithoutMedia
  <2> QED
    BY <1>1, <1>2, <2>1, <2>2
<1>4. news' \in [Ends -> 0 .. MaxNews]
  BY <1>1, Typed DEF NegotiationTypes
<1>5. CASE LiveWarm(e)
  <2>1. BecomeFinished(e, PublishOn(e, w)) \/ (Become(e, PublishOn(e, w)) /\ UNCHANGED status)
    BY <1>5 DEF Sent, Published
  <2> QED
    BY <1>1, <1>2, <1>3, <1>4, <2>1, PublishedOnWarmCall, WorkDone
<1>6. CASE ~LiveWarm(e)
  <2>1. Become(e, v) /\ UNCHANGED status
    BY <1>6 DEF Sent
  <2>2. Sound(v)
    BY <1>1 DEF Sound, WarmCall
  <2>3. v.selected = w.selected
    BY <1>1 DEF Sound, WarmCall
  <2>4. WithoutMedia(w) => WithoutMedia(v)
    BY <1>1 DEF Sound, WarmCall, WithoutMedia
  <2> HIDE DEF v
  <2> QED
    BY <1>1, <1>2, <1>3, <1>4, <2>1, <2>2, <2>3, <2>4, WorkDone
<1> QED
  BY <1>5, <1>6

LEMMA UpWorks == ASSUME NegotiationInv, NEW e \in Ends, TransportUp(e) PROVE WarmWorks(e)
<1> DEFINE v == [warm[e] EXCEPT !.up = TRUE]
<1>1. Sound(warm[e]) /\ BecomeFinished(e, v) /\ UNCHANGED finishOnly
  BY Typed DEF TransportUp
<1>2. Sound(v)
  BY <1>1 DEF Sound, WarmCall
<1>3. v.selected = warm[e].selected
  BY <1>1 DEF Sound, WarmCall
<1>4. WithoutMedia(warm[e]) => WithoutMedia(v)
  BY <1>1 DEF Sound, WarmCall, WithoutMedia
<1> HIDE DEF v
<1> QED
  BY <1>1, <1>2, <1>3, <1>4, NothingSent, WorkDone DEF finishOnly

\* The prepared call works on, on any await that settles.
LEMMA PreparedCallKeepsInv ==
  ASSUME NegotiationInv, NEW e \in Ends,
         \/ Apply(e) \/ RemoteSet(e) \/ OfferMedia(e) \/ LocalSet(e) \/ Candidate(e)
         \/ Gathered(e) \/ Sent(e) \/ TransportUp(e)
  PROVE  NegotiationInv'
BY ApplyWorks, RemoteSetWorks, OfferWorks, LocalSetWorks, CandidateWorks, GatheredWorks, SentWorks,
   UpWorks, WorkKeepsInv
\* What end and the failures close.
LEMMA EndCallCloses ==
  ASSUME NegotiationInv, NEW e \in Ends, EndCall(e),
         wire' \subseteq Letters, \A m \in wire' : m \in wire \/ m.what = "end",
         copies' \in 0 .. MaxCopies, breaks' \in 0 .. MaxBreaks,
         said' \in {said, said \cup {"hung up"}, said \cup {"broke"}}, UNCHANGED news
  PROVE  Closes(e)
<1>1. /\ warm' \in [Ends -> WarmCall] /\ Sound(warm'[e]) /\ ~warm'[e].selected
      /\ \A x \in Ends : x # e => warm'[x] = warm[x]
      /\ WithoutMedia(warm[e]) => WithoutMedia(warm'[e])
      /\ mesh \in [Ends -> Tables] /\ status \in [Ends -> Statuses]
      /\ said \subseteq {"answered", "hung up", "broke"}
  <2>1. Sound(warm[e]) /\ NegotiationTypes
    BY Typed
  <2>2. /\ Sound(CloseWarm(warm[e])) /\ ~CloseWarm(warm[e]).selected
        /\ WithoutMedia(warm[e]) => WithoutMedia(CloseWarm(warm[e]))
    BY <2>1, ClosedWarmCall
  <2>3. Become(e, CloseWarm(warm[e]))
    BY DEF EndCall
  <2>4. /\ warm' \in [Ends -> WarmCall] /\ warm'[e] = CloseWarm(warm[e]) /\ Sound(warm'[e])
        /\ \A x \in Ends : x # e => warm'[x] = warm[x]
    BY <2>2, <2>3, BecomesSound
  <2> QED
    BY <2>1, <2>2, <2>4 DEF NegotiationTypes
<1>2. /\ status' \in [Ends -> Statuses] /\ status'[e] = "over"
      /\ \A x \in Ends : x # e => status'[x] = status[x]
  BY <1>1 DEF EndCall, Statuses
<1>3. /\ mesh' = [mesh EXCEPT ![e].wants = {}, ![e].open = {}, ![e].link = "none", ![e].deferred = FALSE]
  BY DEF EndCall
<1>4. /\ mesh' \in [Ends -> Tables]
      /\ \A x \in Ends : x # e => mesh'[x] = mesh[x]
      /\ mesh'[e].awaits = mesh[e].awaits /\ mesh'[e].wants = {} /\ mesh'[e].open = {}
      /\ mesh'[e].link = "none" /\ mesh'[e].deferred = FALSE
  <2>1. mesh[e] \in Tables
    BY <1>1
  <2>2. /\ mesh'[e] = [mesh[e] EXCEPT !.wants = {}, !.open = {}, !.link = "none", !.deferred = FALSE]
        /\ \A x \in Ends : x # e => mesh'[x] = mesh[x]
        /\ mesh' = [mesh EXCEPT ![e] = mesh'[e]]
    BY <1>1, <1>3
  <2>3. mesh'[e] \in Tables
    BY <2>1, <2>2 DEF Tables
  <2>4. /\ mesh'[e].awaits = mesh[e].awaits /\ mesh'[e].wants = {} /\ mesh'[e].open = {}
        /\ mesh'[e].link = "none" /\ mesh'[e].deferred = FALSE
    BY <2>1, <2>2 DEF Tables
  <2> QED
    BY <1>1, <2>2, <2>3, <2>4
<1>5. said' \subseteq {"answered", "hung up", "broke"} /\ ("answered" \in said' <=> "answered" \in said)
  BY <1>1
<1> QED
  BY <1>1, <1>2, <1>4, <1>5 DEF Closes

LEMMA DropWarmCloses ==
  ASSUME NegotiationInv, NEW e \in Ends, NEW pub \in {"idle", "gather", "transport", "media"},
         pub \in {CloseWarm(warm[e]).pub, "idle"},
         Become(e, [CloseWarm(warm[e]) EXCEPT !.pub = pub]),
         mesh' = [mesh EXCEPT ![e].open = @ \ {"warm"}], UNCHANGED <<status, wire, news, copies>>,
         breaks' \in 0 .. MaxBreaks, said' \in {said, said \cup {"broke"}}
  PROVE  Closes(e)
<1> DEFINE w == CloseWarm(warm[e])
           v == [w EXCEPT !.pub = pub]
<1>1. Sound(w) /\ ~w.selected /\ (WithoutMedia(warm[e]) => WithoutMedia(w))
  BY Typed, ClosedWarmCall
<1> HIDE DEF w
<1>2. Sound(v)
  BY <1>1 DEF Sound, WarmCall
<1>3. v.selected = w.selected
  BY <1>1 DEF Sound, WarmCall
<1>4. WithoutMedia(w) => WithoutMedia(v)
  <2>1. WithoutMedia(w) => pub # "media"
    BY DEF WithoutMedia, w
  <2> QED
    BY <1>1, <2>1 DEF Sound, WarmCall, WithoutMedia
<1>5. Become(e, v)
  BY DEF w
<1> HIDE DEF v
<1>6. /\ warm' \in [Ends -> WarmCall] /\ Sound(warm'[e]) /\ ~warm'[e].selected
      /\ \A x \in Ends : x # e => warm'[x] = warm[x]
      /\ WithoutMedia(warm[e]) => WithoutMedia(warm'[e])
  BY <1>1, <1>2, <1>3, <1>4, <1>5, BecomesSound
<1>7. NegotiationTypes
  BY Typed
<1>8. /\ mesh' \in [Ends -> Tables]
      /\ \A x \in Ends : x # e => mesh'[x] = mesh[x]
      /\ mesh'[e].awaits = mesh[e].awaits /\ mesh'[e].wants = mesh[e].wants
      /\ mesh'[e].open = mesh[e].open \ {"warm"}
      /\ mesh'[e].link = mesh[e].link /\ mesh'[e].deferred = mesh[e].deferred
  <2>1. mesh[e] \in Tables /\ mesh \in [Ends -> Tables]
    BY <1>7 DEF NegotiationTypes
  <2>2. /\ mesh'[e] = [mesh[e] EXCEPT !.open = @ \ {"warm"}]
        /\ \A x \in Ends : x # e => mesh'[x] = mesh[x]
        /\ mesh' = [mesh EXCEPT ![e] = mesh'[e]]
    BY <2>1
  <2> QED
    BY <2>1, <2>2 DEF Tables
<1>9. status[e] = "over" => mesh[e].open = {} /\ mesh[e].wants = {}
  BY DEF NegotiationInv, OneAtATime, OneConnection, Going
<1> QED
  BY <1>6, <1>7, <1>8, <1>9 DEF Closes, NegotiationTypes

\* A failure, or none.
LEMMA Broken ==
  ASSUME NegotiationTypes, Break \/ Unbroken
  PROVE  breaks' \in 0 .. MaxBreaks /\ said' \in {said, said \cup {"broke"}}
<1>1. breaks \in 0 .. MaxBreaks
  BY DEF NegotiationTypes
<1>2. breaks' \in 0 .. MaxBreaks
  BY <1>1, NegotiationAssumption DEF Break, Unbroken
<1> QED
  BY <1>2 DEF Break, Unbroken

LEMMA EndIsTold ==
  ASSUME NegotiationTypes, NEW e \in Ends, wire' = wire \cup {From(e, "end")}
  PROVE  wire' \subseteq Letters /\ \A m \in wire' : m \in wire \/ m.what = "end"
<1>1. From(e, "end") \in Letters /\ From(e, "end").what = "end"
  BY Addressed, ZenonT(60)
<1> QED
  BY <1>1 DEF NegotiationTypes

LEMMA FailWarmCloses ==
  ASSUME NegotiationInv, NEW e \in Ends, FailWarm(e), Break \/ Unbroken, UNCHANGED <<news, copies>>
  PROVE  Closes(e)
<1>1. NegotiationTypes /\ breaks' \in 0 .. MaxBreaks /\ said' \in {said, said \cup {"broke"}}
  BY Typed, Broken
<1>2. CASE warm[e].selected
  <2>1. EndCall(e) /\ wire' = wire \cup {From(e, "end")}
    BY <1>2 DEF FailWarm, EndAndTell
  <2>2. wire' \subseteq Letters /\ \A m \in wire' : m \in wire \/ m.what = "end"
    BY <1>1, <2>1, EndIsTold
  <2>3. copies' \in 0 .. MaxCopies
    BY <1>1 DEF NegotiationTypes
  <2> QED
    BY <1>1, <2>1, <2>2, <2>3, EndCallCloses
<1>3. CASE ~warm[e].selected
  <2> DEFINE w == CloseWarm(warm[e])
             v == [w EXCEPT !.pub = w.pub]
  <2>1. Become(e, w) /\ mesh' = [mesh EXCEPT ![e].open = @ \ {"warm"}] /\ UNCHANGED <<status, wire>>
    BY <1>3 DEF FailWarm, DropWarm
  <2>2. Sound(w)
    BY Typed, ClosedWarmCall
  <2>3. w.pub \in {"idle", "gather", "transport", "media"}
    BY <2>2 DEF Sound, WarmCall
  <2>4. v = w
    <3> HIDE DEF w
    <3> QED
      BY <2>2 DEF Sound, WarmCall
  <2>5. Become(e, v)
    BY <2>1, <2>4
  <2> QED
    BY <1>1, <2>1, <2>3, <2>5, DropWarmCloses
<1> QED
  BY <1>2, <1>3

LEMMA BreakingKeepsInv ==
  ASSUME NegotiationInv, NEW e \in Ends, Quit(e) \/ WarmBreaks(e) \/ LinkBreaks(e) \/ SendBreaks(e)
  PROVE  NegotiationInv'
<1>1. NegotiationTypes
  BY Typed
<1>2. CASE EndAndTell(e) /\ UNCHANGED <<news, copies>>
           /\ (Break \/ Unbroken \/ (said' = said \cup {"hung up"} /\ UNCHANGED breaks))
  <2>1. wire' \subseteq Letters /\ \A m \in wire' : m \in wire \/ m.what = "end"
    BY <1>1, <1>2, EndIsTold DEF EndAndTell
  <2>2. copies' \in 0 .. MaxCopies /\ breaks' \in 0 .. MaxBreaks
    BY <1>1, <1>2, Broken DEF NegotiationTypes
  <2>3. said' \in {said, said \cup {"hung up"}, said \cup {"broke"}}
    BY <1>1, <1>2, Broken
  <2> QED
    BY <1>2, <2>1, <2>2, <2>3, EndCallCloses, CloseKeepsInv DEF EndAndTell
<1>3. CASE FailWarm(e) /\ (Break \/ Unbroken) /\ UNCHANGED <<news, copies>>
  BY <1>3, FailWarmCloses, CloseKeepsInv
<1>4. CASE /\ Become(e, [CloseWarm(warm[e]) EXCEPT !.pub = "idle"]) /\ Break
           /\ mesh' = [mesh EXCEPT ![e].open = @ \ {"warm"}] /\ UNCHANGED <<status, wire, news, copies>>
  BY <1>1, <1>4, Broken, DropWarmCloses, CloseKeepsInv
<1> QED
  BY <1>2, <1>3, <1>4 DEF Quit, WarmBreaks, LinkBreaks, SendBreaks

LEMMA ConfigurationKeepsInv ==
  ASSUME NegotiationInv, NEW e \in Ends, NEW making \in mesh[e].awaits, ConfigurationBreaks(e, making)
  PROVE  NegotiationInv'
<1>1. /\ NegotiationTypes /\ mesh[e] \in Tables
      /\ breaks' \in 0 .. MaxBreaks /\ said' \in {said, said \cup {"broke"}}
      /\ UNCHANGED <<news, copies>>
  BY Typed, Broken DEF ConfigurationBreaks, NegotiationTypes
<1>2. said' \subseteq {"answered", "hung up", "broke"} /\ ("answered" \in said' <=> "answered" \in said)
  BY <1>1 DEF NegotiationTypes
<1>3. CASE making = "link"
  <2>1. /\ status' = [status EXCEPT ![e] = "over"]
        /\ mesh' = [mesh EXCEPT ![e] =
               [NoTables EXCEPT !.captured = mesh[e].captured, !.awaits = mesh[e].awaits \ {"link"}]]
        /\ Become(e, CloseWarm(warm[e])) /\ wire' = wire \cup {From(e, "end")}
    BY <1>3 DEF ConfigurationBreaks
  <2>2. /\ warm' \in [Ends -> WarmCall] /\ Sound(warm'[e]) /\ ~warm'[e].selected
        /\ \A x \in Ends : x # e => warm'[x] = warm[x]
        /\ WithoutMedia(warm[e]) => WithoutMedia(warm'[e])
    BY <2>1, Typed, ClosedWarmCall, BecomesSound
  <2>3. /\ status' \in [Ends -> Statuses] /\ status'[e] = "over"
        /\ \A x \in Ends : x # e => status'[x] = status[x]
    BY <1>1, <2>1 DEF NegotiationTypes, Statuses
  <2>4. /\ mesh' \in [Ends -> Tables]
        /\ \A x \in Ends : x # e => mesh'[x] = mesh[x]
        /\ mesh'[e].awaits \subseteq mesh[e].awaits /\ mesh'[e].wants = {} /\ mesh'[e].open = {}
        /\ mesh'[e].link = "none" /\ mesh'[e].deferred = FALSE
    BY <1>1, <2>1 DEF NegotiationTypes, Tables, NoTables
  <2>5. wire' \subseteq Letters /\ \A m \in wire' : m \in wire \/ m.what = "end"
    BY <1>1, <2>1, EndIsTold
  <2>6. copies' \in 0 .. MaxCopies
    BY <1>1 DEF NegotiationTypes
  <2>7. Closes(e)
    BY <1>1, <1>2, <2>2, <2>3, <2>4, <2>5, <2>6 DEF Closes
  <2> QED
    BY <2>7, CloseKeepsInv
<1>4. CASE making # "link"
  <2>1. /\ mesh' = [mesh EXCEPT ![e].awaits = @ \ {making}, ![e].wants = @ \ {making}]
        /\ UNCHANGED <<status, warm, wire>>
    BY <1>4 DEF ConfigurationBreaks
  <2>2. /\ mesh' \in [Ends -> Tables]
        /\ \A x \in Ends : x # e => mesh'[x] = mesh[x]
        /\ mesh'[e].awaits \subseteq mesh[e].awaits /\ mesh'[e].wants \subseteq mesh[e].wants
        /\ mesh'[e].open = mesh[e].open
        /\ mesh'[e].link = mesh[e].link /\ mesh'[e].deferred = mesh[e].deferred
    BY <1>1, <2>1 DEF NegotiationTypes, Tables
  <2>3. status[e] = "over" => mesh[e].open = {} /\ mesh[e].wants = {}
    BY DEF NegotiationInv, OneAtATime, OneConnection, Going
  <2>4. Sound(warm[e])
    BY Typed
  <2>5. Closes(e)
    BY <1>1, <1>2, <2>1, <2>2, <2>3, <2>4 DEF Closes, NegotiationTypes
  <2> QED
    BY <2>5, CloseKeepsInv
<1> QED
  BY <1>3, <1>4
\* A step of one phone keeps the invariant if that phone's part of it holds
\* afterwards.
LEMMA MoveKeepsInv ==
  ASSUME NegotiationInv, NEW e \in Ends, NegotiationTypes', Sound(warm'[e]),
         \A x \in Ends : x # e => status'[x] = status[x] /\ warm'[x] = warm[x] /\ mesh'[x] = mesh[x],
         said \subseteq said',
         status'["callee"] \in {"none", "ringing"} => "answered" \notin said',
         "answered" \notin said' => NoMediaOnWire' /\ RingsOnly(e)',
         OneWay', OneConnection(e)'
  PROVE  NegotiationInv'
<1>1. NegotiationIsTyped'
  <2>1. \A x \in Ends : Sound(warm'[x])
    BY Typed
  <2> QED
    BY <2>1, TypedAfter
<1>2. RingsUntilAnswered'
  <2>1. ASSUME "answered" \notin said', NEW x \in Ends
        PROVE  RingsOnly(x)'
    <3>1. CASE x = e
      BY <2>1, <3>1
    <3>2. CASE x # e
      <4>1. RingsOnly(x)
        BY <2>1 DEF NegotiationInv, RingsUntilAnswered
      <4> QED
        BY <3>2, <4>1 DEF RingsOnly, WithoutMedia
    <3> QED
      BY <3>1, <3>2
  <2> QED
    BY <2>1 DEF RingsUntilAnswered
<1>3. OneAtATime'
  <2>1. ASSUME NEW x \in Ends
        PROVE  OneConnection(x)'
    <3>1. CASE x = e
      BY <3>1
    <3>2. CASE x # e
      <4>1. OneConnection(x)
        BY DEF NegotiationInv, OneAtATime
      <4> QED
        BY <3>2, <4>1 DEF OneConnection, Going, Consents
    <3> QED
      BY <3>1, <3>2
  <2> QED
    BY <2>1 DEF OneAtATime
<1> QED
  BY <1>1, <1>2, <1>3 DEF NegotiationInv

\* Whatever leads to the media comes after the answer.
LEMMA MediaMeansAnswered ==
  ASSUME NegotiationInv, OverPrepared \/ OverLink
  PROVE  "answered" \in said /\ status["callee"] \notin {"none", "ringing"}
<1>1. "answered" \in said
  <2> SUFFICES ASSUME "answered" \notin said
               PROVE  FALSE
    OBVIOUS
  <2>1. NoMediaOnWire /\ \A e \in Ends : RingsOnly(e)
    BY DEF NegotiationInv, RingsUntilAnswered
  <2> QED
    BY <2>1 DEF OverPrepared, OverLink, NoMediaOnWire, RingsOnly, WithoutMedia, To
<1> QED
  BY <1>1 DEF NegotiationInv, RingsUntilAnswered

\* A phone changes its tables only.
LEMMA TablesKeepInv ==
  ASSUME NegotiationInv, NEW e \in Ends, mesh' \in [Ends -> Tables],
         \A x \in Ends : x # e => mesh'[x] = mesh[x],
         wire' \subseteq Letters, copies' \in 0 .. MaxCopies,
         \A m \in wire' : m \in wire \/ (m.what = "plain" /\ OverLink),
         UNCHANGED <<status, warm, news, breaks, said>>,
         {"capture", "resume", "link"} \cap mesh'[e].awaits # {} => "answered" \in said,
         mesh'[e].link # "none" \/ mesh'[e].deferred \/ "link" \in mesh'[e].wants \cup mesh'[e].open => OverLink,
         OneConnection(e)'
  PROVE  NegotiationInv'
<1>1. NegotiationTypes'
  BY Typed DEF NegotiationTypes
<1>2. Sound(warm'[e])
  BY Typed
<1>3. ~OverPrepared \/ ~OverLink
  BY DEF NegotiationInv, OneWay
<1>4. OverPrepared' => OverPrepared
  BY DEF OverPrepared, To
<1>5. OverLink' => OverLink
  <2>1. \A x \in Ends : mesh'[x].link # "none" \/ mesh'[x].deferred
                        \/ "link" \in mesh'[x].wants \cup mesh'[x].open => OverLink
    BY DEF OverLink
  <2>2. \A x \in Ends : To(x, "plain") \in wire' => OverLink
    BY DEF OverLink
  <2>3. To("caller", "accept") \in wire' => OverLink
    BY DEF OverLink, To
  <2> QED
    BY <2>1, <2>2, <2>3 DEF OverLink, To
<1>6. status'["callee"] \in {"none", "ringing"} => "answered" \notin said'
  BY DEF NegotiationInv, RingsUntilAnswered
<1>7. ASSUME "answered" \notin said'
      PROVE  NoMediaOnWire' /\ RingsOnly(e)'
  <2>1. ~OverLink
    BY <1>7, MediaMeansAnswered
  <2>2. NoMediaOnWire /\ RingsOnly(e)
    BY <1>7 DEF NegotiationInv, RingsUntilAnswered
  <2> QED
    BY <1>7, <2>1, <2>2 DEF NoMediaOnWire, RingsOnly, WithoutMedia
<1>8. OneWay'
  BY <1>3, <1>4, <1>5 DEF OneWay
<1> QED
  BY <1>1, <1>2, <1>6, <1>7, <1>8, MoveKeepsInv

\* The tables of an end, where they are used.
LEMMA TablesOf ==
  ASSUME NegotiationInv, NEW e \in Ends
  PROVE  /\ mesh \in [Ends -> Tables] /\ mesh[e] \in Tables /\ OneConnection(e)
         /\ wire \subseteq Letters /\ copies \in 0 .. MaxCopies
         /\ mesh[e].link # "none" \/ mesh[e].deferred \/ "link" \in mesh[e].wants \cup mesh[e].open => OverLink
         /\ {"capture", "resume", "link"} \cap mesh[e].awaits # {} => "answered" \in said
<1>1. NegotiationTypes
  BY Typed
<1>2. {"capture", "resume", "link"} \cap mesh[e].awaits # {} => "answered" \in said
  BY DEF NegotiationInv, RingsUntilAnswered, RingsOnly
<1> QED
  BY <1>1, <1>2 DEF NegotiationTypes, OverLink, NegotiationInv, OneAtATime

LEMMA InviteSentKeepsInv == ASSUME NegotiationInv, InviteSent PROVE NegotiationInv'
<1> DEFINE m == mesh["caller"]
           begun == IF Going("caller") THEN {"warm"} ELSE {}
           n == [m EXCEPT !.awaits = (@ \ {"invite"}) \cup begun, !.wants = @ \cup begun]
<1>1. "caller" \in Ends
  BY DEF Ends
<1>2. /\ mesh \in [Ends -> Tables] /\ m \in Tables /\ OneConnection("caller")
      /\ wire \subseteq Letters /\ copies \in 0 .. MaxCopies
      /\ m.link # "none" \/ m.deferred \/ "link" \in m.wants \cup m.open => OverLink
      /\ {"capture", "resume", "link"} \cap m.awaits # {} => "answered" \in said
  BY <1>1, TablesOf
<1>3. begun \subseteq {"warm"} /\ (begun # {} => Going("caller"))
  OBVIOUS
<1>4. mesh' = [mesh EXCEPT !["caller"] = n] /\ UNCHANGED <<status, warm, wire, news, copies, breaks, said>>
  BY DEF InviteSent
<1> HIDE DEF begun, m
<1>5. /\ n \in Tables /\ n.awaits = (m.awaits \ {"invite"}) \cup begun /\ n.wants = m.wants \cup begun
      /\ n.open = m.open /\ n.link = m.link /\ n.deferred = m.deferred
  BY <1>2, <1>3 DEF Tables
<1> HIDE DEF n
<1>6. /\ mesh' \in [Ends -> Tables] /\ mesh'["caller"] = n
      /\ \A x \in Ends : x # "caller" => mesh'[x] = mesh[x]
  BY <1>1, <1>2, <1>4, <1>5
<1>7. OneConnection("caller")'
  BY <1>2, <1>3, <1>4, <1>5, <1>6 DEF OneConnection, Going, Consents, m
<1>8. /\ n.link # "none" \/ n.deferred \/ "link" \in n.wants \cup n.open => OverLink
      /\ {"capture", "resume", "link"} \cap n.awaits # {} => "answered" \in said
  BY <1>2, <1>3, <1>5
<1> QED
  BY <1>1, <1>2, <1>4, <1>6, <1>7, <1>8, TablesKeepInv

LEMMA PooledKeepsInv == ASSUME NegotiationInv, Pooled PROVE NegotiationInv'
<1> DEFINE m == mesh["callee"]
           open == IF "pool" \in m.wants THEN m.open \cup {"pool"} ELSE m.open
           n == [m EXCEPT !.awaits = @ \ {"pool"}, !.open = open]
<1>1. "callee" \in Ends
  BY DEF Ends
<1>2. /\ mesh \in [Ends -> Tables] /\ m \in Tables /\ OneConnection("callee")
      /\ wire \subseteq Letters /\ copies \in 0 .. MaxCopies
      /\ m.link # "none" \/ m.deferred \/ "link" \in m.wants \cup m.open => OverLink
      /\ {"capture", "resume", "link"} \cap m.awaits # {} => "answered" \in said
  BY <1>1, TablesOf
<1>3. /\ open = m.open \/ ("pool" \in m.wants /\ m.open = {} /\ open = {"pool"})
      /\ open \in SUBSET {"pool", "warm", "link"}
  BY <1>2 DEF Pooled, OneConnection, Tables
<1>4. mesh' = [mesh EXCEPT !["callee"] = n] /\ UNCHANGED <<status, warm, wire, news, copies, breaks, said>>
  BY DEF Pooled, meshOnly
<1> HIDE DEF open, m
<1>5. /\ n \in Tables /\ n.awaits = m.awaits \ {"pool"} /\ n.wants = m.wants
      /\ n.open = open /\ n.link = m.link /\ n.deferred = m.deferred
  BY <1>2, <1>3 DEF Tables
<1> HIDE DEF n
<1>6. /\ mesh' \in [Ends -> Tables] /\ mesh'["callee"] = n
      /\ \A x \in Ends : x # "callee" => mesh'[x] = mesh[x]
  BY <1>1, <1>2, <1>4, <1>5
<1>7. OneConnection("callee")'
  BY <1>2, <1>3, <1>4, <1>5, <1>6 DEF OneConnection, Going, Consents, m
<1>8. /\ n.link # "none" \/ n.deferred \/ "link" \in n.wants \cup n.open => OverLink
      /\ {"capture", "resume", "link"} \cap n.awaits # {} => "answered" \in said
  BY <1>2, <1>3, <1>5
<1> QED
  BY <1>1, <1>2, <1>4, <1>6, <1>7, <1>8, TablesKeepInv

\* A link takes the place of the pool; nothing prepared is open, for the call
\* goes the other way.
LEMMA LinkedKeepsInv == ASSUME NegotiationInv, NEW e \in Ends, Linked(e) PROVE NegotiationInv'
<1> DEFINE m == mesh[e]
           made == [m EXCEPT !.awaits = @ \ {"link"}, !.wants = @ \ {"pool", "link"},
                             !.open = (@ \ {"pool"}) \cup {"link"}, !.link = "made"]
           none == [m EXCEPT !.awaits = @ \ {"link"}, !.wants = @ \ {"link"}]
<1>1. /\ mesh \in [Ends -> Tables] /\ m \in Tables /\ OneConnection(e)
      /\ wire \subseteq Letters /\ copies \in 0 .. MaxCopies
      /\ m.link # "none" \/ m.deferred \/ "link" \in m.wants \cup m.open => OverLink
      /\ {"capture", "resume", "link"} \cap m.awaits # {} => "answered" \in said
  BY TablesOf
<1>2. /\ UNCHANGED <<status, warm, wire, news, copies, breaks, said>>
      /\ \/ "link" \in m.wants /\ status[e] = "connecting" /\ mesh' = [mesh EXCEPT ![e] = made]
         \/ mesh' = [mesh EXCEPT ![e] = none]
  BY DEF Linked, meshOnly
<1>3. "link" \in m.wants /\ status[e] = "connecting" => m.open \subseteq {"pool", "link"}
  <2> SUFFICES ASSUME "link" \in m.wants, status[e] = "connecting", "warm" \in m.open
               PROVE  FALSE
    BY <1>1 DEF Tables
  <2>1. warm[e].selected
    BY <1>1 DEF OneConnection, Consents
  <2> QED
    BY <1>1, <2>1 DEF NegotiationInv, OneWay, OverPrepared
<1> HIDE DEF m
<1>4. /\ made \in Tables /\ made.awaits = m.awaits \ {"link"} /\ made.wants = m.wants \ {"pool", "link"}
      /\ made.open = (m.open \ {"pool"}) \cup {"link"} /\ made.deferred = m.deferred
  BY <1>1 DEF Tables
<1>5. /\ none \in Tables /\ none.awaits = m.awaits \ {"link"} /\ none.wants = m.wants \ {"link"}
      /\ none.open = m.open /\ none.link = m.link /\ none.deferred = m.deferred
  BY <1>1 DEF Tables
<1> HIDE DEF made, none
<1>6. CASE "link" \in m.wants /\ status[e] = "connecting" /\ mesh' = [mesh EXCEPT ![e] = made]
  <2>1. /\ mesh' \in [Ends -> Tables] /\ mesh'[e] = made
        /\ \A x \in Ends : x # e => mesh'[x] = mesh[x]
    BY <1>1, <1>4, <1>6
  <2>2. OneConnection(e)'
    BY <1>1, <1>2, <1>3, <1>4, <1>6, <2>1 DEF OneConnection, Going, Consents, m
  <2>3. OverLink /\ "answered" \in said
    BY <1>1, <1>6, MediaMeansAnswered
  <2> QED
    BY <1>1, <1>2, <2>1, <2>2, <2>3, TablesKeepInv
<1>7. CASE mesh' = [mesh EXCEPT ![e] = none]
  <2>1. /\ mesh' \in [Ends -> Tables] /\ mesh'[e] = none
        /\ \A x \in Ends : x # e => mesh'[x] = mesh[x]
    BY <1>1, <1>5, <1>7
  <2>2. OneConnection(e)'
    BY <1>1, <1>2, <1>5, <2>1 DEF OneConnection, Going, Consents, m
  <2>3. /\ none.link # "none" \/ none.deferred \/ "link" \in none.wants \cup none.open => OverLink
        /\ {"capture", "resume", "link"} \cap none.awaits # {} => "answered" \in said
    BY <1>1, <1>5
  <2> QED
    BY <1>1, <1>2, <2>1, <2>2, <2>3, TablesKeepInv
<1> QED
  BY <1>2, <1>6, <1>7

LEMMA LinkPublishedKeepsInv ==
  ASSUME NegotiationInv, NEW e \in Ends, LinkPublished(e)
  PROVE  NegotiationInv'
<1> DEFINE n == [mesh[e] EXCEPT !.link = "sent"]
<1>1. /\ mesh \in [Ends -> Tables] /\ mesh[e] \in Tables /\ OneConnection(e)
      /\ wire \subseteq Letters /\ copies \in 0 .. MaxCopies
      /\ {"capture", "resume", "link"} \cap mesh[e].awaits # {} => "answered" \in said
      /\ OverLink
  BY TablesOf DEF LinkPublished
<1>2. /\ mesh' = [mesh EXCEPT ![e] = n] /\ UNCHANGED <<status, warm, news, copies, breaks, said>>
      /\ wire' = wire \cup {From(e, "plain")}
  BY DEF LinkPublished
<1>3. /\ n \in Tables /\ n.awaits = mesh[e].awaits /\ n.wants = mesh[e].wants /\ n.open = mesh[e].open
  BY <1>1 DEF Tables
<1> HIDE DEF n
<1>4. /\ mesh' \in [Ends -> Tables] /\ mesh'[e] = n
      /\ \A x \in Ends : x # e => mesh'[x] = mesh[x]
  BY <1>1, <1>2, <1>3
<1>5. OneConnection(e)'
  BY <1>1, <1>2, <1>3, <1>4 DEF OneConnection, Going, Consents
<1>6. From(e, "plain") \in Letters /\ From(e, "plain").what = "plain"
  BY Addressed
<1>7. wire' \subseteq Letters /\ \A m \in wire' : m \in wire \/ (m.what = "plain" /\ OverLink)
  BY <1>1, <1>2, <1>6
<1> QED
  BY <1>1, <1>2, <1>3, <1>4, <1>5, <1>7, TablesKeepInv

LEMMA CaptureKeepsInv == ASSUME NegotiationInv, CaptureReady PROVE NegotiationInv'
<1> DEFINE m == mesh["callee"]
           here == [m EXCEPT !.awaits = (@ \ {"capture"}) \cup {"resume"}, !.captured = TRUE]
           gone == [m EXCEPT !.awaits = @ \ {"capture"}]
<1>1. "callee" \in Ends
  BY DEF Ends
<1>2. /\ mesh \in [Ends -> Tables] /\ m \in Tables /\ OneConnection("callee")
      /\ wire \subseteq Letters /\ copies \in 0 .. MaxCopies
      /\ m.link # "none" \/ m.deferred \/ "link" \in m.wants \cup m.open => OverLink
      /\ {"capture", "resume", "link"} \cap m.awaits # {} => "answered" \in said
  BY <1>1, TablesOf
<1>3. PICK n \in {here, gone} :
         mesh' = [mesh EXCEPT !["callee"] = n] /\ UNCHANGED <<status, warm, wire, news, copies, breaks, said>>
  BY DEF CaptureReady, meshOnly
<1>4. "answered" \in said
  BY <1>2 DEF CaptureReady
<1> HIDE DEF m
<1>5. /\ n \in Tables /\ n.awaits \subseteq m.awaits \cup {"resume"} /\ n.wants = m.wants
      /\ n.open = m.open /\ n.link = m.link /\ n.deferred = m.deferred
  <2>1. CASE n = here
    BY <1>2, <2>1 DEF Tables
  <2>2. CASE n = gone
    BY <1>2, <2>2 DEF Tables
  <2> QED
    BY <1>3, <2>1, <2>2
<1> HIDE DEF here, gone
<1>6. /\ mesh' \in [Ends -> Tables] /\ mesh'["callee"] = n
      /\ \A x \in Ends : x # "callee" => mesh'[x] = mesh[x]
  BY <1>1, <1>2, <1>3, <1>5
<1>7. OneConnection("callee")'
  BY <1>2, <1>3, <1>5, <1>6 DEF OneConnection, Going, Consents, m
<1>8. n.link # "none" \/ n.deferred \/ "link" \in n.wants \cup n.open => OverLink
  BY <1>2, <1>5
<1> QED
  BY <1>1, <1>2, <1>3, <1>4, <1>6, <1>7, <1>8, TablesKeepInv
\* The prepared connection takes the place of the pool while the call rings.
LEMMA PreparedKeepsInv == ASSUME NegotiationInv, NEW e \in Ends, Prepared(e) PROVE NegotiationInv'
<1> DEFINE m == mesh[e]
           made == [m EXCEPT !.awaits = @ \ {"warm"}, !.wants = @ \ {"pool", "warm"},
                             !.open = (@ \ {"pool"}) \cup {"warm"}]
           none == [m EXCEPT !.awaits = @ \ {"warm"}, !.wants = @ \ {"warm"}]
           w == [NoWarm EXCEPT !.stage = "live",
                     !.job = IF e = "caller" THEN "opening" ELSE "idle",
                     !.signals = IF e = "callee" THEN {"transport"} ELSE {}]
<1>1. /\ mesh \in [Ends -> Tables] /\ m \in Tables /\ OneConnection(e)
      /\ wire \subseteq Letters /\ copies \in 0 .. MaxCopies
      /\ m.link # "none" \/ m.deferred \/ "link" \in m.wants \cup m.open => OverLink
      /\ {"capture", "resume", "link"} \cap m.awaits # {} => "answered" \in said
  BY TablesOf
<1>2. /\ UNCHANGED <<status, wire, news, copies, breaks, said>>
      /\ \/ /\ "warm" \in m.wants /\ status[e] = "ringing"
            /\ Become(e, w) /\ mesh' = [mesh EXCEPT ![e] = made]
         \/ mesh' = [mesh EXCEPT ![e] = none] /\ UNCHANGED warm
  BY DEF Prepared
<1>3. /\ made \in Tables /\ made.awaits = m.awaits \ {"warm"} /\ made.wants = m.wants \ {"pool", "warm"}
      /\ made.open = (m.open \ {"pool"}) \cup {"warm"} /\ made.deferred = m.deferred /\ made.link = m.link
  BY <1>1 DEF Tables
<1>4. /\ none \in Tables /\ none.awaits = m.awaits \ {"warm"} /\ none.wants = m.wants \ {"warm"}
      /\ none.open = m.open /\ none.link = m.link /\ none.deferred = m.deferred
  BY <1>1 DEF Tables
<1>5. Sound(w) /\ WithoutMedia(w) /\ ~w.selected
  <2>1. w \in WarmCall
    BY DEF NoWarm, WarmCall
  <2>2. w.job # "remote"
    BY DEF NoWarm
  <2>3. WithoutMedia(w)
    BY DEF NoWarm, WithoutMedia
  <2> QED
    BY <2>1, <2>2, <2>3 DEF Sound, WithoutMedia
<1> HIDE DEF made, none, m, w
<1>6. CASE "warm" \in m.wants /\ status[e] = "ringing" /\ Become(e, w) /\ mesh' = [mesh EXCEPT ![e] = made]
  <2>1. /\ mesh' \in [Ends -> Tables] /\ mesh'[e] = made
        /\ \A x \in Ends : x # e => mesh'[x] = mesh[x]
    BY <1>1, <1>3, <1>6
  <2>2. /\ warm' \in [Ends -> WarmCall] /\ warm'[e] = w /\ Sound(warm'[e])
        /\ \A x \in Ends : x # e => warm'[x] = warm[x]
    BY <1>5, <1>6, BecomesSound
  <2>3. NegotiationTypes'
    BY <1>2, <2>1, <2>2, Typed DEF NegotiationTypes
  <2>4. m.open \subseteq {"pool", "warm"}
    BY <1>1, <1>6 DEF OneConnection, Tables, m
  <2>5. OneConnection(e)'
    BY <1>1, <1>2, <1>3, <1>6, <2>1, <2>4 DEF OneConnection, Going, Consents, m
  <2>6. OverPrepared' => OverPrepared
    BY <1>2, <1>5, <2>2 DEF OverPrepared
  <2>7. OverLink' => OverLink
    <3>1. made.link # "none" \/ made.deferred \/ "link" \in made.wants \cup made.open => OverLink
      BY <1>1, <1>3
    <3> QED
      BY <1>2, <2>1, <3>1 DEF OverLink
  <2>8. OneWay'
    BY <2>6, <2>7 DEF NegotiationInv, OneWay
  <2>9. "answered" \notin said' => NoMediaOnWire' /\ RingsOnly(e)'
    <3> SUFFICES ASSUME "answered" \notin said
                 PROVE  NoMediaOnWire' /\ RingsOnly(e)'
      BY <1>2
    <3>1. NoMediaOnWire /\ RingsOnly(e)
      BY DEF NegotiationInv, RingsUntilAnswered
    <3>2. WithoutMedia(warm[e])'
      BY <1>5, <2>2 DEF WithoutMedia
    <3>3. NoMediaOnWire'
      BY <1>2, <3>1 DEF NoMediaOnWire
    <3>4. status'[e] \notin {"connecting", "active"}
      BY <1>2, <3>1 DEF RingsOnly
    <3>5. /\ m.link = "none" /\ ~m.deferred
          /\ {"capture", "resume", "link"} \cap m.awaits = {}
          /\ "link" \notin m.wants \cup m.open
      BY <3>1 DEF RingsOnly, m
    <3>6. /\ made.link = "none" /\ ~made.deferred
          /\ {"capture", "resume", "link"} \cap made.awaits = {}
          /\ "link" \notin made.wants \cup made.open
      BY <1>3, <3>5
    <3>7. RingsOnly(e)'
      BY <2>1, <3>2, <3>4, <3>6 DEF RingsOnly
    <3> QED
      BY <3>3, <3>7
  <2>10. status'["callee"] \in {"none", "ringing"} => "answered" \notin said'
    BY <1>2 DEF NegotiationInv, RingsUntilAnswered
  <2> QED
    BY <1>2, <2>1, <2>2, <2>3, <2>5, <2>8, <2>9, <2>10, MoveKeepsInv
<1>7. CASE mesh' = [mesh EXCEPT ![e] = none] /\ UNCHANGED warm
  <2>1. /\ mesh' \in [Ends -> Tables] /\ mesh'[e] = none
        /\ \A x \in Ends : x # e => mesh'[x] = mesh[x]
    BY <1>1, <1>4, <1>7
  <2>2. OneConnection(e)'
    BY <1>1, <1>2, <1>4, <1>7, <2>1 DEF OneConnection, Going, Consents, m
  <2>3. /\ none.link # "none" \/ none.deferred \/ "link" \in none.wants \cup none.open => OverLink
        /\ {"capture", "resume", "link"} \cap none.awaits # {} => "answered" \in said
    BY <1>1, <1>4
  <2> QED
    BY <1>1, <1>2, <1>7, <2>1, <2>2, <2>3, TablesKeepInv
<1> QED
  BY <1>2, <1>6, <1>7

LEMMA LinkUpKeepsInv == ASSUME NegotiationInv, NEW e \in Ends, LinkUp(e) PROVE NegotiationInv'
<1>1. /\ status[e] = "connecting" /\ status' = [status EXCEPT ![e] = "active"]
      /\ UNCHANGED <<mesh, wire, news, copies, breaks, said, warm>>
  BY DEF LinkUp, finishOnly
<1>2. NegotiationTypes /\ Sound(warm'[e])
  BY <1>1, Typed
<1>3. /\ status' \in [Ends -> Statuses] /\ status'[e] = "active"
      /\ \A x \in Ends : x # e => status'[x] = status[x]
  BY <1>1, <1>2 DEF NegotiationTypes, Statuses
<1>4. NegotiationTypes'
  BY <1>1, <1>2, <1>3 DEF NegotiationTypes
<1>5. OneConnection(e)'
  <2>1. OneConnection(e)
    BY DEF NegotiationInv, OneAtATime
  <2> QED
    BY <1>1, <1>3, <2>1 DEF OneConnection, Going, Consents
<1>6. OneWay'
  BY <1>1 DEF NegotiationInv, OneWay, OverPrepared, OverLink
<1>7. "answered" \in said
  BY <1>1 DEF NegotiationInv, RingsUntilAnswered, RingsOnly
<1>8. status'["callee"] \notin {"none", "ringing"}
  <2>1. "callee" \in Ends
    BY DEF Ends
  <2> QED
    BY <1>3, <1>7, <2>1 DEF NegotiationInv, RingsUntilAnswered
<1> QED
  BY <1>1, <1>2, <1>3, <1>4, <1>5, <1>6, <1>7, <1>8, MoveKeepsInv

\* The answer chooses the way: before it neither was begun.
LEMMA PickUpKeepsInv == ASSUME NegotiationInv, PickUp PROVE NegotiationInv'
<1> DEFINE e == "callee"
           m == mesh[e]
           w == warm[e]
           prepared == w.stage = "live" /\ w.far = "transport"
           letter == From(e, IF prepared THEN "accept prepared" ELSE "accept")
           kept == [m EXCEPT !.awaits = @ \cup {"capture"}, !.wants = @ \ {"pool", "link"},
                             !.open = @ \ {"pool", "link"}, !.deferred = FALSE]
           left == [m EXCEPT !.awaits = @ \cup {"capture"}, !.wants = @ \ {"warm"}, !.open = @ \ {"warm"}]
<1>1. e \in Ends /\ "caller" \in Ends
  BY DEF Ends
<1>2. /\ mesh \in [Ends -> Tables] /\ m \in Tables /\ OneConnection(e)
      /\ wire \subseteq Letters /\ NegotiationTypes /\ Sound(w)
  BY <1>1, TablesOf, Typed
<1>3. /\ status[e] = "ringing" /\ status' = [status EXCEPT ![e] = "connecting"]
      /\ said' = said \cup {"answered"} /\ wire' = wire \cup {letter}
      /\ UNCHANGED <<news, copies, breaks>>
  BY DEF PickUp
<1>4. ~OverPrepared /\ ~OverLink
  BY <1>3, MediaMeansAnswered
<1>5. /\ status' \in [Ends -> Statuses] /\ status'[e] = "connecting"
      /\ \A x \in Ends : x # e => status'[x] = status[x]
  BY <1>1, <1>2, <1>3 DEF NegotiationTypes, Statuses
<1>6. /\ letter \in Letters
      /\ prepared => letter.what = "accept prepared"
      /\ ~prepared => letter.what = "accept"
  <2>1. /\ prepared => letter = From(e, "accept prepared")
        /\ ~prepared => letter = From(e, "accept")
    OBVIOUS
  <2>2. /\ From(e, "accept prepared") \in Letters /\ From(e, "accept prepared").what = "accept prepared"
        /\ From(e, "accept") \in Letters /\ From(e, "accept").what = "accept"
    BY DEF From, To, FarEnd, Letters, Ends
  <2> HIDE DEF letter, prepared
  <2> QED
    BY <2>1, <2>2
<1>7. wire' \subseteq Letters
  BY <1>2, <1>3, <1>6
<1>8. /\ kept \in Tables /\ kept.wants = m.wants \ {"pool", "link"} /\ kept.open = m.open \ {"pool", "link"}
      /\ kept.link = m.link /\ kept.deferred = FALSE
  BY <1>2 DEF Tables
<1>9. /\ left \in Tables /\ left.wants = m.wants \ {"warm"} /\ left.open = m.open \ {"warm"}
      /\ left.awaits = m.awaits \cup {"capture"} /\ left.link = m.link /\ left.deferred = m.deferred
  BY <1>2 DEF Tables
<1>10. CASE prepared
  <2> DEFINE v == [w EXCEPT !.selected = TRUE]
  <2>1. Become(e, v) /\ mesh' = [mesh EXCEPT ![e] = kept]
    BY <1>10 DEF PickUp
  <2>2. Sound(v) /\ v.selected
    <3>1. v \in WarmCall
      BY <1>2 DEF Sound, WarmCall
    <3>2. v.job = w.job /\ v.on = w.on
      BY <1>2 DEF Sound, WarmCall
    <3>3. v.selected
      BY <1>2 DEF Sound, WarmCall
    <3> QED
      BY <1>2, <3>1, <3>2, <3>3 DEF Sound
  <2> HIDE DEF v, kept, letter, m, w
  <2>3. /\ mesh' \in [Ends -> Tables] /\ mesh'[e] = kept
        /\ \A x \in Ends : x # e => mesh'[x] = mesh[x]
    BY <1>1, <1>2, <1>8, <2>1
  <2>4. /\ warm' \in [Ends -> WarmCall] /\ warm'[e] = v /\ Sound(warm'[e])
        /\ \A x \in Ends : x # e => warm'[x] = warm[x]
    BY <1>1, <2>1, <2>2, BecomesSound
  <2>5. NegotiationTypes'
    BY <1>2, <1>3, <1>5, <1>7, <2>3, <2>4 DEF NegotiationTypes
  <2>6. OneConnection(e)'
    BY <1>2, <1>3, <1>5, <1>8, <2>2, <2>3, <2>4 DEF OneConnection, Going, Consents, m
  <2>7. ~OverLink'
    <3>1. kept.link = "none" /\ ~kept.deferred /\ "link" \notin kept.wants \cup kept.open
      BY <1>1, <1>4, <1>8 DEF OverLink, m
    <3>2. letter.what = "accept prepared"
      BY <1>6, <1>10
    <3>3. To("caller", "accept").what = "accept" /\ \A x \in Ends : To(x, "plain").what = "plain"
      BY DEF To
    <3>4. To("caller", "accept") # letter /\ \A x \in Ends : To(x, "plain") # letter
      BY <3>2, <3>3
    <3> QED
      BY <1>3, <1>4, <2>3, <3>1, <3>4 DEF OverLink
  <2> QED
    BY <1>1, <1>3, <1>5, <2>3, <2>4, <2>5, <2>6, <2>7, MoveKeepsInv DEF OneWay
<1>11. CASE ~prepared
  <2> DEFINE v == IF w.stage = "live" THEN CloseWarm(w) ELSE w
  <2>1. Become(e, v) /\ mesh' = [mesh EXCEPT ![e] = left]
    BY <1>11 DEF PickUp
  <2>2. Sound(v) /\ (v.selected => w.selected)
    BY <1>2, ClosedWarmCall
  <2> HIDE DEF v, left, letter, m, w
  <2>3. /\ mesh' \in [Ends -> Tables] /\ mesh'[e] = left
        /\ \A x \in Ends : x # e => mesh'[x] = mesh[x]
    BY <1>1, <1>2, <1>9, <2>1
  <2>4. /\ warm' \in [Ends -> WarmCall] /\ warm'[e] = v /\ Sound(warm'[e])
        /\ \A x \in Ends : x # e => warm'[x] = warm[x]
    BY <1>1, <2>1, <2>2, BecomesSound
  <2>5. NegotiationTypes'
    BY <1>2, <1>3, <1>5, <1>7, <2>3, <2>4 DEF NegotiationTypes
  <2>6. OneConnection(e)'
    BY <1>2, <1>3, <1>5, <1>9, <2>3, <2>4 DEF OneConnection, Going, Consents, m
  <2>7. ~OverPrepared'
    <3>1. \A x \in Ends : ~warm'[x].selected
      BY <1>1, <1>4, <2>2, <2>4 DEF OverPrepared, w
    <3>2. letter.what = "accept"
      BY <1>6, <1>11
    <3>3. To("caller", "accept prepared").what = "accept prepared"
      BY DEF To
    <3>4. To("caller", "accept prepared") # letter
      BY <3>2, <3>3
    <3> QED
      BY <1>3, <1>4, <3>1, <3>4 DEF OverPrepared
  <2> QED
    BY <1>1, <1>3, <1>5, <2>3, <2>4, <2>5, <2>6, <2>7, MoveKeepsInv DEF OneWay
<1> QED
  BY <1>10, <1>11

LEMMA ResumeKeepsInv == ASSUME NegotiationInv, Resume PROVE NegotiationInv'
<1> DEFINE e == "callee"
           m == mesh[e]
           offered == m.deferred /\ status[e] = "connecting"
           rest == [m EXCEPT !.awaits = @ \ {"resume"}]
           taken == [m EXCEPT !.deferred = FALSE,
                         !.awaits = (@ \ {"resume"}) \cup (IF offered THEN {"link"} ELSE {}),
                         !.wants = IF offered THEN @ \cup {"link"} ELSE @]
<1>1. e \in Ends
  BY DEF Ends
<1>2. /\ mesh \in [Ends -> Tables] /\ m \in Tables /\ OneConnection(e)
      /\ wire \subseteq Letters /\ copies \in 0 .. MaxCopies /\ NegotiationTypes /\ Sound(warm[e])
      /\ m.link # "none" \/ m.deferred \/ "link" \in m.wants \cup m.open => OverLink
      /\ {"capture", "resume", "link"} \cap m.awaits # {} => "answered" \in said
  BY <1>1, TablesOf, Typed
<1>3. "answered" \in said /\ UNCHANGED <<status, wire, news, copies, breaks, said>>
  BY <1>2 DEF Resume
<1>4. CASE LiveWarm(e) /\ warm[e].selected
  <2>1. Become(e, Activate(e, warm[e])) /\ mesh' = [mesh EXCEPT ![e] = rest]
    BY <1>4 DEF Resume
  <2>2. Sound(Activate(e, warm[e])) /\ Activate(e, warm[e]).selected = warm[e].selected
    BY <1>1, <1>2, ActivatedWarmCall
  <2>3. /\ rest \in Tables /\ rest.awaits \subseteq m.awaits /\ rest.wants = m.wants
        /\ rest.open = m.open /\ rest.link = m.link /\ rest.deferred = m.deferred
    BY <1>2 DEF Tables
  <2> HIDE DEF rest, m
  <2>4. /\ mesh' \in [Ends -> Tables] /\ mesh'[e] = rest
        /\ \A x \in Ends : x # e => mesh'[x] = mesh[x]
    BY <1>1, <1>2, <2>1, <2>3
  <2>5. /\ warm' \in [Ends -> WarmCall] /\ warm'[e].selected = warm[e].selected /\ Sound(warm'[e])
        /\ \A x \in Ends : x # e => warm'[x] = warm[x]
    BY <1>1, <2>1, <2>2, BecomesSound
  <2>6. NegotiationTypes'
    BY <1>2, <1>3, <2>4, <2>5 DEF NegotiationTypes
  <2>7. OneConnection(e)'
    BY <1>2, <1>3, <1>4, <2>3, <2>4, <2>5 DEF OneConnection, Going, Consents, m
  <2>8. OverPrepared
    BY <1>1, <1>4 DEF OverPrepared
  <2>9. OverLink' => OverLink
    BY <1>2, <1>3, <2>3, <2>4 DEF OverLink, m
  <2>10. OneWay'
    BY <2>8, <2>9 DEF NegotiationInv, OneWay
  <2>11. status'["callee"] \in {"none", "ringing"} => "answered" \notin said'
    BY <1>3 DEF NegotiationInv, RingsUntilAnswered
  <2> QED
    BY <1>1, <1>3, <2>4, <2>5, <2>6, <2>7, <2>10, <2>11, MoveKeepsInv
<1>5. CASE ~(LiveWarm(e) /\ warm[e].selected)
  <2> DEFINE link == IF offered THEN {"link"} ELSE {}
             wants == IF offered THEN m.wants \cup {"link"} ELSE m.wants
  <2>1. mesh' = [mesh EXCEPT ![e] = taken] /\ UNCHANGED warm
    BY <1>5 DEF Resume
  <2>2. /\ wants \in SUBSET {"pool", "warm", "link"} /\ m.wants \subseteq wants /\ wants \subseteq m.wants \cup {"link"}
        /\ link \subseteq {"link"} /\ (wants # m.wants => status[e] = "connecting" /\ OverLink)
    BY <1>2 DEF Tables
  <2>3. taken = [m EXCEPT !.deferred = FALSE, !.awaits = (@ \ {"resume"}) \cup link, !.wants = wants]
    OBVIOUS
  <2> HIDE DEF link, wants, taken, m
  <2>4. /\ taken \in Tables /\ taken.awaits = (m.awaits \ {"resume"}) \cup link /\ taken.wants = wants
        /\ taken.open = m.open /\ taken.link = m.link /\ taken.deferred = FALSE
    BY <1>2, <2>2, <2>3 DEF Tables
  <2>5. /\ mesh' \in [Ends -> Tables] /\ mesh'[e] = taken
        /\ \A x \in Ends : x # e => mesh'[x] = mesh[x]
    BY <1>1, <1>2, <2>1, <2>4
  <2>6. OneConnection(e)'
    BY <1>2, <1>3, <2>1, <2>2, <2>4, <2>5 DEF OneConnection, Going, Consents, m
  <2>7. taken.link # "none" \/ taken.deferred \/ "link" \in taken.wants \cup taken.open => OverLink
    BY <1>2, <2>2, <2>4
  <2> QED
    BY <1>1, <1>2, <1>3, <2>1, <2>5, <2>6, <2>7, TablesKeepInv
<1> QED
  BY <1>4, <1>5
\* What arrives leaves the wire, or a copy of it is still to come.
LEMMA Taken ==
  ASSUME NegotiationInv, NEW m, NEW more \in SUBSET Letters, Take(m, more)
  PROVE  /\ m \in wire /\ wire' \subseteq wire \cup more /\ wire' \subseteq Letters
         /\ copies' \in 0 .. MaxCopies /\ UNCHANGED <<news, breaks, said>>
<1>1. wire \subseteq Letters /\ copies \in 0 .. MaxCopies
  BY Typed DEF NegotiationTypes
<1>2. copies' \in 0 .. MaxCopies
  BY <1>1, NegotiationAssumption DEF Take
<1> QED
  BY <1>1, <1>2 DEF Take

\* A letter that is read and changes nothing.
LEMMA ReadKeepsInv ==
  ASSUME NegotiationInv, UNCHANGED <<status, mesh, warm, news, breaks, said>>,
         wire' \subseteq wire, wire' \subseteq Letters, copies' \in 0 .. MaxCopies
  PROVE  NegotiationInv'
<1> DEFINE e == "caller"
<1>1. e \in Ends
  BY DEF Ends
<1>2. /\ mesh \in [Ends -> Tables] /\ mesh[e] \in Tables /\ OneConnection(e)
      /\ mesh[e].link # "none" \/ mesh[e].deferred \/ "link" \in mesh[e].wants \cup mesh[e].open => OverLink
      /\ {"capture", "resume", "link"} \cap mesh[e].awaits # {} => "answered" \in said
  BY <1>1, TablesOf
<1>3. OneConnection(e)'
  BY <1>2 DEF OneConnection, Going, Consents
<1> HIDE DEF e
<1> QED
  BY <1>1, <1>2, <1>3, TablesKeepInv

LEMMA InviteArrivesKeepsInv == ASSUME NegotiationInv, InviteArrives PROVE NegotiationInv'
<1> DEFINE e == "callee"
           n == [mesh[e] EXCEPT !.awaits = {"pool"}, !.wants = {"pool"}]
<1>1. e \in Ends
  BY DEF Ends
<1>2. /\ mesh \in [Ends -> Tables] /\ mesh[e] \in Tables /\ OneConnection(e)
      /\ NegotiationTypes /\ Sound(warm[e])
      /\ mesh[e].link # "none" \/ mesh[e].deferred \/ "link" \in mesh[e].wants \cup mesh[e].open => OverLink
  BY <1>1, TablesOf, Typed
<1>3. /\ wire' \subseteq wire /\ wire' \subseteq Letters
      /\ copies' \in 0 .. MaxCopies /\ UNCHANGED <<news, breaks, said>>
  BY Taken DEF InviteArrives
<1>4. CASE status[e] = "none"
  <2>1. /\ status' = [status EXCEPT ![e] = "ringing"] /\ UNCHANGED warm
        /\ mesh' = [mesh EXCEPT ![e] = n]
    BY <1>4 DEF InviteArrives
  <2>2. "answered" \notin said /\ ~OverLink /\ ~OverPrepared
    BY <1>4, MediaMeansAnswered DEF NegotiationInv, RingsUntilAnswered
  <2>3. /\ n \in Tables /\ n.awaits = {"pool"} /\ n.wants = {"pool"} /\ n.open = mesh[e].open
        /\ n.link = mesh[e].link /\ n.deferred = mesh[e].deferred
    BY <1>2 DEF Tables
  <2> HIDE DEF n
  <2>4. /\ mesh' \in [Ends -> Tables] /\ mesh'[e] = n
        /\ \A x \in Ends : x # e => mesh'[x] = mesh[x]
    BY <1>1, <1>2, <2>1, <2>3
  <2>5. /\ status' \in [Ends -> Statuses] /\ status'[e] = "ringing"
        /\ \A x \in Ends : x # e => status'[x] = status[x]
    BY <1>1, <1>2, <2>1 DEF NegotiationTypes, Statuses
  <2>6. NegotiationTypes'
    BY <1>2, <1>3, <2>1, <2>4, <2>5 DEF NegotiationTypes
  <2>7. mesh[e].open = {}
    BY <1>2, <1>4 DEF OneConnection, Going
  <2>8. OneConnection(e)'
    BY <2>3, <2>4, <2>5, <2>7 DEF OneConnection, Going, Consents
  <2>9. ~OverPrepared'
    BY <1>3, <2>1, <2>2 DEF OverPrepared
  <2>10. NoMediaOnWire' /\ RingsOnly(e)'
    <3>1. NoMediaOnWire /\ RingsOnly(e)
      BY <1>1, <2>2 DEF NegotiationInv, RingsUntilAnswered
    <3> QED
      <4>1. NoMediaOnWire'
        BY <1>3, <3>1 DEF NoMediaOnWire
      <4>2. WithoutMedia(warm[e])'
        BY <2>1, <3>1 DEF RingsOnly, WithoutMedia
      <4> QED
        BY <2>3, <2>4, <2>5, <2>7, <3>1, <4>1, <4>2 DEF RingsOnly
  <2> QED
    BY <1>1, <1>2, <1>3, <2>1, <2>2, <2>4, <2>5, <2>6, <2>8, <2>9, <2>10, MoveKeepsInv DEF OneWay
<1>5. CASE status[e] # "none"
  <2>1. UNCHANGED <<status, mesh, warm>>
    BY <1>5 DEF InviteArrives
  <2> QED
    BY <1>3, <2>1, ReadKeepsInv
<1> QED
  BY <1>4, <1>5

LEMMA EndArrivesKeepsInv == ASSUME NegotiationInv, NEW e \in Ends, EndArrives(e) PROVE NegotiationInv'
<1>1. /\ wire' \subseteq wire /\ wire' \subseteq Letters
      /\ copies' \in 0 .. MaxCopies /\ UNCHANGED <<news, breaks, said>>
  BY Taken DEF EndArrives
<1>2. CASE status[e] = "over"
  <2>1. UNCHANGED <<status, mesh, warm>>
    BY <1>2 DEF EndArrives
  <2> QED
    BY <1>1, <2>1, ReadKeepsInv
<1>3. CASE status[e] # "over"
  <2>1. EndCall(e)
    BY <1>3 DEF EndArrives
  <2>2. breaks' \in 0 .. MaxBreaks
    BY <1>1, Typed DEF NegotiationTypes
  <2> QED
    BY <1>1, <2>1, <2>2, EndCallCloses, CloseKeepsInv
<1> QED
  BY <1>2, <1>3

LEMMA AcceptPreparedKeepsInv == ASSUME NegotiationInv, AcceptPrepared PROVE NegotiationInv'
<1> DEFINE e == "caller"
           w == warm[e]
           usable == w.stage = "live" /\ Described(e, w)
<1>1. e \in Ends /\ "callee" \in Ends
  BY DEF Ends
<1>2. /\ mesh \in [Ends -> Tables] /\ OneConnection(e) /\ NegotiationTypes /\ Sound(w)
  BY <1>1, TablesOf, Typed
<1>3. CASE status[e] = "ringing" /\ usable
  <2> DEFINE v == [w EXCEPT !.selected = TRUE]
  <2>1. /\ Take(To(e, "accept prepared"), {}) /\ status' = [status EXCEPT ![e] = "connecting"]
        /\ Become(e, Activate(e, v)) /\ UNCHANGED mesh
    BY <1>3 DEF AcceptPrepared
  <2>2. /\ To(e, "accept prepared") \in wire /\ wire' \subseteq wire /\ wire' \subseteq Letters
        /\ copies' \in 0 .. MaxCopies /\ UNCHANGED <<news, breaks, said>>
    <3>1. {} \in SUBSET Letters
      OBVIOUS
    <3> QED
      BY <2>1, <3>1, Taken
  <2>3. OverPrepared /\ ~OverLink
    BY <2>2 DEF OverPrepared, NegotiationInv, OneWay
  <2>4. Sound(v) /\ v.selected
    <3>1. v \in WarmCall
      BY <1>2 DEF Sound, WarmCall
    <3>2. v.job = w.job /\ v.on = w.on
      BY <1>2 DEF Sound, WarmCall
    <3>3. v.selected
      BY <1>2 DEF Sound, WarmCall
    <3> QED
      BY <1>2, <3>1, <3>2, <3>3 DEF Sound
  <2> HIDE DEF v, w
  <2>5. Sound(Activate(e, v)) /\ Activate(e, v).selected
    BY <1>1, <2>4, ActivatedWarmCall
  <2>6. /\ warm' \in [Ends -> WarmCall] /\ Sound(warm'[e]) /\ warm'[e].selected
        /\ \A x \in Ends : x # e => warm'[x] = warm[x]
    BY <1>1, <2>1, <2>5, BecomesSound
  <2>7. /\ status' \in [Ends -> Statuses] /\ status'[e] = "connecting"
        /\ \A x \in Ends : x # e => status'[x] = status[x]
    BY <1>1, <1>2, <2>1 DEF NegotiationTypes, Statuses
  <2>8. NegotiationTypes'
    BY <1>2, <2>1, <2>2, <2>6, <2>7 DEF NegotiationTypes
  <2>9. OneConnection(e)'
    BY <1>2, <1>3, <2>1, <2>6, <2>7 DEF OneConnection, Going, Consents
  <2>10. ~OverLink'
    BY <2>1, <2>2, <2>3 DEF OverLink
  <2>11. "answered" \in said /\ status["callee"] \notin {"none", "ringing"}
    BY <2>3, MediaMeansAnswered
  <2>12. status'["callee"] \notin {"none", "ringing"}
    BY <1>1, <2>7, <2>11
  <2> QED
    BY <1>1, <2>1, <2>2, <2>6, <2>7, <2>8, <2>9, <2>10, <2>11, <2>12, MoveKeepsInv DEF OneWay
<1>4. CASE EndCall(e) /\ Take(To(e, "accept prepared"), {From(e, "end")})
  <2>1. From(e, "end") \in Letters /\ From(e, "end").what = "end"
    BY DEF From, To, FarEnd, Letters, Ends
  <2>2. {From(e, "end")} \in SUBSET Letters
    BY <2>1
  <2>3. /\ wire' \subseteq wire \cup {From(e, "end")} /\ wire' \subseteq Letters
        /\ copies' \in 0 .. MaxCopies /\ UNCHANGED <<news, breaks, said>>
    BY <1>4, <2>2, Taken
  <2>4. breaks' \in 0 .. MaxBreaks
    BY <1>2, <2>3 DEF NegotiationTypes
  <2>5. \A x \in wire' : x \in wire \/ x.what = "end"
    BY <2>1, <2>3
  <2>6. Closes(e)
    BY <1>1, <1>4, <2>3, <2>4, <2>5, EndCallCloses
  <2> QED
    BY <1>1, <2>6, CloseKeepsInv
<1>5. CASE Take(To(e, "accept prepared"), {}) /\ UNCHANGED <<status, mesh, warm>>
  <2>1. /\ wire' \subseteq wire /\ wire' \subseteq Letters
        /\ copies' \in 0 .. MaxCopies /\ UNCHANGED <<news, breaks, said>>
    <3>1. {} \in SUBSET Letters
      OBVIOUS
    <3> QED
      BY <1>5, <3>1, Taken
  <2> QED
    BY <1>5, <2>1, ReadKeepsInv
<1> QED
  BY <1>3, <1>4, <1>5 DEF AcceptPrepared

LEMMA AcceptPlainKeepsInv == ASSUME NegotiationInv, AcceptPlain PROVE NegotiationInv'
<1> DEFINE e == "caller"
           m == mesh[e]
           w == warm[e]
           v == IF w.stage = "live" THEN CloseWarm(w) ELSE w
           n == [m EXCEPT !.wants = {"link"}, !.open = @ \ {"warm"}, !.awaits = @ \cup {"link"}]
<1>1. e \in Ends /\ "callee" \in Ends
  BY DEF Ends
<1>2. /\ mesh \in [Ends -> Tables] /\ m \in Tables /\ OneConnection(e) /\ NegotiationTypes /\ Sound(w)
  BY <1>1, TablesOf, Typed
<1>3. /\ To(e, "accept") \in wire /\ wire' \subseteq wire /\ wire' \subseteq Letters
      /\ copies' \in 0 .. MaxCopies /\ UNCHANGED <<news, breaks, said>>
  BY Taken DEF AcceptPlain
<1>4. OverLink /\ ~OverPrepared
  BY <1>3 DEF OverLink, NegotiationInv, OneWay
<1>5. CASE status[e] = "ringing"
  <2>1. /\ status' = [status EXCEPT ![e] = "connecting"] /\ Become(e, v) /\ mesh' = [mesh EXCEPT ![e] = n]
    BY <1>5 DEF AcceptPlain
  <2>2. Sound(v) /\ (v.selected => w.selected)
    BY <1>2, ClosedWarmCall
  <2>3. /\ n \in Tables /\ n.wants = {"link"} /\ n.open = m.open \ {"warm"}
    BY <1>2 DEF Tables
  <2> HIDE DEF v, n, w, m
  <2>4. /\ mesh' \in [Ends -> Tables] /\ mesh'[e] = n
        /\ \A x \in Ends : x # e => mesh'[x] = mesh[x]
    BY <1>1, <1>2, <2>1, <2>3
  <2>5. /\ warm' \in [Ends -> WarmCall] /\ warm'[e] = v /\ Sound(warm'[e])
        /\ \A x \in Ends : x # e => warm'[x] = warm[x]
    BY <1>1, <2>1, <2>2, BecomesSound
  <2>6. /\ status' \in [Ends -> Statuses] /\ status'[e] = "connecting"
        /\ \A x \in Ends : x # e => status'[x] = status[x]
    BY <1>1, <1>2, <2>1 DEF NegotiationTypes, Statuses
  <2>7. NegotiationTypes'
    BY <1>2, <1>3, <2>4, <2>5, <2>6 DEF NegotiationTypes
  <2>8. OneConnection(e)'
    BY <1>2, <1>5, <2>3, <2>4, <2>6 DEF OneConnection, Going, Consents, m
  <2>9. ~OverPrepared'
    <3>1. \A x \in Ends : ~warm'[x].selected
      BY <1>1, <1>4, <2>2, <2>5 DEF OverPrepared, w
    <3> QED
      BY <1>3, <1>4, <3>1 DEF OverPrepared
  <2>10. "answered" \in said /\ status["callee"] \notin {"none", "ringing"}
    BY <1>4, MediaMeansAnswered
  <2>11. status'["callee"] \notin {"none", "ringing"}
    BY <1>1, <2>6, <2>10
  <2> QED
    BY <1>1, <1>3, <2>4, <2>5, <2>6, <2>7, <2>8, <2>9, <2>10, <2>11, MoveKeepsInv DEF OneWay
<1>6. CASE status[e] # "ringing"
  <2>1. UNCHANGED <<status, mesh, warm>>
    BY <1>6 DEF AcceptPlain
  <2> QED
    BY <1>3, <2>1, ReadKeepsInv
<1> QED
  BY <1>5, <1>6

LEMMA SignalKeepsInv ==
  ASSUME NegotiationInv, NEW e \in Ends, NEW what \in {"transport", "media"}, SignalArrives(e, what)
  PROVE  NegotiationInv'
<1> DEFINE m == mesh[e]
           w == warm[e]
           begun == [m EXCEPT !.wants = @ \cup {"warm"}, !.awaits = @ \cup {"warm"}]
           heard == [w EXCEPT !.signals = @ \cup {what}]
<1>1. /\ mesh \in [Ends -> Tables] /\ m \in Tables /\ OneConnection(e) /\ NegotiationTypes /\ Sound(w)
      /\ m.link # "none" \/ m.deferred \/ "link" \in m.wants \cup m.open => OverLink
  BY TablesOf, Typed
<1>2. /\ To(e, what) \in wire /\ wire' \subseteq wire /\ wire' \subseteq Letters
      /\ copies' \in 0 .. MaxCopies /\ UNCHANGED <<status, news, breaks, said>>
  BY Taken DEF SignalArrives
<1>3. what = "media" => "answered" \in said
  BY <1>2 DEF NegotiationInv, RingsUntilAnswered, NoMediaOnWire, To
<1>4. PICK n \in {m, begun} : mesh' = [mesh EXCEPT ![e] = n] /\ (n # m => status[e] = "ringing")
  BY <1>1 DEF SignalArrives
<1>5. PICK v \in {w, heard} : Become(e, v)
  <2>1. [warm EXCEPT ![e] = w] = warm
    BY <1>1 DEF NegotiationTypes
  <2> QED
    BY <2>1 DEF SignalArrives, Become
<1> HIDE DEF m, w
<1>6. /\ n \in Tables /\ n.awaits \subseteq m.awaits \cup {"warm"} /\ n.wants \subseteq m.wants \cup {"warm"}
      /\ n.open = m.open /\ n.link = m.link /\ n.deferred = m.deferred
      /\ n.wants # m.wants => status[e] = "ringing"
  <2>1. CASE n = m
    BY <1>1, <2>1
  <2>2. CASE n = begun
    BY <1>1, <1>4, <2>2 DEF Tables
  <2> QED
    BY <1>4, <2>1, <2>2
<1>7. Sound(v) /\ v.selected = w.selected /\ ("answered" \notin said /\ WithoutMedia(w) => WithoutMedia(v))
  <2>1. CASE v = w
    BY <1>1, <2>1
  <2>2. CASE v = heard
    <3>1. v \in WarmCall
      BY <1>1, <2>2 DEF Sound, WarmCall
    <3>2. v.job = w.job /\ v.on = w.on
      BY <1>1, <2>2 DEF Sound, WarmCall
    <3>3. v.selected = w.selected
      BY <1>1, <2>2 DEF Sound, WarmCall
    <3>4. "answered" \notin said /\ WithoutMedia(w) => WithoutMedia(v)
      BY <1>1, <1>3, <2>2 DEF Sound, WarmCall, WithoutMedia
    <3> QED
      BY <1>1, <3>1, <3>2, <3>3, <3>4 DEF Sound
  <2> QED
    BY <1>5, <2>1, <2>2
<1> HIDE DEF begun, heard
<1>8. /\ mesh' \in [Ends -> Tables] /\ mesh'[e] = n
      /\ \A x \in Ends : x # e => mesh'[x] = mesh[x]
  BY <1>1, <1>4, <1>6
<1>9. /\ warm' \in [Ends -> WarmCall] /\ warm'[e] = v /\ Sound(warm'[e])
      /\ \A x \in Ends : x # e => warm'[x] = warm[x]
  BY <1>5, <1>7, BecomesSound
<1>10. NegotiationTypes'
  BY <1>1, <1>2, <1>8, <1>9 DEF NegotiationTypes
<1>11. OneConnection(e)'
  BY <1>1, <1>2, <1>6, <1>7, <1>8, <1>9 DEF OneConnection, Going, Consents, m, w
<1>12. OverPrepared' => OverPrepared
  BY <1>2, <1>7, <1>9 DEF OverPrepared, w
<1>13. OverLink' => OverLink
  <2>1. n.link # "none" \/ n.deferred \/ "link" \in n.wants \cup n.open => OverLink
    BY <1>1, <1>6
  <2> QED
    BY <1>2, <1>8, <2>1 DEF OverLink
<1>14. OneWay'
  BY <1>12, <1>13 DEF NegotiationInv, OneWay
<1>15. ASSUME "answered" \notin said'
       PROVE  NoMediaOnWire' /\ RingsOnly(e)'
  <2>1. NoMediaOnWire /\ RingsOnly(e)
    BY <1>2, <1>15 DEF NegotiationInv, RingsUntilAnswered
  <2>2. WithoutMedia(warm[e])'
    <3>1. WithoutMedia(v)
      BY <1>2, <1>7, <1>15, <2>1 DEF RingsOnly, w
    <3> QED
      BY <1>9, <3>1 DEF WithoutMedia
  <2> QED
    BY <1>2, <1>6, <1>8, <2>1, <2>2 DEF NoMediaOnWire, RingsOnly, m
<1>16. status'["callee"] \in {"none", "ringing"} => "answered" \notin said'
  BY <1>2 DEF NegotiationInv, RingsUntilAnswered
<1> QED
  BY <1>2, <1>8, <1>9, <1>10, <1>11, <1>14, <1>15, <1>16, MoveKeepsInv

LEMMA PlainKeepsInv == ASSUME NegotiationInv, NEW e \in Ends, PlainArrives(e) PROVE NegotiationInv'
<1> DEFINE m == mesh[e]
           waits == [m EXCEPT !.deferred = TRUE]
           link == IF m.link = "sent" THEN "answered" ELSE m.link
           met == [m EXCEPT !.link = link]
           begun == [m EXCEPT !.wants = @ \cup {"link"}, !.awaits = @ \cup {"link"}, !.deferred = FALSE]
           known == [m EXCEPT !.deferred = FALSE]
<1>1. /\ mesh \in [Ends -> Tables] /\ m \in Tables /\ OneConnection(e)
  BY TablesOf
<1>2. /\ To(e, "plain") \in wire /\ wire' \subseteq wire /\ wire' \subseteq Letters
      /\ copies' \in 0 .. MaxCopies /\ UNCHANGED <<status, warm, news, breaks, said>>
  BY Taken DEF PlainArrives
<1>3. OverLink /\ "answered" \in said
  BY <1>2, MediaMeansAnswered DEF OverLink
<1>4. PICK n \in {m, waits, met, begun, known} :
         mesh' = [mesh EXCEPT ![e] = n] /\ (n \in {m, waits, met, known} \/ status[e] = "connecting")
  <2>1. mesh = [mesh EXCEPT ![e] = m]
    BY <1>1
  <2>2. \/ mesh' = mesh \/ mesh' = [mesh EXCEPT ![e] = waits] \/ mesh' = [mesh EXCEPT ![e] = met]
        \/ mesh' = [mesh EXCEPT ![e] = begun] /\ status[e] = "connecting"
        \/ mesh' = [mesh EXCEPT ![e] = known]
    BY DEF PlainArrives
  <2> HIDE DEF m, waits, met, begun, known
  <2> QED
    BY <2>1, <2>2
<1> HIDE DEF m
<1>5. link \in {"none", "made", "sent", "answered"}
  BY <1>1 DEF Tables
<1> HIDE DEF link
<1>6. /\ n \in Tables /\ n.open = m.open /\ n.wants \subseteq m.wants \cup {"link"}
      /\ n.awaits \subseteq m.awaits \cup {"link"}
      /\ n.wants # m.wants => status[e] = "connecting"
  <2>1. CASE n = m
    BY <1>1, <2>1
  <2>2. CASE n = waits
    BY <1>1, <2>2 DEF Tables
  <2>3. CASE n = met
    BY <1>1, <1>5, <2>3 DEF Tables
  <2>4. CASE n = known
    BY <1>1, <2>4 DEF Tables
  <2>5. CASE n = begun /\ status[e] = "connecting"
    BY <1>1, <2>5 DEF Tables
  <2> QED
    BY <1>4, <2>1, <2>2, <2>3, <2>4, <2>5
<1> HIDE DEF waits, met, begun, known
<1>7. /\ mesh' \in [Ends -> Tables] /\ mesh'[e] = n
      /\ \A x \in Ends : x # e => mesh'[x] = mesh[x]
  BY <1>1, <1>4, <1>6
<1>8. OneConnection(e)'
  BY <1>1, <1>2, <1>6, <1>7 DEF OneConnection, Going, Consents, m
<1> QED
  BY <1>2, <1>3, <1>7, <1>8, TablesKeepInv

LEMMA NegotiationStepInv == NegotiationInv /\ [NegotiationNext]_negotiationVars => NegotiationInv'
<1> SUFFICES ASSUME NegotiationInv, [NegotiationNext]_negotiationVars
             PROVE  NegotiationInv'
  OBVIOUS
<1>1. CASE InviteSent \/ Pooled \/ CaptureReady \/ Resume \/ PickUp
  BY <1>1, InviteSentKeepsInv, PooledKeepsInv, CaptureKeepsInv, ResumeKeepsInv, PickUpKeepsInv
<1>2. CASE ControlArrives
  BY <1>2, InviteArrivesKeepsInv, AcceptPreparedKeepsInv, AcceptPlainKeepsInv DEF ControlArrives
<1>3. ASSUME NEW e \in Ends, Proceeds(e)
      PROVE  NegotiationInv'
  <2>1. CASE \/ Apply(e) \/ RemoteSet(e) \/ OfferMedia(e) \/ LocalSet(e)
             \/ Gathered(e) \/ Sent(e) \/ TransportUp(e)
    BY <2>1, PreparedCallKeepsInv
  <2>2. CASE Prepared(e) \/ Linked(e) \/ LinkPublished(e) \/ LinkUp(e)
    BY <2>2, PreparedKeepsInv, LinkedKeepsInv, LinkPublishedKeepsInv, LinkUpKeepsInv
  <2>3. CASE Arrival(e)
    BY <2>3, EndArrivesKeepsInv, PlainKeepsInv, SignalKeepsInv DEF Arrival
  <2> QED
    BY <1>3, <2>1, <2>2, <2>3 DEF Proceeds
<1>4. ASSUME NEW e \in Ends,
             \/ Candidate(e) \/ Quit(e) \/ WarmBreaks(e) \/ LinkBreaks(e) \/ SendBreaks(e)
             \/ \E making \in mesh[e].awaits : ConfigurationBreaks(e, making)
      PROVE  NegotiationInv'
  BY <1>4, PreparedCallKeepsInv, BreakingKeepsInv, ConfigurationKeepsInv
<1>5. CASE UNCHANGED negotiationVars
  <2>1. wire' \subseteq Letters /\ copies' \in 0 .. MaxCopies
    BY <1>5, Typed DEF negotiationVars, NegotiationTypes
  <2> QED
    BY <1>5, <2>1, ReadKeepsInv DEF negotiationVars
<1> QED
  BY <1>1, <1>2, <1>3, <1>4, <1>5 DEF NegotiationNext, NegotiationProceeds

LEMMA NegotiationHolds == NegotiationSpec => []NegotiationInv
BY NegotiationInitInv, NegotiationStepInv, PTL DEF NegotiationSpec
------------------------------------------------------------------------------
(* The media of a direct call: what is promised                              *)

\* The state of the negotiation always has its types, whatever is awaited,
\* fails or comes twice.
THEOREM MediaIsTyped == NegotiationSpec => []NegotiationTypeOK
<1>1. NegotiationInv => NegotiationTypeOK
  BY DEF NegotiationInv, NegotiationIsTyped
<1> QED
  BY <1>1, NegotiationHolds, PTL

\* Nothing of the user's media is added, linked or described before the user
\* answered, for any number of changes, copies and failures.
THEOREM NothingBeforeTheAnswer == NegotiationSpec => []MediaAfterAnswer
<1>1. NegotiationInv => MediaAfterAnswer
  BY DEF NegotiationInv, RingsUntilAnswered, RingsOnly, NoMediaOnWire, WithoutMedia, MediaAfterAnswer
<1> QED
  BY <1>1, NegotiationHolds, PTL

\* A phone holds one native connection at most, none for a call that is over,
\* and no two phones negotiate the media of a call in two ways.
THEOREM ConnectionsAreNotDoubled == NegotiationSpec => []OneTransport
<1>1. NegotiationInv => OneTransport
  <2> SUFFICES ASSUME NegotiationInv, NEW e \in Ends
               PROVE  /\ mesh[e].open # {} => Going(e) /\ Cardinality(mesh[e].open) = 1
                      /\ mesh[e].link # "none" /\ Going(FarEnd(e)) => ~warm[FarEnd(e)].selected
    BY DEF OneTransport
  <2>1. OneConnection(e) /\ FarEnd(e) \in Ends
    BY DEF NegotiationInv, OneAtATime, FarEnd, Ends
  <2>2. ASSUME mesh[e].open # {}
        PROVE  Cardinality(mesh[e].open) = 1
    <3>1. PICK x : x \in mesh[e].open
      BY <2>2
    <3>2. mesh[e].open = {x}
      BY <2>1, <3>1 DEF OneConnection
    <3> QED
      BY <3>2, FS_Singleton
  <2>3. ASSUME mesh[e].link # "none"
        PROVE  ~warm[FarEnd(e)].selected
    BY <2>1, <2>3 DEF NegotiationInv, OneWay, OverPrepared, OverLink
  <2> QED
    BY <2>1, <2>2, <2>3 DEF OneConnection
<1> QED
  BY <1>1, NegotiationHolds, PTL
------------------------------------------------------------------------------
(* Direct calls: the inductive invariant                                     *)

\* What a packet says is said of a placed call: the invite to its callee, the
\* answer to its caller.
Named(p) ==
    /\ route[p.call] # <<>>
    /\ p.act = "invite" => p.to = route[p.call][2]
    /\ p.act \in {"accept", "decline"} => p.to = route[p.call][1]

\* The invite of c is in projection at d.
InHand(d, c) ==
    hand[d].phase # "none" /\ hand[d].packet.act = "invite" /\ hand[d].packet.call = c

Rings(d, c) == value[d].call = c /\ value[d].status = "incoming"

\* A phone says, waits for, projects and saves only what concerns it.
Spoken(d) ==
    /\ \A p \in sends[d] :
           /\ Named(p) /\ (p.act = "invite" => route[p.call][1] = d)
           /\ p.act = "accept" => Incoming(d, p.call)
    /\ \A b \in books[d] :
           /\ Named(b.after) /\ b.after.act \in {"end", "decline"}
           /\ b.after.act = "end" /\ Incoming(d, b.after.call) =>
                  b.outcome \notin {"missed", "declined"} /\ b.after.to = route[b.after.call][1]
    /\ hand[d].phase # "none" => hand[d].packet \in mail /\ hand[d].packet.to = d
    /\ hand[d].phase \in {"save", "missed"} => hand[d].packet.act = "invite"
    /\ \A c \in CallIds : saved[d][c] # "none" => Packet(c, "invite", d) \in mail
    /\ \A c \in capturing[d] : route[c] # <<>> /\ d \in {route[c][1], route[c][2]}

\* The call on screen was placed, rings at its caller and comes in at its callee.
Shown(d) ==
    /\ InCall(d) => value[d].call \in CallIds
    /\ value[d].call \in CallIds =>
           /\ route[value[d].call] # <<>>
           /\ d \in {route[value[d].call][1], route[value[d].call][2]}
           /\ value[d].status = "ringing" => route[value[d].call][1] = d
           /\ value[d].status = "incoming" => Incoming(d, value[d].call)
    /\ \A c \in tracks[d] : On(d, c)

\* An invite rings once: the one that rings was projected, and no end of its
\* call was, but for the one in hand.
RungOnce(d) ==
    /\ \A c \in CallIds :
          /\ Rings(d, c) =>
                Packet(c, "invite", d) \in applied \/ (InHand(d, c) /\ hand[d].phase = "done")
          /\ InHand(d, c) /\ hand[d].phase # "done" => ~Rings(d, c)
          /\ InHand(d, c) /\ hand[d].phase \in {"save", "pass"} => c \notin tombs[d]
          /\ Rings(d, c) /\ c \in tombs[d] =>
                /\ hand[d].phase = "pass" /\ hand[d].packet.call = c
                /\ hand[d].packet.act \in {"end", "decline"}
    /\ d \in restarting /\ hand[d].phase # "none" => hand[d].packet.act = "invite"

\* What was projected, or recorded before, is kept.
KeptOnTheWay(d) ==
    /\ hand[d].phase # "none" /\ hand[d].completed => history[d][hand[d].packet.call] # "none"
    /\ \A c \in CallIds :
          \/ InHand(d, c) /\ hand[d].phase \in {"pass", "done"}
          \/ Packet(c, "invite", d) \in applied
          => saved[d][c] # "none" \/ history[d][c] # "none"

Declined(c) == Packet(c, "decline", route[c][1]) \in mail

\* A call that may ring has no outcome yet.
RingingIsOpen(d) ==
    \A c \in CallIds : Incoming(d, c) /\ ~Declined(c) =>
        /\ InHand(d, c) /\ hand[d].phase = "screen" /\ ~hand[d].completed =>
               history[d][c] = "none" \/ c \in tombs[d]
        /\ InHand(d, c) /\ hand[d].phase \in {"save", "pass"} => history[d][c] = "none"
        /\ Rings(d, c) => history[d][c] = "none"

\* The answer is about to be said, was said, or its call was ended durably.
Answering(d, c) ==
    /\ Incoming(d, c) /\ ~Declined(c)
    /\ \/ Packet(c, "accept", route[c][1]) \in mail \cup sends[d]
       \/ \E b \in books[d] : b.after = Packet(c, "end", route[c][1])

\* An answered call is known as such wherever its invite may still be.
AnswersAreKept(d) ==
    \A c \in CallIds :
        /\ Incoming(d, c) /\ On(d, c) /\ value[d].status # "incoming" =>
               Packet(c, "accept", route[c][1]) \in mail \cup sends[d]
        /\ Answering(d, c) =>
             /\ history[d][c] \notin {"missed", "declined"}
             /\ ~Rings(d, c)
             /\ history[d][c] # "none" \/ saved[d][c] \in {"connecting", "active"}
             /\ InHand(d, c) =>
                   hand[d].phase = "done" \/ (hand[d].phase = "screen" /\ hand[d].completed)
             /\ \/ Packet(c, "invite", d) \in applied
                \/ InHand(d, c) /\ hand[d].phase = "done"
                \/ history[d][c] # "none"
                \/ d \in restarting /\ value[d].call # c
             /\ Packet(c, "invite", d) \in applied \/ history[d][c] # "none" \/ c \notin tombs[d]

PhoneInv(d) ==
    /\ Spoken(d) /\ Shown(d) /\ RungOnce(d) /\ KeptOnTheWay(d)
    /\ RingingIsOpen(d) /\ AnswersAreKept(d)

CallInv ==
    /\ CallTypeOK
    /\ \A c \in CallIds : route[c] # <<>> => route[c][1] # route[c][2]
    /\ \A p \in mail : Named(p)
    /\ \A p \in applied : p.to \in Phones
    /\ \A d \in Phones : PhoneInv(d)
------------------------------------------------------------------------------
(* Direct calls: what the steps are made of                                  *)

Same(x) ==
    /\ value'[x] = value[x] /\ capturing'[x] = capturing[x] /\ tracks'[x] = tracks[x]
    /\ sends'[x] = sends[x] /\ books'[x] = books[x]
    /\ hand'[x] = hand[x] /\ tombs'[x] = tombs[x]
    /\ \A c \in CallIds : saved'[x][c] = saved[x][c] /\ history'[x][c] = history[x][c]
    /\ x \in restarting' <=> x \in restarting

LEMMA PacketsAre ==
  /\ \A p \in Packets : p = Packet(p.call, p.act, p.to)
  /\ \A c \in CallIds, a \in {"invite", "accept", "decline", "end"}, t \in Phones \cup Others :
        /\ Packet(c, a, t) \in Packets
        /\ Packet(c, a, t).call = c /\ Packet(c, a, t).act = a /\ Packet(c, a, t).to = t
  BY DEF Packets, Packet

LEMMA HandIs ==
  ASSUME CallTypeOK, NEW d \in Phones
  PROVE  /\ hand[d].phase = "none" <=> hand[d] = NoHand
         /\ hand[d].phase # "none" =>
              /\ hand[d].packet \in Packets /\ hand[d].completed \in BOOLEAN
              /\ hand[d].phase \in {"screen", "missed", "save", "pass", "done"}
  BY DEF CallTypeOK, NoHand

LEMMA Routed ==
  ASSUME CallTypeOK, NEW c \in CallIds, route[c] # <<>>
  PROVE  /\ route[c][1] \in Phones \cup Others /\ route[c][2] \in Phones \cup Others
         /\ \A d : Far(d, c) \in Phones \cup Others
  BY DEF CallTypeOK, Far

LEMMA OutcomesAre ==
  ASSUME NEW s \in LiveStatus, NEW failed \in BOOLEAN,
         NEW reason \in {"local", "timeout", "remote", "decline"}
  PROVE  /\ Outcome(s, failed, reason) \in Outcomes
         /\ s \notin Ringing /\ reason # "decline" => Outcome(s, failed, reason) \in {"failed", "ended"}
  BY DEF Outcome, Outcomes, LiveStatus, Ringing

LEMMA CallBystander ==
  ASSUME CallTypeOK, NEW x \in Phones, PhoneInv(x), Same(x), route' = route,
         mail \subseteq mail', applied \subseteq applied',
         \A c \in CallIds : Packet(c, "invite", x) \in applied' => Packet(c, "invite", x) \in applied,
         \A c \in CallIds : Incoming(x, c) /\ Packet(c, "accept", route[c][1]) \in mail'
              => Packet(c, "accept", route[c][1]) \in mail
  PROVE  PhoneInv(x)'
<1>1. Spoken(x)'
  BY DEF PhoneInv, Spoken, Same, Named, Incoming
<1>2. Shown(x)'
  BY DEF PhoneInv, Shown, Same, Incoming, InCall, On
<1>3. RungOnce(x)'
  BY DEF PhoneInv, RungOnce, Same, InHand, Rings
<1>4. KeptOnTheWay(x)'
  <2>1. hand[x].phase # "none" => hand[x].packet.call \in CallIds
    BY HandIs DEF Packets
  <2> QED
    BY <2>1 DEF PhoneInv, KeptOnTheWay, Same, InHand
<1>5. RingingIsOpen(x)'
  BY DEF PhoneInv, RingingIsOpen, Same, InHand, Rings, Incoming, Declined
<1>6. AnswersAreKept(x)'
  BY DEF PhoneInv, AnswersAreKept, Answering, Same, InHand, Rings, Incoming, Declined, On, InCall
<1> QED
  BY <1>1, <1>2, <1>3, <1>4, <1>5, <1>6 DEF PhoneInv

LEMMA CallFrame ==
  ASSUME CallInv, NEW d \in Phones, CallTypeOK', route' = route,
         mail \subseteq mail', applied \subseteq applied',
         \A p \in mail' \ mail : Named(p) /\ (p.act = "accept" => Incoming(d, p.call)),
         \A p \in applied' \ applied : p.to = d,
         \A x \in Phones \ {d} : Same(x),
         PhoneInv(d)'
  PROVE  CallInv'
<1>1. ASSUME NEW x \in Phones, x # d
      PROVE  PhoneInv(x)'
  <2>1. \A c \in CallIds : Packet(c, "invite", x) \in applied' => Packet(c, "invite", x) \in applied
    BY <1>1 DEF Packet
  <2>2. \A c \in CallIds : Incoming(x, c) /\ Packet(c, "accept", route[c][1]) \in mail'
              => Packet(c, "accept", route[c][1]) \in mail
    BY <1>1 DEF Packet, Incoming
  <2> QED
    BY <1>1, <2>1, <2>2, CallBystander DEF CallInv
<1>2. \A p \in mail' : Named(p)'
  BY DEF CallInv, Named
<1>3. \A p \in applied' : p.to \in Phones
  BY DEF CallInv
<1>4. \A c \in CallIds : route'[c] # <<>> => route'[c][1] # route'[c][2]
  BY DEF CallInv
<1> QED
  BY <1>1, <1>2, <1>3, <1>4 DEF CallInv

LEMMA CallInitInv == CallInit => CallInv
<1> SUFFICES ASSUME CallInit
             PROVE  CallInv
  OBVIOUS
<1>1. CallTypeOK
  BY CallsAssumption DEF CallInit, CallTypeOK, Packets, Packet, Placed, OffScreen, LiveStatus, Ringing, NoHand
<1>2. \A c \in CallIds : route[c] # <<>> => route[c][1] # route[c][2]
  BY CallsAssumption DEF CallInit
<1>3. \A p \in mail : Named(p)
  BY DEF CallInit, Named, Placed, Packet
<1>4. ASSUME NEW d \in Phones
      PROVE  PhoneInv(d)
  <2>1. /\ value[d] = OffScreen /\ hand[d] = NoHand /\ sends[d] = {} /\ books[d] = {}
        /\ capturing[d] = {} /\ tracks[d] = {}
        /\ \A c \in CallIds : saved[d][c] = "none" /\ history[d][c] = "none"
        /\ tombs[d] = {} /\ applied = {}
    BY DEF CallInit
  <2>2. \A c \in CallIds : Packet(c, "accept", route[c][1]) \notin mail
    BY DEF CallInit, Packet
  <2>3. ~InCall(d) /\ value[d].call \notin CallIds /\ hand[d].phase = "none"
    BY <2>1, CallsAssumption DEF InCall, LiveStatus, Ringing, OffScreen, NoHand
  <2> QED
    BY <2>1, <2>2, <2>3
    DEF PhoneInv, Spoken, Shown, RungOnce, KeptOnTheWay, RingingIsOpen, AnswersAreKept,
        Answering, InHand, Rings, On, InCall
<1> QED
  BY <1>1, <1>2, <1>3, <1>4 DEF CallInv, CallInit

\* recordCall of call c at d: an outcome that is there wins.
Recorded(d, c, outcome) ==
    /\ history' \in [Phones -> [CallIds -> Outcomes \cup {"none"}]]
    /\ saved' \in [Phones -> [CallIds -> {"none", "incoming", "connecting", "active"}]]
    /\ \A x \in Phones \ {d}, k \in CallIds : history'[x][k] = history[x][k] /\ saved'[x][k] = saved[x][k]
    /\ \A k \in CallIds \ {c} : history'[d][k] = history[d][k] /\ saved'[d][k] = saved[d][k]
    /\ IF history[d][c] = "none"
       THEN history'[d][c] = outcome /\ saved'[d][c] = "none"
       ELSE history'[d][c] = history[d][c] /\ saved'[d][c] = saved[d][c]

LEMMA RecordEffect ==
  ASSUME CallTypeOK, NEW d \in Phones, NEW c \in CallIds, NEW outcome \in Outcomes,
         RecordCall(d, c, outcome)
  PROVE  Recorded(d, c, outcome)
<1>1. CASE history[d][c] # "none"
  BY <1>1 DEF RecordCall, Recorded, CallTypeOK
<1>2. CASE history[d][c] = "none"
  <2>1. /\ history' = [history EXCEPT ![d] = [history[d] EXCEPT ![c] = outcome]]
        /\ saved' = [saved EXCEPT ![d] = [saved[d] EXCEPT ![c] = "none"]]
    BY <1>2 DEF RecordCall
  <2>2. /\ history[d] \in [CallIds -> Outcomes \cup {"none"}]
        /\ saved[d] \in [CallIds -> {"none", "incoming", "connecting", "active"}]
    BY DEF CallTypeOK
  <2>3. /\ [history[d] EXCEPT ![c] = outcome] \in [CallIds -> Outcomes \cup {"none"}]
        /\ [saved[d] EXCEPT ![c] = "none"] \in [CallIds -> {"none", "incoming", "connecting", "active"}]
    BY <2>2
  <2> QED
    BY <1>2, <2>1, <2>2, <2>3 DEF Recorded, CallTypeOK
<1> QED
  BY <1>1, <1>2

Last(d) ==
    Packet(value[d].call, IF value[d].status = "incoming" THEN "decline" ELSE "end",
           Far(d, value[d].call))

\* end of the call on screen at d.
Ended(d, failed, notify, reason, durable) ==
    /\ value' \in [Phones -> [call: CallIds \cup {NoCall},
                             status: LiveStatus \cup {"none", "ended", "failed"}]]
    /\ value'[d].call = value[d].call /\ value'[d].status \in {"ended", "failed"}
    /\ tracks' \in [Phones -> SUBSET CallIds]
    /\ tracks'[d] = tracks[d] \ {value[d].call}
    /\ sends' \in [Phones -> SUBSET Packets]
    /\ sends'[d] = IF notify THEN sends[d] \cup {Last(d)} ELSE sends[d]
    /\ books' \in [Phones -> SUBSET [outcome: Outcomes, after: Packets]]
    /\ history' \in [Phones -> [CallIds -> Outcomes \cup {"none"}]]
    /\ saved' \in [Phones -> [CallIds -> {"none", "incoming", "connecting", "active"}]]
    /\ \A x \in Phones \ {d} :
           /\ value'[x] = value[x] /\ tracks'[x] = tracks[x]
           /\ sends'[x] = sends[x] /\ books'[x] = books[x]
           /\ \A k \in CallIds : history'[x][k] = history[x][k] /\ saved'[x][k] = saved[x][k]
    /\ IF durable
       THEN /\ books'[d] = books[d] \cup
                  {[outcome |-> Outcome(value[d].status, failed, reason), after |-> Last(d)]}
            /\ \A k \in CallIds : history'[d][k] = history[d][k] /\ saved'[d][k] = saved[d][k]
       ELSE /\ books'[d] = books[d]
            /\ Recorded(d, value[d].call, Outcome(value[d].status, failed, reason))

LEMMA FinishEffect ==
  ASSUME CallTypeOK, NEW d \in Phones, PhoneInv(d), InCall(d),
         NEW failed \in BOOLEAN, NEW notify \in BOOLEAN, NEW durable \in BOOLEAN,
         NEW reason \in {"local", "timeout", "remote", "decline"},
         Finish(d, failed, notify, reason, durable)
  PROVE  Ended(d, failed, notify, reason, durable) /\ Last(d) \in Packets
<1> DEFINE c == value[d].call
           outcome == Outcome(value[d].status, failed, reason)
<1>1. c \in CallIds /\ route[c] # <<>> /\ value[d].status \in LiveStatus
  BY DEF PhoneInv, Shown, InCall
<1>2. outcome \in Outcomes
  BY <1>1, OutcomesAre
<1>3. Last(d) \in Packets
  BY <1>1, Routed, PacketsAre DEF Last
<1>4. /\ value' = [value EXCEPT ![d] = [value[d] EXCEPT !.status = IF failed THEN "failed" ELSE "ended"]]
      /\ tracks' = [tracks EXCEPT ![d] = tracks[d] \ {c}]
      /\ sends' = [sends EXCEPT ![d] = IF notify THEN sends[d] \cup {Last(d)} ELSE sends[d]]
      /\ IF durable
         THEN /\ books' = [books EXCEPT ![d] = books[d] \cup {[outcome |-> outcome, after |-> Last(d)]}]
              /\ UNCHANGED <<history, saved>>
         ELSE RecordCall(d, c, outcome) /\ UNCHANGED books
  BY DEF Finish, Last
<1>5. [value[d] EXCEPT !.status = IF failed THEN "failed" ELSE "ended"] =
        [call |-> c, status |-> IF failed THEN "failed" ELSE "ended"]
  BY DEF CallTypeOK
<1>6. /\ value' \in [Phones -> [call: CallIds \cup {NoCall},
                             status: LiveStatus \cup {"none", "ended", "failed"}]]
      /\ value'[d].call = c /\ value'[d].status \in {"ended", "failed"}
      /\ \A x \in Phones \ {d} : value'[x] = value[x]
  BY <1>1, <1>4, <1>5 DEF CallTypeOK
<1>7. /\ tracks' \in [Phones -> SUBSET CallIds] /\ tracks'[d] = tracks[d] \ {c}
      /\ \A x \in Phones \ {d} : tracks'[x] = tracks[x]
  BY <1>4 DEF CallTypeOK
<1>8. /\ sends' \in [Phones -> SUBSET Packets]
      /\ sends'[d] = IF notify THEN sends[d] \cup {Last(d)} ELSE sends[d]
      /\ \A x \in Phones \ {d} : sends'[x] = sends[x]
  <2> DEFINE mine == IF notify THEN sends[d] \cup {Last(d)} ELSE sends[d]
  <2>1. mine \in SUBSET Packets
    BY <1>3 DEF CallTypeOK
  <2> QED
    BY <1>4, <2>1 DEF CallTypeOK
<1>9. CASE durable
  <2>1. [outcome |-> outcome, after |-> Last(d)] \in [outcome: Outcomes, after: Packets]
    BY <1>2, <1>3
  <2> QED
    <3>1. /\ books' \in [Phones -> SUBSET [outcome: Outcomes, after: Packets]]
          /\ books'[d] = books[d] \cup {[outcome |-> outcome, after |-> Last(d)]}
          /\ \A x \in Phones \ {d} : books'[x] = books[x]
      <4> DEFINE open == books[d] \cup {[outcome |-> outcome, after |-> Last(d)]}
                 Open == SUBSET [outcome: Outcomes, after: Packets]
      <4>1. open \in Open /\ books \in [Phones -> Open]
        BY <2>1 DEF CallTypeOK
      <4>2. books' = [books EXCEPT ![d] = open]
        BY <1>4, <1>9
      <4> HIDE DEF open, Open
      <4>3. books' \in [Phones -> Open] /\ books'[d] = open /\ \A x \in Phones \ {d} : books'[x] = books[x]
        BY <4>1, <4>2
      <4> QED
        BY <4>3 DEF open, Open
    <3>2. history' = history /\ saved' = saved
      BY <1>4, <1>9
    <3> QED
      BY <1>3, <1>6, <1>7, <1>8, <1>9, <3>1, <3>2 DEF Ended, CallTypeOK
<1>10. CASE ~durable
  <2>1. Recorded(d, c, outcome)
    BY <1>1, <1>2, <1>4, <1>10, RecordEffect
  <2> QED
    BY <1>3, <1>4, <1>6, <1>7, <1>8, <1>10, <2>1 DEF Ended, Recorded, CallTypeOK
<1> QED
  BY <1>9, <1>10

\* What the ending of the call on screen means to d, whose last word is at most q.
ClosedCall(d, failed, reason, durable, q) ==
    /\ value'[d].call = value[d].call /\ value'[d].status \in {"ended", "failed"}
    /\ tracks'[d] = tracks[d] \ {value[d].call}
    /\ sends'[d] \subseteq sends[d] \cup {q}
    /\ IF durable
       THEN /\ books'[d] = books[d] \cup
                  {[outcome |-> Outcome(value[d].status, failed, reason), after |-> Last(d)]}
            /\ \A k \in CallIds : history'[d][k] = history[d][k] /\ saved'[d][k] = saved[d][k]
       ELSE /\ books'[d] = books[d]
            /\ Recorded(d, value[d].call, Outcome(value[d].status, failed, reason))

LEMMA EndingKeepsPhone ==
  ASSUME CallInv, NEW d \in Phones, InCall(d),
         NEW failed \in BOOLEAN, NEW durable \in BOOLEAN, NEW q,
         NEW reason \in {"local", "timeout", "remote", "decline"},
         ClosedCall(d, failed, reason, durable, q),
         q.call = value[d].call, q.act \in {"end", "decline"},
         q.act = "decline" => q.to = route[q.call][1],
         reason = "decline" => ~Incoming(d, value[d].call) /\ ~durable,
         route' = route, mail' = mail, applied' = applied, tombs'[d] = tombs[d],
         d \in restarting' <=> d \in restarting, capturing'[d] \subseteq capturing[d],
         \/ hand'[d] = hand[d]
         \/ /\ hand[d].phase = "pass" /\ hand[d].packet.act \in {"end", "decline"}
            /\ hand'[d].phase = "done" /\ hand'[d].packet = hand[d].packet
            /\ hand'[d].completed = hand[d].completed
  PROVE  PhoneInv(d)'
<1> DEFINE c == value[d].call
           outcome == Outcome(value[d].status, failed, reason)
<1>0. CallTypeOK /\ PhoneInv(d)
  BY DEF CallInv
<1>1. c \in CallIds /\ route[c] # <<>> /\ value[d].status \in LiveStatus /\ d \in {route[c][1], route[c][2]}
  BY <1>0 DEF PhoneInv, Shown, InCall
<1>2. /\ outcome \in Outcomes /\ "none" \notin Outcomes
      /\ value[d].status \notin Ringing /\ reason # "decline" => outcome \in {"failed", "ended"}
  BY <1>1, OutcomesAre DEF Outcomes
<1>3. ~InCall(d)' /\ value'[d].call = c /\ ~(value'[d].status \in Ringing)
  BY DEF ClosedCall, InCall, LiveStatus, Ringing
<1>4. /\ Last(d).call = c
      /\ Last(d).act = IF value[d].status = "incoming" THEN "decline" ELSE "end"
      /\ Last(d).to = Far(d, c)
  BY DEF Last, Packet
<1>5. Named(Last(d)) /\ (Incoming(d, c) => Last(d).to = route[c][1])
  BY <1>0, <1>1, <1>4 DEF Named, Far, Incoming, PhoneInv, Shown, CallInv
<1>6. Incoming(d, c) => value[d].status # "ringing"
  BY <1>0, <1>1 DEF Incoming, PhoneInv, Shown, CallInv
<1>7. Incoming(d, c) /\ ~Declined(c) /\ value[d].status # "incoming" => Answering(d, c)
  BY <1>0, <1>1 DEF PhoneInv, AnswersAreKept, Answering, On, InCall
<1>8. \A k \in CallIds :
        /\ history[d][k] # "none" => history'[d][k] = history[d][k]
        /\ saved'[d][k] = saved[d][k] \/ (saved'[d][k] = "none" /\ history'[d][k] # "none")
        /\ history'[d][k] = history[d][k] \/ (k = c /\ history[d][k] = "none" /\ history'[d][k] = outcome)
  BY <1>1, <1>2 DEF ClosedCall, Recorded
<1>9. \A k \in CallIds : InHand(d, k)' => InHand(d, k) /\ hand'[d] = hand[d]
  BY DEF InHand
<1>10. \A k \in CallIds : ~Rings(d, k)' /\ ~On(d, k)'
  BY <1>3 DEF Rings, On, Ringing
<1>11. \A k \in CallIds : Answering(d, k)' => Answering(d, k)
  <2> SUFFICES ASSUME NEW k \in CallIds, Answering(d, k)'
               PROVE  Answering(d, k)
    OBVIOUS
  <2>1. Incoming(d, k) /\ ~Declined(k)
    BY DEF Answering, Incoming, Declined
  <2>2. CASE Packet(k, "accept", route[k][1]) \in mail' \cup sends'[d]
    <3>1. Packet(k, "accept", route[k][1]) # q
      BY DEF Packet
    <3> QED
      BY <2>1, <2>2, <3>1 DEF Answering, ClosedCall
  <2>3. CASE \E b \in books'[d] : b.after = Packet(k, "end", route[k][1])
    <3>1. PICK b \in books'[d] : b.after = Packet(k, "end", route[k][1])
      BY <2>3
    <3>2. CASE b \in books[d]
      BY <2>1, <3>1, <3>2 DEF Answering
    <3>3. CASE b \notin books[d]
      <4>1. b.after = Last(d)
        BY <3>1, <3>3 DEF ClosedCall
      <4>2. k = c /\ value[d].status # "incoming"
        BY <1>4, <3>1, <4>1 DEF Packet
      <4> QED
        BY <1>7, <2>1, <4>2
    <3> QED
      BY <3>2, <3>3
  <2> QED
    BY <2>2, <2>3 DEF Answering
<1>12. Spoken(d)'
  <2>1. \A p \in sends'[d] : p \in sends[d] \/ (p = q /\ p.act \notin {"invite", "accept"} /\ Named(p))
    BY <1>1 DEF ClosedCall, Named
  <2>2. \A b \in books'[d] :
           b \in books[d] \/ (durable /\ b.after = Last(d) /\ b.outcome = outcome)
    BY DEF ClosedCall
  <2>3. ASSUME durable, Last(d).act = "end", Incoming(d, c)
        PROVE  outcome \notin {"missed", "declined"}
    BY <1>1, <1>2, <1>4, <1>6, <2>3 DEF Ringing
  <2>4. \A p \in sends'[d] :
           /\ Named(p)' /\ (p.act = "invite" => route'[p.call][1] = d)
           /\ p.act = "accept" => Incoming(d, p.call)'
    BY <1>0, <1>5, <2>1 DEF PhoneInv, Spoken, Named, Incoming
  <2>5. \A b \in books'[d] :
           /\ Named(b.after)' /\ b.after.act \in {"end", "decline"}
           /\ b.after.act = "end" /\ Incoming(d, b.after.call)' =>
                  b.outcome \notin {"missed", "declined"} /\ b.after.to = route'[b.after.call][1]
    BY <1>0, <1>4, <1>5, <2>2, <2>3 DEF PhoneInv, Spoken, Named, Incoming
  <2>6. /\ hand'[d].phase # "none" => hand'[d].packet \in mail' /\ hand'[d].packet.to = d
        /\ hand'[d].phase \in {"save", "missed"} => hand'[d].packet.act = "invite"
    BY <1>0 DEF PhoneInv, Spoken
  <2>7. \A k \in CallIds : saved'[d][k] # "none" => Packet(k, "invite", d) \in mail'
    BY <1>0, <1>8 DEF PhoneInv, Spoken
  <2>8. \A k \in capturing'[d] : route'[k] # <<>> /\ d \in {route'[k][1], route'[k][2]}
    BY <1>0 DEF PhoneInv, Spoken
  <2> QED
    BY <2>4, <2>5, <2>6, <2>7, <2>8 DEF Spoken
<1>13. Shown(d)'
  <2>1. tracks'[d] = {}
    BY <1>0 DEF PhoneInv, Shown, On, ClosedCall
  <2> QED
    BY <1>1, <1>3, <2>1 DEF Shown, Ringing
<1>14. RungOnce(d)'
  BY <1>0, <1>9, <1>10 DEF PhoneInv, RungOnce
<1>15. KeptOnTheWay(d)'
  <2>1. hand[d].phase # "none" => hand[d].packet.call \in CallIds
    BY <1>0, HandIs DEF Packets
  <2> QED
    BY <1>0, <1>8, <1>9, <2>1 DEF PhoneInv, KeptOnTheWay
<1>16. RingingIsOpen(d)'
  <2> SUFFICES ASSUME NEW k \in CallIds, Incoming(d, k), ~Declined(k)
               PROVE  /\ InHand(d, k)' /\ hand'[d].phase = "screen" /\ ~hand'[d].completed =>
                             history'[d][k] = "none" \/ k \in tombs'[d]
                      /\ InHand(d, k)' /\ hand'[d].phase \in {"save", "pass"} => history'[d][k] = "none"
    BY <1>10 DEF RingingIsOpen, Incoming, Declined
  <2>1. InHand(d, k) /\ hand[d].phase # "done" /\ (hand[d].phase = "screen" => ~hand[d].completed) => k # c
    <3>1. InHand(d, k) /\ hand[d].phase # "done" => ~Rings(d, k)
      BY <1>0 DEF PhoneInv, RungOnce
    <3>2. Answering(d, k) => (InHand(d, k) =>
                   hand[d].phase = "done" \/ (hand[d].phase = "screen" /\ hand[d].completed))
      BY <1>0 DEF PhoneInv, AnswersAreKept
    <3> QED
      BY <1>7, <3>1, <3>2 DEF Rings
  <2> QED
    BY <1>0, <1>8, <1>9, <2>1 DEF PhoneInv, RingingIsOpen
<1>17. AnswersAreKept(d)'
  <2>1. ASSUME NEW k \in CallIds, Answering(d, k)'
        PROVE  /\ history'[d][k] \notin {"missed", "declined"}
               /\ history'[d][k] # "none" \/ saved'[d][k] \in {"connecting", "active"}
               /\ InHand(d, k)' =>
                     hand'[d].phase = "done" \/ (hand'[d].phase = "screen" /\ hand'[d].completed)
               /\ \/ Packet(k, "invite", d) \in applied'
                  \/ InHand(d, k)' /\ hand'[d].phase = "done"
                  \/ history'[d][k] # "none"
                  \/ d \in restarting' /\ value'[d].call # k
               /\ Packet(k, "invite", d) \in applied' \/ history'[d][k] # "none" \/ k \notin tombs'[d]
    <3>1. Answering(d, k) /\ Incoming(d, k)
      BY <1>11, <2>1 DEF Answering
    <3>2. k = c => outcome \in {"failed", "ended"}
      BY <1>0, <1>1, <1>2, <1>6, <3>1 DEF PhoneInv, AnswersAreKept, Rings, Ringing
    <3>3. InHand(d, k) /\ hand[d].phase = "done" => InHand(d, k)' /\ hand'[d].phase = "done"
      BY DEF InHand
    <3> QED
      BY <1>0, <1>3, <1>8, <1>9, <3>1, <3>2, <3>3 DEF PhoneInv, AnswersAreKept
  <2> QED
    BY <1>10, <2>1 DEF AnswersAreKept
<1> QED
  BY <1>12, <1>13, <1>14, <1>15, <1>16, <1>17 DEF PhoneInv
------------------------------------------------------------------------------
(* Direct calls: the steps                                                   *)

HandTypes == {NoHand} \cup
    [packet: Packets, phase: {"screen", "missed", "save", "pass", "done"}, completed: BOOLEAN]

\* An end of the call on screen, with what happens beside it.
LEMMA EndingKeepsInv ==
  ASSUME CallInv, NEW d \in Phones, InCall(d),
         NEW failed \in BOOLEAN, NEW notify \in BOOLEAN, NEW durable \in BOOLEAN,
         NEW reason \in {"local", "timeout", "remote", "decline"},
         Finish(d, failed, notify, reason, durable),
         reason = "decline" => ~Incoming(d, value[d].call) /\ ~durable,
         UNCHANGED <<route, mail, applied, old, tombs, restarting>>,
         troubles' \in 0 .. MaxTroubles,
         capturing' \in [Phones -> SUBSET CallIds], capturing'[d] \subseteq capturing[d],
         hand' \in [Phones -> HandTypes],
         \A x \in Phones \ {d} : capturing'[x] = capturing[x] /\ hand'[x] = hand[x],
         \/ hand'[d] = hand[d]
         \/ /\ hand[d].phase = "pass" /\ hand[d].packet.act \in {"end", "decline"}
            /\ hand'[d].phase = "done" /\ hand'[d].packet = hand[d].packet
            /\ hand'[d].completed = hand[d].completed
  PROVE  CallInv'
<1>1. CallTypeOK /\ PhoneInv(d)
  BY DEF CallInv
<1>2. Ended(d, failed, notify, reason, durable)
  BY <1>1, FinishEffect
<1>3. PhoneInv(d)'
  <2>1. ClosedCall(d, failed, reason, durable, Last(d))
    BY <1>2 DEF Ended, ClosedCall
  <2>2. /\ Last(d).call = value[d].call /\ Last(d).act \in {"end", "decline"}
        /\ Last(d).act = "decline" => Last(d).to = route[Last(d).call][1]
    BY <1>1 DEF Last, Packet, PhoneInv, Shown, Incoming, Far, InCall, CallInv
  <2> QED
    BY <2>1, <2>2, EndingKeepsPhone
<1>4. \A x \in Phones \ {d} : Same(x)
  BY <1>2 DEF Same, Ended
<1>5. CallTypeOK'
  BY <1>1, <1>2 DEF CallTypeOK, Ended, HandTypes
<1> QED
  BY <1>3, <1>4, <1>5, CallFrame

LEMMA HangUpKeepsInv ==
  ASSUME CallInv, NEW d \in Phones, NEW durable \in BOOLEAN, HangUp(d, durable)
  PROVE  CallInv'
<1>1. Finish(d, FALSE, TRUE, "local", durable) /\ InCall(d)
  BY DEF HangUp
<1>2. UNCHANGED <<route, capturing, mail, applied, old, hand, tombs, restarting, troubles>>
  BY DEF HangUp, stores
<1> QED
  BY <1>1, <1>2, EndingKeepsInv DEF CallInv, CallTypeOK, HandTypes

LEMMA RingOutKeepsInv == ASSUME CallInv, NEW d \in Phones, RingOut(d) PROVE CallInv'
<1>1. Finish(d, TRUE, TRUE, "timeout", FALSE) /\ InCall(d)
  BY DEF RingOut
<1>2. UNCHANGED <<route, capturing, mail, applied, old, hand, tombs, restarting, troubles>>
  BY DEF RingOut, stores
<1> QED
  BY <1>1, <1>2, EndingKeepsInv DEF CallInv, CallTypeOK, HandTypes

LEMMA MediaFailsKeepsInv == ASSUME CallInv, NEW d \in Phones, MediaFails(d) PROVE CallInv'
<1>1. Finish(d, TRUE, TRUE, "local", FALSE) /\ InCall(d)
  BY DEF MediaFails, InCall, LiveStatus
<1>2. UNCHANGED <<route, capturing, mail, applied, old, hand, tombs, restarting, troubles>>
  BY DEF MediaFails, stores
<1> QED
  BY <1>1, <1>2, EndingKeepsInv DEF CallInv, CallTypeOK, HandTypes

LEMMA CaptureFailsKeepsInv ==
  ASSUME CallInv, NEW d \in Phones, NEW c \in CallIds, CaptureFails(d, c)
  PROVE  CallInv'
<1>0. CallTypeOK /\ PhoneInv(d)
  BY DEF CallInv
<1>1. /\ capturing' \in [Phones -> SUBSET CallIds] /\ capturing'[d] \subseteq capturing[d]
      /\ \A x \in Phones \ {d} : capturing'[x] = capturing[x]
      /\ troubles' \in 0 .. MaxTroubles
  BY <1>0, CallsAssumption DEF CaptureFails, CallTypeOK
<1>2. UNCHANGED <<route, mail, applied, old, hand, tombs, restarting>>
  BY DEF CaptureFails, stores
<1>3. CASE On(d, c)
  <2>1. Finish(d, TRUE, TRUE, "local", FALSE) /\ InCall(d)
    BY <1>3 DEF CaptureFails, On
  <2> QED
    BY <1>0, <1>1, <1>2, <2>1, EndingKeepsInv DEF CallTypeOK, HandTypes
<1>4. CASE ~On(d, c)
  <2>1. UNCHANGED <<value, tracks, sends, books, saved, history>>
    BY <1>4 DEF CaptureFails, records
  <2>2. CallTypeOK' /\ \A x \in Phones \ {d} : Same(x)
    BY <1>0, <1>1, <1>2, <2>1 DEF CallTypeOK, Same
  <2>3. PhoneInv(d)'
    BY <1>0, <1>1, <1>2, <2>1, SMTT(30)
    DEF PhoneInv, Spoken, Shown, RungOnce, KeptOnTheWay, RingingIsOpen, AnswersAreKept, Answering,
        Declined, InHand, Rings, On, InCall, Incoming, Named
  <2> QED
    BY <1>2, <2>2, <2>3, CallFrame
<1> QED
  BY <1>3, <1>4

LEMMA ReceiveEndKeepsInv == ASSUME CallInv, NEW d \in Phones, ReceiveEnd(d) PROVE CallInv'
<1> DEFINE p == hand[d].packet
<1>0. CallTypeOK /\ PhoneInv(d)
  BY DEF CallInv
<1>1. /\ hand[d].phase = "pass" /\ p.act \in {"end", "decline"}
      /\ hand' = [hand EXCEPT ![d] = [hand[d] EXCEPT !.phase = "done"]]
      /\ UNCHANGED <<route, capturing, mail, applied, old, tombs, restarting, troubles>>
  BY DEF ReceiveEnd, Goto, project, local
<1>2. [hand[d] EXCEPT !.phase = "done"] = [packet |-> p, phase |-> "done", completed |-> hand[d].completed]
      /\ p \in Packets /\ hand[d].completed \in BOOLEAN
  BY <1>0, <1>1 DEF CallTypeOK, NoHand
<1>3. /\ hand' \in [Phones -> HandTypes] /\ \A x \in Phones \ {d} : hand'[x] = hand[x]
      /\ hand'[d].phase = "done" /\ hand'[d].packet = p /\ hand'[d].completed = hand[d].completed
  BY <1>0, <1>1, <1>2 DEF CallTypeOK, HandTypes
<1>4. CASE On(d, p.call)
  <2> DEFINE reason == IF p.act = "decline" THEN "decline" ELSE "remote"
  <2>1. Finish(d, FALSE, FALSE, reason, FALSE) /\ InCall(d) /\ value[d].call = p.call
    BY <1>4 DEF ReceiveEnd, On
  <2>2. reason = "decline" => ~Incoming(d, value[d].call)
    <3>1. p.act = "decline" => Named(p) /\ p.to = d
      BY <1>0, <1>1 DEF PhoneInv, Spoken, CallInv
    <3>2. p.call \in CallIds
      BY <1>2 DEF Packets
    <3> QED
      BY <2>1, <3>1, <3>2 DEF Named, Incoming, CallInv
  <2>3. reason \in {"local", "timeout", "remote", "decline"}
    OBVIOUS
  <2> QED
    BY <1>0, <1>1, <1>3, <2>1, <2>2, <2>3, EndingKeepsInv DEF CallTypeOK
<1>5. CASE ~On(d, p.call)
  <2>1. UNCHANGED <<value, tracks, sends, books, saved, history>>
    BY <1>5 DEF ReceiveEnd, records
  <2>2. CallTypeOK' /\ \A x \in Phones \ {d} : Same(x)
    BY <1>0, <1>1, <1>3, <2>1 DEF CallTypeOK, Same, HandTypes
  <2>3. \A k \in CallIds : ~InHand(d, k) /\ ~InHand(d, k)'
    BY <1>1, <1>3 DEF InHand
  <2>4. \A k \in CallIds : Rings(d, k) => k # p.call
    BY <1>5 DEF Rings, On, InCall, LiveStatus, Ringing
  <2>5. PhoneInv(d)'
    BY <1>0, <1>1, <1>3, <2>1, <2>3, <2>4, SMTT(30)
    DEF PhoneInv, Spoken, Shown, RungOnce, KeptOnTheWay, RingingIsOpen, AnswersAreKept, Answering,
        Declined, Rings, On, InCall, Incoming, Named
  <2> QED
    BY <1>1, <2>2, <2>5, CallFrame
<1> QED
  BY <1>4, <1>5

LEMMA GotoEffect ==
  ASSUME CallTypeOK, NEW d \in Phones, hand[d].phase # "none",
         NEW phase \in {"screen", "missed", "save", "pass", "done"},
         hand' = [hand EXCEPT ![d].phase = phase]
  PROVE  /\ hand' \in [Phones -> HandTypes] /\ \A x \in Phones \ {d} : hand'[x] = hand[x]
         /\ hand'[d].phase = phase /\ hand'[d].packet = hand[d].packet
         /\ hand'[d].completed = hand[d].completed
<1>1. hand' = [hand EXCEPT ![d] = [hand[d] EXCEPT !.phase = phase]]
  OBVIOUS
<1>2. /\ [hand[d] EXCEPT !.phase = phase] =
            [packet |-> hand[d].packet, phase |-> phase, completed |-> hand[d].completed]
      /\ hand[d].packet \in Packets /\ hand[d].completed \in BOOLEAN
  <2>1. hand[d] \in [packet: Packets, phase: {"screen", "missed", "save", "pass", "done"},
                     completed: BOOLEAN]
    BY DEF CallTypeOK, NoHand
  <2> QED
    BY <2>1
<1> QED
  BY <1>1, <1>2 DEF CallTypeOK, HandTypes

LEMMA StatusEffect ==
  ASSUME CallTypeOK, NEW d \in Phones, value[d].call \in CallIds,
         NEW s \in LiveStatus \cup {"ended", "failed"},
         value' = [value EXCEPT ![d].status = s]
  PROVE  /\ value' \in [Phones -> [call: CallIds \cup {NoCall},
                                   status: LiveStatus \cup {"none", "ended", "failed"}]]
         /\ \A x \in Phones \ {d} : value'[x] = value[x]
         /\ value'[d].call = value[d].call /\ value'[d].status = s
<1>1. value' = [value EXCEPT ![d] = [value[d] EXCEPT !.status = s]]
  OBVIOUS
<1>2. [value[d] EXCEPT !.status = s] = [call |-> value[d].call, status |-> s]
  BY DEF CallTypeOK
<1> QED
  BY <1>1, <1>2 DEF CallTypeOK

LEMMA StartCallKeepsInv ==
  ASSUME CallInv, NEW d \in Phones, NEW e \in Phones \cup Others, NEW c \in CallIds, StartCall(d, e, c)
  PROVE  CallInv'
<1>0. CallTypeOK /\ \A x \in Phones : PhoneInv(x)
  BY DEF CallInv
<1>1. /\ ~InCall(d) /\ route[c] = <<>> /\ <<d, e>> \in Dials \cup BesideStray
      /\ route' = [route EXCEPT ![c] = <<d, e>>]
      /\ value' = [value EXCEPT ![d] = [call |-> c, status |-> "ringing"]]
      /\ capturing' = [capturing EXCEPT ![d] = @ \cup {c}]
      /\ UNCHANGED <<tracks, sends, books, mail, applied, old, hand, tombs, restarting, saved, history,
                     troubles>>
  BY DEF StartCall, Placed, Dialled, stores, records
<1>2. d # e
  BY <1>1, CallsAssumption
<1>3. route'[c] = <<d, e>> /\ \A k \in CallIds : k # c => route'[k] = route[k]
  BY <1>0, <1>1 DEF CallTypeOK
<1>4. /\ value'[d].call = c /\ value'[d].status = "ringing"
      /\ capturing'[d] = capturing[d] \cup {c}
      /\ \A x \in Phones : x # d => value'[x] = value[x] /\ capturing'[x] = capturing[x]
  BY <1>0, <1>1 DEF CallTypeOK
<1>5. CallTypeOK'
  <2>1. route' \in [CallIds -> {<<>>} \cup ((Phones \cup Others) \X (Phones \cup Others))]
    BY <1>0, <1>1 DEF CallTypeOK
  <2>2. value' \in [Phones -> [call: CallIds \cup {NoCall},
                             status: LiveStatus \cup {"none", "ended", "failed"}]]
    BY <1>0, <1>1 DEF CallTypeOK, LiveStatus, Ringing
  <2>3. capturing' \in [Phones -> SUBSET CallIds]
    BY <1>0, <1>1 DEF CallTypeOK
  <2> QED
    BY <1>0, <1>1, <2>1, <2>2, <2>3 DEF CallTypeOK
\* Nothing is known of c before.
<1>6. \A p \in mail : p.call # c /\ p.call \in CallIds
  BY <1>0, <1>1 DEF CallInv, Named, CallTypeOK, Packets
<1>7. \A x \in Phones :
        /\ \A p \in sends[x] : p.call # c /\ p.call \in CallIds
        /\ \A b \in books[x] : b.after.call # c /\ b.after.call \in CallIds
        /\ hand[x].phase # "none" => hand[x].packet.call # c /\ hand[x].packet.call \in CallIds
        /\ c \notin capturing[x] /\ capturing[x] \subseteq CallIds
        /\ value[x].call # c
  <2> SUFFICES ASSUME NEW x \in Phones
               PROVE  /\ \A p \in sends[x] : p.call # c /\ p.call \in CallIds
                      /\ \A b \in books[x] : b.after.call # c /\ b.after.call \in CallIds
                      /\ hand[x].phase # "none" => hand[x].packet.call # c /\ hand[x].packet.call \in CallIds
                      /\ c \notin capturing[x] /\ capturing[x] \subseteq CallIds
                      /\ value[x].call # c
    OBVIOUS
  <2>1. \A p \in sends[x] : p.call # c /\ p.call \in CallIds
    BY <1>0, <1>1 DEF PhoneInv, Spoken, Named, CallTypeOK, Packets
  <2>2. \A b \in books[x] : b.after.call # c /\ b.after.call \in CallIds
    BY <1>0, <1>1 DEF PhoneInv, Spoken, Named, CallTypeOK, Packets
  <2>3. hand[x].phase # "none" => hand[x].packet.call # c /\ hand[x].packet.call \in CallIds
    BY <1>0, <1>6 DEF PhoneInv, Spoken
  <2>4. c \notin capturing[x] /\ capturing[x] \subseteq CallIds /\ value[x].call # c
    BY <1>0, <1>1 DEF PhoneInv, Spoken, Shown, CallTypeOK
  <2> QED
    BY <2>1, <2>2, <2>3, <2>4
<1>8. \A p \in mail : Named(p)'
  BY <1>3, <1>6 DEF CallInv, Named
<1>9. \A k \in CallIds : route'[k] # <<>> => route'[k][1] # route'[k][2]
  BY <1>2, <1>3 DEF CallInv
<1>10. ASSUME NEW x \in Phones
       PROVE  PhoneInv(x)'
  <2>1. Spoken(x)'
    <3>1. \A p \in sends[x] :
             /\ Named(p)' /\ (p.act = "invite" => route'[p.call][1] = x)
             /\ p.act = "accept" => Incoming(x, p.call)'
      BY <1>0, <1>3, <1>7 DEF PhoneInv, Spoken, Named, Incoming
    <3>2. \A b \in books[x] :
             /\ Named(b.after)' /\ b.after.act \in {"end", "decline"}
             /\ b.after.act = "end" /\ Incoming(x, b.after.call)' =>
                    b.outcome \notin {"missed", "declined"} /\ b.after.to = route'[b.after.call][1]
      BY <1>0, <1>3, <1>7 DEF PhoneInv, Spoken, Named, Incoming
    <3>3. \A k \in capturing'[x] : route'[k] # <<>> /\ x \in {route'[k][1], route'[k][2]}
      <4>1. \A k \in capturing[x] : route[k] # <<>> /\ x \in {route[k][1], route[k][2]}
        BY <1>0 DEF PhoneInv, Spoken
      <4>2. \A k \in capturing'[x] : k \in capturing[x] \/ (k = c /\ x = d)
        BY <1>4
      <4>3. \A k \in capturing[x] : k \in CallIds /\ k # c
        BY <1>7
      <4>4. \A k \in capturing[x] : route'[k] = route[k]
        BY <1>3, <4>3
      <4>5. route'[c] # <<>> /\ route'[c][1] = d
        BY <1>3
      <4> QED
        BY <4>1, <4>2, <4>4, <4>5
    <3> QED
      BY <1>0, <1>1, <3>1, <3>2, <3>3 DEF PhoneInv, Spoken
  <2>2. Shown(x)'
    <3>1. CASE x # d
      BY <1>0, <1>1, <1>3, <1>4, <1>7, <3>1 DEF PhoneInv, Shown, InCall, On, Incoming
    <3>2. CASE x = d
      <4>1. tracks[d] = {}
        BY <1>0, <1>1 DEF PhoneInv, Shown, On
      <4> QED
        BY <1>1, <1>3, <1>4, <3>2, <4>1 DEF Shown, InCall, On, LiveStatus, Ringing, Incoming
    <3> QED
      BY <3>1, <3>2
  <2>3. \A k \in CallIds : Rings(x, k)' => Rings(x, k)
    BY <1>4 DEF Rings
  <2>4. \A k \in CallIds : InHand(x, k)' <=> InHand(x, k)
    BY <1>1 DEF InHand
  <2>5. RungOnce(x)'
    BY <1>0, <1>1, <2>3, <2>4 DEF PhoneInv, RungOnce
  <2>6. KeptOnTheWay(x)'
    BY <1>0, <1>1, <2>4 DEF PhoneInv, KeptOnTheWay
  <2>7. ~InHand(x, c) /\ ~Rings(x, c)
    BY <1>7 DEF InHand, Rings
  <2>8. RingingIsOpen(x)'
    BY <1>0, <1>1, <1>3, <2>3, <2>4, <2>7 DEF PhoneInv, RingingIsOpen, Incoming, Declined
  <2>9. ~Answering(x, c)'
    BY <1>1, <1>6, <1>7 DEF Answering, Packet
  <2>10. \A k \in CallIds : Answering(x, k)' => Answering(x, k)
    BY <1>1, <1>3, <2>9 DEF Answering, Incoming, Declined
  <2>11. \A k \in CallIds : Incoming(x, k)' /\ On(x, k)' /\ value'[x].status # "incoming" =>
               Packet(k, "accept", route'[k][1]) \in mail' \cup sends'[x]
    BY <1>0, <1>1, <1>2, <1>3, <1>4, <1>7 DEF PhoneInv, AnswersAreKept, Incoming, On, InCall
  <2>12. \A k \in CallIds : Answering(x, k)' /\ value[x].call # k => value'[x].call # k
    BY <1>4, <2>9
  <2> HIDE DEF Answering
  <2>13. \A k \in CallIds : Answering(x, k)' =>
             /\ history[x][k] \notin {"missed", "declined"}
             /\ ~Rings(x, k)'
             /\ history[x][k] # "none" \/ saved[x][k] \in {"connecting", "active"}
             /\ InHand(x, k)' =>
                   hand[x].phase = "done" \/ (hand[x].phase = "screen" /\ hand[x].completed)
             /\ \/ Packet(k, "invite", x) \in applied
                \/ InHand(x, k)' /\ hand[x].phase = "done"
                \/ history[x][k] # "none"
                \/ x \in restarting /\ value'[x].call # k
             /\ Packet(k, "invite", x) \in applied \/ history[x][k] # "none" \/ k \notin tombs[x]
    BY <1>0, <2>3, <2>4, <2>10, <2>12 DEF PhoneInv, AnswersAreKept
  <2>14. AnswersAreKept(x)'
    BY <1>1, <2>11, <2>13 DEF AnswersAreKept
  <2> QED
    BY <2>1, <2>2, <2>5, <2>6, <2>8, <2>14 DEF PhoneInv
<1> QED
  BY <1>0, <1>1, <1>5, <1>8, <1>9, <1>10 DEF CallInv

LEMMA CapturedKeepsInv ==
  ASSUME CallInv, NEW d \in Phones, NEW c \in CallIds, Captured(d, c)
  PROVE  CallInv'
<1> DEFINE p == Packet(c, "invite", Far(d, c))
<1>0. CallTypeOK /\ PhoneInv(d)
  BY DEF CallInv
<1>1. /\ c \in capturing[d] /\ capturing' = [capturing EXCEPT ![d] = @ \ {c}]
      /\ UNCHANGED <<route, value, books, mail, applied, old, hand, tombs, restarting, saved, history,
                     troubles>>
  BY DEF Captured, stores, records
<1>2. route[c] # <<>> /\ d \in {route[c][1], route[c][2]}
  BY <1>0, <1>1 DEF PhoneInv, Spoken
<1>3. p \in Packets /\ p.act = "invite" /\ p.call = c
  BY <1>0, <1>2, Routed, PacketsAre
<1>4. ~Incoming(d, c) => route[c][1] = d /\ p.to = route[c][2]
  BY <1>2, <1>3 DEF Incoming, Far, Packet
<1>5. /\ tracks' \in [Phones -> SUBSET CallIds] /\ sends' \in [Phones -> SUBSET Packets]
      /\ \A x \in Phones \ {d} : tracks'[x] = tracks[x] /\ sends'[x] = sends[x]
      /\ tracks'[d] \subseteq tracks[d] \cup {c} /\ (c \in tracks'[d] => On(d, c))
      /\ sends[d] \subseteq sends'[d]
      /\ \A q \in sends'[d] : q \in sends[d] \/ (q = p /\ ~Incoming(d, c))
  <2>1. CASE On(d, c)
    <3> HIDE DEF p
    <3>1. /\ tracks' = [tracks EXCEPT ![d] = tracks[d] \cup {c}]
          /\ sends' = [sends EXCEPT ![d] = IF Incoming(d, c) THEN sends[d] ELSE sends[d] \cup {p}]
      BY <2>1 DEF Captured, p
    <3>2. (IF Incoming(d, c) THEN sends[d] ELSE sends[d] \cup {p}) \in SUBSET Packets
      BY <1>0, <1>3 DEF CallTypeOK
    <3> QED
      BY <1>0, <2>1, <3>1, <3>2 DEF CallTypeOK
  <2>2. CASE ~On(d, c)
    BY <1>0, <2>2 DEF Captured, CallTypeOK, PhoneInv, Shown
  <2> QED
    BY <2>1, <2>2
<1> HIDE DEF p
<1>6. /\ capturing' \in [Phones -> SUBSET CallIds] /\ capturing'[d] \subseteq capturing[d]
      /\ \A x \in Phones \ {d} : capturing'[x] = capturing[x]
  BY <1>0, <1>1 DEF CallTypeOK
<1>7. CallTypeOK' /\ \A x \in Phones \ {d} : Same(x)
  BY <1>0, <1>1, <1>5, <1>6 DEF CallTypeOK, Same
<1>8. Spoken(d)'
  <2>1. \A q \in sends'[d] :
           /\ Named(q)' /\ (q.act = "invite" => route'[q.call][1] = d)
           /\ q.act = "accept" => Incoming(d, q.call)'
    BY <1>0, <1>1, <1>2, <1>3, <1>4, <1>5 DEF PhoneInv, Spoken, Named, Incoming
  <2> QED
    BY <1>0, <1>1, <1>6, <2>1 DEF PhoneInv, Spoken, Named, Incoming
<1>9. Shown(d)'
  BY <1>0, <1>1, <1>5 DEF PhoneInv, Shown, On, InCall, Incoming
<1>10. \A k \in CallIds : Packet(k, "accept", route[k][1]) \in sends'[d] =>
             Packet(k, "accept", route[k][1]) \in sends[d]
  BY <1>3, <1>5 DEF Packet
<1>11. RungOnce(d)' /\ KeptOnTheWay(d)' /\ RingingIsOpen(d)'
  BY <1>0, <1>1
  DEF PhoneInv, RungOnce, KeptOnTheWay, RingingIsOpen, Declined, InHand, Rings, Incoming
<1>12. AnswersAreKept(d)'
  BY <1>0, <1>1, <1>5, <1>10
  DEF PhoneInv, AnswersAreKept, Answering, Declined, InHand, Rings, Incoming, On, InCall
<1> QED
  BY <1>1, <1>7, <1>8, <1>9, <1>11, <1>12, CallFrame DEF PhoneInv

LEMMA AnswerKeepsInv == ASSUME CallInv, NEW d \in Phones, Accept(d) PROVE CallInv'
<1>0. CallTypeOK /\ PhoneInv(d)
  BY DEF CallInv
<1>00. PICK c \in CallIds : c = value[d].call
  BY <1>0 DEF Accept, PhoneInv, Shown, InCall, LiveStatus, Ringing
<1> DEFINE p == Packet(c, "accept", Far(d, c))
<1>1. /\ value[d].status = "incoming"
      /\ value' = [value EXCEPT ![d].status = "connecting"]
      /\ sends' = [sends EXCEPT ![d] = sends[d] \cup {p}]
      /\ capturing' = [capturing EXCEPT ![d] = capturing[d] \cup {c}]
      /\ saved' = [saved EXCEPT ![d][c] = IF @ # "none" /\ Incoming(d, c) THEN "connecting" ELSE @]
      /\ UNCHANGED <<route, tracks, books, mail, applied, old, hand, tombs, restarting, history, troubles>>
  BY <1>00 DEF Accept, Tracked, stores
<1>2. c \in CallIds /\ Incoming(d, c) /\ route[c] # <<>> /\ route[c][1] # d /\ Rings(d, c)
  BY <1>0, <1>00, <1>1 DEF PhoneInv, Shown, InCall, LiveStatus, Ringing, Incoming, CallInv, Rings
<1>3. p \in Packets /\ p.act = "accept" /\ p.call = c /\ p.to = route[c][1]
  BY <1>0, <1>2, Routed, PacketsAre DEF Far, Packet
<1>4. /\ value' \in [Phones -> [call: CallIds \cup {NoCall},
                                status: LiveStatus \cup {"none", "ended", "failed"}]]
      /\ \A x \in Phones \ {d} : value'[x] = value[x]
      /\ value'[d].call = c /\ value'[d].status = "connecting"
  BY <1>0, <1>00, <1>1, <1>2, StatusEffect DEF LiveStatus
<1>5. p = Packet(c, "accept", route[c][1])
  BY <1>2 DEF Far
<1> HIDE DEF p
<1>6. /\ sends' \in [Phones -> SUBSET Packets] /\ sends'[d] = sends[d] \cup {p}
      /\ \A x \in Phones \ {d} : sends'[x] = sends[x]
  BY <1>0, <1>1, <1>3 DEF CallTypeOK
<1>7. /\ capturing' \in [Phones -> SUBSET CallIds] /\ capturing'[d] = capturing[d] \cup {c}
      /\ \A x \in Phones \ {d} : capturing'[x] = capturing[x]
  BY <1>0, <1>1, <1>2 DEF CallTypeOK
<1>8. /\ saved' \in [Phones -> [CallIds -> {"none", "incoming", "connecting", "active"}]]
      /\ \A x \in Phones \ {d} : saved'[x] = saved[x]
      /\ \A k \in CallIds : saved'[d][k] =
            IF k = c /\ saved[d][c] # "none" THEN "connecting" ELSE saved[d][k]
  <2>1. saved' = [saved EXCEPT ![d] =
            [saved[d] EXCEPT ![c] = IF saved[d][c] # "none" THEN "connecting" ELSE saved[d][c]]]
    BY <1>1, <1>2
  <2>2. saved[d] \in [CallIds -> {"none", "incoming", "connecting", "active"}]
    BY <1>0 DEF CallTypeOK
  <2> QED
    BY <1>0, <1>2, <2>1, <2>2 DEF CallTypeOK
<1>9. CallTypeOK' /\ \A x \in Phones \ {d} : Same(x)
  BY <1>0, <1>1, <1>4, <1>6, <1>7, <1>8 DEF CallTypeOK, Same
<1>10. Spoken(d)'
  <2>1. \A q \in sends'[d] :
           /\ Named(q)' /\ (q.act = "invite" => route'[q.call][1] = d)
           /\ q.act = "accept" => Incoming(d, q.call)'
    BY <1>0, <1>1, <1>2, <1>3, <1>6 DEF PhoneInv, Spoken, Named, Incoming
  <2>2. \A k \in capturing'[d] : route'[k] # <<>> /\ d \in {route'[k][1], route'[k][2]}
    BY <1>0, <1>1, <1>2, <1>7 DEF PhoneInv, Spoken, Incoming
  <2>3. \A k \in CallIds : saved'[d][k] # "none" => Packet(k, "invite", d) \in mail'
    BY <1>0, <1>1, <1>8 DEF PhoneInv, Spoken
  <2> QED
    BY <1>0, <1>1, <2>1, <2>2, <2>3 DEF PhoneInv, Spoken, Named, Incoming
<1>11. Shown(d)'
  BY <1>0, <1>1, <1>2, <1>4 DEF PhoneInv, Shown, On, InCall, Incoming, LiveStatus, Ringing, Rings
<1>12. \A k \in CallIds : ~Rings(d, k)'
  BY <1>4 DEF Rings
<1>13. RungOnce(d)' /\ KeptOnTheWay(d)' /\ RingingIsOpen(d)'
  BY <1>0, <1>1, <1>8, <1>12
  DEF PhoneInv, RungOnce, KeptOnTheWay, RingingIsOpen, Declined, InHand, Incoming
<1>14. ASSUME NEW k \in CallIds, k # c, Answering(d, k)'
       PROVE  Answering(d, k)
  <2>1. Packet(k, "accept", route[k][1]) # p
    BY <1>3, <1>14 DEF Packet
  <2> QED
    BY <1>1, <1>6, <1>14, <2>1 DEF Answering, Incoming, Declined
\* The answer to the call that rang.
<1>15. ASSUME ~Declined(c)
       PROVE  /\ history[d][c] = "none" /\ saved'[d][c] = "connecting"
              /\ InHand(d, c) => hand[d].phase = "done"
              /\ Packet(c, "invite", d) \in applied \/ (InHand(d, c) /\ hand[d].phase = "done")
              /\ Packet(c, "invite", d) \in applied \/ c \notin tombs[d]
  <2>1. history[d][c] = "none"
    BY <1>0, <1>2, <1>15 DEF PhoneInv, RingingIsOpen
  <2>2. /\ InHand(d, c) => hand[d].phase = "done"
        /\ Packet(c, "invite", d) \in applied \/ (InHand(d, c) /\ hand[d].phase = "done")
        /\ Packet(c, "invite", d) \in applied \/ c \notin tombs[d]
    BY <1>0, <1>2 DEF PhoneInv, RungOnce
  <2>3. saved[d][c] # "none"
    BY <1>0, <1>2, <2>1, <2>2 DEF PhoneInv, KeptOnTheWay
  <2> QED
    BY <1>2, <1>8, <2>1, <2>2, <2>3
<1>16. AnswersAreKept(d)'
  <2> SUFFICES ASSUME NEW k \in CallIds
               PROVE  /\ Incoming(d, k)' /\ On(d, k)' /\ value'[d].status # "incoming" =>
                             Packet(k, "accept", route'[k][1]) \in mail' \cup sends'[d]
                      /\ Answering(d, k)' =>
                           /\ history'[d][k] \notin {"missed", "declined"}
                           /\ ~Rings(d, k)'
                           /\ history'[d][k] # "none" \/ saved'[d][k] \in {"connecting", "active"}
                           /\ InHand(d, k)' => hand'[d].phase = "done"
                                   \/ (hand'[d].phase = "screen" /\ hand'[d].completed)
                           /\ \/ Packet(k, "invite", d) \in applied'
                              \/ InHand(d, k)' /\ hand'[d].phase = "done"
                              \/ history'[d][k] # "none"
                              \/ d \in restarting' /\ value'[d].call # k
                           /\ \/ Packet(k, "invite", d) \in applied'
                              \/ history'[d][k] # "none" \/ k \notin tombs'[d]
    BY DEF AnswersAreKept
  <2>1. On(d, k)' => k = c
    BY <1>4 DEF On
  <2>2. Packet(c, "accept", route'[c][1]) \in sends'[d]
    BY <1>1, <1>5, <1>6
  <2>3. InHand(d, k)' <=> InHand(d, k)
    BY <1>1 DEF InHand
  <2>4. CASE k # c
    BY <1>0, <1>1, <1>4, <1>8, <1>12, <1>14, <2>1, <2>3, <2>4, <1>00
    DEF PhoneInv, AnswersAreKept
  <2>5. CASE k = c
    <3>1. Answering(d, c)' => ~Declined(c)
      BY <1>1 DEF Answering, Declined
    <3> QED
      BY <1>1, <1>12, <1>15, <2>2, <2>3, <2>5, <3>1
  <2> QED
    BY <2>4, <2>5
<1> QED
  BY <1>1, <1>9, <1>10, <1>11, <1>13, <1>16, CallFrame DEF PhoneInv

LEMMA EnqueuedKeepsInv ==
  ASSUME CallInv, NEW d \in Phones, NEW p \in sends[d], Enqueued(d, p)
  PROVE  CallInv'
<1>0. CallTypeOK /\ PhoneInv(d) /\ p \in Packets
  BY DEF CallInv, CallTypeOK
<1>1. /\ sends' = [sends EXCEPT ![d] = @ \ {p}] /\ mail' = mail \cup {p}
      /\ UNCHANGED <<route, value, capturing, tracks, books, applied, old, hand, saved, tombs,
                     history, restarting, troubles>>
  BY DEF Enqueued
<1>2. /\ sends' \in [Phones -> SUBSET Packets] /\ sends'[d] = sends[d] \ {p}
      /\ \A x \in Phones \ {d} : sends'[x] = sends[x]
  BY <1>0, <1>1 DEF CallTypeOK
<1>3. CallTypeOK' /\ \A x \in Phones \ {d} : Same(x)
  BY <1>0, <1>1, <1>2 DEF CallTypeOK, Same
<1>4. Named(p) /\ (p.act = "accept" => Incoming(d, p.call))
  BY <1>0 DEF PhoneInv, Spoken
<1>5. mail' \cup sends'[d] = mail \cup sends[d]
  BY <1>1, <1>2
<1>6. \A k \in CallIds : /\ Declined(k) => Declined(k)'
                         /\ Answering(d, k)' => Answering(d, k)
  BY <1>1, <1>5 DEF Declined, Answering, Incoming
<1>7. Spoken(d)' /\ Shown(d)'
  BY <1>0, <1>1, <1>2 DEF PhoneInv, Spoken, Shown, Named, Incoming, On, InCall
<1>8. RungOnce(d)' /\ KeptOnTheWay(d)' /\ RingingIsOpen(d)'
  BY <1>0, <1>1, <1>6
  DEF PhoneInv, RungOnce, KeptOnTheWay, RingingIsOpen, InHand, Rings, Incoming
<1>9. AnswersAreKept(d)'
  BY <1>0, <1>1, <1>5, <1>6 DEF PhoneInv, AnswersAreKept, InHand, Rings, Incoming, On, InCall
<1> QED
  BY <1>1, <1>3, <1>4, <1>7, <1>8, <1>9, CallFrame DEF PhoneInv

LEMMA NotEnqueuedKeepsInv ==
  ASSUME CallInv, NEW d \in Phones, NEW p \in sends[d], NotEnqueued(d, p)
  PROVE  CallInv'
<1>0. CallTypeOK /\ PhoneInv(d) /\ p \in Packets
  BY DEF CallInv, CallTypeOK
<1>1. /\ troubles' \in 0 .. MaxTroubles
      /\ UNCHANGED <<route, capturing, books, mail, applied, old, hand, tombs, restarting>>
  BY <1>0, CallsAssumption DEF NotEnqueued, stores, CallTypeOK
<1>2. CASE p.act \in {"invite", "accept"} /\ On(d, p.call)
  <2>1. PICK c \in CallIds : c = p.call /\ c = value[d].call /\ InCall(d)
    BY <1>0, <1>2 DEF On, Packets
  <2>2. PICK q : q = Packet(c, "end", p.to)
    OBVIOUS
  <2>3. q \in Packets /\ q.call = c /\ q.act = "end"
    BY <1>0, <2>2, PacketsAre DEF Packets
  <2>4. /\ value' = [value EXCEPT ![d].status = "failed"]
        /\ tracks' = [tracks EXCEPT ![d] = @ \ {c}]
        /\ sends' = [sends EXCEPT ![d] = (@ \ {p}) \cup {q}]
        /\ RecordCall(d, c, Outcome(value[d].status, TRUE, "local"))
    BY <1>2, <2>1, <2>2 DEF NotEnqueued
  <2>5. /\ value' \in [Phones -> [call: CallIds \cup {NoCall},
                                  status: LiveStatus \cup {"none", "ended", "failed"}]]
        /\ \A x \in Phones \ {d} : value'[x] = value[x]
        /\ value'[d].call = c /\ value'[d].status = "failed"
    BY <1>0, <2>1, <2>4, StatusEffect
  <2>6. /\ tracks' \in [Phones -> SUBSET CallIds] /\ tracks'[d] = tracks[d] \ {c}
        /\ \A x \in Phones \ {d} : tracks'[x] = tracks[x]
    BY <1>0, <2>4 DEF CallTypeOK
  <2>7. /\ sends' \in [Phones -> SUBSET Packets] /\ sends'[d] = (sends[d] \ {p}) \cup {q}
        /\ \A x \in Phones \ {d} : sends'[x] = sends[x]
    BY <1>0, <2>3, <2>4 DEF CallTypeOK
  <2>8. Recorded(d, c, Outcome(value[d].status, TRUE, "local"))
    BY <1>0, <2>1, <2>4, OutcomesAre, RecordEffect DEF InCall
  <2>9. ClosedCall(d, TRUE, "local", FALSE, q)
    BY <1>1, <2>1, <2>5, <2>6, <2>7, <2>8 DEF ClosedCall
  <2>10. PhoneInv(d)'
    BY <1>1, <2>1, <2>3, <2>9, EndingKeepsPhone
  <2>11. CallTypeOK' /\ \A x \in Phones \ {d} : Same(x)
    BY <1>0, <1>1, <2>5, <2>6, <2>7, <2>8 DEF CallTypeOK, Same, Recorded
  <2> QED
    BY <1>1, <2>10, <2>11, CallFrame
<1>3. CASE ~(p.act \in {"invite", "accept"} /\ On(d, p.call))
  <2>1. sends' = [sends EXCEPT ![d] = @ \ {p}] /\ UNCHANGED <<value, tracks, saved, history>>
    BY <1>3 DEF NotEnqueued, records
  <2>2. /\ sends' \in [Phones -> SUBSET Packets] /\ sends'[d] = sends[d] \ {p}
        /\ \A x \in Phones \ {d} : sends'[x] = sends[x]
    BY <1>0, <2>1 DEF CallTypeOK
  <2>3. CallTypeOK' /\ \A x \in Phones \ {d} : Same(x)
    BY <1>0, <1>1, <2>1, <2>2 DEF CallTypeOK, Same
  <2>4. \A k \in CallIds : Answering(d, k)' => Answering(d, k)
    BY <1>1, <2>2 DEF Answering, Incoming, Declined
  <2>5. Spoken(d)' /\ Shown(d)'
    BY <1>0, <1>1, <2>1, <2>2 DEF PhoneInv, Spoken, Shown, Named, Incoming, On, InCall
  <2>6. RungOnce(d)' /\ KeptOnTheWay(d)' /\ RingingIsOpen(d)'
    BY <1>0, <1>1, <2>1
    DEF PhoneInv, RungOnce, KeptOnTheWay, RingingIsOpen, InHand, Rings, Incoming, Declined
  <2>7. \A k \in CallIds : On(d, k) => Packet(k, "accept", route[k][1]) # p
    BY <1>3 DEF Packet
  <2>8. AnswersAreKept(d)'
    BY <1>0, <1>1, <2>1, <2>2, <2>4, <2>7
    DEF PhoneInv, AnswersAreKept, InHand, Rings, Incoming, On, InCall
  <2> QED
    BY <1>1, <2>3, <2>5, <2>6, <2>8, CallFrame DEF PhoneInv
<1> QED
  BY <1>2, <1>3

LEMMA RetryEndKeepsInv ==
  ASSUME CallInv, NEW d \in Phones, NEW b \in books[d], RetryEnd(d, b)
  PROVE  CallInv'
<1>0. CallTypeOK /\ PhoneInv(d) /\ b.after \in Packets
  BY DEF CallInv, CallTypeOK
<1>1. /\ sends' = [sends EXCEPT ![d] = @ \cup {b.after}]
      /\ UNCHANGED <<route, value, capturing, tracks, books, mail, applied, old, hand, saved, tombs,
                     history, restarting, troubles>>
  BY DEF RetryEnd, stores, records
<1>2. /\ sends' \in [Phones -> SUBSET Packets] /\ sends'[d] = sends[d] \cup {b.after}
      /\ \A x \in Phones \ {d} : sends'[x] = sends[x]
  BY <1>0, <1>1 DEF CallTypeOK
<1>3. CallTypeOK' /\ \A x \in Phones \ {d} : Same(x)
  BY <1>0, <1>1, <1>2 DEF CallTypeOK, Same
<1>4. Named(b.after) /\ b.after.act \notin {"invite", "accept"}
  BY <1>0 DEF PhoneInv, Spoken
<1>5. \A k \in CallIds : Packet(k, "accept", route[k][1]) # b.after
  BY <1>4 DEF Packet
<1>6. \A k \in CallIds : Answering(d, k)' => Answering(d, k)
  BY <1>1, <1>2, <1>5 DEF Answering, Incoming, Declined
<1>7. Spoken(d)' /\ Shown(d)'
  BY <1>0, <1>1, <1>2, <1>4 DEF PhoneInv, Spoken, Shown, Named, Incoming, On, InCall
<1>8. RungOnce(d)' /\ KeptOnTheWay(d)' /\ RingingIsOpen(d)'
  BY <1>0, <1>1
  DEF PhoneInv, RungOnce, KeptOnTheWay, RingingIsOpen, InHand, Rings, Incoming, Declined
<1>9. AnswersAreKept(d)'
  BY <1>0, <1>1, <1>2, <1>6 DEF PhoneInv, AnswersAreKept, InHand, Rings, Incoming, On, InCall
<1> QED
  BY <1>1, <1>3, <1>7, <1>8, <1>9, CallFrame DEF PhoneInv

LEMMA RecordKeepsInv ==
  ASSUME CallInv, NEW d \in Phones, NEW b \in books[d], Record(d, b)
  PROVE  CallInv'
<1>0. CallTypeOK /\ PhoneInv(d) /\ b.after \in Packets /\ b.outcome \in Outcomes
  BY DEF CallInv, CallTypeOK
<1>00. PICK c \in CallIds : c = b.after.call
  BY <1>0 DEF Packets
<1>1. /\ b.after \in mail
      /\ books' = [books EXCEPT ![d] = @ \ {b}]
      /\ RecordCall(d, c, b.outcome)
      /\ UNCHANGED <<route, value, capturing, tracks, sends, mail, applied, old, hand, tombs,
                     restarting, troubles>>
  BY <1>00 DEF Record, stores
<1>2. Recorded(d, c, b.outcome)
  BY <1>0, <1>1, RecordEffect
<1>3. /\ books' \in [Phones -> SUBSET [outcome: Outcomes, after: Packets]]
      /\ books'[d] \subseteq books[d]
      /\ \A x \in Phones \ {d} : books'[x] = books[x]
  BY <1>0, <1>1 DEF CallTypeOK
<1>4. CallTypeOK' /\ \A x \in Phones \ {d} : Same(x)
  BY <1>0, <1>1, <1>2, <1>3 DEF CallTypeOK, Same, Recorded
<1>5. \A k \in CallIds : Answering(d, k)' => Answering(d, k)
  BY <1>1, <1>3 DEF Answering, Incoming, Declined
<1>6. Incoming(d, c) /\ ~Declined(c) => Answering(d, c) /\ b.outcome \notin {"missed", "declined"}
  <2>1. ASSUME Incoming(d, c), ~Declined(c)
        PROVE  Answering(d, c) /\ b.outcome \notin {"missed", "declined"}
    <3>1. b.after = Packet(c, b.after.act, b.after.to)
      BY <1>0, <1>00, PacketsAre
    <3>2. /\ b.after.act \in {"end", "decline"}
          /\ b.after.act = "decline" => b.after.to = route[c][1]
          /\ b.after.act = "end" => b.outcome \notin {"missed", "declined"} /\ b.after.to = route[c][1]
      BY <1>0, <1>00, <2>1 DEF PhoneInv, Spoken, Named
    <3>3. b.after.act = "end"
      BY <1>1, <2>1, <3>1, <3>2 DEF Declined
    <3> QED
      BY <2>1, <3>1, <3>2, <3>3 DEF Answering
  <2> QED
    BY <2>1
<1>7. \A k \in CallIds :
        /\ history[d][k] # "none" => history'[d][k] = history[d][k]
        /\ saved'[d][k] = saved[d][k] \/ (saved'[d][k] = "none" /\ history'[d][k] # "none")
        /\ history'[d][k] = history[d][k] \/ (k = c /\ history'[d][k] = b.outcome)
  BY <1>0, <1>2 DEF Recorded, Outcomes
<1>8. Spoken(d)' /\ Shown(d)'
  BY <1>0, <1>1, <1>3, <1>7 DEF PhoneInv, Spoken, Shown, Named, Incoming, On, InCall
<1>9. RungOnce(d)'
  BY <1>0, <1>1 DEF PhoneInv, RungOnce, InHand, Rings
<1>10. KeptOnTheWay(d)'
  <2>1. hand[d].phase # "none" => hand[d].packet.call \in CallIds
    BY <1>0, HandIs DEF Packets
  <2> QED
    BY <1>0, <1>1, <1>7, <2>1 DEF PhoneInv, KeptOnTheWay, InHand
<1>11. RingingIsOpen(d)'
  <2>1. ASSUME NEW k \in CallIds, Incoming(d, k), ~Declined(k)
        PROVE  /\ InHand(d, k) /\ hand[d].phase = "screen" /\ ~hand[d].completed =>
                      history'[d][k] = "none" \/ k \in tombs[d]
               /\ InHand(d, k) /\ hand[d].phase \in {"save", "pass"} => history'[d][k] = "none"
               /\ Rings(d, k) => history'[d][k] = "none"
    <3>1. CASE k = c
      BY <1>0, <1>6, <2>1, <3>1 DEF PhoneInv, AnswersAreKept
    <3>2. CASE k # c
      BY <1>0, <1>7, <2>1, <3>2 DEF PhoneInv, RingingIsOpen
    <3> QED
      BY <3>1, <3>2
  <2> QED
    BY <1>1, <2>1 DEF RingingIsOpen, Incoming, Declined, InHand, Rings
<1>12. AnswersAreKept(d)'
  <2>1. ASSUME NEW k \in CallIds, Answering(d, k)'
        PROVE  history'[d][k] \notin {"missed", "declined"}
    <3>1. Answering(d, k)
      BY <1>5, <2>1
    <3>2. k = c => b.outcome \notin {"missed", "declined"}
      BY <1>6, <3>1 DEF Answering
    <3> QED
      BY <1>0, <1>7, <3>1, <3>2 DEF PhoneInv, AnswersAreKept
  <2> QED
    BY <1>0, <1>1, <1>5, <1>7, <2>1
    DEF PhoneInv, AnswersAreKept, InHand, Rings, Incoming, On, InCall
<1> QED
  BY <1>1, <1>4, <1>8, <1>9, <1>10, <1>11, <1>12, CallFrame DEF PhoneInv

LEMMA ConnectKeepsInv == ASSUME CallInv, NEW d \in Phones, Connect(d) PROVE CallInv'
<1>0. CallTypeOK /\ PhoneInv(d)
  BY DEF CallInv
<1>00. PICK c \in CallIds : c = value[d].call
  BY <1>0 DEF Connect, PhoneInv, Shown, InCall, LiveStatus
<1>1. /\ value[d].status = "connecting" /\ InCall(d)
      /\ value' = [value EXCEPT ![d].status = "active"]
      /\ saved' = [saved EXCEPT ![d][c] = IF @ # "none" /\ Incoming(d, c) THEN "active" ELSE @]
      /\ UNCHANGED <<route, capturing, tracks, sends, books, mail, applied, old, hand, tombs,
                     restarting, history, troubles>>
  BY <1>00 DEF Connect, Tracked, stores, InCall, LiveStatus
<1>2. /\ value' \in [Phones -> [call: CallIds \cup {NoCall},
                                status: LiveStatus \cup {"none", "ended", "failed"}]]
      /\ \A x \in Phones \ {d} : value'[x] = value[x]
      /\ value'[d].call = c /\ value'[d].status = "active"
  BY <1>0, <1>00, <1>1, StatusEffect DEF LiveStatus
<1>3. /\ saved' \in [Phones -> [CallIds -> {"none", "incoming", "connecting", "active"}]]
      /\ \A x \in Phones \ {d} : saved'[x] = saved[x]
      /\ \A k \in CallIds : saved'[d][k] = saved[d][k] \/ (saved[d][k] # "none" /\ saved'[d][k] = "active")
  <2> DEFINE new == IF saved[d][c] # "none" /\ Incoming(d, c) THEN "active" ELSE saved[d][c]
  <2>1. saved' = [saved EXCEPT ![d] = [saved[d] EXCEPT ![c] = new]]
    BY <1>1
  <2>2. saved[d] \in [CallIds -> {"none", "incoming", "connecting", "active"}]
    BY <1>0 DEF CallTypeOK
  <2>3. new \in {"none", "incoming", "connecting", "active"}
    BY <2>2
  <2>4. new = saved[d][c] \/ (saved[d][c] # "none" /\ new = "active")
    OBVIOUS
  <2> HIDE DEF new
  <2> QED
    BY <1>0, <2>1, <2>2, <2>3, <2>4 DEF CallTypeOK
<1>4. CallTypeOK' /\ \A x \in Phones \ {d} : Same(x)
  BY <1>0, <1>1, <1>2, <1>3 DEF CallTypeOK, Same
<1>5. \A k \in CallIds : /\ ~Rings(d, k)' /\ ~Rings(d, k)
                         /\ On(d, k)' => On(d, k)
                         /\ Answering(d, k)' => Answering(d, k)
  BY <1>00, <1>1, <1>2 DEF Rings, On, Answering, Incoming, Declined
<1>6. Spoken(d)'
  BY <1>0, <1>1, <1>3 DEF PhoneInv, Spoken, Named, Incoming
<1>7. Shown(d)'
  BY <1>0, <1>00, <1>1, <1>2 DEF PhoneInv, Shown, On, InCall, Incoming, LiveStatus, Ringing
<1>8. RungOnce(d)' /\ KeptOnTheWay(d)' /\ RingingIsOpen(d)'
  BY <1>0, <1>1, <1>3, <1>5
  DEF PhoneInv, RungOnce, KeptOnTheWay, RingingIsOpen, InHand, Incoming, Declined
<1>9. AnswersAreKept(d)'
  BY <1>0, <1>00, <1>1, <1>2, <1>3, <1>5 DEF PhoneInv, AnswersAreKept, InHand, Incoming
<1> QED
  BY <1>1, <1>4, <1>6, <1>7, <1>8, <1>9, CallFrame DEF PhoneInv

LEMMA AgeKeepsInv == ASSUME CallInv, NEW p \in mail, Age(p) PROVE CallInv'
<1>1. /\ old' = old \cup {p}
      /\ UNCHANGED <<route, value, capturing, tracks, sends, books, mail, applied, hand, saved,
                     tombs, history, restarting, troubles>>
  BY DEF Age
<1>2. CallTypeOK'
  BY <1>1 DEF CallInv, CallTypeOK
<1>3. \A x \in Phones : Same(x)
  BY <1>1 DEF Same
<1>4. \A x \in Phones : PhoneInv(x)'
  BY <1>1, <1>3, CallBystander DEF CallInv
<1> QED
  BY <1>1, <1>2, <1>4 DEF CallInv, Named

LEMMA OtherEndsKeepsInv ==
  ASSUME CallInv, NEW d \in Phones, NEW c \in Placed, OtherEnds(d, c)
  PROVE  CallInv'
<1>1. /\ mail' = mail \cup {Packet(c, "end", d)} /\ c \in CallIds /\ route[c] # <<>>
      /\ UNCHANGED <<route, value, capturing, tracks, sends, books, applied, old, hand, saved, tombs,
                     history, restarting, troubles>>
  BY DEF OtherEnds, Placed
<1>2. Packet(c, "end", d) \in Packets /\ Packet(c, "end", d).act = "end" /\ Named(Packet(c, "end", d))
  BY <1>1, PacketsAre DEF Named
<1>3. CallTypeOK'
  BY <1>1, <1>2 DEF CallInv, CallTypeOK
<1>4. \A x \in Phones : Same(x)
  BY <1>1 DEF Same
<1>5. PhoneInv(d)'
  BY <1>1, <1>4, CallBystander DEF CallInv, Packet
<1> QED
  BY <1>1, <1>2, <1>3, <1>4, <1>5, CallFrame

LEMMA ProjectKeepsInv ==
  ASSUME CallInv, NEW d \in Phones, NEW p \in mail, ProjectPacket(d, p)
  PROVE  CallInv'
<1>0. CallTypeOK /\ PhoneInv(d) /\ p \in Packets
  BY DEF CallInv, CallTypeOK
<1>1. /\ hand[d] = NoHand /\ d \notin restarting /\ p \notin applied /\ p.to = d
      /\ hand' = [hand EXCEPT ![d] = [packet |-> p, phase |-> "screen",
                                      completed |-> history[d][p.call] # "none"]]
      /\ UNCHANGED <<route, value, capturing, tracks, sends, books, mail, applied, old, saved, tombs,
                     history, restarting, troubles>>
  BY DEF ProjectPacket, project, local
<1>2. /\ hand' \in [Phones -> HandTypes] /\ \A x \in Phones \ {d} : hand'[x] = hand[x]
      /\ hand'[d].packet = p /\ hand'[d].phase = "screen"
      /\ hand'[d].completed <=> history[d][p.call] # "none"
  BY <1>0, <1>1 DEF CallTypeOK, HandTypes
<1>3. CallTypeOK' /\ \A x \in Phones \ {d} : Same(x)
  BY <1>0, <1>1, <1>2 DEF CallTypeOK, Same, HandTypes
<1>4. hand[d].phase = "none" /\ \A k \in CallIds : ~InHand(d, k)
  BY <1>1 DEF NoHand, InHand
<1>5. \A k \in CallIds : InHand(d, k)' => p = Packet(k, "invite", d)
  BY <1>0, <1>1, <1>2, PacketsAre DEF InHand
<1>6. Spoken(d)' /\ Shown(d)'
  BY <1>0, <1>1, <1>2 DEF PhoneInv, Spoken, Shown, Named, Incoming, On, InCall
<1>7. RungOnce(d)'
  BY <1>0, <1>1, <1>2, <1>4, <1>5 DEF PhoneInv, RungOnce, Rings
<1>8. KeptOnTheWay(d)'
  BY <1>0, <1>1, <1>2, <1>4, <1>5 DEF PhoneInv, KeptOnTheWay
<1>9. \A k \in CallIds : Answering(d, k)' => Answering(d, k)
  BY <1>1 DEF Answering, Incoming, Declined
<1>10. RingingIsOpen(d)'
  BY <1>0, <1>1, <1>2, <1>4 DEF PhoneInv, RingingIsOpen, Rings, Incoming, Declined, InHand
<1>11. AnswersAreKept(d)'
  <2>1. ASSUME NEW k \in CallIds, Answering(d, k), InHand(d, k)'
        PROVE  hand'[d].completed
    <3>1. history[d][k] # "none"
      BY <1>0, <1>1, <1>4, <1>5, <2>1 DEF PhoneInv, AnswersAreKept
    <3> QED
      BY <1>2, <2>1, <3>1 DEF InHand
  <2> QED
    BY <1>0, <1>1, <1>2, <1>4, <1>9, <2>1 DEF PhoneInv, AnswersAreKept, Rings, Incoming, On, InCall
<1> QED
  BY <1>1, <1>3, <1>6, <1>7, <1>8, <1>10, <1>11, CallFrame DEF PhoneInv

LEMMA ScreenKeepsInv == ASSUME CallInv, NEW d \in Phones, Screen(d) PROVE CallInv'
<1>0. CallTypeOK /\ PhoneInv(d)
  BY DEF CallInv
<1>00. PICK p \in Packets : p = hand[d].packet
  BY <1>0, HandIs DEF Screen
<1>1. /\ hand[d].phase = "screen"
      /\ tombs' = [tombs EXCEPT ![d] = IF Buries(p) THEN @ \cup {p.call} ELSE @]
      /\ hand' = [hand EXCEPT ![d].phase =
             IF p.act = "invite"
             THEN IF ~Refused(d, p) THEN "save" ELSE IF hand[d].completed THEN "done" ELSE "missed"
             ELSE IF p.act = "accept" /\ Refused(d, p) THEN "done" ELSE "pass"]
      /\ UNCHANGED <<route, value, capturing, tracks, sends, books, mail, applied, old, saved,
                     history, restarting, troubles>>
  BY <1>00 DEF Screen, project, local
<1>2. PICK ph \in {"screen", "missed", "save", "pass", "done"} :
         /\ ph = IF p.act = "invite"
             THEN IF ~Refused(d, p) THEN "save" ELSE IF hand[d].completed THEN "done" ELSE "missed"
             ELSE IF p.act = "accept" /\ Refused(d, p) THEN "done" ELSE "pass"
         /\ ph # "screen"
  OBVIOUS
<1>3. hand' = [hand EXCEPT ![d].phase = ph]
  BY <1>1, <1>2
<1>4. /\ hand' \in [Phones -> HandTypes] /\ \A x \in Phones \ {d} : hand'[x] = hand[x]
      /\ hand'[d].phase = ph /\ hand'[d].packet = p
      /\ hand'[d].completed = hand[d].completed
  BY <1>0, <1>00, <1>1, <1>2, <1>3, GotoEffect
<1>5. /\ tombs' \in [Phones -> SUBSET CallIds] /\ \A x \in Phones \ {d} : tombs'[x] = tombs[x]
      /\ tombs'[d] = IF Buries(p) THEN tombs[d] \cup {p.call} ELSE tombs[d]
  BY <1>0, <1>1 DEF CallTypeOK, Packets
<1>6. CallTypeOK' /\ \A x \in Phones \ {d} : Same(x)
  BY <1>0, <1>1, <1>4, <1>5 DEF CallTypeOK, Same, HandTypes
<1>7. \A k \in CallIds : /\ InHand(d, k)' <=> InHand(d, k)
                         /\ InHand(d, k) <=> p.act = "invite" /\ p.call = k
                         /\ Rings(d, k)' <=> Rings(d, k)
                         /\ Answering(d, k)' => Answering(d, k)
  BY <1>00, <1>1, <1>4 DEF InHand, Rings, Answering, Incoming, Declined
\* What the projection of an invite finds.
<1>8. p.act = "invite" =>
        /\ ph = "save" => p.call \notin tombs[d] /\ tombs'[d] = tombs[d] /\ ~hand[d].completed
        /\ ph = "done" <=> hand[d].completed
        /\ ph # "pass"
  BY <1>2, <1>5 DEF Refused, Buries
<1>9. p.act # "invite" => ph \notin {"save", "missed"}
  BY <1>2
<1>10. Spoken(d)' /\ Shown(d)'
  BY <1>0, <1>00, <1>1, <1>4, <1>9 DEF PhoneInv, Spoken, Shown, Named, Incoming, On, InCall
<1>11. RungOnce(d)'
  <2>1. ASSUME NEW k \in CallIds, Rings(d, k), k \in tombs'[d]
        PROVE  ph = "pass" /\ p.call = k /\ p.act \in {"end", "decline"}
    <3>1. k \notin tombs[d]
      BY <1>0, <1>1, <2>1 DEF PhoneInv, RungOnce
    <3>2. p.call = k /\ Buries(p)
      BY <1>5, <2>1, <3>1
    <3>3. ~InHand(d, k)
      BY <1>0, <1>1, <2>1 DEF PhoneInv, RungOnce
    <3>4. p.act \in {"end", "decline"}
      BY <1>7, <3>2, <3>3 DEF Buries
    <3> QED
      BY <1>2, <3>2, <3>4
  <2>2. \A k \in CallIds : Rings(d, k) => Packet(k, "invite", d) \in applied /\ ~InHand(d, k)
    BY <1>0, <1>1 DEF PhoneInv, RungOnce
  <2>3. \A k \in CallIds : InHand(d, k) /\ ph \in {"save", "pass"} => k \notin tombs'[d]
    BY <1>7, <1>8
  <2>4. d \in restarting => p.act = "invite"
    BY <1>0, <1>00, <1>1 DEF PhoneInv, RungOnce
  <2> QED
    BY <1>1, <1>4, <1>7, <2>1, <2>2, <2>3, <2>4 DEF RungOnce
<1>12. KeptOnTheWay(d)'
  <2>1. hand[d].completed => history[d][p.call] # "none"
    BY <1>0, <1>00, <1>1 DEF PhoneInv, KeptOnTheWay
  <2> QED
    BY <1>0, <1>1, <1>4, <1>7, <1>8, <2>1 DEF PhoneInv, KeptOnTheWay
<1>13. RingingIsOpen(d)'
  BY <1>0, <1>1, <1>2, <1>4, <1>7, <1>8 DEF PhoneInv, RingingIsOpen, Incoming, Declined
<1>14. AnswersAreKept(d)'
  <2>1. ASSUME NEW k \in CallIds, Answering(d, k)
        PROVE  /\ InHand(d, k) => ph = "done"
               /\ \/ Packet(k, "invite", d) \in applied
                  \/ history[d][k] # "none"
                  \/ d \in restarting /\ value[d].call # k
               /\ Packet(k, "invite", d) \in applied \/ history[d][k] # "none" \/ k \notin tombs'[d]
    <3>1. /\ InHand(d, k) => hand[d].completed
          /\ \/ Packet(k, "invite", d) \in applied
             \/ history[d][k] # "none"
             \/ d \in restarting /\ value[d].call # k
          /\ Packet(k, "invite", d) \in applied \/ history[d][k] # "none" \/ k \notin tombs[d]
      BY <1>0, <1>1, <2>1 DEF PhoneInv, AnswersAreKept
    <3>2. InHand(d, k) => history[d][k] # "none"
      BY <1>0, <1>00, <1>1, <1>7, <3>1 DEF PhoneInv, KeptOnTheWay
    <3>3. d \in restarting => p.act = "invite"
      BY <1>0, <1>00, <1>1 DEF PhoneInv, RungOnce
    <3> QED
      BY <1>5, <1>7, <1>8, <3>1, <3>2, <3>3
  <2> QED
    BY <1>0, <1>1, <1>4, <1>7, <2>1 DEF PhoneInv, AnswersAreKept, Incoming, On, InCall
<1> QED
  BY <1>1, <1>6, <1>10, <1>11, <1>12, <1>13, <1>14, CallFrame DEF PhoneInv

LEMMA MissKeepsInv == ASSUME CallInv, NEW d \in Phones, Miss(d) PROVE CallInv'
<1>0. CallTypeOK /\ PhoneInv(d)
  BY DEF CallInv
<1>00. PICK c \in CallIds : c = hand[d].packet.call
  BY <1>0, HandIs DEF Miss, Packets
<1>1. /\ hand[d].phase = "missed"
      /\ RecordCall(d, c, "missed")
      /\ hand' = [hand EXCEPT ![d].phase = "done"]
      /\ UNCHANGED <<route, value, capturing, tracks, sends, books, mail, applied, old, tombs,
                     restarting, troubles>>
  BY <1>00 DEF Miss, project, local
<1>2. /\ hand' \in [Phones -> HandTypes] /\ \A x \in Phones \ {d} : hand'[x] = hand[x]
      /\ hand'[d].phase = "done" /\ hand'[d].packet = hand[d].packet
      /\ hand'[d].completed = hand[d].completed
  BY <1>0, <1>1, GotoEffect
<1>3. Recorded(d, c, "missed")
  BY <1>0, <1>1, RecordEffect DEF Outcomes
<1>4. CallTypeOK' /\ \A x \in Phones \ {d} : Same(x)
  BY <1>0, <1>1, <1>2, <1>3 DEF CallTypeOK, Same, HandTypes, Recorded
<1>5. \A k \in CallIds :
        /\ InHand(d, k)' <=> InHand(d, k)
        /\ InHand(d, k) <=> k = c
        /\ Rings(d, k)' <=> Rings(d, k)
        /\ Answering(d, k)' => Answering(d, k)
  BY <1>0, <1>00, <1>1, <1>2 DEF InHand, Rings, Answering, Incoming, Declined, PhoneInv, Spoken
<1>6. ~Rings(d, c) /\ ~Answering(d, c)
  BY <1>0, <1>1, <1>5 DEF PhoneInv, RungOnce, AnswersAreKept
<1>7. /\ history'[d][c] # "none"
      /\ \A k \in CallIds \ {c} : history'[d][k] = history[d][k] /\ saved'[d][k] = saved[d][k]
      /\ \A k \in CallIds : saved'[d][k] # "none" => saved[d][k] # "none"
  BY <1>3 DEF Recorded
<1>8. Spoken(d)' /\ Shown(d)'
  BY <1>0, <1>1, <1>2, <1>7 DEF PhoneInv, Spoken, Shown, Named, Incoming, On, InCall
<1>9. RungOnce(d)'
  BY <1>0, <1>1, <1>2, <1>5, <1>6 DEF PhoneInv, RungOnce
<1>10. KeptOnTheWay(d)'
  BY <1>0, <1>00, <1>1, <1>2, <1>5, <1>7 DEF PhoneInv, KeptOnTheWay
<1>11. RingingIsOpen(d)'
  BY <1>0, <1>1, <1>2, <1>5, <1>6, <1>7 DEF PhoneInv, RingingIsOpen, Incoming, Declined
<1>12. AnswersAreKept(d)'
  BY <1>0, <1>1, <1>2, <1>5, <1>6, <1>7 DEF PhoneInv, AnswersAreKept, Incoming, On, InCall
<1> QED
  BY <1>1, <1>4, <1>8, <1>9, <1>10, <1>11, <1>12, CallFrame DEF PhoneInv

LEMMA SavedIncoming ==
  ASSUME CallTypeOK, NEW d \in Phones, NEW c \in CallIds,
         saved' = [saved EXCEPT ![d][c] = IF @ = "none" THEN "incoming" ELSE @]
  PROVE  /\ saved' \in [Phones -> [CallIds -> {"none", "incoming", "connecting", "active"}]]
         /\ \A x \in Phones \ {d} : saved'[x] = saved[x]
         /\ \A k \in CallIds : saved'[d][k] = IF k = c /\ saved[d][c] = "none" THEN "incoming" ELSE saved[d][k]
<1> DEFINE new == IF saved[d][c] = "none" THEN "incoming" ELSE saved[d][c]
<1>1. saved' = [saved EXCEPT ![d] = [saved[d] EXCEPT ![c] = new]]
  OBVIOUS
<1>2. saved[d] \in [CallIds -> {"none", "incoming", "connecting", "active"}]
  BY DEF CallTypeOK
<1>3. /\ new \in {"none", "incoming", "connecting", "active"}
      /\ saved[d][c] = "none" => new = "incoming"
      /\ saved[d][c] # "none" => new = saved[d][c]
  BY <1>2
<1> HIDE DEF new
<1> QED
  BY <1>1, <1>2, <1>3 DEF CallTypeOK

LEMMA SaveKeepsInv == ASSUME CallInv, NEW d \in Phones, Save(d) PROVE CallInv'
<1>0. CallTypeOK /\ PhoneInv(d)
  BY DEF CallInv
<1>00. PICK c \in CallIds : c = hand[d].packet.call
  BY <1>0, HandIs DEF Save, Packets
<1>1. /\ hand[d].phase = "save"
      /\ saved' = [saved EXCEPT ![d][c] = IF @ = "none" THEN "incoming" ELSE @]
      /\ hand' = [hand EXCEPT ![d].phase = "pass"]
      /\ UNCHANGED <<route, value, capturing, tracks, sends, books, mail, applied, old, tombs,
                     history, restarting, troubles>>
  BY <1>00 DEF Save, project, local
<1>2. /\ hand' \in [Phones -> HandTypes] /\ \A x \in Phones \ {d} : hand'[x] = hand[x]
      /\ hand'[d].phase = "pass" /\ hand'[d].packet = hand[d].packet
      /\ hand'[d].completed = hand[d].completed
  BY <1>0, <1>1, GotoEffect
<1>3. /\ saved' \in [Phones -> [CallIds -> {"none", "incoming", "connecting", "active"}]]
      /\ \A x \in Phones \ {d} : saved'[x] = saved[x]
      /\ \A k \in CallIds : saved'[d][k] = IF k = c /\ saved[d][c] = "none" THEN "incoming" ELSE saved[d][k]
  BY <1>0, <1>1, SavedIncoming
<1>4. CallTypeOK' /\ \A x \in Phones \ {d} : Same(x)
  BY <1>0, <1>1, <1>2, <1>3 DEF CallTypeOK, Same, HandTypes
<1>5. \A k \in CallIds :
        /\ InHand(d, k)' <=> InHand(d, k)
        /\ InHand(d, k) <=> k = c
        /\ Rings(d, k)' <=> Rings(d, k)
        /\ Answering(d, k)' => Answering(d, k)
  BY <1>0, <1>00, <1>1, <1>2 DEF InHand, Rings, Answering, Incoming, Declined, PhoneInv, Spoken
<1>6. ~Answering(d, c) /\ Packet(c, "invite", d) \in mail
  <2>1. hand[d].packet = Packet(c, "invite", d)
    BY <1>0, <1>00, <1>1, HandIs, PacketsAre DEF PhoneInv, Spoken
  <2> QED
    BY <1>0, <1>1, <1>5, <2>1 DEF PhoneInv, Spoken, AnswersAreKept
<1>7. saved'[d][c] # "none"
  BY <1>3
<1>8. Spoken(d)' /\ Shown(d)'
  BY <1>0, <1>1, <1>2, <1>3, <1>6 DEF PhoneInv, Spoken, Shown, Named, Incoming, On, InCall
<1>9. RungOnce(d)'
  BY <1>0, <1>1, <1>2, <1>5 DEF PhoneInv, RungOnce
<1>10. KeptOnTheWay(d)'
  BY <1>0, <1>00, <1>1, <1>2, <1>3, <1>5, <1>7 DEF PhoneInv, KeptOnTheWay
<1>11. RingingIsOpen(d)'
  BY <1>0, <1>1, <1>2, <1>5 DEF PhoneInv, RingingIsOpen, Incoming, Declined
<1>12. AnswersAreKept(d)'
  BY <1>0, <1>1, <1>2, <1>3, <1>5, <1>6 DEF PhoneInv, AnswersAreKept, Incoming, On, InCall
<1> QED
  BY <1>1, <1>4, <1>8, <1>9, <1>10, <1>11, <1>12, CallFrame DEF PhoneInv

LEMMA ReceiveInviteKeepsInv == ASSUME CallInv, NEW d \in Phones, ReceiveInvite(d) PROVE CallInv'
<1>0. CallTypeOK /\ PhoneInv(d)
  BY DEF CallInv
<1>00. PICK c \in CallIds : c = hand[d].packet.call
  BY <1>0, HandIs DEF ReceiveInvite, Packets
<1>1. /\ hand[d].phase = "pass" /\ hand[d].packet.act = "invite" /\ InHand(d, c)
      /\ UNCHANGED <<route, capturing, tracks, books, mail, applied, old, saved, tombs, history,
                     restarting, troubles>>
  BY <1>00 DEF ReceiveInvite, project, local, InHand
<1>2. /\ Incoming(d, c) /\ route[c] # <<>> /\ route[c][1] # d /\ Far(d, c) = route[c][1]
      /\ ~Rings(d, c) /\ ~Answering(d, c) /\ c \notin tombs[d]
      /\ saved[d][c] # "none" \/ history[d][c] # "none"
      /\ ~Declined(c) => history[d][c] = "none"
  <2>1. hand[d].packet \in mail /\ hand[d].packet.to = d
    BY <1>0, <1>1 DEF PhoneInv, Spoken
  <2>2. Incoming(d, c) /\ route[c] # <<>> /\ route[c][1] # d /\ Far(d, c) = route[c][1]
    BY <1>00, <1>1, <2>1 DEF CallInv, Named, Incoming, Far
  <2>3. ~Rings(d, c) /\ c \notin tombs[d]
    BY <1>0, <1>1 DEF PhoneInv, RungOnce
  <2>4. saved[d][c] # "none" \/ history[d][c] # "none"
    BY <1>0, <1>1 DEF PhoneInv, KeptOnTheWay
  <2>5. ~Declined(c) => history[d][c] = "none"
    BY <1>0, <1>1, <2>2 DEF PhoneInv, RingingIsOpen
  <2>6. ~Answering(d, c)
    BY <1>0, <1>1 DEF PhoneInv, AnswersAreKept
  <2> QED
    BY <2>2, <2>3, <2>4, <2>5, <2>6
\* In each of the three cases.
<1>3. ASSUME NEW ph \in {"done", "missed"}, Goto(d, ph)
      PROVE  /\ hand' \in [Phones -> HandTypes] /\ \A x \in Phones \ {d} : hand'[x] = hand[x]
             /\ hand'[d].phase = ph /\ hand'[d].packet = hand[d].packet
             /\ hand'[d].completed = hand[d].completed
             /\ \A k \in CallIds : /\ InHand(d, k)' <=> InHand(d, k)
                                   /\ InHand(d, k) <=> k = c
  <2>1. hand' = [hand EXCEPT ![d].phase = ph]
    BY <1>3 DEF Goto
  <2>2. /\ hand' \in [Phones -> HandTypes] /\ \A x \in Phones \ {d} : hand'[x] = hand[x]
        /\ hand'[d].phase = ph /\ hand'[d].packet = hand[d].packet
        /\ hand'[d].completed = hand[d].completed
    BY <1>0, <1>1, <2>1, GotoEffect
  <2> QED
    BY <1>00, <1>1, <2>2 DEF InHand
<1>4. CASE Goto(d, "done") /\ UNCHANGED <<value, sends>>
  <2>1. CallTypeOK' /\ \A x \in Phones \ {d} : Same(x)
    BY <1>0, <1>1, <1>3, <1>4 DEF CallTypeOK, Same, HandTypes
  <2>2. \A k \in CallIds : Answering(d, k)' <=> Answering(d, k)
    BY <1>1, <1>4 DEF Answering, Incoming, Declined
  <2>3. Spoken(d)' /\ Shown(d)'
    BY <1>0, <1>1, <1>3, <1>4 DEF PhoneInv, Spoken, Shown, Named, Incoming, On, InCall
  <2>4. RungOnce(d)' /\ KeptOnTheWay(d)' /\ RingingIsOpen(d)'
    BY <1>0, <1>1, <1>2, <1>3, <1>4
    DEF PhoneInv, RungOnce, KeptOnTheWay, RingingIsOpen, Rings, Incoming, Declined
  <2>5. AnswersAreKept(d)'
    BY <1>0, <1>1, <1>2, <1>3, <1>4, <2>2 DEF PhoneInv, AnswersAreKept, Rings, Incoming, On, InCall
  <2> QED
    BY <1>1, <2>1, <2>3, <2>4, <2>5, CallFrame DEF PhoneInv
<1>5. CASE /\ sends' = [sends EXCEPT ![d] = @ \cup {Packet(c, "decline", Far(d, c))}]
           /\ Goto(d, "missed") /\ UNCHANGED value
  <2>1. PICK q \in Packets : q = Packet(c, "decline", Far(d, c))
    BY <1>0, <1>2, Routed, PacketsAre
  <2>2. q.act = "decline" /\ q.call = c /\ q.to = route[c][1] /\ Named(q)
    BY <1>2, <2>1 DEF Packet, Named
  <2>3. /\ sends' \in [Phones -> SUBSET Packets] /\ sends'[d] = sends[d] \cup {q}
        /\ \A x \in Phones \ {d} : sends'[x] = sends[x]
    BY <1>0, <1>5, <2>1 DEF CallTypeOK
  <2>4. CallTypeOK' /\ \A x \in Phones \ {d} : Same(x)
    BY <1>0, <1>1, <1>3, <1>5, <2>3 DEF CallTypeOK, Same, HandTypes
  <2>5. \A k \in CallIds : Answering(d, k)' => Answering(d, k)
    <3>1. \A k \in CallIds : Packet(k, "accept", route[k][1]) # q
      BY <2>2 DEF Packet
    <3> QED
      BY <1>1, <2>3, <3>1 DEF Answering, Incoming, Declined
  <2>6. Spoken(d)' /\ Shown(d)'
    BY <1>0, <1>1, <1>3, <1>5, <2>2, <2>3 DEF PhoneInv, Spoken, Shown, Named, Incoming, On, InCall
  <2>7. RungOnce(d)' /\ KeptOnTheWay(d)' /\ RingingIsOpen(d)'
    BY <1>0, <1>1, <1>2, <1>3, <1>5
    DEF PhoneInv, RungOnce, KeptOnTheWay, RingingIsOpen, Rings, Incoming, Declined
  <2>8. AnswersAreKept(d)'
    BY <1>0, <1>1, <1>2, <1>3, <1>5, <2>3, <2>5
    DEF PhoneInv, AnswersAreKept, Rings, Incoming, On, InCall
  <2> QED
    BY <1>1, <2>4, <2>6, <2>7, <2>8, CallFrame DEF PhoneInv
<1>6. CASE /\ ~InCall(d) /\ Goto(d, "done") /\ UNCHANGED sends
           /\ value' = [value EXCEPT ![d] = [call |-> c, status |-> "incoming"]]
  <2>1. /\ value' \in [Phones -> [call: CallIds \cup {NoCall},
                                  status: LiveStatus \cup {"none", "ended", "failed"}]]
        /\ \A x \in Phones \ {d} : value'[x] = value[x]
        /\ value'[d].call = c /\ value'[d].status = "incoming"
    BY <1>0, <1>6 DEF CallTypeOK, LiveStatus, Ringing
  <2>2. CallTypeOK' /\ \A x \in Phones \ {d} : Same(x)
    BY <1>0, <1>1, <1>3, <1>6, <2>1 DEF CallTypeOK, Same, HandTypes
  <2>3. \A k \in CallIds : /\ Answering(d, k)' <=> Answering(d, k)
                           /\ Rings(d, k)' <=> k = c
    BY <1>1, <1>6, <2>1 DEF Answering, Incoming, Declined, Rings
  <2>4. tracks[d] = {}
    BY <1>0, <1>6 DEF PhoneInv, Shown, On
  <2>5. Spoken(d)' /\ Shown(d)'
    BY <1>0, <1>1, <1>2, <1>3, <1>6, <2>1, <2>4
    DEF PhoneInv, Spoken, Shown, Named, Incoming, On, InCall, LiveStatus, Ringing
  <2>6. RungOnce(d)' /\ KeptOnTheWay(d)'
    BY <1>0, <1>1, <1>2, <1>3, <1>6, <2>3 DEF PhoneInv, RungOnce, KeptOnTheWay
  <2>7. RingingIsOpen(d)'
    BY <1>0, <1>1, <1>2, <1>3, <1>6, <2>3 DEF PhoneInv, RingingIsOpen, Incoming, Declined
  <2>8. \A k \in CallIds : On(d, k)' => value'[d].status = "incoming"
    BY <2>1
  <2>9. AnswersAreKept(d)'
    BY <1>0, <1>1, <1>2, <1>3, <1>6, <2>1, <2>3, <2>8 DEF PhoneInv, AnswersAreKept
  <2> QED
    BY <1>1, <2>2, <2>5, <2>6, <2>7, <2>9, CallFrame DEF PhoneInv
<1> QED
  BY <1>00, <1>4, <1>5, <1>6 DEF ReceiveInvite

LEMMA ReceiveAcceptKeepsInv == ASSUME CallInv, NEW d \in Phones, ReceiveAccept(d) PROVE CallInv'
<1>0. CallTypeOK /\ PhoneInv(d)
  BY DEF CallInv
<1>00. PICK c \in CallIds : c = hand[d].packet.call
  BY <1>0, HandIs DEF ReceiveAccept, Packets
<1>1. /\ hand[d].phase = "pass" /\ hand[d].packet.act = "accept"
      /\ value' = IF At(d, c, "ringing") /\ c \in tracks[d]
                  THEN [value EXCEPT ![d].status = "connecting"] ELSE value
      /\ hand' = [hand EXCEPT ![d].phase = "done"]
      /\ UNCHANGED <<route, capturing, tracks, sends, books, mail, applied, old, saved, tombs,
                     history, restarting, troubles>>
  BY <1>00 DEF ReceiveAccept, Goto, project, local
<1>2. /\ hand' \in [Phones -> HandTypes] /\ \A x \in Phones \ {d} : hand'[x] = hand[x]
      /\ hand'[d].phase = "done" /\ hand'[d].packet = hand[d].packet
      /\ hand'[d].completed = hand[d].completed
  BY <1>0, <1>1, GotoEffect
<1>3. /\ value' \in [Phones -> [call: CallIds \cup {NoCall},
                                status: LiveStatus \cup {"none", "ended", "failed"}]]
      /\ \A x \in Phones \ {d} : value'[x] = value[x]
      /\ \/ value'[d] = value[d]
         \/ /\ value[d].call = c /\ value[d].status = "ringing" /\ route[c][1] = d
            /\ value'[d].call = c /\ value'[d].status = "connecting"
  <2>1. CASE At(d, c, "ringing") /\ c \in tracks[d]
    <3>1. value[d].call = c /\ value[d].status = "ringing" /\ route[c][1] = d
      BY <1>0, <2>1 DEF At, PhoneInv, Shown
    <3> QED
      BY <1>0, <1>1, <2>1, <3>1, StatusEffect DEF LiveStatus
  <2>2. CASE ~(At(d, c, "ringing") /\ c \in tracks[d])
    BY <1>0, <1>1, <2>2 DEF CallTypeOK
  <2> QED
    BY <2>1, <2>2
<1>4. CallTypeOK' /\ \A x \in Phones \ {d} : Same(x)
  BY <1>0, <1>1, <1>2, <1>3 DEF CallTypeOK, Same, HandTypes
<1>5. \A k \in CallIds :
        /\ ~InHand(d, k) /\ ~InHand(d, k)'
        /\ Rings(d, k)' <=> Rings(d, k)
        /\ On(d, k)' <=> On(d, k)
        /\ value'[d].call = value[d].call
        /\ Answering(d, k)' <=> Answering(d, k)
  BY <1>1, <1>2, <1>3 DEF InHand, Rings, On, InCall, LiveStatus, Ringing, Answering, Incoming, Declined
<1>6. Spoken(d)'
  BY <1>0, <1>1, <1>2 DEF PhoneInv, Spoken, Named, Incoming
<1>7. Shown(d)'
  <2>1. value[d].status = "ringing" /\ value'[d].status = "connecting" => InCall(d) /\ InCall(d)'
    BY DEF InCall, LiveStatus, Ringing
  <2>2. InCall(d)' => InCall(d)
    BY <1>3, <2>1 DEF InCall
  <2>3. value'[d].status \in {"ringing", "incoming"} => value'[d].status = value[d].status
    BY <1>3
  <2> QED
    <3>1. Shown(d)
      BY <1>0 DEF PhoneInv
    <3>2. value'[d].call = value[d].call
      BY <1>3
    <3>3. \A k \in CallIds : Incoming(d, k)' <=> Incoming(d, k)
      BY <1>1 DEF Incoming
    <3>4. \A k \in tracks'[d] : On(d, k)'
      <4>1. \A k \in tracks[d] : k \in CallIds
        BY <1>0 DEF CallTypeOK
      <4> QED
        BY <1>1, <1>5, <3>1, <4>1 DEF Shown
    <3> QED
      BY <1>1, <2>2, <2>3, <3>1, <3>2, <3>3, <3>4 DEF Shown
<1>8. RungOnce(d)'
  <2>1. \A k \in CallIds : Rings(d, k) => k \notin tombs[d]
    BY <1>0, <1>1 DEF PhoneInv, RungOnce
  <2> QED
    BY <1>0, <1>1, <1>2, <1>5, <2>1 DEF PhoneInv, RungOnce
<1>9. KeptOnTheWay(d)' /\ RingingIsOpen(d)'
  BY <1>0, <1>1, <1>2, <1>5 DEF PhoneInv, KeptOnTheWay, RingingIsOpen, Incoming, Declined
<1>10. \A k \in CallIds : Incoming(d, k) /\ On(d, k) => value'[d] = value[d]
  BY <1>3 DEF Incoming, On, CallInv
<1>11. AnswersAreKept(d)'
  BY <1>0, <1>1, <1>2, <1>5, <1>10 DEF PhoneInv, AnswersAreKept, Incoming
<1> QED
  BY <1>1, <1>4, <1>6, <1>7, <1>8, <1>9, <1>11, CallFrame DEF PhoneInv

LEMMA ProjectedKeepsInv == ASSUME CallInv, NEW d \in Phones, Projected(d) PROVE CallInv'
<1>0. CallTypeOK /\ PhoneInv(d)
  BY DEF CallInv
<1>00. PICK p \in Packets : p = hand[d].packet
  BY <1>0, HandIs DEF Projected
<1>1. /\ hand[d].phase = "done" /\ applied' = applied \cup {p}
      /\ hand' = [hand EXCEPT ![d] = NoHand]
      /\ UNCHANGED <<route, value, capturing, tracks, sends, books, mail, old, saved, tombs,
                     history, restarting, troubles>>
  BY <1>00 DEF Projected, project, local
<1>2. p \in mail /\ p.to = d
  BY <1>0, <1>00, <1>1 DEF PhoneInv, Spoken
<1>3. /\ hand' \in [Phones -> HandTypes] /\ \A x \in Phones \ {d} : hand'[x] = hand[x]
      /\ hand'[d].phase = "none"
  BY <1>0, <1>1 DEF CallTypeOK, HandTypes, NoHand
<1>4. CallTypeOK' /\ \A x \in Phones \ {d} : Same(x)
  BY <1>0, <1>1, <1>2, <1>3 DEF CallTypeOK, Same, HandTypes
<1>5. \A k \in CallIds :
        /\ ~InHand(d, k)'
        /\ InHand(d, k) <=> Packet(k, "invite", d) = p
        /\ Packet(k, "invite", d) \in applied' <=> Packet(k, "invite", d) \in applied \/ InHand(d, k)
        /\ Rings(d, k)' <=> Rings(d, k)
        /\ Answering(d, k)' <=> Answering(d, k)
  BY <1>00, <1>1, <1>2, <1>3, PacketsAre DEF InHand, Rings, Answering, Incoming, Declined
<1>6. Spoken(d)' /\ Shown(d)'
  BY <1>0, <1>1, <1>3 DEF PhoneInv, Spoken, Shown, Named, Incoming, On, InCall
<1>7. RungOnce(d)'
  BY <1>0, <1>1, <1>3, <1>5 DEF PhoneInv, RungOnce
<1>8. KeptOnTheWay(d)'
  BY <1>0, <1>1, <1>3, <1>5 DEF PhoneInv, KeptOnTheWay
<1>9. RingingIsOpen(d)'
  BY <1>0, <1>1, <1>3, <1>5 DEF PhoneInv, RingingIsOpen, Incoming, Declined
<1>10. AnswersAreKept(d)'
  BY <1>0, <1>1, <1>3, <1>5 DEF PhoneInv, AnswersAreKept, Incoming, On, InCall
<1> QED
  BY <1>1, <1>2, <1>4, <1>6, <1>7, <1>8, <1>9, <1>10, CallFrame DEF PhoneInv

LEMMA RecoverKeepsInv ==
  ASSUME CallInv, NEW d \in Phones, NEW c \in CallIds, Recover(d, c)
  PROVE  CallInv'
<1>0. CallTypeOK /\ PhoneInv(d)
  BY DEF CallInv
<1>1. /\ hand[d] = NoHand /\ saved[d][c] # "none" /\ value[d].call # c
      /\ UNCHANGED <<route, value, capturing, tracks, sends, books, mail, applied, old, tombs,
                     restarting, troubles>>
  BY DEF Recover, project, local
<1>2. /\ hand[d].phase = "none" /\ \A k \in CallIds : ~InHand(d, k)
      /\ \A k \in CallIds : Rings(d, k)' <=> Rings(d, k)
      /\ \A k \in CallIds : Answering(d, k)' <=> Answering(d, k)
      /\ ~Rings(d, c)
  BY <1>1 DEF NoHand, InHand, Rings, Answering, Incoming, Declined
<1>3. CASE /\ UNCHANGED hand
           /\ saved' \in [Phones -> [CallIds -> {"none", "incoming", "connecting", "active"}]]
           /\ history' \in [Phones -> [CallIds -> Outcomes \cup {"none"}]]
           /\ \A x \in Phones \ {d}, k \in CallIds : history'[x][k] = history[x][k] /\ saved'[x][k] = saved[x][k]
           /\ \A k \in CallIds \ {c} : history'[d][k] = history[d][k] /\ saved'[d][k] = saved[d][k]
           /\ saved'[d][c] = "none"
           /\ history'[d][c] = history[d][c] \/ history'[d][c] = "failed"
           /\ history'[d][c] # "none"
  <2>1. CallTypeOK' /\ \A x \in Phones \ {d} : Same(x)
    BY <1>0, <1>1, <1>3 DEF CallTypeOK, Same
  <2>2. \A k \in CallIds : ~InHand(d, k)'
    BY <1>2, <1>3 DEF InHand
  <2>3. Spoken(d)' /\ Shown(d)'
    BY <1>0, <1>1, <1>2, <1>3 DEF PhoneInv, Spoken, Shown, Named, Incoming, On, InCall
  <2>4. RungOnce(d)' /\ KeptOnTheWay(d)'
    BY <1>0, <1>1, <1>2, <1>3, <2>2 DEF PhoneInv, RungOnce, KeptOnTheWay
  <2>5. RingingIsOpen(d)'
    BY <1>0, <1>1, <1>2, <1>3, <2>2 DEF PhoneInv, RingingIsOpen, Incoming, Declined
  <2>6. AnswersAreKept(d)'
    BY <1>0, <1>1, <1>2, <1>3, <2>2 DEF PhoneInv, AnswersAreKept, Incoming, On, InCall
  <2> QED
    BY <1>1, <2>1, <2>3, <2>4, <2>5, <2>6, CallFrame DEF PhoneInv
<1>4. CASE /\ history[d][c] = "none" /\ saved[d][c] = "incoming"
           /\ hand' = [hand EXCEPT ![d] = [packet |-> Packet(c, "invite", d), phase |-> "screen",
                                           completed |-> FALSE]]
           /\ UNCHANGED <<saved, history>>
  <2>1. /\ Packet(c, "invite", d) \in Packets /\ Packet(c, "invite", d) \in mail
        /\ Packet(c, "invite", d).call = c /\ Packet(c, "invite", d).act = "invite"
        /\ Packet(c, "invite", d).to = d
    BY <1>0, <1>1, PacketsAre DEF PhoneInv, Spoken
  <2>2. /\ hand' \in [Phones -> HandTypes] /\ \A x \in Phones \ {d} : hand'[x] = hand[x]
        /\ hand'[d].packet = Packet(c, "invite", d) /\ hand'[d].phase = "screen"
        /\ hand'[d].completed = FALSE
    BY <1>0, <1>4, <2>1 DEF CallTypeOK, HandTypes
  <2>3. CallTypeOK' /\ \A x \in Phones \ {d} : Same(x)
    BY <1>0, <1>1, <1>4, <2>2 DEF CallTypeOK, Same, HandTypes
  <2>4. \A k \in CallIds : InHand(d, k)' <=> k = c
    BY <2>1, <2>2 DEF InHand
  <2>5. ~Answering(d, c)
    BY <1>0, <1>4 DEF PhoneInv, AnswersAreKept
  <2>6. Spoken(d)' /\ Shown(d)'
    BY <1>0, <1>1, <1>2, <1>4, <2>1, <2>2 DEF PhoneInv, Spoken, Shown, Named, Incoming, On, InCall
  <2>7. RungOnce(d)'
    BY <1>0, <1>1, <1>2, <2>1, <2>2, <2>4 DEF PhoneInv, RungOnce
  <2>8. KeptOnTheWay(d)'
    BY <1>0, <1>1, <1>2, <1>4, <2>2, <2>4 DEF PhoneInv, KeptOnTheWay
  <2>9. RingingIsOpen(d)'
    BY <1>0, <1>1, <1>2, <1>4, <2>2, <2>4 DEF PhoneInv, RingingIsOpen, Incoming, Declined
  <2>10. AnswersAreKept(d)'
    BY <1>0, <1>1, <1>2, <1>4, <2>2, <2>4, <2>5 DEF PhoneInv, AnswersAreKept, Incoming, On, InCall
  <2> QED
    BY <1>1, <2>3, <2>6, <2>7, <2>8, <2>9, <2>10, CallFrame DEF PhoneInv
<1>5. CASE history[d][c] # "none"
  <2>1. /\ saved' = [saved EXCEPT ![d] = [saved[d] EXCEPT ![c] = "none"]]
        /\ UNCHANGED <<history, hand>>
    BY <1>5 DEF Recover
  <2>2. saved[d] \in [CallIds -> {"none", "incoming", "connecting", "active"}]
    BY <1>0 DEF CallTypeOK
  <2> QED
    BY <1>0, <1>3, <1>5, <2>1, <2>2 DEF CallTypeOK
<1>6. CASE history[d][c] = "none" /\ saved[d][c] # "incoming"
  <2>1. Recorded(d, c, "failed") /\ UNCHANGED hand
    BY <1>0, <1>6, RecordEffect DEF Recover, Outcomes
  <2> QED
    BY <1>3, <1>6, <2>1 DEF Recorded
<1> QED
  BY <1>4, <1>5, <1>6 DEF Recover

LEMMA RestartedKeepsInv == ASSUME CallInv, NEW d \in Phones, Restarted(d) PROVE CallInv'
<1>0. CallTypeOK /\ PhoneInv(d)
  BY DEF CallInv
<1>1. /\ hand[d] = NoHand /\ \A c \in CallIds : saved[d][c] # "none" => value[d].call = c
      /\ restarting' = restarting \ {d}
      /\ UNCHANGED <<route, value, capturing, tracks, sends, books, mail, applied, old, hand, saved,
                     tombs, history, troubles>>
  BY DEF Restarted, local
<1>2. hand[d].phase = "none"
  BY <1>1 DEF NoHand
<1>3. CallTypeOK' /\ \A x \in Phones \ {d} : Same(x)
  BY <1>0, <1>1 DEF CallTypeOK, Same
<1>4. Spoken(d)' /\ Shown(d)' /\ RungOnce(d)' /\ KeptOnTheWay(d)' /\ RingingIsOpen(d)'
  BY <1>0, <1>1, <1>2
  DEF PhoneInv, Spoken, Shown, RungOnce, KeptOnTheWay, RingingIsOpen, Named, Incoming, On, InCall,
      InHand, Rings, Declined
<1>5. AnswersAreKept(d)'
  BY <1>0, <1>1, <1>2
  DEF PhoneInv, AnswersAreKept, Answering, Incoming, On, InCall, InHand, Rings, Declined
<1> QED
  BY <1>1, <1>3, <1>4, <1>5, CallFrame DEF PhoneInv

LEMMA PeekKeepsInv ==
  ASSUME CallInv, NEW d \in Phones, NEW p \in mail, Peek(d, p)
  PROVE  CallInv'
<1>0. CallTypeOK /\ PhoneInv(d) /\ p \in Packets
  BY DEF CallInv, CallTypeOK
<1>00. PICK c \in CallIds : c = p.call
  BY <1>0 DEF Packets
<1>1. /\ p \notin applied /\ p.to = d /\ p.act = "invite" /\ history[d][c] = "none"
      /\ UNCHANGED <<route, value, capturing, tracks, sends, books, mail, applied, old, hand, tombs,
                     restarting, troubles>>
  BY <1>00 DEF Peek, project, local
<1>2. p = Packet(c, "invite", d)
  BY <1>0, <1>00, <1>1, PacketsAre
<1>3. \A k \in CallIds :
        /\ InHand(d, k)' <=> InHand(d, k)
        /\ Rings(d, k)' <=> Rings(d, k)
        /\ Answering(d, k)' <=> Answering(d, k)
  BY <1>1 DEF InHand, Rings, Answering, Incoming, Declined
<1>4. CASE c \in tombs[d]
  <2>1. Recorded(d, c, "missed")
    BY <1>0, <1>00, <1>4, RecordEffect DEF Peek, Outcomes
  <2>2. CallTypeOK' /\ \A x \in Phones \ {d} : Same(x)
    BY <1>0, <1>1, <2>1 DEF CallTypeOK, Same, Recorded
  <2>3. ~Rings(d, c) /\ ~Answering(d, c) /\ (InHand(d, c) => hand[d].phase \notin {"save", "pass"})
    BY <1>0, <1>1, <1>2, <1>4 DEF PhoneInv, RungOnce, AnswersAreKept
  <2>4. /\ \A k \in CallIds \ {c} : history'[d][k] = history[d][k] /\ saved'[d][k] = saved[d][k]
        /\ history'[d][c] = "missed" /\ saved'[d][c] = "none"
    BY <1>1, <2>1 DEF Recorded
  <2>5. Spoken(d)' /\ Shown(d)'
    BY <1>0, <1>1, <2>4 DEF PhoneInv, Spoken, Shown, Named, Incoming, On, InCall
  <2>6. RungOnce(d)'
    BY <1>0, <1>1, <1>3 DEF PhoneInv, RungOnce
  <2>7. KeptOnTheWay(d)'
    <3>1. hand[d].phase # "none" => hand[d].packet.call \in CallIds
      BY <1>0, HandIs DEF Packets
    <3> QED
      BY <1>0, <1>1, <1>3, <2>4, <3>1 DEF PhoneInv, KeptOnTheWay
  <2>8. RingingIsOpen(d)'
    BY <1>0, <1>1, <1>3, <1>4, <2>3, <2>4 DEF PhoneInv, RingingIsOpen, Incoming, Declined
  <2>9. AnswersAreKept(d)'
    BY <1>0, <1>1, <1>3, <2>3, <2>4 DEF PhoneInv, AnswersAreKept, Incoming, On, InCall
  <2> QED
    BY <1>1, <2>2, <2>5, <2>6, <2>7, <2>8, <2>9, CallFrame DEF PhoneInv
<1>5. CASE c \notin tombs[d]
  <2>1. /\ saved' = [saved EXCEPT ![d][c] = IF @ = "none" THEN "incoming" ELSE @]
        /\ UNCHANGED history
    BY <1>00, <1>5 DEF Peek
  <2>2. /\ saved' \in [Phones -> [CallIds -> {"none", "incoming", "connecting", "active"}]]
        /\ \A x \in Phones \ {d} : saved'[x] = saved[x]
        /\ \A k \in CallIds : saved'[d][k] = IF k = c /\ saved[d][c] = "none" THEN "incoming" ELSE saved[d][k]
    BY <1>0, <2>1, SavedIncoming
  <2>3. CallTypeOK' /\ \A x \in Phones \ {d} : Same(x)
    BY <1>0, <1>1, <2>1, <2>2 DEF CallTypeOK, Same
  <2>4. Spoken(d)' /\ Shown(d)'
    BY <1>0, <1>1, <1>2, <2>2 DEF PhoneInv, Spoken, Shown, Named, Incoming, On, InCall
  <2>5. RungOnce(d)' /\ KeptOnTheWay(d)' /\ RingingIsOpen(d)'
    BY <1>0, <1>1, <1>3, <2>1, <2>2
    DEF PhoneInv, RungOnce, KeptOnTheWay, RingingIsOpen, Incoming, Declined
  <2>6. AnswersAreKept(d)'
    BY <1>0, <1>1, <1>3, <2>1, <2>2 DEF PhoneInv, AnswersAreKept, Incoming, On, InCall
  <2> QED
    BY <1>1, <2>3, <2>4, <2>5, <2>6, CallFrame DEF PhoneInv
<1> QED
  BY <1>4, <1>5

LEMMA CrashKeepsInv == ASSUME CallInv, NEW d \in Phones, CrashPhone(d) PROVE CallInv'
<1>0. CallTypeOK /\ PhoneInv(d)
  BY DEF CallInv
<1>1. /\ troubles' \in 0 .. MaxTroubles
      /\ value' = [value EXCEPT ![d] = OffScreen]
      /\ capturing' = [capturing EXCEPT ![d] = {}] /\ tracks' = [tracks EXCEPT ![d] = {}]
      /\ sends' = [sends EXCEPT ![d] = {}] /\ books' = [books EXCEPT ![d] = {}]
      /\ hand' = [hand EXCEPT ![d] = NoHand] /\ restarting' = restarting \cup {d}
      /\ UNCHANGED <<route, mail, applied, old, saved, tombs, history>>
  BY <1>0, CallsAssumption DEF CrashPhone, CallTypeOK
<1>2. /\ value'[d].call \notin CallIds /\ ~InCall(d)'
      /\ capturing'[d] = {} /\ tracks'[d] = {} /\ sends'[d] = {} /\ books'[d] = {}
      /\ hand'[d].phase = "none"
  BY <1>0, <1>1, CallsAssumption DEF CallTypeOK, OffScreen, InCall, LiveStatus, Ringing, NoHand
<1>3. CallTypeOK'
  BY <1>0, <1>1 DEF CallTypeOK, OffScreen
<1>4. \A x \in Phones \ {d} : Same(x)
  BY <1>0, <1>1 DEF CallTypeOK, Same
<1>5. \A k \in CallIds : /\ ~Rings(d, k)' /\ ~InHand(d, k)' /\ ~On(d, k)'
                         /\ Answering(d, k)' => Answering(d, k)
  BY <1>1, <1>2 DEF Rings, InHand, On, InCall, LiveStatus, Ringing, Answering, Incoming, Declined
<1>6. Spoken(d)' /\ Shown(d)'
  BY <1>0, <1>1, <1>2 DEF PhoneInv, Spoken, Shown
<1>7. RungOnce(d)' /\ KeptOnTheWay(d)' /\ RingingIsOpen(d)'
  BY <1>0, <1>1, <1>2, <1>5 DEF PhoneInv, RungOnce, KeptOnTheWay, RingingIsOpen
<1>8. AnswersAreKept(d)'
  BY <1>0, <1>1, <1>2, <1>5 DEF PhoneInv, AnswersAreKept
<1> QED
  BY <1>1, <1>3, <1>4, <1>6, <1>7, <1>8, CallFrame DEF PhoneInv
------------------------------------------------------------------------------
(* Direct calls: the theorems                                                *)

LEMMA CallStepInv == CallInv /\ [CallNext]_callVars => CallInv'
<1> SUFFICES ASSUME CallInv, [CallNext]_callVars
             PROVE  CallInv'
  OBVIOUS
<1>1. ASSUME NEW d \in Phones, User(d)
      PROVE  CallInv'
  BY <1>1, StartCallKeepsInv, AnswerKeepsInv, HangUpKeepsInv, RetryEndKeepsInv DEF User
<1>2. ASSUME NEW d \in Phones, Runtime(d)
      PROVE  CallInv'
  <2>1. capturing[d] \subseteq CallIds
    BY DEF CallInv, CallTypeOK
  <2> QED
    BY <1>2, <2>1, CapturedKeepsInv, CaptureFailsKeepsInv, EnqueuedKeepsInv, NotEnqueuedKeepsInv,
       RecordKeepsInv, RingOutKeepsInv, ConnectKeepsInv, MediaFailsKeepsInv DEF Runtime
<1>3. ASSUME NEW d \in Phones, Control(d)
      PROVE  CallInv'
  <2>1. CASE Handle(d)
    BY <2>1, ScreenKeepsInv, MissKeepsInv, SaveKeepsInv, ReceiveInviteKeepsInv,
       ReceiveAcceptKeepsInv, ReceiveEndKeepsInv, ProjectedKeepsInv DEF Handle
  <2> QED
    BY <1>3, <2>1, ProjectKeepsInv, PeekKeepsInv, RecoverKeepsInv, RestartedKeepsInv DEF Control
<1>4. ASSUME NEW d \in Phones, CrashPhone(d)
      PROVE  CallInv'
  BY <1>4, CrashKeepsInv
<1>5. ASSUME NEW d \in Phones, NEW c \in Placed, OtherEnds(d, c)
      PROVE  CallInv'
  BY <1>5, OtherEndsKeepsInv
<1>6. ASSUME NEW p \in mail, Age(p)
      PROVE  CallInv'
  BY <1>6, AgeKeepsInv
<1>7. CASE UNCHANGED callVars
  <2>1. CallTypeOK' /\ \A x \in Phones : Same(x)
    BY <1>7 DEF CallInv, CallTypeOK, callVars, Same
  <2>2. \A x \in Phones : PhoneInv(x)'
    BY <1>7, <2>1, CallBystander DEF CallInv, callVars
  <2> QED
    BY <1>7, <2>1, <2>2 DEF CallInv, Named, callVars
<1> QED
  BY <1>1, <1>2, <1>3, <1>4, <1>5, <1>6, <1>7 DEF CallNext

LEMMA CallHolds == CallSpec => []CallInv
<1> QED
  BY CallInitInv, CallStepInv, PTL DEF CallSpec

\* What calls, captures, sends and saved invites are, whoever calls whom and
\* whatever fails (calls.ts, call-control.ts).
THEOREM CallsAreTyped == CallSpec => []CallTypeOK
<1>1. CallInv => CallTypeOK
  BY DEF CallInv
<1> QED
  BY <1>1, CallHolds, PTL

\* No stream outlives its call, for any number of phones, calls and troubles and
\* however late a capture resolves (calls.ts, the checks after captureCall).
THEOREM MicrophonesClose == CallSpec => []NoOpenMicrophone
<1>1. CallInv => NoOpenMicrophone
  BY DEF CallInv, PhoneInv, Shown, NoOpenMicrophone
<1> QED
  BY <1>1, CallHolds, PTL

\* A call whose end was projected rings no more, in whatever order its packets
\* come and whenever the phone restarts (call-control.ts, delivered_call_ends).
THEOREM EndedCallsAreSilent == CallSpec => []NoGhostRinging
<1>1. CallInv => NoGhostRinging
  <2> SUFFICES ASSUME CallInv, NEW d \in Phones, NEW c \in CallIds,
                      At(d, c, "incoming"), c \in tombs[d]
               PROVE  hand[d] # NoHand /\ hand[d].packet.call = c
    BY DEF NoGhostRinging
  <2>1. Rings(d, c)
    BY DEF At, Rings
  <2>2. hand[d].phase = "pass" /\ hand[d].packet.call = c
    BY <2>1 DEF CallInv, PhoneInv, RungOnce
  <2> QED
    BY <2>2 DEF NoHand
<1> QED
  BY <1>1, CallHolds, PTL

\* No crash loses an invite, and none makes an answered call a missed or declined
\* one or lets it ring again (call-control.ts recover, recordCall).
THEOREM InvitesStay == CallSpec => []InvitesAreFiled
<1>1. CallInv => InvitesAreFiled
  <2> SUFFICES ASSUME CallInv
               PROVE  InvitesAreFiled
    OBVIOUS
  <2>1. InviteKept
    <3> SUFFICES ASSUME NEW p \in applied, p.act = "invite"
                 PROVE  saved[p.to][p.call] # "none" \/ history[p.to][p.call] # "none"
      BY DEF InviteKept
    <3>1. p \in Packets /\ p.to \in Phones /\ p.call \in CallIds
      BY DEF CallInv, CallTypeOK, Packets
    <3>2. p = Packet(p.call, "invite", p.to)
      BY <3>1, PacketsAre
    <3> QED
      BY <3>1, <3>2 DEF CallInv, PhoneInv, KeptOnTheWay
  <2>2. AnsweredIsNotMissed
    <3> SUFFICES ASSUME NEW d \in Phones, NEW c \in CallIds, Incoming(d, c),
                        Packet(c, "accept", Far(d, c)) \in mail,
                        Packet(c, "decline", Far(d, c)) \notin mail
                 PROVE  history[d][c] \notin {"missed", "declined"} /\ ~At(d, c, "incoming")
      BY DEF AnsweredIsNotMissed
    <3>1. Far(d, c) = route[c][1]
      BY DEF Far, Incoming, CallInv
    <3>2. Answering(d, c)
      BY <3>1 DEF Answering, Declined
    <3>3. history[d][c] \notin {"missed", "declined"} /\ ~Rings(d, c)
      BY <3>2 DEF CallInv, PhoneInv, AnswersAreKept
    <3> QED
      BY <3>3 DEF At, Rings
  <2> QED
    BY <2>1, <2>2 DEF InvitesAreFiled
<1> QED
  BY <1>1, CallHolds, PTL
=============================================================================
