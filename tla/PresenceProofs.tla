---------------------------- MODULE PresenceProofs ----------------------------
(***************************************************************************)
(* Presence and roster, proved for any tabs, contacts, devices and bounds. *)
(* The lemmas say what one stretch of a broadcast does; the rest of the    *)
(* file is one inductive invariant per question.                           *)
(***************************************************************************)
EXTENDS Presence, LeastNumber

-----------------------------------------------------------------------------
(* Broadcasts.                                                             *)

Numberings == [Tabs -> 1..Cardinality(Tabs)]

LEMMA FirstIsFirst ==
  ASSUME NEW ts \in SUBSET Tabs, ts # {}, NEW o \in Numberings
  PROVE  First(ts, o) \in ts /\ \A u \in ts : o[First(ts, o)] <= o[u]
<1> DEFINE N == {o[t] : t \in ts}
<1>1. \A t \in Tabs : o[t] \in Nat
  BY DEF Numberings
<1>2. N \in SUBSET Nat /\ N # {}
  BY <1>1
<1>3. PICK m \in N : \A n \in N : m <= n
  <2> HIDE DEF N
  <2> QED
    BY <1>2, LeastExists
<1>4. \E t \in ts : \A u \in ts : o[t] <= o[u]
  BY <1>3
<1> QED
  BY <1>4 DEF First

Cast(n, f, o, t, ts) == [number |-> n, frame |-> f, order |-> o, at |-> t, rest |-> ts]

LEMMA FrameTypes ==
  ASSUME NEW p \in [Contacts -> CacheShow], NEW f \in Frames
  PROVE  HandleFrame(p, f) \in [Contacts -> CacheShow]
<1>1. CASE f.type = "presence"
  BY <1>1 DEF HandleFrame, Frames, PresenceUpdate, RosterSnapshot, CacheShow, AnyShow
<1>2. CASE f.type # "presence"
  BY <1>2 DEF HandleFrame, CacheShow, AnyShow
<1> QED
  BY <1>1, <1>2

(* One stretch of a broadcast: nobody is left, or the first live tab has   *)
(* the frame and the others wait for it.                                   *)
Stretch(n, f, ts, o, others) ==
  \/ ts \subseteq Dead /\ casts' = others /\ page' = page
  \/ \E t \in ts \ Dead :
       /\ \A u \in ts \ Dead : o[t] <= o[u]
       /\ casts' = others \cup {Cast(n, f, o, t, (ts \ Dead) \ {t})}
       /\ page' = [page EXCEPT ![t] = HandleFrame(@, f)]

LEMMA SendsEffect ==
  ASSUME NEW n, NEW f, NEW ts \in SUBSET Tabs, NEW o \in Numberings,
         NEW others, Sends(n, f, ts, o, others)
  PROVE  subs' = subs \ (ts \cap Dead) /\ Stretch(n, f, ts, o, others)
<1>0. subs' = subs \ (ts \cap Dead)
  BY DEF Sends
<1>1. CASE ts \ Dead = {}
  BY <1>0, <1>1 DEF Sends, Live, Stretch
<1>2. CASE ts \ Dead # {}
  <2> DEFINE t == First(ts \ Dead, o)
  <2>1. t \in ts \ Dead /\ \A u \in ts \ Dead : o[t] <= o[u]
    BY <1>2, FirstIsFirst
  <2> HIDE DEF t
  <2>2. /\ casts' = others \cup {Cast(n, f, o, t, (ts \ Dead) \ {t})}
        /\ page' = [page EXCEPT ![t] = HandleFrame(@, f)]
    BY <1>2 DEF Sends, Live, Cast, t
  <2> QED
    BY <1>0, <2>1, <2>2 DEF Stretch
<1> QED
  BY <1>1, <1>2

LEMMA SendsTypes ==
  ASSUME TypeOK, NEW n \in Nat, NEW f \in Frames, NEW ts \in SUBSET Tabs, NEW o \in Numberings,
         NEW others \in SUBSET Casts, Sends(n, f, ts, o, others)
  PROVE  /\ subs' \in SUBSET Tabs
         /\ casts' \in SUBSET Casts
         /\ page' \in [Tabs -> [Contacts -> CacheShow]]
<1>1. subs' \in SUBSET Tabs
  BY SendsEffect DEF TypeOK
<1>2. Stretch(n, f, ts, o, others)
  BY SendsEffect
<1>3. CASE \E t \in ts \ Dead :
             /\ casts' = others \cup {Cast(n, f, o, t, (ts \ Dead) \ {t})}
             /\ page' = [page EXCEPT ![t] = HandleFrame(@, f)]
  <2>0. PICK t \in ts \ Dead :
             /\ casts' = others \cup {Cast(n, f, o, t, (ts \ Dead) \ {t})}
             /\ page' = [page EXCEPT ![t] = HandleFrame(@, f)]
    BY <1>3
  <2>1. Cast(n, f, o, t, (ts \ Dead) \ {t}) \in Casts
    BY DEF Cast, Casts, Numberings
  <2>2. HandleFrame(page[t], f) \in [Contacts -> CacheShow]
    BY FrameTypes DEF TypeOK
  <2> QED
    BY <1>1, <2>0, <2>1, <2>2 DEF TypeOK
<1>4. CASE casts' = others /\ page' = page
  BY <1>1, <1>4 DEF TypeOK
<1>5. \/ casts' = others /\ page' = page
      \/ \E t \in ts \ Dead :
             /\ casts' = others \cup {Cast(n, f, o, t, (ts \ Dead) \ {t})}
             /\ page' = [page EXCEPT ![t] = HandleFrame(@, f)]
  BY <1>2 DEF Stretch
<1> QED
  BY <1>3, <1>4, <1>5

LEMMA BroadcastTypes ==
  ASSUME TypeOK, NEW f \in Frames, Broadcast(f)
  PROVE  /\ subs' \in SUBSET Tabs
         /\ casts' \in SUBSET Casts
         /\ page' \in [Tabs -> [Contacts -> CacheShow]]
         /\ sent' \in Nat
<1>1. PICK o \in Orders : Sends(sent, f, Recipients, o, casts)
  BY DEF Broadcast
<1>2. o \in Numberings /\ sent \in Nat /\ Recipients \in SUBSET Tabs /\ casts \in SUBSET Casts
  BY DEF Orders, Numberings, Recipients, TypeOK
<1>3. sent' \in Nat
  BY <1>2 DEF Broadcast
<1> QED
  BY <1>1, <1>2, <1>3, SendsTypes

LEMMA NextTypes ==
  ASSUME TypeOK, NEW k \in casts, BroadcastNext(k)
  PROVE  /\ subs' \in SUBSET Tabs
         /\ casts' \in SUBSET Casts
         /\ page' \in [Tabs -> [Contacts -> CacheShow]]
         /\ sent' \in Nat
<1>1. /\ k.number \in Nat /\ k.frame \in Frames /\ k.rest \in SUBSET Tabs
      /\ k.order \in Numberings /\ casts \ {k} \in SUBSET Casts
  BY DEF TypeOK, Casts, Numberings
<1>2. Sends(k.number, k.frame, k.rest, k.order, casts \ {k})
  BY DEF BroadcastNext
<1>3. sent' \in Nat
  BY DEF BroadcastNext, TypeOK
<1> QED
  BY <1>1, <1>2, <1>3, SendsTypes

-----------------------------------------------------------------------------
(* Shows.                                                                  *)

LEMMA ShowOfTypes == \A s : ShowOf(s) \in Shows
BY DEF ShowOf, Shows

LEMMA BestExists ==
  ASSUME NEW S \in SUBSET Shows, S # {}
  PROVE  \E s \in S : \A o \in S : Priority(s) <= Priority(o)
<1>1. /\ Priority("online") = 0 /\ Priority("away") = 1
      /\ Priority("xa") = 2 /\ Priority("dnd") = 3
  BY DEF Priority
<1>2. \A o \in S : o \in {"online", "away", "xa", "dnd"}
  BY DEF Shows
<1>3. CASE "online" \in S
  BY <1>1, <1>2, <1>3
<1>4. CASE "online" \notin S /\ "away" \in S
  BY <1>1, <1>2, <1>4
<1>5. CASE "online" \notin S /\ "away" \notin S /\ "xa" \in S
  BY <1>1, <1>2, <1>5
<1>6. CASE "online" \notin S /\ "away" \notin S /\ "xa" \notin S
  BY <1>1, <1>2, <1>6
<1> QED
  BY <1>3, <1>4, <1>5, <1>6

(* What a contact shows as is the show of one of its devices, the most     *)
(* available of them, and "offline" only if there is none.                 *)
LEMMA BestShowIsBest ==
  ASSUME NEW m \in [Devices -> AnyShow], NEW c \in Contacts
  PROVE  /\ BestShow(m, c) \in AnyShow
         /\ \A d \in Devices : Bare[d] = c /\ m[d] # "offline" =>
              BestShow(m, c) \in Shows /\ Priority(BestShow(m, c)) <= Priority(m[d])
<1> DEFINE P == {m[d] : d \in DevicesOf(c)} \ {"offline"}
<1>1. P \in SUBSET Shows
  BY DEF AnyShow, DevicesOf
<1>2. \A d \in Devices : Bare[d] = c /\ m[d] # "offline" => m[d] \in P
  BY DEF DevicesOf
<1>3. BestShow(m, c) =
        IF P = {} THEN "offline"
        ELSE CHOOSE s \in P : \A o \in P : Priority(s) <= Priority(o)
  BY DEF BestShow
<1> HIDE DEF P
<1>4. CASE P = {}
  BY <1>2, <1>3, <1>4 DEF AnyShow
<1>5. CASE P # {}
  <2>1. \E s \in P : \A o \in P : Priority(s) <= Priority(o)
    BY <1>1, <1>5, BestExists
  <2>2. BestShow(m, c) \in P /\ \A o \in P : Priority(BestShow(m, c)) <= Priority(o)
    BY <1>3, <1>5, <2>1
  <2> QED
    BY <1>1, <1>2, <2>2 DEF AnyShow
<1> QED
  BY <1>4, <1>5

-----------------------------------------------------------------------------
(* Types.                                                                  *)

LEMMA PresenceFrameTypes ==
  ASSUME NEW c \in Contacts, NEW s \in AnyShow
  PROVE  PresenceFrame(c, s) \in Frames
BY DEF PresenceFrame, Frames, PresenceUpdate

LEMMA RosterFrameTypes ==
  ASSUME NEW cs \in SUBSET Contacts
  PROVE  RosterFrame(cs) \in Frames
BY DEF RosterFrame, Frames, RosterSnapshot

LEMMA TruthTypes ==
  ASSUME TypeOK
  PROVE  Truth \in [Devices -> AnyShow] /\ \A d \in Available : Truth[d] = ShowOf(real[d])
BY ShowOfTypes DEF Truth, Available, AnyShow, TypeOK

LEMMA DeviceTypes ==
  ASSUME TypeOK, NEW d \in Devices, OnPresence(d)
  PROVE  /\ resources' \in [Devices -> AnyShow]
         /\ resources' = [resources EXCEPT ![d] = Truth[d]]
         /\ presence' = [presence EXCEPT ![Bare[d]] = BestShow(resources', Bare[d])]
         /\ BestShow(resources', Bare[d]) \in AnyShow
         /\ Broadcast(PresenceFrame(Bare[d], BestShow(resources', Bare[d])))
<1>1. resources' = [resources EXCEPT ![d] = Truth[d]]
  <2>1. CASE real[d] = "offline"
    BY <2>1 DEF OnPresence, ForgetDevice, Truth
  <2>2. CASE real[d] # "offline"
    BY <2>2 DEF OnPresence, Truth
  <2> QED
    BY <2>1, <2>2
<1>2. resources' \in [Devices -> AnyShow]
  BY <1>1, TruthTypes DEF TypeOK
<1>3. Bare[d] \in Contacts
  BY BareAssumption
<1>4. BestShow(resources', Bare[d]) \in AnyShow
  BY <1>2, <1>3, BestShowIsBest
<1> QED
  BY <1>1, <1>2, <1>4 DEF OnPresence, PresenceEvent

LEMMA InitTypes == Init => TypeOK
<1> SUFFICES ASSUME Init PROVE TypeOK
  OBVIOUS
<1>1. 0 \in 0..MaxChanges
  BY BoundsAssumption
<1>2. resources \in [Devices -> AnyShow] /\ presence \in [Contacts -> CacheShow]
  BY DEF Init, AnyShow, CacheShow
<1>3. page \in [Tabs -> [Contacts -> CacheShow]]
  BY DEF Init, CacheShow
<1>4. pc \in [Tabs -> {"off", "attaching", "replaying", "on"}]
  BY DEF Init
<1>5. keys \in [Tabs -> SUBSET Contacts] /\ rest \in [Tabs -> SUBSET Contacts]
  BY DEF Init
<1>6. casts \in SUBSET Casts /\ sent \in Nat
  BY DEF Init
<1> QED
  BY <1>1, <1>2, <1>3, <1>4, <1>5, <1>6 DEF Init, TypeOK

LEMMA TypesStep ==
  ASSUME TypeOK, [Next]_vars
  PROVE  TypeOK'
<1> USE BoundsAssumption DEF TypeOK, serverVars, clientVars, castVars, tabVars
<1>1. CASE SessionStarts
  BY <1>1 DEF SessionStarts, SendPresence, DropReports, Available, Change
<1>2. CASE StreamLost
  BY <1>2 DEF StreamLost, DropReports
<1>3. ASSUME NEW d \in Devices, OnPresence(d) PROVE TypeOK'
  <2>1. resources' \in [Devices -> AnyShow]
    BY <1>3, DeviceTypes
  <2>2. presence' \in [Contacts -> CacheShow]
    BY <1>3, DeviceTypes DEF CacheShow
  <2>3. PresenceFrame(Bare[d], BestShow(resources', Bare[d])) \in Frames
    BY <1>3, DeviceTypes, PresenceFrameTypes, BareAssumption
  <2>4. /\ subs' \in SUBSET Tabs
        /\ casts' \in SUBSET Casts
        /\ page' \in [Tabs -> [Contacts -> CacheShow]]
        /\ sent' \in Nat
    BY <1>3, <2>3, DeviceTypes, BroadcastTypes
  <2> QED
    BY <1>3, <2>1, <2>2, <2>4 DEF OnPresence
<1>4. ASSUME NEW d \in Devices, NEW s \in Uses[d] \cup {"offline"}, ContactChanges(d, s)
      PROVE  TypeOK'
  <2>1. real' \in [Devices -> StanzaShows \cup {"offline"}]
    BY <1>4 DEF ContactChanges, StanzaShows
  <2>2. changes' \in 0..MaxChanges
    BY <1>4 DEF ContactChanges, Change
  <2> QED
    BY <1>4, <2>1, <2>2 DEF ContactChanges
<1>5. ASSUME NEW k \in casts, BroadcastNext(k) PROVE TypeOK'
  <2>1. /\ subs' \in SUBSET Tabs
        /\ casts' \in SUBSET Casts
        /\ page' \in [Tabs -> [Contacts -> CacheShow]]
        /\ sent' \in Nat
    BY <1>5, NextTypes
  <2> QED
    BY <1>5, <2>1 DEF BroadcastNext
<1>6. ASSUME NEW cs \in SUBSET Contacts, Broadcast(RosterFrame(cs))
      PROVE  /\ subs' \in SUBSET Tabs
             /\ casts' \in SUBSET Casts
             /\ page' \in [Tabs -> [Contacts -> CacheShow]]
             /\ sent' \in Nat
  BY <1>6, RosterFrameTypes, BroadcastTypes
<1>7. ASSUME NEW cs \in SUBSET Contacts, RosterUpdate(cs) PROVE TypeOK'
  BY <1>6, <1>7 DEF RosterUpdate, EmitRoster, RosterEvent, Change
<1>8. ASSUME NEW t \in Tabs, Attach(t) PROVE TypeOK'
  <2>1. page' \in [Tabs -> [Contacts -> CacheShow]]
    BY <1>8 DEF Attach, CacheShow
  <2>2. changes' \in 0..MaxChanges
    BY <1>8 DEF Attach, Change
  <2> QED
    BY <1>8, <2>1, <2>2 DEF Attach
<1>9. ASSUME NEW t \in Tabs, SnapshotStarts(t) PROVE TypeOK'
  <2>1. HandleFrame(page[t], RosterFrame(roster)) \in [Contacts -> CacheShow]
    BY RosterFrameTypes, FrameTypes
  <2> QED
    BY <1>9, <2>1 DEF SnapshotStarts, Known
<1>10. ASSUME NEW t \in Tabs, NEW c \in Contacts, SnapshotNext(t, c) PROVE TypeOK'
  <2>1. HandleFrame(page[t], PresenceFrame(c, presence[c])) \in [Contacts -> CacheShow]
    BY DEF HandleFrame, PresenceFrame
  <2> QED
    BY <1>10, <2>1 DEF SnapshotNext
<1>11. ASSUME NEW t \in Tabs, SnapshotEnds(t) PROVE TypeOK'
  BY <1>11 DEF SnapshotEnds
<1>12. ASSUME NEW t \in Tabs, AttachFails(t) PROVE TypeOK'
  BY <1>12 DEF AttachFails
<1>13. ASSUME NEW t \in Tabs, TabCloses(t) PROVE TypeOK'
  BY <1>13 DEF TabCloses
<1>14. ASSUME NEW t \in Tabs, NEW show \in {"online", "offline"}, SetPresence(t, show)
       PROVE  TypeOK'
  BY <1>14 DEF SetPresence, SendPresence, DropReports, Change, Available
<1>15. ASSUME NEW t \in Tabs, NEW c \in Contacts, AddContact(t, c) PROVE TypeOK'
  <2>1. roster \cup {c} \in SUBSET Contacts
    OBVIOUS
  <2> QED
    BY <1>6, <1>15, <2>1 DEF AddContact, EmitRoster, RosterEvent, Change
<1>16. ASSUME NEW t \in Tabs, NEW c \in Contacts, RemoveContact(t, c) PROVE TypeOK'
  <2>1. page' \in [Tabs -> [Contacts -> CacheShow]]
    BY <1>16 DEF RemoveContact, CacheShow
  <2> QED
    BY <1>16, <2>1 DEF RemoveContact, Change
<1>17. ASSUME NEW t \in Tabs, NEW c \in Contacts, RemovalEnds(t, c) PROVE TypeOK'
  <2>1. PICK cs \in {roster, roster \ {c}} : EmitRoster(cs)
    BY <1>17 DEF RemovalEnds
  <2> QED
    BY <1>6, <1>17, <2>1 DEF RemovalEnds, EmitRoster, RosterEvent
<1>18. CASE UNCHANGED vars
  BY <1>18 DEF vars
<1> QED
  BY <1>1, <1>2, <1>3, <1>4, <1>5, <1>7, <1>8, <1>9, <1>10, <1>11, <1>12, <1>13, <1>14,
     <1>15, <1>16, <1>17, <1>18 DEF Next

(* The type invariant, whatever values of show the stanzas have            *)
(* (slixmpp_client.py:232).                                                *)
THEOREM PresenceTyped == Spec => []TypeOK
<1>1. TypeOK /\ [Next]_vars => TypeOK'
  BY TypesStep
<1> QED
  BY InitTypes, <1>1, PTL DEF Spec

-----------------------------------------------------------------------------
(* The map of the client and the cache of the account.                     *)

(* NeverUnderstated alone is not inductive: a device that goes leaves the  *)
(* best of the others, so the map must be right about all of them.         *)
MapCurrent ==
  online /\ visible =>
    \A d \in Available \ unreported :
      resources[d] = Truth[d] /\ Priority(presence[Bare[d]]) <= Priority(resources[d])

LEMMA ReportStep ==
  ASSUME TypeOK, MapCurrent, NEW d \in Devices, OnPresence(d)
  PROVE  MapCurrent'
<1> SUFFICES ASSUME online, visible, NEW e \in Available \ unreported'
             PROVE  /\ resources'[e] = Truth[e]
                    /\ Priority(presence'[Bare[e]]) <= Priority(resources'[e])
  BY DEF OnPresence, MapCurrent, Available, Truth
<1>0. e \in Devices /\ Bare[e] \in Contacts /\ Bare[d] \in Contacts
  BY BareAssumption DEF Available
<1>1. resources'[e] = Truth[e]
  <2>1. CASE e = d
    BY <1>0, <2>1, DeviceTypes DEF TypeOK
  <2>2. CASE e # d
    BY <1>0, <2>2, DeviceTypes DEF TypeOK, MapCurrent, OnPresence
  <2> QED
    BY <2>1, <2>2
<1>2. resources'[e] # "offline"
  BY <1>0, <1>1, TruthTypes, ShowOfTypes DEF Available, Shows
<1>3. CASE Bare[e] = Bare[d]
  <2>1. presence'[Bare[e]] = BestShow(resources', Bare[e])
    BY <1>0, <1>3, DeviceTypes DEF TypeOK
  <2>2. Priority(BestShow(resources', Bare[e])) <= Priority(resources'[e])
    BY <1>0, <1>2, DeviceTypes, BestShowIsBest
  <2> QED
    BY <1>1, <2>1, <2>2
<1>4. CASE Bare[e] # Bare[d]
  <2>1. e # d /\ e \in Available \ unreported
    BY <1>4 DEF OnPresence
  <2>2. presence'[Bare[e]] = presence[Bare[e]] /\ resources'[e] = resources[e]
    BY <1>0, <1>4, <2>1, DeviceTypes DEF TypeOK
  <2> QED
    BY <1>1, <2>1, <2>2 DEF MapCurrent
<1> QED
  BY <1>3, <1>4

LEMMA MapStep ==
  ASSUME TypeOK, MapCurrent, [Next]_vars
  PROVE  MapCurrent'
<1> USE DEF MapCurrent, Available, Truth, serverVars, clientVars, castVars, tabVars
<1>1. CASE SessionStarts
  BY <1>1 DEF SessionStarts, SendPresence
<1>2. CASE StreamLost
  BY <1>2 DEF StreamLost
<1>3. ASSUME NEW d \in Devices, OnPresence(d) PROVE MapCurrent'
  BY <1>3, ReportStep
<1>4. ASSUME NEW d \in Devices, NEW s \in Uses[d] \cup {"offline"}, ContactChanges(d, s)
      PROVE  MapCurrent'
  BY <1>4 DEF ContactChanges, TypeOK
<1>5. ASSUME NEW k \in casts, BroadcastNext(k) PROVE MapCurrent'
  BY <1>5 DEF BroadcastNext
<1>6. ASSUME NEW cs \in SUBSET Contacts, RosterUpdate(cs) PROVE MapCurrent'
  BY <1>6 DEF RosterUpdate
<1>7. ASSUME NEW t \in Tabs,
             Attach(t) \/ SnapshotStarts(t) \/ SnapshotEnds(t) \/ AttachFails(t) \/ TabCloses(t)
      PROVE  MapCurrent'
  BY <1>7 DEF Attach, SnapshotStarts, SnapshotEnds, AttachFails, TabCloses
<1>8. ASSUME NEW t \in Tabs, NEW show \in {"online", "offline"}, SetPresence(t, show)
      PROVE  MapCurrent'
  BY <1>8 DEF SetPresence, SendPresence
<1>9. ASSUME NEW t \in Tabs, NEW c \in Contacts,
             SnapshotNext(t, c) \/ AddContact(t, c) \/ RemoveContact(t, c) \/ RemovalEnds(t, c)
      PROVE  MapCurrent'
  BY <1>9 DEF SnapshotNext, AddContact, RemoveContact, RemovalEnds
<1>10. CASE UNCHANGED vars
  BY <1>10 DEF vars
<1> QED
  BY <1>1, <1>2, <1>3, <1>4, <1>5, <1>6, <1>7, <1>8, <1>9, <1>10 DEF Next

(* A contact never shows as less available than a device of it that the    *)
(* server has reported, whatever the map kept from earlier sessions        *)
(* (slixmpp_client.py:228).                                                *)
THEOREM NotUnderstated == Spec => []NeverUnderstated
<1>1. Init => MapCurrent
  BY DEF Init, MapCurrent
<1>2. TypeOK /\ MapCurrent /\ [Next]_vars => TypeOK' /\ MapCurrent'
  BY TypesStep, MapStep
<1>3. MapCurrent => NeverUnderstated
  BY DEF MapCurrent, NeverUnderstated
<1> QED
  BY InitTypes, <1>1, <1>2, <1>3, PTL DEF Spec

-----------------------------------------------------------------------------
(* What a contact shows.                                                   *)

(* The account has what the client made of its map, and the map has no     *)
(* device that went, unless its going is on its way or was never told.     *)
Cached == \A c \in Contacts :
            BestShow(resources, c) = IF c \in Known THEN presence[c] ELSE "offline"
Ghosts == \A d \in Devices :
            resources[d] # "offline" /\ real[d] = "offline" => d \in unreported \cup missed

LEMMA SameDevices ==
  ASSUME NEW c \in Contacts, NEW m, NEW n, \A d \in DevicesOf(c) : m[d] = n[d]
  PROVE  BestShow(m, c) = BestShow(n, c)
<1> DEFINE Of(f) == {f[d] : d \in DevicesOf(c)} \ {"offline"}
           Best(ss) == IF ss = {} THEN "offline"
                       ELSE CHOOSE s \in ss : \A o \in ss : Priority(s) <= Priority(o)
<1>1. Of(m) = Of(n)
  OBVIOUS
<1>2. BestShow(m, c) = Best(Of(m)) /\ BestShow(n, c) = Best(Of(n))
  BY Zenon DEF BestShow
<1> HIDE DEF Of, Best
<1> QED
  BY <1>1, <1>2

LEMMA ReportCached ==
  ASSUME TypeOK, Cached, NEW d \in Devices, OnPresence(d)
  PROVE  Cached'
<1> SUFFICES ASSUME NEW c \in Contacts
             PROVE  BestShow(resources', c) =
                      IF c \in Known' THEN presence'[c] ELSE "offline"
  BY DEF Cached, BestShow, DevicesOf
<1>1. CASE c = Bare[d]
  <2>1. presence'[c] = BestShow(resources', c) /\ BestShow(resources', c) \in AnyShow
    BY <1>1, DeviceTypes DEF TypeOK
  <2>2. presence'[c] # "unknown"
    BY <2>1 DEF AnyShow, Shows
  <2> QED
    BY <2>1, <2>2 DEF Known
<1>2. CASE c # Bare[d]
  <2>1. presence'[c] = presence[c]
    BY <1>2, DeviceTypes DEF TypeOK
  <2>2. \A e \in DevicesOf(c) : resources'[e] = resources[e]
    BY <1>2, DeviceTypes DEF TypeOK, DevicesOf
  <2>3. BestShow(resources', c) = BestShow(resources, c)
    BY <2>2, SameDevices
  <2> QED
    BY <2>1, <2>3 DEF Cached, Known
<1> QED
  BY <1>1, <1>2

LEMMA ReportGhosts ==
  ASSUME TypeOK, Ghosts, NEW d \in Devices, OnPresence(d)
  PROVE  Ghosts'
<1> SUFFICES ASSUME NEW e \in Devices, resources'[e] # "offline", real'[e] = "offline"
             PROVE  e \in unreported' \cup missed'
  BY DEF Ghosts
<1>1. real' = real
  BY DEF OnPresence
<1>2. e # d
  BY <1>1, DeviceTypes DEF TypeOK, Truth
<1>3. resources[e] # "offline"
  BY <1>2, DeviceTypes DEF TypeOK
<1> QED
  BY <1>1, <1>2, <1>3 DEF Ghosts, OnPresence

LEMMA ShowStep ==
  ASSUME TypeOK, Cached, Ghosts, [Next]_vars
  PROVE  Cached' /\ Ghosts'
<1> USE DEF serverVars, clientVars, castVars, tabVars
<1>0. ASSUME UNCHANGED <<resources, presence>> PROVE Cached'
  BY <1>0 DEF Cached, Known
<1>1. CASE SessionStarts
  BY <1>0, <1>1 DEF SessionStarts, SendPresence, DropReports, Available, Ghosts
<1>2. CASE StreamLost
  BY <1>0, <1>2 DEF StreamLost, DropReports, Available, Ghosts
<1>3. ASSUME NEW d \in Devices, OnPresence(d) PROVE Cached' /\ Ghosts'
  BY <1>3, ReportCached, ReportGhosts
<1>4. ASSUME NEW d \in Devices, NEW s \in Uses[d] \cup {"offline"}, ContactChanges(d, s)
      PROVE  Cached' /\ Ghosts'
  BY <1>0, <1>4 DEF ContactChanges, TypeOK, Ghosts
<1>5. ASSUME NEW k \in casts, BroadcastNext(k) PROVE Cached' /\ Ghosts'
  BY <1>0, <1>5 DEF BroadcastNext, Ghosts
<1>6. ASSUME NEW cs \in SUBSET Contacts, RosterUpdate(cs) PROVE Cached' /\ Ghosts'
  BY <1>0, <1>6 DEF RosterUpdate, Ghosts
<1>7. ASSUME NEW t \in Tabs,
             Attach(t) \/ SnapshotStarts(t) \/ SnapshotEnds(t) \/ AttachFails(t) \/ TabCloses(t)
      PROVE  Cached' /\ Ghosts'
  BY <1>0, <1>7 DEF Attach, SnapshotStarts, SnapshotEnds, AttachFails, TabCloses, Ghosts
<1>8. ASSUME NEW t \in Tabs, NEW show \in {"online", "offline"}, SetPresence(t, show)
      PROVE  Cached' /\ Ghosts'
  BY <1>0, <1>8 DEF SetPresence, SendPresence, DropReports, Available, Ghosts
<1>9. ASSUME NEW t \in Tabs, NEW c \in Contacts,
             SnapshotNext(t, c) \/ AddContact(t, c) \/ RemoveContact(t, c) \/ RemovalEnds(t, c)
      PROVE  Cached' /\ Ghosts'
  BY <1>0, <1>9 DEF SnapshotNext, AddContact, RemoveContact, RemovalEnds, Ghosts
<1>10. CASE UNCHANGED vars
  BY <1>0, <1>10 DEF vars, Ghosts
<1> QED
  BY <1>1, <1>2, <1>3, <1>4, <1>5, <1>6, <1>7, <1>8, <1>9, <1>10 DEF Next

LEMMA InitCached == Init => Cached /\ Ghosts
<1> SUFFICES ASSUME Init PROVE Cached /\ Ghosts
  OBVIOUS
<1>1. ASSUME NEW c \in Contacts PROVE BestShow(resources, c) = "offline"
  <2>1. {resources[d] : d \in DevicesOf(c)} \ {"offline"} = {}
    BY DEF Init, DevicesOf
  <2> QED
    BY <2>1 DEF BestShow
<1> QED
  BY <1>1 DEF Init, Cached, Ghosts, Known

(* What the map has of a contact the server reported in full is true.      *)
LEMMA MapIsTrue ==
  ASSUME TypeOK, MapCurrent, Cached, Ghosts
  PROVE  ShowsExactly
<1> SUFFICES ASSUME online, visible, NEW c \in Contacts,
                    DevicesOf(c) \cap (unreported \cup missed) = {}
             PROVE  BestShow(Truth, c) = BestShow(resources, c)
  BY DEF ShowsExactly, Cached
<1>1. ASSUME NEW d \in DevicesOf(c) PROVE Truth[d] = resources[d]
  <2>0. d \in Devices /\ d \notin unreported \cup missed
    BY DEF DevicesOf
  <2>1. CASE real[d] = "offline"
    BY <2>0, <2>1 DEF Ghosts, Truth
  <2>2. CASE real[d] # "offline"
    BY <2>0, <2>2 DEF MapCurrent, Available
  <2> QED
    BY <2>1, <2>2
<1> QED
  BY <1>1, SameDevices

(* Whatever devices come, change and go, a contact that was reported in    *)
(* full shows as its most available device, no more and no less            *)
(* (slixmpp_client.py:222-241).                                            *)
THEOREM ShownExactly == Spec => []ShowsExactly
<1>1. Init => MapCurrent
  BY DEF Init, MapCurrent
<1>2. TypeOK /\ MapCurrent /\ Cached /\ Ghosts /\ [Next]_vars
        => TypeOK' /\ MapCurrent' /\ Cached' /\ Ghosts'
  BY TypesStep, MapStep, ShowStep
<1>3. TypeOK /\ MapCurrent /\ Cached /\ Ghosts => ShowsExactly
  BY MapIsTrue
<1> QED
  BY InitTypes, InitCached, <1>1, <1>2, <1>3, PTL DEF Spec

-----------------------------------------------------------------------------
(* The roster on the pages.                                                *)

(* ContactsShown needs that every tab that is not gone is subscribed, and  *)
(* that a replay sends no contact that the cache does not have.            *)
Subscribed == \A t \in Tabs : pc[t] # "off" => t \in subs
RestKnown  == \A t \in Tabs : rest[t] \subseteq Known

RosterInv == Subscribed /\ RestKnown /\ ContactsShown

(* Every live tab has the frame, or will have it from this broadcast.      *)
LEMMA StretchReaches ==
  ASSUME TypeOK, NEW n, NEW f \in Frames, NEW ts \in SUBSET Tabs, NEW o, NEW others,
         Stretch(n, f, ts, o, others), NEW t \in ts \ Dead
  PROVE  \/ page'[t] = HandleFrame(page[t], f)
         \/ \E k \in casts' : t \in k.rest /\ k.frame = f
<1>1. PICK u \in ts \ Dead : /\ casts' = others \cup {Cast(n, f, o, u, (ts \ Dead) \ {u})}
                             /\ page' = [page EXCEPT ![u] = HandleFrame(@, f)]
  BY DEF Stretch
<1>2. CASE t = u
  BY <1>1, <1>2 DEF TypeOK
<1>3. CASE t # u
  <2> DEFINE k == Cast(n, f, o, u, (ts \ Dead) \ {u})
  <2>1. t \in k.rest /\ k.frame = f
    BY <1>3 DEF Cast
  <2>2. k \in casts'
    BY <1>1
  <2> QED
    BY <2>1, <2>2
<1> QED
  BY <1>2, <1>3

LEMMA FrameKeeps ==
  ASSUME NEW p \in [Contacts -> CacheShow], NEW f \in Frames, NEW c \in Contacts,
         p[c] # "unknown"
  PROVE  HandleFrame(p, f)[c] # "unknown"
<1>1. CASE f \in PresenceUpdate
  BY <1>1 DEF HandleFrame, PresenceUpdate, AnyShow, Shows
<1>2. CASE f \in RosterSnapshot
  BY <1>2 DEF HandleFrame, RosterSnapshot
<1> QED
  BY <1>1, <1>2 DEF Frames

(* A broadcast takes no contact from a page and no broadcast but k off its *)
(* way.                                                                    *)
LEMMA StretchKeeps ==
  ASSUME TypeOK, NEW n, NEW f \in Frames, NEW ts \in SUBSET Tabs, NEW o, NEW others,
         Stretch(n, f, ts, o, others)
  PROVE  /\ others \subseteq casts'
         /\ \A t \in Tabs, c \in Contacts : page[t][c] # "unknown" => page'[t][c] # "unknown"
<1>1. CASE casts' = others /\ page' = page
  BY <1>1
<1>2. CASE \E u \in ts \ Dead : /\ casts' = others \cup {Cast(n, f, o, u, (ts \ Dead) \ {u})}
                                /\ page' = [page EXCEPT ![u] = HandleFrame(@, f)]
  BY <1>2, FrameKeeps DEF TypeOK
<1> QED
  BY <1>1, <1>2 DEF Stretch

(* Whatever the roster becomes, its broadcast gets it to all pages.        *)
LEMMA EmitRosterStep ==
  ASSUME TypeOK, Subscribed, NEW cs \in SUBSET Contacts, EmitRoster(cs),
         UNCHANGED <<pc>>
  PROVE  Subscribed' /\ ContactsShown'
<1>1. PICK o \in Orders : Sends(sent, RosterFrame(cs), Recipients, o, casts)
  BY DEF EmitRoster, RosterEvent, Broadcast
<1>2. o \in Numberings /\ Recipients \in SUBSET Tabs
  BY DEF Orders, Numberings, Recipients, TypeOK
<1>3. subs' = subs \ (subs \cap Dead) /\ Stretch(sent, RosterFrame(cs), subs, o, casts)
  BY <1>1, <1>2, SendsEffect DEF Recipients
<1>4. Subscribed'
  BY <1>3 DEF Subscribed, Dead
<1>5. ASSUME NEW t \in Tabs, pc'[t] \in {"replaying", "on"}, NEW c \in roster'
      PROVE  page'[t][c] # "unknown" \/ Coming(t, c)'
  <2>1. t \in subs \ Dead /\ c \in cs
    BY <1>5 DEF Subscribed, Dead, EmitRoster, RosterEvent
  <2>2. \/ page'[t] = HandleFrame(page[t], RosterFrame(cs))
        \/ \E k \in casts' : t \in k.rest /\ k.frame = RosterFrame(cs)
    <3>1. RosterFrame(cs) \in Frames /\ subs \in SUBSET Tabs
      BY RosterFrameTypes DEF TypeOK
    <3> QED
      BY <1>3, <2>1, <3>1, StretchReaches
  <2>3. HandleFrame(page[t], RosterFrame(cs))[c] # "unknown"
    BY <2>1 DEF HandleFrame, RosterFrame
  <2> QED
    BY <2>1, <2>2, <2>3 DEF Coming, RosterFrame
<1> QED
  BY <1>4, <1>5 DEF ContactsShown

LEMMA ReportShown ==
  ASSUME TypeOK, RosterInv, NEW d \in Devices, OnPresence(d)
  PROVE  RosterInv'
<1> DEFINE f == PresenceFrame(Bare[d], BestShow(resources', Bare[d]))
<1>1. f \in Frames /\ Broadcast(f)
  BY DeviceTypes, PresenceFrameTypes, BareAssumption
<1> HIDE DEF f
<1>2. PICK o \in Orders : Sends(sent, f, Recipients, o, casts)
  BY <1>1 DEF Broadcast
<1>3. o \in Numberings /\ Recipients \in SUBSET Tabs
  BY DEF Orders, Numberings, Recipients, TypeOK
<1>4. subs' = subs \ (subs \cap Dead) /\ Stretch(sent, f, subs, o, casts)
  BY <1>2, <1>3, SendsEffect DEF Recipients
<1>5. /\ casts \subseteq casts'
      /\ \A t \in Tabs, c \in Contacts : page[t][c] # "unknown" => page'[t][c] # "unknown"
  <2>1. subs \in SUBSET Tabs
    BY DEF TypeOK
  <2> QED
    BY <1>1, <1>4, <2>1, StretchKeeps
<1>6. pc' = pc /\ rest' = rest /\ roster' = roster /\ removing' = removing
  BY DEF OnPresence, tabVars
<1>7. Subscribed'
  BY <1>4, <1>6 DEF RosterInv, Subscribed, Dead
<1>8. \A c \in Known : presence'[c] # "unknown"
  BY DeviceTypes, BareAssumption DEF TypeOK, Known, AnyShow, Shows
<1>9. RestKnown'
  BY <1>6, <1>8 DEF RosterInv, RestKnown, Known
<1>10. ContactsShown'
  BY <1>5, <1>6 DEF RosterInv, ContactsShown, Coming, TypeOK
<1> QED
  BY <1>7, <1>9, <1>10 DEF RosterInv

LEMMA GoesOnShown ==
  ASSUME TypeOK, RosterInv, NEW k \in casts, BroadcastNext(k)
  PROVE  RosterInv'
<1>1. /\ k.number \in Nat /\ k.frame \in Frames /\ k.rest \in SUBSET Tabs
      /\ k.order \in Numberings /\ casts \ {k} \in SUBSET Casts
  BY DEF TypeOK, Casts, Numberings
<1>2. Sends(k.number, k.frame, k.rest, k.order, casts \ {k})
  BY DEF BroadcastNext
<1>3. /\ subs' = subs \ (k.rest \cap Dead)
      /\ Stretch(k.number, k.frame, k.rest, k.order, casts \ {k})
  BY <1>1, <1>2, SendsEffect
<1>4. /\ casts \ {k} \subseteq casts'
      /\ \A t \in Tabs, c \in Contacts : page[t][c] # "unknown" => page'[t][c] # "unknown"
  BY <1>1, <1>3, StretchKeeps
<1>5. pc' = pc /\ rest' = rest /\ roster' = roster /\ removing' = removing /\ presence' = presence
  BY DEF BroadcastNext, tabVars
<1>6. Subscribed' /\ RestKnown'
  BY <1>3, <1>5 DEF RosterInv, Subscribed, RestKnown, Known, Dead
<1>7. ASSUME NEW t \in Tabs, pc[t] \in {"replaying", "on"}, NEW c \in roster
      PROVE  page'[t][c] # "unknown" \/ <<t, c>> \in removing \/ Coming(t, c)'
  <2>1. CASE page[t][c] # "unknown" \/ <<t, c>> \in removing
    BY <1>4, <2>1 DEF TypeOK
  <2>2. CASE \E e \in casts \ {k} : /\ t \in e.rest
                                    /\ e.frame.type = "roster"
                                    /\ c \in e.frame.contacts
    BY <1>4, <2>2 DEF Coming
  <2>3. CASE t \in k.rest /\ k.frame.type = "roster" /\ c \in k.frame.contacts
    <3>1. t \in k.rest \ Dead /\ c \in Contacts
      BY <1>7, <2>3 DEF Dead, TypeOK
    <3>2. \/ page'[t] = HandleFrame(page[t], k.frame)
          \/ \E e \in casts' : t \in e.rest /\ e.frame = k.frame
      BY <1>1, <1>3, <3>1, StretchReaches
    <3>3. HandleFrame(page[t], k.frame)[c] # "unknown"
      BY <2>3, <3>1 DEF HandleFrame
    <3> QED
      BY <2>3, <3>2, <3>3 DEF Coming
  <2>4. \/ page[t][c] # "unknown" \/ <<t, c>> \in removing
        \/ \E e \in casts : t \in e.rest /\ e.frame.type = "roster" /\ c \in e.frame.contacts
    BY <1>7 DEF RosterInv, ContactsShown, Coming
  <2> QED
    BY <2>1, <2>2, <2>3, <2>4
<1>8. ContactsShown'
  BY <1>5, <1>7 DEF ContactsShown
<1> QED
  BY <1>6, <1>8 DEF RosterInv

LEMMA RosterStep ==
  ASSUME TypeOK, RosterInv, [Next]_vars
  PROVE  RosterInv'
<1> USE DEF RosterInv, Subscribed, RestKnown, ContactsShown, Coming, Known,
            serverVars, clientVars, castVars, tabVars
<1>1. CASE SessionStarts
  BY <1>1 DEF SessionStarts, SendPresence
<1>2. CASE StreamLost
  BY <1>2 DEF StreamLost
<1>3. ASSUME NEW d \in Devices, OnPresence(d) PROVE RosterInv'
  BY <1>3, ReportShown
<1>4. ASSUME NEW d \in Devices, NEW s \in Uses[d] \cup {"offline"}, ContactChanges(d, s)
      PROVE  RosterInv'
  BY <1>4 DEF ContactChanges
<1>5. ASSUME NEW k \in casts, BroadcastNext(k) PROVE RosterInv'
  BY <1>5, GoesOnShown
<1>6. ASSUME NEW cs \in SUBSET Contacts, EmitRoster(cs), UNCHANGED <<pc, rest, presence>>
      PROVE  RosterInv'
  <2>1. Subscribed' /\ ContactsShown'
    <3> HIDE DEF ContactsShown, Subscribed
    <3> QED
      BY <1>6, EmitRosterStep
  <2> QED
    BY <1>6, <2>1
<1>7. ASSUME NEW cs \in SUBSET Contacts, RosterUpdate(cs) PROVE RosterInv'
  BY <1>6, <1>7 DEF RosterUpdate
<1>8. ASSUME NEW t \in Tabs, Attach(t) PROVE RosterInv'
  BY <1>8 DEF Attach, TypeOK
<1>9. ASSUME NEW t \in Tabs, SnapshotStarts(t) PROVE RosterInv'
  <2>1. \A c \in roster : page'[t][c] # "unknown"
    BY <1>9 DEF SnapshotStarts, HandleFrame, RosterFrame, TypeOK
  <2>2. \A u \in Tabs \ {t} : page'[u] = page[u] /\ pc'[u] = pc[u]
    BY <1>9 DEF SnapshotStarts, TypeOK
  <2>3. Subscribed' /\ RestKnown'
    BY <1>9 DEF SnapshotStarts, TypeOK
  <2> QED
    BY <1>9, <2>1, <2>2, <2>3 DEF SnapshotStarts
<1>10. ASSUME NEW t \in Tabs, NEW c \in Contacts, SnapshotNext(t, c) PROVE RosterInv'
  <2>1. \A u \in Tabs, e \in Contacts : page[u][e] # "unknown" => page'[u][e] # "unknown"
    BY <1>10 DEF SnapshotNext, HandleFrame, PresenceFrame, TypeOK
  <2>2. Subscribed' /\ RestKnown'
    BY <1>10 DEF SnapshotNext, TypeOK
  <2> QED
    BY <1>10, <2>1, <2>2 DEF SnapshotNext, TypeOK
<1>11. ASSUME NEW t \in Tabs, SnapshotEnds(t) PROVE RosterInv'
  BY <1>11 DEF SnapshotEnds, TypeOK
<1>12. ASSUME NEW t \in Tabs, AttachFails(t) PROVE RosterInv'
  BY <1>12 DEF AttachFails, TypeOK
<1>13. ASSUME NEW t \in Tabs, TabCloses(t) PROVE RosterInv'
  BY <1>13 DEF TabCloses, TypeOK
<1>14. ASSUME NEW t \in Tabs, NEW show \in {"online", "offline"}, SetPresence(t, show)
       PROVE  RosterInv'
  BY <1>14 DEF SetPresence, SendPresence
<1>15. ASSUME NEW t \in Tabs, NEW c \in Contacts, AddContact(t, c) PROVE RosterInv'
  <2>1. roster \cup {c} \in SUBSET Contacts
    BY DEF TypeOK
  <2> QED
    BY <1>6, <1>15, <2>1 DEF AddContact
<1>16. ASSUME NEW t \in Tabs, NEW c \in Contacts, RemoveContact(t, c) PROVE RosterInv'
  <2>1. \A u \in Tabs, e \in Contacts : <<u, e>> # <<t, c>> => page'[u][e] = page[u][e]
    BY <1>16 DEF RemoveContact, TypeOK
  <2>2. <<t, c>> \in removing' /\ removing \subseteq removing'
    BY <1>16 DEF RemoveContact
  <2> QED
    BY <1>16, <2>1, <2>2 DEF RemoveContact, TypeOK
<1>17. ASSUME NEW t \in Tabs, NEW c \in Contacts, RemovalEnds(t, c) PROVE RosterInv'
  <2>1. PICK cs \in {roster, roster \ {c}} : EmitRoster(cs)
    BY <1>17 DEF RemovalEnds
  <2>2. cs \in SUBSET Contacts
    BY DEF TypeOK
  <2> QED
    BY <1>6, <1>17, <2>1, <2>2 DEF RemovalEnds
<1>18. CASE UNCHANGED vars
  BY <1>18 DEF vars
<1> QED
  BY <1>1, <1>2, <1>3, <1>4, <1>5, <1>7, <1>8, <1>9, <1>10, <1>11, <1>12, <1>13, <1>14,
     <1>15, <1>16, <1>17, <1>18 DEF Next

(* Every attached page lists the roster, or will by a frame on its way,    *)
(* except for what its user just removed: the replay (account.py:387) and  *)
(* the broadcasts (account.py:408) leave no gap between them.              *)
THEOREM ContactsReachPages == Spec => []ContactsShown
<1>1. Init => RosterInv
  BY DEF Init, RosterInv, Subscribed, RestKnown, ContactsShown
<1>2. TypeOK /\ RosterInv /\ [Next]_vars => TypeOK' /\ RosterInv'
  BY TypesStep, RosterStep
<1>3. RosterInv => ContactsShown
  BY DEF RosterInv
<1> QED
  BY InitTypes, <1>1, <1>2, <1>3, PTL DEF Spec

=============================================================================
