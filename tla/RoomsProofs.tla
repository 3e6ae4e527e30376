------------------------------ MODULE RoomsProofs ------------------------------
(***************************************************************************)
(* What the rooms of account and client agree on, proved for any tabs,     *)
(* rooms and bounds.  The lemmas split the inductive invariant by what a   *)
(* step touches: the coroutines, the records and the pages.                *)
(***************************************************************************)
EXTENDS Rooms, TLAPS

(* Without a session the server has us nowhere and owes no answer.         *)
NothingOffline == ~online => seats = {} /\ \A r \in Rooms : wire[r] = << >>

(* RoomsShown alone is not inductive: that the answer to a join shows the  *)
(* room needs SeatsKnown, and that a join without a session cannot show    *)
(* one needs NothingOffline.                                               *)
RoomsInv == TypeOK /\ NothingOffline /\ SeatsKnown /\ RoomsShown

-----------------------------------------------------------------------------
(* Types.                                                                  *)

LEMMA InitTypes == Init => TypeOK
<1> SUFFICES ASSUME Init PROVE TypeOK
  OBVIOUS
<1>1. wire \in [Rooms -> Seq({"join", "leave"})]
  BY DEF Init
<1>2. 0 \in 0..MaxSessions /\ 0 \in 0..MaxFaults
  BY BoundsAssumption
<1>3. stage \in [Joiners -> Stages] /\ pc \in [Tabs -> TabStates]
  BY DEF Init, Stages, TabStates
<1>4. \A c \in Joiners : stage[c] = "idle" <=> room[c] = None
  BY DEF Init
<1>5. todo \in [Loops -> SUBSET Rooms] /\ \A s \in Loops : todo[s] = {}
  BY DEF Init
<1>6. room \in [Joiners -> Rooms \cup {None}]
  BY DEF Init
<1>7. due \in [Tabs -> [Rooms -> Seq(Frames)]]
  BY DEF Init
<1> QED
  BY <1>1, <1>2, <1>3, <1>4, <1>5, <1>6, <1>7 DEF Init, TypeOK

LEMMA SendTypes ==
  ASSUME TypeOK, NEW r \in Rooms, NEW stanza \in {"join", "leave"}, Send(r, stanza)
  PROVE  wire' \in [Rooms -> Seq({"join", "leave"})]
<1>1. wire[r] \in Seq({"join", "leave"})
  BY DEF TypeOK
<1>2. Append(wire[r], stanza) \in Seq({"join", "leave"})
  BY <1>1
<1> QED
  BY <1>2 DEF TypeOK, Send

LEMMA TailTypes ==
  ASSUME TypeOK, NEW r \in Rooms, NEW stanza, Answer(r, stanza)
  PROVE  wire' \in [Rooms -> Seq({"join", "leave"})]
<1>1. wire[r] \in Seq({"join", "leave"}) /\ wire[r] # << >>
  BY DEF TypeOK, Answer
<1>2. Tail(wire[r]) \in Seq({"join", "leave"})
  BY <1>1
<1> QED
  BY <1>2 DEF TypeOK, Answer

(* A loop that takes up a room from its list.                              *)
LEMMA AskTypes ==
  ASSUME TypeOK, NEW c \in Joiners, NEW r \in Rooms,
         stage' = [stage EXCEPT ![c] = "joining"],
         room' = [room EXCEPT ![c] = r]
  PROVE  /\ stage' \in [Joiners -> Stages]
         /\ room' \in [Joiners -> Rooms \cup {None}]
         /\ \A d \in Joiners : stage'[d] = "idle" <=> room'[d] = None
BY NoneAssumption DEF TypeOK, Stages

(* The waits for a room end. *)
LEMMA ResolveTypes ==
  ASSUME TypeOK, NEW r \in Rooms, NEW outcome \in {"entered", "failed"}, Resolve(r, outcome),
         UNCHANGED <<room, todo>>
  PROVE  /\ stage' \in [Joiners -> Stages]
         /\ \A c \in Joiners : stage'[c] = "idle" <=> room'[c] = None
         /\ \A s \in Loops : stage'[s] = "idle" => todo'[s] = {}
BY DEF TypeOK, Resolve, Waiting, Stages, Joiners

(* A queue of frames with one more behind it.                              *)
LEMMA EnqueueFacts ==
  ASSUME NEW q \in Seq(Frames), NEW f \in Frames
  PROVE  /\ Enqueue(q, f) \in Seq(Frames)
         /\ Enqueue(q, f) # << >>
         /\ Enqueue(q, f)[Len(Enqueue(q, f))] = f
<1>1. CASE q # << >> /\ q[Len(q)] = f
  BY <1>1 DEF Enqueue
<1>2. CASE ~(q # << >> /\ q[Len(q)] = f)
  <2>1. Enqueue(q, f) = Append(q, f)
    BY <1>2 DEF Enqueue
  <2>2. /\ Append(q, f) \in Seq(Frames)
        /\ Len(Append(q, f)) = Len(q) + 1
        /\ Append(q, f)[Len(q) + 1] = f
        /\ Len(q) \in Nat
    OBVIOUS
  <2>3. Append(q, f) # << >>
    BY <2>2
  <2> QED
    BY <2>1, <2>2, <2>3
<1> QED
  BY <1>1, <1>2

LEMMA RemoveTypes ==
  ASSUME NEW q \in Seq(Frames), NEW i \in DOMAIN q
  PROVE  RemoveAt(q, i) \in Seq(Frames)
<1>1. i \in 1..Len(q)
  OBVIOUS
<1>2. SubSeq(q, 1, i - 1) \in Seq(Frames) /\ SubSeq(q, i + 1, Len(q)) \in Seq(Frames)
  BY <1>1
<1> QED
  BY <1>2 DEF RemoveAt

(* Without its head a queue is empty, or ends as before.                   *)
LEMMA RemoveHead ==
  ASSUME NEW q \in Seq(Frames), q # << >>
  PROVE  IF Len(q) = 1 THEN RemoveAt(q, 1) = << >>
         ELSE /\ RemoveAt(q, 1) # << >>
              /\ RemoveAt(q, 1)[Len(RemoveAt(q, 1))] = q[Len(q)]
<1>1. RemoveAt(q, 1) = SubSeq(q, 1, 0) \o SubSeq(q, 2, Len(q))
  BY DEF RemoveAt
<1>2. SubSeq(q, 1, 0) = << >> /\ SubSeq(q, 2, Len(q)) \in Seq(Frames)
  OBVIOUS
<1>3. RemoveAt(q, 1) = SubSeq(q, 2, Len(q))
  BY <1>1, <1>2
<1>4. Len(q) \in Nat /\ Len(q) >= 1 /\ Len(SubSeq(q, 2, Len(q))) = Len(q) - 1
  OBVIOUS
<1>5. CASE Len(q) = 1
  BY <1>2, <1>3, <1>4, <1>5
<1>6. CASE Len(q) # 1
  <2>1. SubSeq(q, 2, Len(q)) # << >>
    <3>1. PICK k \in Seq(Frames) : k = SubSeq(q, 2, Len(q))
      BY <1>2
    <3>2. Len(k) > 0
      BY <1>4, <1>6, <3>1
    <3>3. k # << >>
      BY <3>2
    <3> QED
      BY <3>1, <3>3, Zenon
  <2>2. SubSeq(q, 2, Len(q))[Len(q) - 1] = q[Len(q)]
    BY <1>4, <1>6
  <2> QED
    BY <1>3, <1>4, <1>6, <2>1, <2>2
<1> QED
  BY <1>5, <1>6

PageTypes ==
  /\ shown \in [Tabs -> SUBSET Rooms]
  /\ due \in [Tabs -> [Rooms -> Seq(Frames)]]
  /\ doubt \in SUBSET Tabs

LEMMA BroadcastTypes ==
  ASSUME TypeOK, NEW f \in Frames, NEW r \in Rooms, Broadcast(f, r)
  PROVE  PageTypes'
<1>1. \A t \in Tabs, q \in Rooms : due[t][q] \in Seq(Frames)
  BY DEF TypeOK
<1>2. \A t \in Tabs, q \in Rooms : Enqueue(due[t][q], f) \in Seq(Frames)
  BY <1>1, EnqueueFacts
<1>3. due' \in [Tabs -> [Rooms -> Seq(Frames)]]
  BY <1>1, <1>2 DEF Broadcast
<1> QED
  BY <1>3 DEF TypeOK, PageTypes, Broadcast

LEMMA PresenceTypes ==
  ASSUME TypeOK, NEW r \in Rooms, SelfPresence(r)
  PROVE  PageTypes'
<1>1. CASE Broadcast("show", r)
  BY <1>1, BroadcastTypes DEF Frames
<1>2. CASE UNCHANGED pageVars
  BY <1>2 DEF TypeOK, PageTypes, pageVars
<1> QED
  BY <1>1, <1>2 DEF SelfPresence

LEMMA DropTypes ==
  ASSUME TypeOK, NEW t \in Tabs, DropDue(t)
  PROVE  due' \in [Tabs -> [Rooms -> Seq(Frames)]]
BY DEF TypeOK, DropDue

LEMMA ShowsTypes ==
  ASSUME TypeOK, NEW t \in Tabs, NEW r \in Rooms, Shows(t, r)
  PROVE  PageTypes'
<1>1. PICK i \in NextFrames(t, r) :
        /\ shown' = [shown EXCEPT ![t] = IF due[t][r][i] = "show" THEN @ \cup {r} ELSE @ \ {r}]
        /\ due' = [due EXCEPT ![t][r] = RemoveAt(@, i)] \/ UNCHANGED due
  BY DEF Shows
<1>2. due[t][r] \in Seq(Frames) /\ due[t][r] # << >>
  BY DEF Shows, TypeOK
<1>3. i \in DOMAIN due[t][r]
  BY <1>1, <1>2 DEF NextFrames
<1>4. RemoveAt(due[t][r], i) \in Seq(Frames)
  BY <1>2, <1>3, RemoveTypes
<1>5. CASE due' = [due EXCEPT ![t][r] = RemoveAt(@, i)]
  <2>1. PICK q \in Seq(Frames) : q = RemoveAt(due[t][r], i)
    BY <1>4
  <2>2. due' = [due EXCEPT ![t] = [due[t] EXCEPT ![r] = q]]
    BY <1>5, <2>1 DEF TypeOK
  <2> QED
    BY <1>1, <2>2 DEF TypeOK, PageTypes, Shows
<1>6. CASE UNCHANGED due
  BY <1>1, <1>6 DEF TypeOK, PageTypes, Shows
<1> QED
  BY <1>1, <1>5, <1>6

LEMMA TypesStep ==
  ASSUME TypeOK, [Next]_vars
  PROVE  TypeOK'
<1> USE NoneAssumption, BoundsAssumption
<1> USE DEF TypeOK, PageTypes, pageVars
<1>0. "show" \in Frames /\ "left" \in Frames
  BY DEF Frames
<1>1. ASSUME NEW t \in Tabs, Attach(t) PROVE TypeOK'
  BY <1>1 DEF Attach, TabStates, serverVars, lineVars, tabVars, joinVars
<1>2. ASSUME NEW t \in Tabs, Snapshot(t) PROVE TypeOK'
  <2>1. \A r \in Rooms : due[t][r] \in Seq(Frames) /\ Enqueue(due[t][r], "show") \in Seq(Frames)
    BY <1>0, EnqueueFacts
  <2>2. due' \in [Tabs -> [Rooms -> Seq(Frames)]]
    BY <1>2, <2>1 DEF Snapshot
  <2> QED
    BY <1>2, <2>2 DEF Snapshot, TabStates, serverVars, lineVars, joinVars
<1>3. ASSUME NEW t \in Tabs, TabCloses(t) PROVE TypeOK'
  BY <1>3, DropTypes DEF TabCloses, serverVars, lineVars, joinVars
<1>4. ASSUME NEW t \in Tabs, HandlerEnds(t) PROVE TypeOK'
  <2>1. t \notin Loops /\ t \in Joiners
    BY TabsAssumption DEF Loops, Joiners
  <2> QED
    BY <1>4, <2>1, DropTypes DEF HandlerEnds, TabStates, Stages, Joiners, serverVars, lineVars
<1>5. ASSUME NEW t \in Tabs, NEW r \in Rooms, JoinRoom(t, r) PROVE TypeOK'
  <2>1. t \notin Loops /\ t \in Joiners
    BY TabsAssumption DEF Loops, Joiners
  <2>2. wire' \in [Rooms -> Seq({"join", "leave"})]
    BY <1>5, SendTypes DEF JoinRoom, Ask
  <2> QED
    BY <1>5, <2>1, <2>2 DEF JoinRoom, Ask, Stages, Joiners, lineVars, tabVars
<1>6. ASSUME NEW t \in Tabs, NEW r \in Rooms, LeaveRoom(t, r) PROVE TypeOK'
  <2>1. wire' \in [Rooms -> Seq({"join", "leave"})]
    BY <1>6, SendTypes DEF LeaveRoom, Leave
  <2>2. PageTypes'
    BY <1>0, <1>6, BroadcastTypes DEF LeaveRoom
  <2> QED
    BY <1>6, <2>1, <2>2 DEF LeaveRoom, Leave, lineVars, tabVars, joinVars
<1>7. ASSUME NEW c \in Joiners, GivesUp(c), faults' \in 0..MaxFaults PROVE TypeOK'
  BY <1>7 DEF GivesUp, Stages, lineVars, tabVars
<1>8. ASSUME NEW c \in Joiners, JoinTimesOut(c) \/ JoinTimesOutEarly(c) PROVE TypeOK'
  BY <1>7, <1>8 DEF JoinTimesOut, JoinTimesOutEarly, Fault
<1>9. ASSUME NEW c \in Joiners, JoinAnnounced(c) PROVE TypeOK'
  <2>1. room[c] \in Rooms
    BY <1>9 DEF JoinAnnounced
  <2>2. PageTypes'
    BY <1>0, <1>9, <2>1, BroadcastTypes DEF JoinAnnounced
  <2> QED
    BY <1>9, <2>2 DEF JoinAnnounced, Stages, serverVars, lineVars, tabVars
<1>10. ASSUME NEW c \in Joiners, JoinEnds(c) PROVE TypeOK'
  <2>1. room[c] \in Rooms
    BY <1>10 DEF JoinEnds
  <2>2. c \in Tabs => c \notin Loops
    BY TabsAssumption DEF Loops
  <2>3. PageTypes'
    BY <1>0, <1>10, <2>1, BroadcastTypes DEF JoinEnds
  <2> QED
    BY <1>10, <2>2, <2>3 DEF JoinEnds, Stages, Joiners, serverVars, lineVars, tabVars
<1>11. ASSUME NEW s \in Loops, RejoinNext(s) PROVE TypeOK'
  <2>1. PICK r \in NextRooms(s) : Ask(s, r) /\ todo' = [todo EXCEPT ![s] = Remaining(s, r)]
    BY <1>11 DEF RejoinNext
  <2>2. s \in Joiners /\ r \in Rooms
    BY <2>1 DEF Joiners, NextRooms
  <2>3. wire' \in [Rooms -> Seq({"join", "leave"})]
    BY <2>1, <2>2, SendTypes DEF Ask
  <2>4. /\ stage' \in [Joiners -> Stages]
        /\ room' \in [Joiners -> Rooms \cup {None}]
        /\ \A d \in Joiners : stage'[d] = "idle" <=> room'[d] = None
    BY <2>1, <2>2, AskTypes DEF Ask
  <2>5. todo' \in [Loops -> SUBSET Rooms]
    BY <2>1 DEF Remaining
  <2>6. \A l \in Loops : stage'[l] = "idle" => todo'[l] = {}
    BY <2>1, <2>2 DEF Ask, Joiners
  <2> QED
    BY <1>11, <2>1, <2>2, <2>3, <2>4, <2>5, <2>6 DEF RejoinNext, Ask, lineVars, tabVars
<1>12. ASSUME NEW s \in Loops, RejoinEnds(s) PROVE TypeOK'
  <2>1. s \in Joiners
    BY DEF Joiners
  <2>2. stage' \in [Joiners -> Stages] /\ room' \in [Joiners -> Rooms \cup {None}]
    BY <1>12, <2>1 DEF RejoinEnds, Stages
  <2>3. \A c \in Joiners : stage'[c] = "idle" <=> room'[c] = None
    BY <1>12, <2>1 DEF RejoinEnds
  <2>4. \A l \in Loops : stage'[l] = "idle" => todo'[l] = {}
    BY <1>12, <2>1 DEF RejoinEnds, NextRooms, Joiners
  <2> QED
    BY <1>12, <2>2, <2>3, <2>4 DEF RejoinEnds, serverVars, lineVars, tabVars
<1>13. CASE SessionUp
  <2> DEFINE s == sessions + 1
  <2>1. s \in Loops /\ s \in Joiners /\ s \in 0..MaxSessions
    BY <1>13 DEF SessionUp, Loops, Joiners
  <2>2. CASE UNCHANGED <<member, wire, joinVars>>
    BY <1>13, <2>1, <2>2 DEF SessionUp, tabVars, joinVars
  <2>3. ASSUME NEW r \in RoomsToRejoin,
               member' = member \cup {r},
               wire' = [wire EXCEPT ![r] = Append(@, "join")],
               stage' = [stage EXCEPT ![s] = "joining"],
               room' = [room EXCEPT ![s] = r],
               todo' = [todo EXCEPT ![s] = RoomsToRejoin \ {r}]
        PROVE  TypeOK'
    <3>1. r \in Rooms /\ RoomsToRejoin \subseteq Rooms
      BY DEF RoomsToRejoin
    <3>2. Append(wire[r], "join") \in Seq({"join", "leave"})
      BY <3>1
    <3>3. wire' \in [Rooms -> Seq({"join", "leave"})]
      BY <2>3, <3>2
    <3>4. /\ stage' \in [Joiners -> Stages]
          /\ room' \in [Joiners -> Rooms \cup {None}]
          /\ \A d \in Joiners : stage'[d] = "idle" <=> room'[d] = None
      BY <2>1, <2>3, <3>1, AskTypes
    <3>5. todo' \in [Loops -> SUBSET Rooms]
      BY <2>1, <2>3, <3>1
    <3>6. \A l \in Loops : stage'[l] = "idle" => todo'[l] = {}
      BY <2>1, <2>3 DEF Joiners
    <3> QED
      BY <1>13, <2>1, <2>3, <3>1, <3>3, <3>4, <3>5, <3>6 DEF SessionUp, tabVars
  <2> QED
    BY <1>13, <2>2, <2>3 DEF SessionUp
<1>14. CASE SessionDown
  <2>1. wire' \in [Rooms -> Seq({"join", "leave"})]
    BY <1>14 DEF SessionDown
  <2> QED
    BY <1>14, <2>1 DEF SessionDown, tabVars, joinVars
<1>15. ASSUME NEW r \in Rooms, RoomEntered(r) PROVE TypeOK'
  <2>1. wire' \in [Rooms -> Seq({"join", "leave"})]
    BY <1>15, TailTypes DEF RoomEntered
  <2> QED
    BY <1>15, <2>1, ResolveTypes, PresenceTypes DEF RoomEntered, lineVars, tabVars
<1>16. ASSUME NEW r \in Rooms, JoinRefused(r) PROVE TypeOK'
  <2>1. wire' \in [Rooms -> Seq({"join", "leave"})]
    BY <1>16, TailTypes DEF JoinRefused
  <2> QED
    BY <1>16, <2>1, ResolveTypes DEF JoinRefused, Fault, lineVars, tabVars
<1>17. ASSUME NEW r \in Rooms, RoomLeft(r) PROVE TypeOK'
  <2>1. wire' \in [Rooms -> Seq({"join", "leave"})]
    BY <1>17, TailTypes DEF RoomLeft
  <2> QED
    BY <1>17, <2>1, PresenceTypes DEF RoomLeft, lineVars, tabVars, joinVars
<1>18. ASSUME NEW r \in Rooms, RoomExpels(r) PROVE TypeOK'
  BY <1>18, PresenceTypes DEF RoomExpels, Fault, lineVars, tabVars, joinVars
<1>19. ASSUME NEW r \in Rooms, OccupantChanges(r) \/ OccupantsSent(r) \/ RoomMessage(r)
       PROVE  TypeOK'
  <2>1. PageTypes'
    BY <1>0, <1>19, BroadcastTypes DEF OccupantChanges, OccupantsSent, RoomMessage
  <2> QED
    BY <1>19, <2>1 DEF OccupantChanges, OccupantsSent, RoomMessage,
                       serverVars, lineVars, tabVars, joinVars
<1>21. ASSUME NEW t \in Tabs, NEW r \in Rooms, Shows(t, r) PROVE TypeOK'
  <2>1. PageTypes'
    BY <1>21, ShowsTypes
  <2> QED
    BY <1>21, <2>1 DEF Shows, serverVars, lineVars, tabVars, joinVars
<1>20. CASE UNCHANGED vars
  BY <1>20 DEF vars, serverVars, lineVars, tabVars, joinVars
<1> QED
  BY <1>1, <1>2, <1>3, <1>4, <1>5, <1>6, <1>8, <1>9, <1>10, <1>11, <1>12, <1>13,
     <1>14, <1>15, <1>16, <1>17, <1>18, <1>19, <1>20, <1>21
  DEF Next, JoinStep, RejoinStep, ServerStep

(* TypeOK, for every instance: no coroutine outside join_room holds a      *)
(* room, and every re-join loop gets through its list before it ends.      *)
THEOREM RoomsTyped == Spec => []TypeOK
BY InitTypes, TypesStep, PTL DEF Spec

-----------------------------------------------------------------------------
(* What becomes of the stanzas for a room.                                 *)

LEMMA TailOfOne ==
  ASSUME NEW S, NEW s \in Seq(S), s # << >>, Tail(s) = << >>
  PROVE  Len(s) = 1 /\ s[1] = Head(s)
<1>1. Len(Tail(s)) = Len(s) - 1
  OBVIOUS
<1>2. Len(Tail(s)) = 0
  <2>1. Len(<< >>) = 0
    OBVIOUS
  <2> QED
    BY <2>1, Zenon
<1>3. Len(s) \in Nat
  OBVIOUS
<1> QED
  BY <1>1, <1>2, <1>3

(* A room where we are in for good stays one, with the first stanza gone.  *)
LEMMA WillSitAfterAnswer ==
  ASSUME TypeOK, NEW r \in Rooms, NEW stanza \in {"join", "leave"}, Answer(r, stanza),
         NEW q \in Rooms,
         seats' \in {seats, seats \cup {r}, seats \ {r}},
         r \in seats' => stanza = "join" \/ wire'[r] # << >>,
         WillSit(q)'
  PROVE  WillSit(q)
<1>1. wire[r] \in Seq({"join", "leave"}) /\ wire[r] # << >> /\ Head(wire[r]) = stanza
  BY DEF TypeOK, Answer
<1>2. CASE q # r
  <2>1. wire'[q] = wire[q] /\ (q \in seats' <=> q \in seats)
    BY <1>2 DEF Answer, TypeOK
  <2> QED
    BY <2>1 DEF WillSit
<1>3. CASE q = r /\ Tail(wire[r]) = << >>
  <2>1. Len(wire[r]) = 1 /\ wire[r][1] = stanza
    BY <1>1, <1>3, TailOfOne
  <2>2. wire'[r] = << >>
    BY <1>3 DEF Answer, TypeOK
  <2> QED
    BY <1>1, <1>3, <2>1, <2>2 DEF WillSit
<1>4. CASE q = r /\ Tail(wire[r]) # << >>
  <2>1. /\ Len(Tail(wire[r])) = Len(wire[r]) - 1
        /\ Len(Tail(wire[r])) > 0
        /\ Tail(wire[r])[Len(Tail(wire[r]))] = wire[r][Len(wire[r])]
    BY <1>1, <1>4
  <2>2. wire'[r] = Tail(wire[r])
    BY DEF Answer, TypeOK
  <2> QED
    BY <1>1, <1>4, <2>1, <2>2 DEF WillSit
<1> QED
  BY <1>2, <1>3, <1>4

(* Only a join makes us sit in a room where we were not going to.          *)
LEMMA WillSitAfterSend ==
  ASSUME TypeOK, NothingOffline, NEW r \in Rooms, NEW stanza \in {"join", "leave"},
         Send(r, stanza), seats' = seats, NEW q \in Rooms, WillSit(q)'
  PROVE  IF q = r /\ online THEN stanza = "join" ELSE WillSit(q)
<1>1. wire[r] \in Seq({"join", "leave"})
  BY DEF TypeOK
<1>2. CASE q = r /\ online
  <2>1. wire'[r] = Append(wire[r], stanza)
    BY <1>2 DEF Send, TypeOK
  <2>2. wire'[r] # << >> /\ wire'[r][Len(wire'[r])] = stanza
    BY <1>1, <2>1
  <2> QED
    BY <1>2, <2>2 DEF WillSit
<1>3. CASE ~(q = r /\ online)
  <2>1. wire'[q] = wire[q]
    BY <1>3 DEF Send, TypeOK
  <2> QED
    BY <1>3, <2>1 DEF WillSit
<1> QED
  BY <1>2, <1>3

-----------------------------------------------------------------------------
(* The records of account, client and server.                              *)

RecordsSound == NothingOffline /\ SeatsKnown

LEMMA QuietRecords ==
  ASSUME RecordsSound, UNCHANGED <<recorded, member, seats, wire, online>>
  PROVE  RecordsSound'
BY DEF RecordsSound, NothingOffline, SeatsKnown, WillSit

LEMMA AskRecords ==
  ASSUME TypeOK, RecordsSound, NEW r \in Rooms, member' = member \cup {r}, Send(r, "join"),
         UNCHANGED <<seats, online>>,
         recorded' \subseteq recorded \cup {r}
  PROVE  RecordsSound'
<1>1. NothingOffline'
  BY DEF RecordsSound, NothingOffline, Send
<1>2. ASSUME NEW q \in Rooms, WillSit(q)' PROVE q \in member'
  <2>1. IF q = r /\ online THEN "join" = "join" ELSE WillSit(q)
    BY <1>2, WillSitAfterSend DEF RecordsSound
  <2> QED
    BY <2>1 DEF RecordsSound, SeatsKnown
<1>3. recorded' \subseteq member'
  BY DEF RecordsSound, SeatsKnown
<1> QED
  BY <1>1, <1>2, <1>3 DEF RecordsSound, SeatsKnown

LEMMA LeaveRecords ==
  ASSUME TypeOK, RecordsSound, NEW r \in Rooms, recorded' = recorded \ {r}, Leave(r),
         UNCHANGED <<seats, online>>
  PROVE  RecordsSound'
<1>1. NothingOffline'
  BY DEF RecordsSound, NothingOffline, Leave, Send
<1>2. recorded' \subseteq member'
  BY DEF RecordsSound, SeatsKnown, Leave
<1>3. CASE r \in member
  <2>1. Send(r, "leave")
    BY <1>3 DEF Leave
  <2>2. ASSUME NEW q \in Rooms, WillSit(q)' PROVE q \in member'
    <3>1. IF q = r /\ online THEN "leave" = "join" ELSE WillSit(q)
      BY <2>1, <2>2, WillSitAfterSend DEF RecordsSound
    <3>2. CASE q = r
      <4>1. ~online /\ WillSit(r)
        BY <3>1, <3>2
      <4> QED
        BY <4>1 DEF RecordsSound, NothingOffline, WillSit
    <3>3. CASE q # r
      BY <3>1, <3>3 DEF RecordsSound, SeatsKnown, Leave
    <3> QED
      BY <3>2, <3>3
  <2> QED
    BY <1>1, <1>2, <2>2 DEF RecordsSound, SeatsKnown
<1>4. CASE r \notin member
  BY <1>1, <1>2, <1>4 DEF RecordsSound, SeatsKnown, Leave, WillSit
<1> QED
  BY <1>3, <1>4

LEMMA AnswerRecords ==
  ASSUME TypeOK, RecordsSound, NEW r \in Rooms, NEW stanza \in {"join", "leave"},
         Answer(r, stanza),
         seats' \in {seats, seats \cup {r}, seats \ {r}},
         r \in seats' => stanza = "join" \/ wire'[r] # << >>,
         UNCHANGED <<recorded, member, online>>
  PROVE  RecordsSound'
<1>1. online
  BY DEF Answer, RecordsSound, NothingOffline
<1>2. \A q \in Rooms : WillSit(q)' => WillSit(q)
  BY WillSitAfterAnswer
<1> QED
  BY <1>1, <1>2 DEF RecordsSound, NothingOffline, SeatsKnown

LEMMA RecordsStep ==
  ASSUME TypeOK, RecordsSound, [Next]_vars
  PROVE  RecordsSound'
<1>1. ASSUME NEW t \in Tabs, \/ Attach(t) \/ Snapshot(t) \/ TabCloses(t) \/ HandlerEnds(t)
                             \/ \E r \in Rooms : Shows(t, r)
      PROVE  RecordsSound'
  BY <1>1, QuietRecords DEF Attach, Snapshot, Shows, TabCloses, HandlerEnds, serverVars, lineVars
<1>2. ASSUME NEW c \in Joiners, JoinStep(c) \/ JoinTimesOutEarly(c) PROVE RecordsSound'
  BY <1>2, QuietRecords DEF JoinStep, JoinTimesOut, JoinTimesOutEarly, GivesUp,
                            JoinAnnounced, JoinEnds, serverVars, lineVars
<1>3. ASSUME NEW s \in Loops, RejoinEnds(s) PROVE RecordsSound'
  BY <1>3, QuietRecords DEF RejoinEnds, serverVars, lineVars
<1>4. ASSUME NEW r \in Rooms, OccupantChanges(r) \/ OccupantsSent(r) \/ RoomMessage(r)
      PROVE  RecordsSound'
  BY <1>4, QuietRecords DEF OccupantChanges, OccupantsSent, RoomMessage, serverVars, lineVars
<1>5. ASSUME NEW t \in Tabs, NEW r \in Rooms, JoinRoom(t, r) PROVE RecordsSound'
  BY <1>5, AskRecords DEF JoinRoom, Ask, lineVars
<1>6. ASSUME NEW t \in Tabs, NEW r \in Rooms, LeaveRoom(t, r) PROVE RecordsSound'
  BY <1>6, LeaveRecords DEF LeaveRoom, lineVars
<1>7. ASSUME NEW s \in Loops, RejoinNext(s) PROVE RecordsSound'
  <2>1. PICK r \in NextRooms(s) : Ask(s, r)
    BY <1>7 DEF RejoinNext
  <2>2. r \in Rooms
    BY <2>1 DEF NextRooms, TypeOK
  <2> QED
    BY <1>7, <2>1, <2>2, AskRecords DEF RejoinNext, Ask, lineVars
<1>8. CASE SessionUp
  <2>1. CASE UNCHANGED <<member, wire>>
    BY <1>8, <2>1 DEF SessionUp, RecordsSound, NothingOffline, SeatsKnown, WillSit
  <2>2. ASSUME NEW r \in recorded, member' = member \cup {r},
               wire' = [wire EXCEPT ![r] = Append(@, "join")]
        PROVE  RecordsSound'
    <3>1. online' /\ UNCHANGED <<recorded, seats>>
      BY <1>8 DEF SessionUp
    <3>2. ASSUME NEW q \in Rooms, WillSit(q)', q # r PROVE WillSit(q)
      BY <2>2, <3>1, <3>2 DEF WillSit, TypeOK
    <3> QED
      BY <2>2, <3>1, <3>2 DEF RecordsSound, NothingOffline, SeatsKnown
  <2> QED
    BY <1>8, <2>1, <2>2 DEF SessionUp, RoomsToRejoin
<1>9. CASE SessionDown
  BY <1>9 DEF SessionDown, RecordsSound, NothingOffline, SeatsKnown, WillSit
<1>10. ASSUME NEW r \in Rooms, RoomEntered(r) PROVE RecordsSound'
  BY <1>10, AnswerRecords DEF RoomEntered, lineVars
<1>11. ASSUME NEW r \in Rooms, JoinRefused(r) PROVE RecordsSound'
  BY <1>11, AnswerRecords DEF JoinRefused, lineVars
<1>12. ASSUME NEW r \in Rooms, RoomLeft(r) PROVE RecordsSound'
  BY <1>12, AnswerRecords DEF RoomLeft, lineVars
<1>13. ASSUME NEW r \in Rooms, RoomExpels(r) PROVE RecordsSound'
  BY <1>13 DEF RoomExpels, lineVars, RecordsSound, NothingOffline, SeatsKnown, WillSit
<1>14. CASE UNCHANGED vars
  BY <1>14, QuietRecords DEF vars, serverVars, lineVars
<1> QED
  BY <1>1, <1>2, <1>3, <1>4, <1>5, <1>6, <1>7, <1>8, <1>9, <1>10, <1>11, <1>12, <1>13, <1>14
  DEF Next, RejoinStep, ServerStep

-----------------------------------------------------------------------------
(* The pages.                                                              *)

(* A room we sit in that is settled after a stanza was sent is another     *)
(* room, as it was before.                                                 *)
LEMMA SettledAfterSend ==
  ASSUME TypeOK, NothingOffline, NEW r \in Rooms, NEW stanza \in {"join", "leave"},
         Send(r, stanza), NEW q \in seats, wire'[q] = << >>
  PROVE  q # r /\ wire[q] = << >>
<1>1. online /\ q \in Rooms
  BY DEF NothingOffline, TypeOK
<1>2. wire[r] \in Seq({"join", "leave"})
  BY DEF TypeOK
<1>3. wire'[r] = Append(wire[r], stanza)
  BY <1>1 DEF Send, TypeOK
<1>4. wire'[r] # << >>
  <2>1. Append(wire[r], stanza) # << >>
    BY <1>2
  <2> QED
    BY <1>3, <2>1
<1> QED
  BY <1>1, <1>4 DEF Send, TypeOK

(* The pages that RoomsShown is about.                                     *)
InOrder == {t \in Subscribed \ doubt : pc[t] = "on"}

(* Nothing is taken from a page, no other page becomes subject to          *)
(* RoomsShown, and no room becomes settled.                                *)
LEMMA QuietPages ==
  ASSUME TypeOK, RoomsShown,
         InOrder' \subseteq InOrder,
         \A t \in InOrder' : shown'[t] = shown[t] /\ due'[t] = due[t],
         \A r \in recorded' \cap seats' :
           wire'[r] = << >> => r \in recorded \cap seats /\ wire[r] = << >>
  PROVE  RoomsShown'
<1>1. \A t \in InOrder' : \A r \in Rooms : WillShow(t, r) => WillShow(t, r)'
  BY DEF WillShow
<1> QED
  BY <1>1 DEF RoomsShown, InOrder, TypeOK

(* The same where the pages do not change at all.                          *)
LEMMA StillPages ==
  ASSUME TypeOK, RoomsShown, UNCHANGED <<pageVars, tabVars>>,
         \A r \in recorded' \cap seats' :
           wire'[r] = << >> => r \in recorded \cap seats /\ wire[r] = << >>
  PROVE  RoomsShown'
<1>1. InOrder' \subseteq InOrder /\ shown' = shown /\ due' = due
  BY DEF InOrder, Subscribed, pageVars, tabVars
<1> QED
  BY <1>1, QuietPages

(* A broadcast about r is the last a page gets of r, and changes nothing   *)
(* for other rooms.                                                        *)
LEMMA BroadcastEffect ==
  ASSUME TypeOK, NEW f \in Frames, NEW r \in Rooms, Broadcast(f, r)
  PROVE  /\ \A t \in Tabs, q \in Rooms : q # r /\ WillShow(t, q) => WillShow(t, q)'
         /\ f = "show" /\ r \in Followed => \A t \in Subscribed : WillShow(t, r)'
<1>1. ASSUME NEW t \in Tabs, NEW q \in Rooms, q # r, WillShow(t, q)
      PROVE  WillShow(t, q)'
  <2>1. due'[t][q] = due[t][q] /\ shown' = shown
    BY <1>1 DEF Broadcast
  <2> QED
    BY <1>1, <2>1 DEF WillShow
<1>2. ASSUME f = "show", r \in Followed, NEW t \in Subscribed
      PROVE  WillShow(t, r)'
  <2>1. t \in Tabs /\ due[t][r] \in Seq(Frames)
    BY DEF Subscribed, TypeOK
  <2>2. due'[t][r] = Enqueue(due[t][r], f)
    BY <1>2, <2>1 DEF Broadcast
  <2>3. due'[t][r] # << >> /\ due'[t][r][Len(due'[t][r])] = f
    BY <2>1, <2>2, EnqueueFacts
  <2> QED
    BY <1>2, <2>3 DEF WillShow
<1> QED
  BY <1>1, <1>2

(* A frame that shows r settles r and loses nothing.                       *)
LEMMA BroadcastPages ==
  ASSUME TypeOK, RoomsShown, NEW r \in Rooms, Broadcast("show", r), UNCHANGED tabVars,
         \A q \in recorded' \cap seats' :
           q # r /\ wire'[q] = << >> => q \in recorded \cap seats /\ wire[q] = << >>
  PROVE  RoomsShown'
<1>1. /\ \A t \in Tabs, q \in Rooms : q # r /\ WillShow(t, q) => WillShow(t, q)'
      /\ r \in Followed => \A t \in Subscribed : WillShow(t, r)'
  BY BroadcastEffect DEF Frames
<1>2. Subscribed' = Subscribed /\ doubt' = doubt /\ pc' = pc
  BY DEF Subscribed, Broadcast, tabVars
<1>3. Subscribed \subseteq Tabs /\ recorded \subseteq Rooms
  BY DEF Subscribed, TypeOK
<1> SUFFICES ASSUME NEW t \in Subscribed \ doubt, NEW q \in recorded' \cap seats' \cap Followed,
                    pc[t] = "on", wire'[q] = << >>
             PROVE  WillShow(t, q)'
  BY <1>2 DEF RoomsShown
<1>4. CASE q = r
  BY <1>1, <1>4
<1>5. CASE q # r
  <2>1. q \in recorded \cap seats \cap Followed /\ wire[q] = << >>
    BY <1>5
  <2>2. WillShow(t, q)
    BY <2>1 DEF RoomsShown
  <2> QED
    BY <1>1, <1>3, <1>5, <2>1, <2>2
<1> QED
  BY <1>4, <1>5

(* The frame at the head of the queue of a page in order says no more than *)
(* the last one.                                                           *)
LEMMA ShowsPages ==
  ASSUME TypeOK, RoomsShown, NEW t \in Tabs, NEW r \in Rooms, Shows(t, r)
  PROVE  RoomsShown'
<1>1. UNCHANGED <<recorded, seats, wire, pc, gone, doubt>>
  BY DEF Shows, serverVars, tabVars
<1> SUFFICES ASSUME NEW u \in Subscribed \ doubt, NEW q \in recorded \cap seats \cap Followed,
                    WillShow(u, q)
             PROVE  WillShow(u, q)'
  BY <1>1 DEF RoomsShown, Subscribed
<1>2. u \in Tabs /\ q \in Rooms
  BY DEF Subscribed, TypeOK
<1>3. PICK i \in NextFrames(t, r) :
        /\ shown' = [shown EXCEPT ![t] = IF due[t][r][i] = "show" THEN @ \cup {r} ELSE @ \ {r}]
        /\ due' \in {[due EXCEPT ![t][r] = RemoveAt(@, i)], due}
  BY DEF Shows
<1>4. CASE u # t \/ q # r
  <2>1. due'[u][q] = due[u][q] /\ (q \in shown'[u] <=> q \in shown[u])
    BY <1>2, <1>3, <1>4 DEF TypeOK
  <2> QED
    BY <2>1 DEF WillShow
<1>5. CASE u = t /\ q = r
  <2>1. i = 1 /\ due[t][r] \in Seq(Frames) /\ due[t][r] # << >>
    BY <1>3, <1>5 DEF NextFrames, Shows, TypeOK
  <2>2. due[t][r][Len(due[t][r])] = "show"
    BY <1>5, <2>1 DEF WillShow
  <2>3. CASE due' = due
    BY <1>5, <2>1, <2>2, <2>3 DEF WillShow
  <2>4. CASE due' = [due EXCEPT ![t][r] = RemoveAt(@, i)]
    <3>1. due'[t][r] = RemoveAt(due[t][r], 1)
      BY <2>1, <2>4 DEF TypeOK
    <3>2. CASE Len(due[t][r]) = 1
      <4>1. due'[t][r] = << >>
        BY <2>1, <3>1, <3>2, RemoveHead
      <4>2. r \in shown'[t]
        BY <1>3, <2>1, <2>2, <3>2 DEF TypeOK
      <4> QED
        BY <1>5, <4>1, <4>2 DEF WillShow
    <3>3. CASE Len(due[t][r]) # 1
      <4>1. due'[t][r] # << >> /\ due'[t][r][Len(due'[t][r])] = "show"
        BY <2>1, <2>2, <3>1, <3>3, RemoveHead
      <4> QED
        BY <1>5, <4>1 DEF WillShow
    <3> QED
      BY <3>2, <3>3
  <2> QED
    BY <1>3, <2>3, <2>4
<1> QED
  BY <1>4, <1>5

(* The replay ends with every recorded room on its way to the page.        *)
LEMMA SnapshotPages ==
  ASSUME TypeOK, RoomsShown, NEW t \in Tabs, Snapshot(t)
  PROVE  RoomsShown'
<1>1. UNCHANGED <<recorded, seats, wire, gone, shown, doubt>>
  BY DEF Snapshot, serverVars
<1>2. pc' = [pc EXCEPT ![t] = "on"] /\ t \notin gone
  BY DEF Snapshot
<1>3. \A u \in Tabs \ {t} : due'[u] = due[u] /\ pc'[u] = pc[u]
  BY <1>2 DEF Snapshot, TypeOK
<1> SUFFICES ASSUME NEW u \in Subscribed' \ doubt, NEW q \in recorded \cap seats \cap Followed,
                    pc'[u] = "on", wire[q] = << >>
             PROVE  WillShow(u, q)'
  BY <1>1 DEF RoomsShown
<1>4. u \in Tabs /\ q \in Rooms /\ u \notin gone
  BY <1>1 DEF Subscribed, TypeOK
<1>5. CASE u = t
  <2>1. due'[t][q] = Enqueue(due[t][q], "show")
    BY <1>4 DEF Snapshot, TypeOK
  <2>2. due[t][q] \in Seq(Frames) /\ "show" \in Frames
    BY <1>4 DEF TypeOK, Frames
  <2>3. PICK p : p = Enqueue(due[t][q], "show")
    OBVIOUS
  <2>4. p # << >> /\ p[Len(p)] = "show" /\ due'[t][q] = p
    BY <2>1, <2>2, <2>3, EnqueueFacts
  <2> QED
    BY <1>5, <2>4 DEF WillShow
<1>6. CASE u # t
  <2>1. WillShow(u, q)
    BY <1>3, <1>4, <1>6 DEF RoomsShown, Subscribed
  <2> QED
    BY <1>1, <1>3, <1>4, <1>6, <2>1 DEF WillShow
<1> QED
  BY <1>5, <1>6

LEMMA PagesStep ==
  ASSUME TypeOK, RecordsSound, RoomsShown, [Next]_vars
  PROVE  RoomsShown'
<1>1. ASSUME NEW t \in Tabs, Attach(t) PROVE RoomsShown'
  <2>1. /\ InOrder' \subseteq InOrder
        /\ \A u \in InOrder' : shown'[u] = shown[u] /\ due'[u] = due[u]
    BY <1>1 DEF Attach, InOrder, Subscribed, TypeOK
  <2> QED
    BY <1>1, <2>1, QuietPages DEF Attach, serverVars
<1>2. ASSUME NEW t \in Tabs, Snapshot(t) PROVE RoomsShown'
  BY <1>2, SnapshotPages
<1>3. ASSUME NEW t \in Tabs, TabCloses(t) PROVE RoomsShown'
  <2>1. /\ InOrder' \subseteq InOrder
        /\ \A u \in InOrder' : shown'[u] = shown[u] /\ due'[u] = due[u]
    BY <1>3 DEF TabCloses, DropDue, InOrder, Subscribed, TypeOK
  <2> QED
    BY <1>3, <2>1, QuietPages DEF TabCloses, serverVars
<1>4. ASSUME NEW t \in Tabs, HandlerEnds(t) PROVE RoomsShown'
  <2>1. /\ InOrder' \subseteq InOrder
        /\ \A u \in InOrder' : shown'[u] = shown[u] /\ due'[u] = due[u]
    BY <1>4 DEF HandlerEnds, DropDue, InOrder, Subscribed, TypeOK
  <2> QED
    BY <1>4, <2>1, QuietPages DEF HandlerEnds, serverVars
<1>5. ASSUME NEW t \in Tabs, NEW r \in Rooms, JoinRoom(t, r) PROVE RoomsShown'
  <2>1. ASSUME NEW q \in recorded' \cap seats', wire'[q] = << >>
        PROVE  q \in recorded \cap seats /\ wire[q] = << >>
    BY <1>5, <2>1, SettledAfterSend DEF JoinRoom, Ask, RecordsSound, TypeOK
  <2> QED
    BY <1>5, <2>1, StillPages DEF JoinRoom
<1>6. ASSUME NEW t \in Tabs, NEW r \in Rooms, LeaveRoom(t, r) PROVE RoomsShown'
  <2>1. ASSUME NEW q \in recorded' \cap seats', wire'[q] = << >>
        PROVE  q # r /\ q \in recorded \cap seats /\ wire[q] = << >>
    BY <1>6, <2>1 DEF LeaveRoom, Leave, Send, TypeOK
  <2>2. \A u \in Tabs, q \in Rooms : q # r /\ WillShow(u, q) => WillShow(u, q)'
    BY <1>6, BroadcastEffect DEF LeaveRoom, Frames
  <2>3. Subscribed' = Subscribed /\ doubt' = doubt /\ pc' = pc
    BY <1>6 DEF LeaveRoom, Broadcast, Subscribed, tabVars
  <2>4. Subscribed \subseteq Tabs /\ recorded \subseteq Rooms
    BY DEF Subscribed, TypeOK
  <2> QED
    BY <2>1, <2>2, <2>3, <2>4 DEF RoomsShown
<1>7. ASSUME NEW c \in Joiners, JoinTimesOut(c) \/ JoinTimesOutEarly(c) PROVE RoomsShown'
  BY <1>7, StillPages DEF JoinTimesOut, JoinTimesOutEarly, GivesUp
<1>8. ASSUME NEW c \in Joiners, JoinAnnounced(c) \/ JoinEnds(c) PROVE RoomsShown'
  <2>1. Broadcast("show", room[c]) /\ UNCHANGED <<recorded, seats, wire, tabVars>>
    BY <1>8 DEF JoinAnnounced, JoinEnds, serverVars
  <2>2. room[c] \in Rooms
    BY <1>8 DEF JoinAnnounced, JoinEnds, TypeOK
  <2> QED
    BY <2>1, <2>2, BroadcastPages
<1>9. ASSUME NEW s \in Loops, RejoinNext(s) PROVE RoomsShown'
  <2>1. PICK r \in NextRooms(s) : Ask(s, r)
    BY <1>9 DEF RejoinNext
  <2>2. r \in Rooms
    BY <2>1 DEF NextRooms, TypeOK
  <2>3. ASSUME NEW q \in recorded' \cap seats', wire'[q] = << >>
        PROVE  q \in recorded \cap seats /\ wire[q] = << >>
    BY <1>9, <2>1, <2>2, <2>3, SettledAfterSend DEF RejoinNext, Ask, RecordsSound, TypeOK
  <2> QED
    BY <1>9, <2>3, StillPages DEF RejoinNext
<1>10. ASSUME NEW s \in Loops, RejoinEnds(s) PROVE RoomsShown'
  BY <1>10, StillPages DEF RejoinEnds, serverVars
<1>11. CASE SessionUp
  <2>1. seats = {} /\ seats' = {}
    BY <1>11 DEF SessionUp, RecordsSound, NothingOffline
  <2> QED
    BY <2>1 DEF RoomsShown
<1>12. CASE SessionDown
  BY <1>12 DEF SessionDown, RoomsShown
<1>13. ASSUME NEW r \in Rooms, RoomEntered(r) PROVE RoomsShown'
  <2>1. ASSUME NEW q \in recorded' \cap seats', q # r, wire'[q] = << >>
        PROVE  q \in recorded \cap seats /\ wire[q] = << >>
    BY <1>13, <2>1 DEF RoomEntered, Answer, TypeOK
  <2>2. CASE r \in member
    BY <1>13, <2>1, <2>2, BroadcastPages DEF RoomEntered, SelfPresence
  <2>3. CASE r \notin member
    <3>1. r \notin recorded' /\ UNCHANGED <<pageVars, tabVars>>
      BY <1>13, <2>3 DEF RoomEntered, SelfPresence, RecordsSound, SeatsKnown
    <3> QED
      BY <2>1, <3>1, StillPages
  <2> QED
    BY <2>2, <2>3
<1>14. ASSUME NEW r \in Rooms, JoinRefused(r) PROVE RoomsShown'
  <2>1. ASSUME NEW q \in recorded' \cap seats', wire'[q] = << >>
        PROVE  q \in recorded \cap seats /\ wire[q] = << >>
    BY <1>14, <2>1 DEF JoinRefused, Answer, TypeOK
  <2> QED
    BY <1>14, <2>1, StillPages DEF JoinRefused
<1>15. ASSUME NEW r \in Rooms, RoomLeft(r) \/ RoomExpels(r) PROVE RoomsShown'
  <2>1. ASSUME NEW q \in recorded' \cap seats', wire'[q] = << >>
        PROVE  q \in recorded \cap seats /\ wire[q] = << >>
    BY <1>15, <2>1 DEF RoomLeft, RoomExpels, Answer, TypeOK
  <2>2. SelfPresence(r) /\ UNCHANGED tabVars
    BY <1>15 DEF RoomLeft, RoomExpels
  <2> QED
    BY <2>1, <2>2, BroadcastPages, StillPages DEF SelfPresence
<1>16. ASSUME NEW r \in Rooms, OccupantChanges(r) \/ OccupantsSent(r) \/ RoomMessage(r)
       PROVE  RoomsShown'
  BY <1>16, BroadcastPages DEF OccupantChanges, OccupantsSent, RoomMessage, serverVars
<1>17. ASSUME NEW t \in Tabs, NEW r \in Rooms, Shows(t, r) PROVE RoomsShown'
  BY <1>17, ShowsPages
<1>18. CASE UNCHANGED vars
  BY <1>18, StillPages DEF vars, serverVars
<1> QED
  BY <1>1, <1>2, <1>3, <1>4, <1>5, <1>6, <1>7, <1>8, <1>9, <1>10, <1>11, <1>12, <1>13,
     <1>14, <1>15, <1>16, <1>17, <1>18
  DEF Next, JoinStep, RejoinStep, ServerStep

-----------------------------------------------------------------------------
LEMMA InitRooms == Init => RoomsInv
BY InitTypes DEF Init, RoomsInv, NothingOffline, SeatsKnown, RoomsShown, WillSit

LEMMA RoomsInvHolds == Spec => []RoomsInv
<1>1. RoomsInv /\ [Next]_vars => RoomsInv'
  BY TypesStep, RecordsStep, PagesStep DEF RoomsInv, RecordsSound
<1> QED
  BY InitRooms, <1>1, PTL DEF Spec

(* SeatsKnown, for any number of tabs, rooms, sessions and faults: the     *)
(* client can leave every room the account recorded or the server has the  *)
(* session in.                                                             *)
THEOREM SeatsAreKnown == Spec => []SeatsKnown
BY RoomsInvHolds, PTL DEF RoomsInv

(* RoomsShown, for every instance: every attached page whose frames come   *)
(* in their order lists, or has on its way, every room that is recorded    *)
(* and entered, however long each tab keeps a broadcast (account.py:409).  *)
THEOREM EnteredRoomsAreShown == Spec => []RoomsShown
BY RoomsInvHolds, PTL DEF RoomsInv

-----------------------------------------------------------------------------
(* Recorded rooms on their way.                                            *)

(* An answer that is no refusal leaves us in, or on the way into, every    *)
(* room where we were.                                                     *)
LEMMA SitsOnAfterAnswer ==
  ASSUME TypeOK, NEW r \in Rooms, NEW stanza \in {"join", "leave"}, Answer(r, stanza),
         NEW q \in Rooms,
         stanza = "join" => r \in seats',
         q # r => (q \in seats' <=> q \in seats),
         WillSit(q)
  PROVE  WillSit(q)'
<1>1. wire[r] \in Seq({"join", "leave"}) /\ wire[r] # << >> /\ Head(wire[r]) = stanza
  BY DEF TypeOK, Answer
<1>2. CASE q # r
  <2>1. wire'[q] = wire[q]
    BY <1>2 DEF Answer, TypeOK
  <2> QED
    BY <1>2, <2>1 DEF WillSit
<1>3. CASE q = r /\ Tail(wire[r]) = << >>
  <2>1. Len(wire[r]) = 1 /\ wire[r][1] = stanza
    BY <1>1, <1>3, TailOfOne
  <2>2. wire'[r] = << >>
    BY <1>3 DEF Answer, TypeOK
  <2> QED
    BY <1>1, <1>3, <2>1, <2>2 DEF WillSit
<1>4. CASE q = r /\ Tail(wire[r]) # << >>
  <2>1. /\ Len(Tail(wire[r])) = Len(wire[r]) - 1
        /\ Len(Tail(wire[r])) > 0
        /\ Tail(wire[r])[Len(Tail(wire[r]))] = wire[r][Len(wire[r])]
    BY <1>1, <1>4
  <2>2. wire'[r] = Tail(wire[r])
    BY DEF Answer, TypeOK
  <2> QED
    BY <1>1, <1>4, <2>1, <2>2 DEF WillSit
<1> QED
  BY <1>2, <1>3, <1>4

(* After a join is sent over a stream we will sit in its room.             *)
LEMMA SitsAfterJoin ==
  ASSUME TypeOK, NEW r \in Rooms, wire' = [wire EXCEPT ![r] = Append(@, "join")],
         seats' = seats, NEW q \in Rooms, q = r \/ WillSit(q)
  PROVE  WillSit(q)'
<1>1. wire[r] \in Seq({"join", "leave"})
  BY DEF TypeOK
<1>2. CASE q = r
  <2>1. wire'[r] = Append(wire[r], "join")
    BY DEF TypeOK
  <2>2. wire'[r] # << >> /\ wire'[r][Len(wire'[r])] = "join"
    BY <1>1, <2>1
  <2> QED
    BY <1>2, <2>2 DEF WillSit
<1>3. CASE q # r
  BY <1>3 DEF WillSit, TypeOK
<1> QED
  BY <1>2, <1>3

OnItsWay(r) == WillSit(r) \/ \E s \in Loops : r \in todo[s]

LEMMA QuietWay ==
  ASSUME RoomsOnTheirWay,
         online' => online, faults' = 0 => faults = 0,
         recorded' \subseteq recorded,
         UNCHANGED todo,
         \A r \in recorded' : faults' = 0 /\ WillSit(r) => WillSit(r)'
  PROVE  RoomsOnTheirWay'
BY DEF RoomsOnTheirWay

LEMMA WayStep ==
  ASSUME RoomsInv, RoomsOnTheirWay, [Next]_vars
  PROVE  RoomsOnTheirWay'
<1> USE DEF RoomsInv
<1>0. recorded \subseteq Rooms /\ faults \in Nat
  BY BoundsAssumption DEF TypeOK
<1>1. ASSUME UNCHANGED <<recorded, seats, wire, online, todo>>, faults' = 0 => faults = 0
      PROVE  RoomsOnTheirWay'
  BY <1>1, QuietWay DEF WillSit
<1>2. ASSUME Fault PROVE RoomsOnTheirWay'
  BY <1>0, <1>2 DEF Fault, RoomsOnTheirWay
<1>3. ASSUME NEW t \in Tabs, \/ Attach(t) \/ Snapshot(t) \/ TabCloses(t) \/ HandlerEnds(t)
                             \/ \E r \in Rooms : Shows(t, r)
      PROVE  RoomsOnTheirWay'
  BY <1>1, <1>3 DEF Attach, Snapshot, Shows, TabCloses, HandlerEnds, serverVars, lineVars, joinVars
<1>4. ASSUME NEW c \in Joiners, JoinStep(c) PROVE RoomsOnTheirWay'
  BY <1>1, <1>4 DEF JoinStep, JoinTimesOut, GivesUp, JoinAnnounced, JoinEnds, serverVars, lineVars
<1>5. ASSUME NEW c \in Joiners, JoinTimesOutEarly(c) PROVE RoomsOnTheirWay'
  BY <1>2, <1>5 DEF JoinTimesOutEarly
<1>6. ASSUME NEW s \in Loops, RejoinEnds(s) PROVE RoomsOnTheirWay'
  BY <1>1, <1>6 DEF RejoinEnds, serverVars, lineVars
<1>7. ASSUME NEW r \in Rooms, OccupantChanges(r) \/ OccupantsSent(r) \/ RoomMessage(r)
      PROVE  RoomsOnTheirWay'
  BY <1>1, <1>7 DEF OccupantChanges, OccupantsSent, RoomMessage, serverVars, lineVars, joinVars
<1>8. ASSUME NEW t \in Tabs, NEW r \in Rooms, JoinRoom(t, r) PROVE RoomsOnTheirWay'
  <2> SUFFICES ASSUME online', faults' = 0, NEW q \in recorded'
               PROVE  OnItsWay(q)'
    BY DEF RoomsOnTheirWay, OnItsWay
  <2>1. /\ wire' = [wire EXCEPT ![r] = Append(@, "join")]
        /\ UNCHANGED <<seats, todo, faults, online>>
    BY <1>8 DEF JoinRoom, Ask, Send, lineVars
  <2>2. q = r \/ q \in recorded
    BY <1>8 DEF JoinRoom
  <2>3. q \in Rooms
    BY <1>0, <2>2
  <2> QED
    BY <2>1, <2>2, <2>3, SitsAfterJoin DEF RoomsOnTheirWay, OnItsWay
<1>9. ASSUME NEW t \in Tabs, NEW r \in Rooms, LeaveRoom(t, r) PROVE RoomsOnTheirWay'
  <2>1. recorded' = recorded \ {r} /\ UNCHANGED <<seats, faults, online, todo>>
    BY <1>9 DEF LeaveRoom, lineVars, joinVars
  <2>2. \A q \in Rooms \ {r} : wire'[q] = wire[q]
    BY <1>9 DEF LeaveRoom, Leave, Send, TypeOK
  <2> QED
    BY <1>0, <2>1, <2>2, QuietWay DEF WillSit
<1>10. ASSUME NEW s \in Loops, RejoinNext(s) PROVE RoomsOnTheirWay'
  <2>1. PICK r \in todo[s] : /\ Ask(s, r)
                             /\ todo' = [todo EXCEPT ![s] = @ \ {r}]
                             /\ UNCHANGED <<recorded, seats, faults, online>>
    BY <1>10 DEF RejoinNext, NextRooms, Remaining, lineVars
  <2> SUFFICES ASSUME online', faults' = 0, NEW q \in recorded'
               PROVE  OnItsWay(q)'
    BY DEF RoomsOnTheirWay, OnItsWay
  <2>2. r \in Rooms /\ q \in Rooms
    BY <1>0, <2>1 DEF TypeOK
  <2>3. wire' = [wire EXCEPT ![r] = Append(@, "join")]
    BY <2>1 DEF Ask, Send
  <2>4. CASE q = r \/ WillSit(q)
    BY <2>1, <2>2, <2>3, <2>4, SitsAfterJoin DEF OnItsWay
  <2>5. CASE q # r /\ ~WillSit(q)
    <3>1. PICK l \in Loops : q \in todo[l]
      BY <2>1, <2>5 DEF RoomsOnTheirWay
    <3>2. q \in todo'[l]
      BY <2>1, <2>5, <3>1 DEF TypeOK
    <3> QED
      BY <3>1, <3>2 DEF OnItsWay
  <2> QED
    BY <2>4, <2>5
<1>11. CASE SessionUp
  <2>1. UNCHANGED <<recorded, seats>>
    BY <1>11 DEF SessionUp
  <2>2. CASE RoomsToRejoin = {}
    BY <2>1, <2>2 DEF RoomsToRejoin, RoomsOnTheirWay
  <2>3. ASSUME NEW r \in recorded,
               wire' = [wire EXCEPT ![r] = Append(@, "join")],
               todo' = [todo EXCEPT ![sessions + 1] = recorded \ {r}]
        PROVE  RoomsOnTheirWay'
    <3> SUFFICES ASSUME NEW q \in recorded PROVE OnItsWay(q)'
      BY <2>1 DEF RoomsOnTheirWay, OnItsWay
    <3>1. sessions + 1 \in Loops
      BY <1>11, BoundsAssumption DEF SessionUp, Loops, TypeOK
    <3>2. CASE q = r
      BY <1>0, <2>1, <2>3, <3>2, SitsAfterJoin DEF OnItsWay
    <3>3. CASE q # r
      <4>1. q \in todo'[sessions + 1]
        BY <2>3, <3>1, <3>3 DEF TypeOK
      <4> QED
        BY <3>1, <4>1 DEF OnItsWay
    <3> QED
      BY <3>2, <3>3
  <2> QED
    BY <1>11, <2>2, <2>3 DEF SessionUp, RoomsToRejoin
<1>12. CASE SessionDown
  BY <1>12 DEF SessionDown, RoomsOnTheirWay
<1>13. ASSUME NEW r \in Rooms, RoomEntered(r) PROVE RoomsOnTheirWay'
  <2>1. /\ Answer(r, "join") /\ seats' = seats \cup {r}
        /\ UNCHANGED <<recorded, faults, online, todo>>
    BY <1>13 DEF RoomEntered, lineVars
  <2>2. \A q \in recorded : WillSit(q) => WillSit(q)'
    BY <1>0, <2>1, SitsOnAfterAnswer
  <2> QED
    BY <2>1, <2>2, QuietWay
<1>14. ASSUME NEW r \in Rooms, RoomLeft(r) PROVE RoomsOnTheirWay'
  <2>1. /\ Answer(r, "leave") /\ seats' = seats \ {r}
        /\ UNCHANGED <<recorded, faults, online, todo>>
    BY <1>14 DEF RoomLeft, lineVars, joinVars
  <2>2. \A q \in recorded : WillSit(q) => WillSit(q)'
    BY <1>0, <2>1, SitsOnAfterAnswer
  <2> QED
    BY <2>1, <2>2, QuietWay
<1>15. ASSUME NEW r \in Rooms, JoinRefused(r) \/ RoomExpels(r) PROVE RoomsOnTheirWay'
  BY <1>2, <1>15 DEF JoinRefused, RoomExpels
<1>16. CASE UNCHANGED vars
  BY <1>1, <1>16 DEF vars, serverVars, lineVars, joinVars
<1> QED
  BY <1>3, <1>4, <1>5, <1>6, <1>7, <1>8, <1>9, <1>10, <1>11, <1>12, <1>13, <1>14, <1>15, <1>16
  DEF Next, RejoinStep, ServerStep

(* RoomsOnTheirWay, for every instance: without faults each recorded room  *)
(* is entered, asked for or on the list of a re-join loop, however many    *)
(* sessions, loops and tabs work on it (account.py:135-139).               *)
THEOREM NoRoomIsForgotten == Spec => []RoomsOnTheirWay
<1>1. Init => RoomsOnTheirWay
  BY DEF Init, RoomsOnTheirWay
<1>2. RoomsInv /\ RoomsOnTheirWay /\ [Next]_vars => RoomsOnTheirWay'
  BY WayStep
<1> QED
  BY <1>1, <1>2, RoomsInvHolds, PTL DEF Spec

=============================================================================
