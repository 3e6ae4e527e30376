--------------------------------- MODULE Rooms ---------------------------------
(***************************************************************************)
(* Multi-user chat rooms of one open account: the room commands of its     *)
(* tabs and the re-join after a reconnect (session/account.py), join,      *)
(* leave and room stanzas of the client (xmpp/slixmpp_client.py), and the  *)
(* rooms each browser page lists (static/js/app.js).                       *)
(*                                                                         *)
(* A join waits up to 20 seconds for the room's answer; in that time other *)
(* tabs, other joins, a lost stream and the next session run.  A broadcast *)
(* sends to one tab after the other and may be held up at each; its frame  *)
(* is due at a page until it gets there, at each page in a step of its     *)
(* own.  The coroutine that broadcasts may go on at any time, even before  *)
(* the last page has the frame: that allows more than the code does.  Only *)
(* rooms on an allowed domain occur, always with the default nick; what an *)
(* occupant list contains is left out.  The server answers the stanzas for *)
(* a room in the order in which they were sent, and loses those of a       *)
(* stream that is lost.                                                    *)
(***************************************************************************)
EXTENDS Naturals, FiniteSets, SequencesExt

CONSTANTS
  Tabs,         \* browser tabs of the account
  Rooms,        \* rooms on the domains of muc.discovery_servers
  Followed,     \* those whose conversations on the pages are modelled
  None,         \* no room
  MaxSessions,  \* bound on the sessions of the client
  MaxWire,      \* bound on commands for a room that are still unanswered
  MaxNotices,   \* bound on occupant notices that are out at the same time
  MaxDue,       \* bound on the frames a page still has to get for a room
                \* somebody leaves, before it is told of that
  MaxFaults     \* bound on refused joins, slow answers and removals

ASSUME FollowedAssumption == Followed \subseteq Rooms
ASSUME NoneAssumption   == None \notin Rooms
ASSUME BoundsAssumption == {MaxSessions, MaxWire, MaxNotices, MaxDue, MaxFaults}
                             \subseteq Nat
ASSUME TabsAssumption   == Tabs \cap Nat = {}

VARIABLES
  recorded,    \* Account._joined_rooms
  member,      \* SlixmppClient._joined_rooms
  seats,       \* rooms the server has this session in (external)
  wire,        \* stanzas for a room the server did not answer yet (external)
  online,      \* the client has a session
  sessions,    \* number of sessions so far
  pc,          \* where the handle_ws coroutine of a tab is
  gone,        \* tabs whose browser end is closed, the handler still running
  shown,       \* rooms among the conversations of a tab's page
  due,         \* frames about a room broadcast or replayed, not yet at a page
  doubt,       \* pages whose frames may be out of order (history variable)
  stage,       \* where a coroutine is in SlixmppClient.join_room
  room,        \* its argument
  todo,        \* what the loop of _on_event(Connected) still has to join
  refreshing,  \* rooms whose occupants are sent once a notice is out
  faults       \* faults used so far

serverVars == <<seats, wire, faults>>
lineVars   == <<online, sessions>>
tabVars    == <<pc, gone>>
joinVars   == <<stage, room, todo>>
pageVars   == <<shown, due, doubt>>
vars == <<recorded, member, serverVars, lineVars, tabVars, pageVars, joinVars, refreshing>>

Loops    == 1..MaxSessions     \* the re-join loop that session s started
Joiners  == Tabs \cup Loops
Stages   == {"idle", "joining", "entered", "announced", "done", "failed"}
TabStates == {"off", "attaching", "on"}
Frames   == {"show", "left"}   \* muc_left, and the frames that open a room

-----------------------------------------------------------------------------
(* Helper predicates and parts of steps.                                   *)

Subscribed == {t \in Tabs : pc[t] # "off" /\ t \notin gone}
Waiting(r) == {c \in Joiners : stage[c] = "joining" /\ room[c] = r}

(* A frame is on its way behind those a page still has to get.  One entry  *)
(* stands for any number of equal frames in a row.                         *)
Enqueue(q, f) == IF q # << >> /\ q[Len(q)] = f THEN q ELSE Append(q, f)

(* _broadcast begins: the frame goes to a copy of the subscribers.  "show" *)
(* is any frame for which the page opens a conversation for a room that it *)
(* does not list (getConvo), "left" is muc_left, which deletes it.         *)
Broadcast(f, r) ==
  /\ due' = [t \in Tabs |-> [q \in Rooms |->
       IF t \in Subscribed /\ q = r /\ r \in Followed
         THEN Enqueue(due[t][q], f)
         ELSE due[t][q]]]
  /\ UNCHANGED <<shown, doubt>>

NothingDue == \A t \in Tabs, r \in Rooms : due[t][r] = << >>

(* The frames for t that did not get there are dropped.                    *)
DropDue(t) == due' = [due EXCEPT ![t] = [r \in Rooms |-> << >>]]

(* The frames for a page come in the order in which they were broadcast,   *)
(* unless the set of subscribers changed under a broadcast: its copy may   *)
(* have another order than the copies made from then on, or hang at a tab  *)
(* that those do not contain.                                              *)
NextFrames(t, r) == IF t \in doubt THEN DOMAIN due[t][r] ELSE {1}

(* A stanza for r; without a stream it is lost.                            *)
Send(r, stanza) ==
  wire' = IF online THEN [wire EXCEPT ![r] = Append(@, stanza)] ELSE wire

(* SlixmppClient.join_room up to its wait.                                 *)
Ask(c, r) ==
  /\ member' = member \cup {r}
  /\ Send(r, "join")
  /\ stage' = [stage EXCEPT ![c] = "joining"]
  /\ room' = [room EXCEPT ![c] = r]

(* Mutant: leave_room forgets the room and sends nothing.                  *)
LeaveSilently(r) ==
  /\ member' = member \ {r}
  /\ UNCHANGED wire

(* SlixmppClient.leave_room.                                               *)
Leave(r) ==
  /\ member' = member \ {r}
  /\ IF r \in member THEN Send(r, "leave") ELSE UNCHANGED wire

(* Mutant: rooms the client believes to be in are not joined again.        *)
OnlyUnknownRooms == recorded \ member

(* list(self._joined_rooms.items()) of _on_event(Connected).               *)
RoomsToRejoin == recorded

(* Mutant: the handler returns for our own presence.                       *)
IgnoreSelfPresence(r) == UNCHANGED pageVars

(* _on_groupchat_presence for our own nick: no notice, but the occupants.  *)
SelfPresence(r) == IF r \in member THEN Broadcast("show", r) ELSE UNCHANGED pageVars

Fault == faults < MaxFaults /\ faults' = faults + 1

-----------------------------------------------------------------------------
Init ==
  /\ recorded = {}
  /\ member = {}
  /\ seats = {}
  /\ wire = [r \in Rooms |-> << >>]
  /\ online = FALSE
  /\ sessions = 0
  /\ pc = [t \in Tabs |-> "off"]
  /\ gone = {}
  /\ shown = [t \in Tabs |-> {}]
  /\ due = [t \in Tabs |-> [r \in Rooms |-> << >>]]
  /\ doubt = {}
  /\ stage = [c \in Joiners |-> "idle"]
  /\ room = [c \in Joiners |-> None]
  /\ todo = [s \in Loops |-> {}]
  /\ refreshing = {}
  /\ faults = 0

-----------------------------------------------------------------------------
(* Tabs.                                                                   *)

(* A new page, or one whose socket was cut and that kept its               *)
(* conversations, is subscribed; the replay comes later, and whatever it   *)
(* missed is made good by it.                                              *)
Attach(t) ==
  /\ pc[t] = "off"
  /\ pc' = [pc EXCEPT ![t] = "attaching"]
  /\ shown' \in {shown, [shown EXCEPT ![t] = {}]}
  /\ doubt' = IF NothingDue THEN doubt \ {t} ELSE Tabs
  /\ UNCHANGED <<recorded, member, serverVars, lineVars, gone, due, joinVars, refreshing>>

(* The rooms of _send_snapshot, behind what was broadcast before.          *)
Snapshot(t) ==
  /\ pc[t] = "attaching"
  /\ t \notin gone
  /\ due' = [due EXCEPT ![t] =
       [r \in Rooms |->
          IF r \in recorded \cap Followed THEN Enqueue(due[t][r], "show") ELSE due[t][r]]]
  /\ pc' = [pc EXCEPT ![t] = "on"]
  /\ UNCHANGED <<recorded, member, serverVars, lineVars, gone, shown, doubt, joinVars, refreshing>>

(* A frame about r arrives at the page, which handles it (handleFrame).    *)
Shows(t, r) ==
  /\ due[t][r] # << >>
  /\ \E i \in NextFrames(t, r) :
       /\ shown' = [shown EXCEPT ![t] =
            IF due[t][r][i] = "show" THEN @ \cup {r} ELSE @ \ {r}]
       /\ \/ due' = [due EXCEPT ![t][r] = RemoveAt(@, i)]
          \/ UNCHANGED due
  /\ UNCHANGED <<recorded, member, serverVars, lineVars, tabVars, doubt, joinVars, refreshing>>

(* The browser, or the network, closes the socket.                         *)
TabCloses(t) ==
  /\ t \in Subscribed
  /\ gone' = gone \cup {t}
  /\ DropDue(t)
  /\ UNCHANGED <<recorded, member, serverVars, lineVars, pc, shown, doubt, joinVars, refreshing>>

(* The handler of a closed tab ends once its command is done, and that of  *)
(* a tab whose join failed ends at once: only a ProtocolError is caught    *)
(* inside the receive loop.                                                *)
HandlerEnds(t) ==
  /\ pc[t] # "off"
  /\ \/ t \in gone /\ stage[t] = "idle"
     \/ stage[t] = "failed"
  /\ pc' = [pc EXCEPT ![t] = "off"]
  /\ gone' = gone \ {t}
  /\ stage' = [stage EXCEPT ![t] = "idle"]
  /\ room' = [room EXCEPT ![t] = None]
  /\ DropDue(t)
  /\ doubt' = IF NothingDue THEN doubt ELSE Tabs
  /\ UNCHANGED <<recorded, member, serverVars, lineVars, shown, todo, refreshing>>

(* A tab's handler takes its next command. *)
Serves(t, r) ==
  /\ pc[t] = "on"
  /\ t \notin gone
  /\ stage[t] = "idle"
  /\ Len(wire[r]) < MaxWire

(* _cmd_join_room up to the wait: recorded before it is known to succeed.  *)
JoinRoom(t, r) ==
  /\ Serves(t, r)
  /\ recorded' = recorded \cup {r}
  /\ Ask(t, r)
  /\ UNCHANGED <<seats, faults, lineVars, tabVars, pageVars, todo, refreshing>>

(* _cmd_leave_room.                                                        *)
LeaveRoom(t, r) ==
  /\ Serves(t, r)
  /\ \A u \in Tabs : Len(due[u][r]) <= MaxDue
  /\ recorded' = recorded \ {r}
  /\ Leave(r)
  /\ Broadcast("left", r)
  /\ UNCHANGED <<seats, faults, lineVars, tabVars, joinVars, refreshing>>

-----------------------------------------------------------------------------
(* Coroutines in join_room: handlers of tabs, and re-join loops.           *)

(* join_muc_wait gives up after 20 seconds. *)
GivesUp(c) ==
  /\ stage[c] = "joining"
  /\ stage' = [stage EXCEPT ![c] = "failed"]
  /\ UNCHANGED <<recorded, member, seats, wire, lineVars, tabVars, pageVars, room, todo, refreshing>>

Unanswered(c) == \E i \in DOMAIN wire[room[c]] : wire[room[c]][i] = "join"

(* Nothing is under way that could still answer. *)
JoinTimesOut(c) == GivesUp(c) /\ ~Unanswered(c) /\ UNCHANGED faults

(* The answer is late. *)
JoinTimesOutEarly(c) == GivesUp(c) /\ Unanswered(c) /\ Fault

(* MucJoined, whether or not the room was left while the answer came in.   *)
JoinAnnounced(c) ==
  /\ stage[c] = "entered"
  /\ stage' = [stage EXCEPT ![c] = "announced"]
  /\ Broadcast("show", room[c])
  /\ UNCHANGED <<recorded, member, serverVars, lineVars, tabVars, room, todo, refreshing>>

(* join_room ends with _emit_occupants.                                    *)
JoinEnds(c) ==
  /\ stage[c] = "announced"
  /\ Broadcast("show", room[c])
  /\ stage' = [stage EXCEPT ![c] = IF c \in Tabs THEN "idle" ELSE "done"]
  /\ room' = [room EXCEPT ![c] = IF c \in Tabs THEN None ELSE @]
  /\ UNCHANGED <<recorded, member, serverVars, lineVars, tabVars, todo, refreshing>>

(* Mutant: the loop never gets past a room.                                *)
SameAgain(s, r) == todo[s]

(* What the loop has left after r. *)
Remaining(s, r) == todo[s] \ {r}

(* Mutant: a failed join ends the loop.                                    *)
NextRoomsAfterSuccess(s) == IF stage[s] = "failed" THEN {} ELSE todo[s]

(* The loop goes on with the rest of its copy, since it swallows what a    *)
(* join raises.                                                            *)
NextRooms(s) == todo[s]

RejoinNext(s) ==
  /\ stage[s] \in {"done", "failed"}
  /\ \E r \in NextRooms(s) :
       /\ Ask(s, r)
       /\ todo' = [todo EXCEPT ![s] = Remaining(s, r)]
  /\ UNCHANGED <<recorded, seats, faults, lineVars, tabVars, pageVars, refreshing>>

RejoinEnds(s) ==
  /\ stage[s] \in {"done", "failed"}
  /\ NextRooms(s) = {}
  /\ stage' = [stage EXCEPT ![s] = "idle"]
  /\ room' = [room EXCEPT ![s] = None]
  /\ UNCHANGED <<recorded, member, serverVars, lineVars, tabVars, pageVars, todo, refreshing>>

-----------------------------------------------------------------------------
(* The connection.                                                         *)

(* Connected: the loop over a copy of _joined_rooms begins with its first  *)
(* room at once.                                                           *)
SessionUp ==
  /\ ~online
  /\ sessions < MaxSessions
  /\ online' = TRUE
  /\ sessions' = sessions + 1
  /\ \/ /\ RoomsToRejoin = {}
        /\ UNCHANGED <<member, wire, joinVars>>
     \/ \E r \in RoomsToRejoin :
          /\ member' = member \cup {r}
          /\ wire' = [wire EXCEPT ![r] = Append(@, "join")]
          /\ stage' = [stage EXCEPT ![sessions + 1] = "joining"]
          /\ room' = [room EXCEPT ![sessions + 1] = r]
          /\ todo' = [todo EXCEPT ![sessions + 1] = RoomsToRejoin \ {r}]
  /\ UNCHANGED <<recorded, seats, faults, tabVars, pageVars, refreshing>>

(* The stream is lost; neither record of rooms changes.                    *)
SessionDown ==
  /\ online
  /\ online' = FALSE
  /\ seats' = {}
  /\ wire' = [r \in Rooms |-> << >>]
  /\ UNCHANGED <<recorded, member, sessions, faults, tabVars, pageVars, joinVars, refreshing>>

-----------------------------------------------------------------------------
(* The server, and the handlers of what it sends.                          *)

Answer(r, stanza) ==
  /\ wire[r] # << >> /\ Head(wire[r]) = stanza
  /\ wire' = [wire EXCEPT ![r] = Tail(@)]

(* The waits for r end one way or the other.                               *)
Resolve(r, outcome) ==
  stage' = [c \in Joiners |-> IF c \in Waiting(r) THEN outcome ELSE stage[c]]

(* We are in: our own presence comes back.                                 *)
RoomEntered(r) ==
  /\ Answer(r, "join")
  /\ seats' = seats \cup {r}
  /\ Resolve(r, "entered")
  /\ SelfPresence(r)
  /\ UNCHANGED <<recorded, member, faults, lineVars, tabVars, room, todo, refreshing>>

(* A presence error.  Who is in the room already is not refused.           *)
JoinRefused(r) ==
  /\ Answer(r, "join")
  /\ r \notin seats
  /\ Fault
  /\ Resolve(r, "failed")
  /\ UNCHANGED <<recorded, member, seats, lineVars, tabVars, pageVars, room, todo, refreshing>>

(* Our own unavailable presence; the room may have been joined again.      *)
RoomLeft(r) ==
  /\ Answer(r, "leave")
  /\ seats' = seats \ {r}
  /\ SelfPresence(r)
  /\ UNCHANGED <<recorded, member, faults, lineVars, tabVars, joinVars, refreshing>>

(* The room puts us out: the same presence, unasked.                       *)
RoomExpels(r) ==
  /\ r \in seats
  /\ Fault
  /\ seats' = seats \ {r}
  /\ SelfPresence(r)
  /\ UNCHANGED <<recorded, member, wire, lineVars, tabVars, joinVars, refreshing>>

(* Somebody else comes or goes: a notice now, the occupants after it.      *)
OccupantChanges(r) ==
  /\ r \in seats
  /\ r \in member
  /\ Cardinality(refreshing) < MaxNotices
  /\ Broadcast("show", r)
  /\ refreshing' = refreshing \cup {r}
  /\ UNCHANGED <<recorded, member, serverVars, lineVars, tabVars, joinVars>>

(* The second half of that handler does not look at the membership again.  *)
OccupantsSent(r) ==
  /\ r \in refreshing
  /\ Broadcast("show", r)
  /\ refreshing' = refreshing \ {r}
  /\ UNCHANGED <<recorded, member, serverVars, lineVars, tabVars, joinVars>>

(* _on_groupchat_message does not look at the membership at all.           *)
RoomMessage(r) ==
  /\ r \in seats
  /\ Broadcast("show", r)
  /\ UNCHANGED <<recorded, member, serverVars, lineVars, tabVars, joinVars, refreshing>>

-----------------------------------------------------------------------------
JoinStep(c) == JoinTimesOut(c) \/ JoinAnnounced(c) \/ JoinEnds(c)
RejoinStep(s) == RejoinNext(s) \/ RejoinEnds(s)
ServerStep(r) == RoomEntered(r) \/ RoomLeft(r)

Next ==
  \/ \E t \in Tabs : \/ Attach(t) \/ Snapshot(t) \/ TabCloses(t) \/ HandlerEnds(t)
                     \/ \E r \in Rooms : \/ Shows(t, r)
                                        \/ JoinRoom(t, r) \/ LeaveRoom(t, r)
  \/ \E c \in Joiners : JoinStep(c) \/ JoinTimesOutEarly(c)
  \/ \E s \in Loops : RejoinStep(s)
  \/ \E r \in Rooms : \/ ServerStep(r) \/ JoinRefused(r) \/ RoomExpels(r)
                      \/ OccupantChanges(r) \/ OccupantsSent(r) \/ RoomMessage(r)
  \/ SessionUp
  \/ SessionDown

Spec == Init /\ [][Next]_vars

(* Coroutines that can run on do so, waits time out, and the server        *)
(* answers in the end.  Users, other occupants and faults need not act.    *)
Fairness ==
  /\ \A t \in Tabs : WF_vars(HandlerEnds(t))
  /\ \A c \in Joiners : WF_vars(JoinStep(c))
  /\ \A s \in Loops : WF_vars(RejoinStep(s))
  /\ \A r \in Rooms : WF_vars(ServerStep(r))

FairSpec == Spec /\ Fairness

-----------------------------------------------------------------------------
(* Properties.                                                             *)

(* Every variable has its type, and a coroutine outside join_room has no   *)
(* room in hand: in particular a re-join loop ends only when it is through *)
(* with its list, whatever a join raises (account.py:138).                 *)
TypeOK ==
  /\ recorded \in SUBSET Rooms
  /\ member \in SUBSET Rooms
  /\ seats \in SUBSET Rooms
  /\ wire \in [Rooms -> Seq({"join", "leave"})]
  /\ online \in BOOLEAN
  /\ sessions \in 0..MaxSessions
  /\ pc \in [Tabs -> TabStates]
  /\ gone \in SUBSET Tabs
  /\ shown \in [Tabs -> SUBSET Rooms]
  /\ due \in [Tabs -> [Rooms -> Seq(Frames)]]
  /\ doubt \in SUBSET Tabs
  /\ stage \in [Joiners -> Stages]
  /\ room \in [Joiners -> Rooms \cup {None}]
  /\ todo \in [Loops -> SUBSET Rooms]
  /\ refreshing \in SUBSET Rooms
  /\ faults \in 0..MaxFaults
  /\ \A c \in Joiners : stage[c] = "idle" <=> room[c] = None
  /\ \A s \in Loops : stage[s] = "idle" => todo[s] = {}

(* Whether the session is in r once the server has answered everything,    *)
(* if nothing fails.                                                       *)
WillSit(r) == IF wire[r] = << >> THEN r \in seats ELSE wire[r][Len(wire[r])] = "join"

(* The client knows of every room the account recorded and of every room   *)
(* the server has us in or will have us in: no room is left behind with    *)
(* nobody to leave it, however joins, leaves and sessions overlap.         *)
SeatsKnown ==
  /\ recorded \subseteq member
  /\ \A r \in Rooms : WillSit(r) => r \in member

(* Whether the page of t lists r once it has every frame due to it, if     *)
(* these come in their order.                                              *)
WillShow(t, r) ==
  IF due[t][r] = << >> THEN r \in shown[t] ELSE due[t][r][Len(due[t][r])] = "show"

(* Every attached page lists every recorded room we are in, as soon as no  *)
(* join or leave of it is unanswered and the page has the frames that were *)
(* broadcast: the tab that asked, the others, however far behind, and one  *)
(* that attached meanwhile and got the replay before or after.  A page in  *)
(* doubt is excepted until its next replay: a muc_left that hangs at       *)
(* another tab may reach it behind a later muc_joined (account.py:409).    *)
RoomsShown ==
  \A t \in Subscribed \ doubt : \A r \in recorded \cap seats \cap Followed :
    pc[t] = "on" /\ wire[r] = << >> => WillShow(t, r)

(* No recorded room is forgotten while there is a session: unless a fault  *)
(* interferes we are in it for good, a join of it is under way, or a       *)
(* re-join loop has it on its list, whichever session started that one,    *)
(* and whatever the tabs join and leave meanwhile (account.py:135-139).    *)
RoomsOnTheirWay ==
  online /\ faults = 0 =>
    \A r \in recorded : WillSit(r) \/ \E s \in Loops : r \in todo[s]

(* A handler in join_room gets out of it, and a re-join loop through its   *)
(* list: neither waits for an answer that was lost with its stream.        *)
JoinsEnd == \A c \in Joiners : stage[c] # "idle" ~> stage[c] = "idle"

(* A recorded room is entered again in every session, unless it is left,   *)
(* the session ends or a fault interferes (a failed join is not repeated). *)
RoomsComeBack ==
  \A r \in Rooms : online /\ r \in recorded
                     ~> r \in seats \/ r \notin recorded \/ ~online \/ faults > 0

-----------------------------------------------------------------------------
(* Claims of the repository that the code does not keep.                   *)

(* The session is in no room, and on its way into none, that the account   *)
(* does not have in the state it replays to a late tab.                    *)
ReplayCoversRooms == member \subseteq recorded

(* A failing command does not end the handler of an open tab.              *)
SocketSurvivesErrors ==
  [][\A t \in Tabs : pc[t] = "on" /\ pc'[t] = "off" => t \in gone]_vars

=============================================================================
