------------------------------ MODULE Conversation ------------------------------
(***************************************************************************)
(* One 1:1 conversation of one account: the handshake of its tabs and      *)
(* their frames (web/ws.py, module Identity), messages and history between *)
(* account, client and chat server (session/account.py,                    *)
(* xmpp/slixmpp_client.py), and the conversation in each page              *)
(* (static/js/app.js).                                                     *)
(*                                                                         *)
(* Messages and history queries share one stream, which keeps their order. *)
(* A broadcast reaches each tab at a time of its own (module Presence shows*)
(* in which order); the answer to a query goes to its tab directly.  A page*)
(* handles a frame when it is written: one that it reads later looks like a*)
(* click that was made earlier.                                            *)
(*                                                                         *)
(* Messages are numbers, and a page has a set of them: author, text, time  *)
(* and order are left out, and that a message is there twice, live and from*)
(* the archive.  The account stays open and no contact is removed.  What is*)
(* sent without a session is lost or waits for the next one, as the library*)
(* likes; what the server keeps for a client that is away is left out.     *)
(* The peer is a valid JID and a body is a text, as in every frame the page*)
(* sends about a conversation (app.js:523, 548).  With others the library  *)
(* raises something that is no ProtocolError, in send_message              *)
(* (slixmpp_client.py:176), fetch_history (300) or already in the test of  *)
(* the length (account.py:237), and the handler ends (ws.py:87): here such *)
(* frames are left out, AccountSession has them as CommandRaises.          *)
(***************************************************************************)
EXTENDS Identity, FiniteSets

CONSTANTS
  Me,          \* the bare JID of the account
  Tabs,        \* browser tabs
  Requests,    \* handshakes that occur
  PageSize,    \* history.page_size
  None,        \* no request, no message
  Warning,     \* a warning among the messages of a page
  MaxMessages, \* bound on messages
  MaxFrames,   \* bound on frames from tabs
  MaxSessions, \* bound on sessions of the client
  MaxFaults    \* bound on failed queries, bounced messages and pages that go

ASSUME NamesAssumption  == None \notin Requests \cup Nat /\ Warning \notin Nat /\ Me # ""
ASSUME PageAssumption   == PageSize \in Nat \ {0}
ASSUME BoundsAssumption == {MaxMessages, MaxFrames, MaxSessions, MaxFaults} \subseteq Nat

VARIABLES
  request,  \* the handshake of a tab that was let in
  pc,       \* its handler: off, on, or on without a browser (gone)
  inbox,    \* frames it has not received yet
  asking,   \* the query its handler waits for, or None
  pending,  \* messages whose broadcast has not reached the tab
  page,     \* the conversation in the page
  online,   \* the client has a session
  toServer, \* stanzas the server has not handled
  toClient, \* stanzas the client has not handled
  archive,  \* the server's archive of the conversation (external)
  messages, \* number of messages so far
  frames,   \* number of frames from tabs so far
  queries,  \* number of queries so far
  sessions, \* sessions so far
  faults,   \* faults so far
  whole,    \* pages that missed no time since they were new (history variable)
  failed    \* pages that had a query fail (history variable)

tabVars    == <<request, pc, inbox, asking>>
wireVars   == <<online, toServer, toClient, archive>>
boundVars  == <<messages, frames, queries, sessions, faults>>
historyVars == <<whole, failed>>
vars == <<tabVars, pending, page, wireVars, boundVars, historyVars>>

Ids      == 1..MaxMessages
Items    == Ids \cup {Warning}
Archived == [id : Ids, body : BOOLEAN]
NewPage  == [opened |-> FALSE, shown |-> {}, oldest |-> None, complete |-> FALSE]

(* Frames: load_history before a message, send_message with a text that    *)
(* will be message m, or is too long (None), and a malformed one.          *)
LoadHistory(b) == [type |-> "load_history", given |-> {"jid"}, id |-> b]
SendMessage(m) == [type |-> "send_message", given |-> {"to", "body"}, id |-> m]
BadFrame       == [type |-> "send_message", given |-> {"to"}, id |-> None]
ClientFrames   == {LoadHistory(m) : m \in Ids \cup {None}} \cup
                  {SendMessage(m) : m \in Ids \cup {None}} \cup {BadFrame}

(* Stanzas. *)
Message(m, b)  == [kind |-> "message", id |-> m, body |-> b]
Bounce         == [kind |-> "error"]
Query(n, b)    == [kind |-> "query", number |-> n, before |-> b]
Result(n, r)   == [kind |-> "result", number |-> n, items |-> r.items, fin |-> r.fin]

Bodies(s) == {s[i].id : i \in {j \in DOMAIN s : s[j].body}}
Position(s, m) == CHOOSE i \in DOMAIN s : s[i].id = m

-----------------------------------------------------------------------------
(* The page.                                                               *)

(* handleFrame "message", and "error" with a conversation: a warning needs *)
(* one that exists, otherwise it is an alert.                              *)
Exists(p)      == p.opened \/ p.shown # {}
ShowItem(p, i) == IF i = Warning /\ ~Exists(p) THEN p ELSE [p EXCEPT !.shown = @ \cup {i}]

(* handleFrame "history".                                                  *)
ShowHistory(p, ids, first, complete) ==
  [p EXCEPT !.complete = complete, !.shown = @ \cup ids, !.oldest = IF ids = {} THEN @ ELSE first]

-----------------------------------------------------------------------------
(* History.                                                                *)

(* The newest limit items before b, and whether there are no older ones.   *)
ArchivePage(b, limit) ==
  LET last  == IF b = None THEN Len(archive) ELSE Position(archive, b) - 1
      first == IF last > limit THEN last - limit + 1 ELSE 1
  IN  [items |-> SubSeq(archive, first, last), fin |-> first = 1]

(* Mutant: only the server says that a page is the last one. *)
CompleteByServer(r) == r.fin

(* Mutant: a full page is taken for the last one. *)
CompleteIfFull(r) == r.fin \/ Cardinality(Bodies(r.items)) <= PageSize

(* A page is the last one also when it is short, messages without a body   *)
(* not counted.                                                            *)
Complete(r) == r.fin \/ Cardinality(Bodies(r.items)) < PageSize

OldestBody(items) ==
  LET i == CHOOSE j \in DOMAIN items :
             items[j].body /\ \A k \in DOMAIN items : items[k].body => j <= k
  IN  items[i].id

(* The end of fetch_history and _cmd_load_history: the answer goes to the  *)
(* page, if it is still there.                                             *)
Answer(t, r) ==
  /\ asking' = [asking EXCEPT ![t] = None]
  /\ page' = IF pc[t] # "on" THEN page
             ELSE [page EXCEPT ![t] =
                     ShowHistory(@, Bodies(r.items),
                                 IF Bodies(r.items) = {} THEN None ELSE OldestBody(r.items),
                                 Complete(r))]

(* IqError and IqTimeout: an empty last page.                              *)
NoAnswer == [items |-> << >>, fin |-> TRUE]

-----------------------------------------------------------------------------
Attached == {t \in Tabs : pc[t] = "on"}

(* Mutant: the echo goes to the tab that sent the message. *)
EchoToSender(m, t) == [pending EXCEPT ![t] = @ \cup {m}]

(* _broadcast of an echo to ALL tabs.                                      *)
Echo(m, t) == [u \in Tabs |-> IF u \in Attached THEN pending[u] \cup {m} ELSE pending[u]]

(* _broadcast of what the server sent.                                     *)
ToAll(i) == [u \in Tabs |-> IF u \in Attached THEN pending[u] \cup {i} ELSE pending[u]]

Send(s) == \/ toServer' = Append(toServer, s)
           \/ ~online /\ UNCHANGED toServer
Fault   == faults < MaxFaults /\ faults' = faults + 1

Init ==
  /\ request = [t \in Tabs |-> None]
  /\ pc = [t \in Tabs |-> "off"]
  /\ inbox = [t \in Tabs |-> << >>]
  /\ asking = [t \in Tabs |-> None]
  /\ pending = [t \in Tabs |-> {}]
  /\ page = [t \in Tabs |-> NewPage]
  /\ online = FALSE
  /\ toServer = << >>
  /\ toClient = << >>
  /\ archive = << >>
  /\ messages = 0
  /\ frames = 0
  /\ queries = 0
  /\ sessions = 0
  /\ faults = 0
  /\ whole = {}
  /\ failed = {}

-----------------------------------------------------------------------------
(* Tabs.                                                                   *)

(* handle_ws up to its receive loop, for a new page or one that lost its   *)
(* socket and kept its conversations. Requests that are refused, or that   *)
(* lead to another account, do nothing here.                               *)
Handshake(t, r) ==
  /\ pc[t] = "off"
  /\ OriginAllowed(r.origin)
  /\ Resolve(ExtractUsername(r)) = Me
  /\ request' = [request EXCEPT ![t] = r]
  /\ pc' = [pc EXCEPT ![t] = "on"]
  /\ page' \in {page, [page EXCEPT ![t] = NewPage]}
  /\ whole' = IF page'[t] = NewPage THEN whole \cup {t} ELSE whole \ {t}
  /\ failed' = IF page'[t] = NewPage THEN failed \ {t} ELSE failed
  /\ UNCHANGED <<inbox, asking, pending, wireVars, boundVars>>

(* The browser goes; the handler still receives what was sent before.      *)
TabCloses(t) ==
  /\ pc[t] = "on"
  /\ Fault
  /\ pc' = [pc EXCEPT ![t] = "gone"]
  /\ pending' = [pending EXCEPT ![t] = {}]
  /\ whole' = whole \ {t}
  /\ UNCHANGED <<request, inbox, asking, page, wireVars, messages, frames, queries, sessions,
                 failed>>

(* It ends at the end of the frames, or at a send to the closed socket.    *)
HandlerEnds(t) ==
  /\ pc[t] = "gone"
  /\ asking[t] = None
  /\ pc' = [pc EXCEPT ![t] = "off"]
  /\ inbox' = [inbox EXCEPT ![t] = << >>]
  /\ request' = [request EXCEPT ![t] = None]
  /\ UNCHANGED <<asking, pending, page, wireVars, boundVars, historyVars>>

(* A frame of the page, counted.                                           *)
Sends(t, f) ==
  /\ frames < MaxFrames
  /\ frames' = frames + 1
  /\ inbox' = [inbox EXCEPT ![t] = Append(@, f)]

(* setActive: history is asked for where nothing is shown.                 *)
SetActive(t) ==
  /\ pc[t] = "on"
  /\ page' = [page EXCEPT ![t].opened = TRUE]
  /\ IF page[t].shown = {} /\ ~page[t].complete THEN Sends(t, LoadHistory(None))
     ELSE UNCHANGED <<frames, inbox>>
  /\ UNCHANGED <<request, pc, asking, pending, wireVars, messages, queries, sessions, faults,
                 historyVars>>

(* The load-older button, hidden once the history is complete.             *)
LoadOlder(t) ==
  /\ page[t].opened /\ ~page[t].complete
  /\ Sends(t, LoadHistory(page[t].oldest))
  /\ UNCHANGED messages

(* The composer.                                                           *)
Compose(t) ==
  /\ page[t].opened
  /\ \/ Sends(t, SendMessage(None)) /\ UNCHANGED messages
     \/ /\ messages < MaxMessages
        /\ messages' = messages + 1
        /\ Sends(t, SendMessage(messages'))

(* Frames that the page never sends, but another program may.              *)
SendBad(t) == Sends(t, BadFrame) /\ UNCHANGED messages

PageSends(t) ==
  /\ pc[t] = "on"
  /\ LoadOlder(t) \/ Compose(t) \/ SendBad(t)
  /\ UNCHANGED <<request, pc, asking, pending, page, wireVars, queries, sessions, faults,
                 historyVars>>

(* A frame of a broadcast reaches the page.                                *)
Shows(t, i) ==
  /\ i \in pending[t]
  /\ pending' = [pending EXCEPT ![t] = @ \ {i}]
  /\ page' = [page EXCEPT ![t] = ShowItem(@, i)]
  /\ UNCHANGED <<tabVars, wireVars, boundVars, historyVars>>

-----------------------------------------------------------------------------
(* The receive loop and its commands, one frame after the other.           *)

(* Mutant: the frame stays the next one. *)
ReceiveAgain(t) ==
  /\ pc[t] # "off"
  /\ asking[t] = None
  /\ inbox[t] # << >>
  /\ UNCHANGED inbox

Receive(t) ==
  /\ pc[t] # "off"
  /\ asking[t] = None
  /\ inbox[t] # << >>
  /\ inbox' = [inbox EXCEPT ![t] = Tail(@)]

(* A malformed frame gets an error, which the page alerts.                 *)
ReceiveBad(t) ==
  /\ Receive(t)
  /\ ~WellFormed(Head(inbox[t]))
  /\ UNCHANGED <<request, pc, asking, pending, page, wireVars, boundVars, historyVars>>

TooLong(f) == f.id = None

(* send_message of the client, which does not look whether it is connected.*)
SendChat(m) == Send(Message(m, TRUE))

(* _cmd_send_message: too long a text warns the tab, any other is sent and *)
(* echoed, with or without a session.                                      *)
ReceiveMessage(t) ==
  LET f == Head(inbox[t]) IN
  /\ Receive(t)
  /\ WellFormed(f) /\ f.type = "send_message"
  /\ IF TooLong(f)
     THEN /\ page' = IF pc[t] = "on" THEN [page EXCEPT ![t] = ShowItem(@, Warning)] ELSE page
          /\ UNCHANGED <<pending, toServer>>
     ELSE /\ SendChat(f.id)
          /\ pending' = Echo(f.id, t)
          /\ UNCHANGED page
  /\ UNCHANGED <<request, pc, asking, online, toClient, archive, boundVars, historyVars>>

(* _cmd_load_history with fetch_history up to its wait.                    *)
ReceiveLoad(t) ==
  LET f == Head(inbox[t]) IN
  /\ Receive(t)
  /\ WellFormed(f) /\ f.type = "load_history"
  /\ queries' = queries + 1
  /\ asking' = [asking EXCEPT ![t] = Query(queries', f.id)]
  /\ Send(Query(queries', f.id))
  /\ UNCHANGED <<request, pc, pending, page, online, toClient, archive, messages, frames,
                 sessions, faults, historyVars>>

(* Nothing on a stream will answer the query of t.                         *)
Lost(t) ==
  /\ asking[t] # None
  /\ online => asking[t] \notin {toServer[i] : i \in DOMAIN toServer}
  /\ \A i \in DOMAIN toClient :
       toClient[i].kind = "result" => toClient[i].number # asking[t].number

(* Mutant: a query waits for ever. *)
NeverTimesOut(t) == FALSE /\ UNCHANGED vars

(* IqError or IqTimeout. An answer that comes later is ignored.            *)
QueryTimesOut(t) ==
  /\ asking[t] # None
  /\ IF Lost(t) THEN UNCHANGED faults ELSE Fault
  /\ Answer(t, NoAnswer)
  /\ failed' = failed \cup {t}
  /\ UNCHANGED <<request, pc, inbox, pending, wireVars, messages, frames, queries, sessions, whole>>

-----------------------------------------------------------------------------
(* The stream.                                                             *)

(* The peer writes, with or without a body.                                *)
PeerWrites(body) ==
  /\ messages < MaxMessages
  /\ messages' = messages + 1
  /\ archive' = Append(archive, [id |-> messages', body |-> body])
  /\ toClient' = IF online THEN Append(toClient, Message(messages', body)) ELSE toClient
  /\ UNCHANGED <<tabVars, pending, page, online, toServer, frames, queries, sessions, faults,
                 historyVars>>

ServerTakes ==
  /\ online
  /\ toServer # << >>
  /\ toServer' = Tail(toServer)
  /\ UNCHANGED <<tabVars, pending, page, online, messages, frames, queries, sessions, historyVars>>

ServerArchives ==
  /\ ServerTakes
  /\ Head(toServer).kind = "message"
  /\ archive' = Append(archive, [id |-> Head(toServer).id, body |-> TRUE])
  /\ \/ UNCHANGED <<toClient, faults>>
     \/ Fault /\ toClient' = Append(toClient, Bounce)

ServerAnswers ==
  /\ ServerTakes
  /\ Head(toServer).kind = "query"
  /\ toClient' = Append(toClient,
                        Result(Head(toServer).number, ArchivePage(Head(toServer).before, PageSize)))
  /\ UNCHANGED <<archive, faults>>

ClientTakes ==
  /\ toClient # << >>
  /\ toClient' = Tail(toClient)
  /\ UNCHANGED <<request, pc, inbox, online, toServer, archive, boundVars, historyVars>>

(* _on_message: a message with a body, or an error.                        *)
OnMessage ==
  LET s == Head(toClient) IN
  /\ ClientTakes
  /\ s.kind \in {"message", "error"}
  /\ pending' = IF s.kind = "error" THEN ToAll(Warning)
                ELSE IF s.body THEN ToAll(s.id) ELSE pending
  /\ UNCHANGED <<asking, page>>

Awaits(t, n) == asking[t] # None /\ asking[t].number = n

(* The result of a query, for the handler that still waits for it.         *)
OnResult ==
  LET s == Head(toClient) IN
  /\ ClientTakes
  /\ s.kind = "result"
  /\ IF \E t \in Tabs : Awaits(t, s.number)
     THEN \E t \in Tabs : Awaits(t, s.number) /\ Answer(t, s)
     ELSE UNCHANGED <<asking, page>>
  /\ UNCHANGED pending

(* What is on the stream is lost, for the pages too that are open.         *)
StreamLost ==
  /\ online
  /\ online' = FALSE
  /\ toServer' = << >>
  /\ toClient' = << >>
  /\ whole' = {}
  /\ UNCHANGED <<tabVars, pending, page, archive, boundVars, failed>>

SessionStarts ==
  /\ ~online
  /\ sessions < MaxSessions
  /\ sessions' = sessions + 1
  /\ online' = TRUE
  /\ UNCHANGED <<tabVars, pending, page, toServer, toClient, archive, messages, frames, queries,
                 faults, historyVars>>

-----------------------------------------------------------------------------
Serve(t) == ReceiveBad(t) \/ ReceiveMessage(t) \/ ReceiveLoad(t)
Stream   == ServerArchives \/ ServerAnswers \/ OnMessage \/ OnResult

Next ==
  \/ Stream \/ StreamLost \/ SessionStarts
  \/ \E body \in BOOLEAN : PeerWrites(body)
  \/ \E t \in Tabs :
       \/ \E r \in Requests : Handshake(t, r)
       \/ TabCloses(t) \/ HandlerEnds(t) \/ SetActive(t) \/ PageSends(t)
       \/ Serve(t) \/ QueryTimesOut(t)
       \/ \E i \in pending[t] : Shows(t, i)

Spec == Init /\ [][Next]_vars

(* Handlers go on when they can, a wait that nothing ends times out, and a *)
(* stream that lives carries what is sent.                                 *)
FairSpec ==
  /\ Spec
  /\ WF_vars(Stream)
  /\ \A t \in Tabs : WF_vars(Serve(t)) /\ WF_vars(Lost(t) /\ QueryTimesOut(t))

-----------------------------------------------------------------------------
(* Properties.                                                             *)

Stanzas == [kind : {"message"}, id : Ids, body : BOOLEAN] \cup {Bounce} \cup
           [kind : {"query"}, number : Nat, before : Ids \cup {None}] \cup
           [kind : {"result"}, number : Nat, items : Seq(Archived), fin : BOOLEAN]

(* Every variable has its type; in particular there are at most as many    *)
(* queries as frames the pages may send, since each frame asks for at most *)
(* one page of history (ws.py:80-82).                                      *)
TypeOK ==
  /\ request \in [Tabs -> Requests \cup {None}]
  /\ pc \in [Tabs -> {"off", "on", "gone"}]
  /\ inbox \in [Tabs -> Seq(ClientFrames)]
  /\ asking \in [Tabs -> [kind : {"query"}, number : Nat, before : Ids \cup {None}] \cup {None}]
  /\ pending \in [Tabs -> SUBSET Items]
  /\ page \in [Tabs -> [opened : BOOLEAN, shown : SUBSET Items,
                         oldest : Ids \cup {None}, complete : BOOLEAN]]
  /\ online \in BOOLEAN
  /\ toServer \in Seq(Stanzas)
  /\ toClient \in Seq(Stanzas)
  /\ archive \in Seq(Archived)
  /\ messages \in 0..MaxMessages
  /\ {frames, queries} \subseteq 0..MaxFrames
  /\ sessions \in 0..MaxSessions
  /\ faults \in 0..MaxFaults
  /\ whole \in SUBSET Tabs
  /\ failed \in SUBSET Tabs

(* Only pages of users who act as this JID, and that come from an allowed  *)
(* origin, get anything of it: the proxy's user has the JID in the users   *)
(* file, and there is a password for it (ws.py:37-68).                     *)
Entitled(r) ==
  /\ AllowedOrigins = {} \/ r.origin \in AllowedOrigins \ {""}
  /\ Me \in DOMAIN Credentials
  /\ \E u \in DOMAIN Users \ {""} :
       /\ Users[u] = Me
       /\ IF Mode = "proxy" THEN \E k \in DOMAIN r.headers : Lower[k] = Lower[AuthHeader] /\ r.headers[k] = u
          ELSE u \in {r.user, DefaultUser}
OnlyEntitledPages ==
  \A t \in Tabs : pc[t] # "off" \/ pending[t] # {} => Entitled(request[t])

(* Nothing that was written is archived twice: a frame is one message,     *)
(* although handlers outlive their browsers, pages come back as they were, *)
(* and what was sent without a session may be sent in the next one         *)
(* (account.py:245-262).                                                   *)
ArchivedOnce == \A i, j \in DOMAIN archive : archive[i].id = archive[j].id => i = j

(* What will reach the page of t by itself.                                *)
Coming(t) == pending[t] \cup {toClient[i].id : i \in
               {j \in DOMAIN toClient : toClient[j].kind = "message" /\ toClient[j].body}}

(* The page that was there all the time has no gap: from its oldest        *)
(* message on, everything in the archive is shown or on its way, whatever  *)
(* arrives while history is asked for, by whichever tab it was sent.       *)
NoGap ==
  \A t \in whole : page[t].oldest # None =>
    \A m \in Bodies(SubSeq(archive, Position(archive, page[t].oldest), Len(archive))) :
      m \in page[t].shown \cup Coming(t)

(* A page that calls its history complete has all of it, if no query of it *)
(* failed and all messages have a body (interface.py:161).                 *)
CompleteMeansAll ==
  \A t \in whole \ failed :
    page[t].complete /\ (\A i \in DOMAIN archive : archive[i].body)
      => Bodies(archive) \subseteq page[t].shown \cup Coming(t)

(* Every answer takes the page to older messages than it asked before, or  *)
(* says that there are none: nobody loads older messages for ever.         *)
PagesAdvance ==
  [][\A t \in Tabs :
       asking[t] # None /\ asking'[t] = None /\ pc[t] = "on" =>
         \/ page'[t].complete
         \/ /\ page'[t].oldest # None
            /\ asking[t].before # None =>
                 Position(archive, page'[t].oldest) < Position(archive, asking[t].before)]_vars

(* A tab's commands are all received in the end, although each waits for   *)
(* the one before: no query that is lost or late holds them up for ever.   *)
CommandsServed == \A t \in Tabs : pc[t] = "on" /\ inbox[t] # << >> ~> inbox[t] = << >>

=============================================================================
