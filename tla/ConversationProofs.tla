--------------------------- MODULE ConversationProofs ---------------------------
(***************************************************************************)
(* Theorems of Conversation: its types, who gets anything of it, that no   *)
(* page has a gap, that one which calls its history complete has all of    *)
(* it, and that loading older messages comes to an end; for any number of  *)
(* tabs, messages, frames and sessions.                                    *)
(***************************************************************************)
EXTENDS Conversation, SequenceTheorems, FiniteSetTheorems, LeastNumber

-----------------------------------------------------------------------------
(* Types, and the numbers of messages and queries.                         *)

Pages   == [opened : BOOLEAN, shown : SUBSET Items, oldest : Ids \cup {None},
            complete : BOOLEAN]
Queries == [kind : {"query"}, number : Nat, before : Ids \cup {None}]
Texts   == [kind : {"message"}, id : Ids, body : BOOLEAN]
Results == [kind : {"result"}, number : Nat, items : Seq(Archived), fin : BOOLEAN]

Types ==
  /\ pc \in [Tabs -> {"off", "on", "gone"}]
  /\ inbox \in [Tabs -> Seq(ClientFrames)]
  /\ asking \in [Tabs -> Queries \cup {None}]
  /\ pending \in [Tabs -> SUBSET Items]
  /\ page \in [Tabs -> Pages]
  /\ online \in BOOLEAN
  /\ toServer \in Seq(Texts \cup Queries)
  /\ toClient \in Seq(Texts \cup {Bounce} \cup Results)
  /\ archive \in Seq(Archived)
  /\ messages \in Nat
  /\ queries \in Nat
  /\ whole \in SUBSET Tabs

LEMMA Appended ==
  ASSUME NEW S, NEW s \in Seq(S), NEW x \in S
  PROVE  /\ Append(s, x) \in Seq(S)
         /\ Len(s) \in Nat
         /\ DOMAIN s = 1..Len(s)
         /\ DOMAIN Append(s, x) = 1..(Len(s) + 1)
         /\ \A i \in DOMAIN s : Append(s, x)[i] = s[i]
         /\ Append(s, x)[Len(s) + 1] = x
  BY AppendProperties, LenProperties

LEMMA Shortened ==
  ASSUME NEW S, NEW s \in Seq(S), s # << >>
  PROVE  /\ Tail(s) \in Seq(S)
         /\ Head(s) \in S
         /\ Head(s) = s[1]
         /\ 1 \in DOMAIN s
         /\ DOMAIN s \subseteq Nat
         /\ \A i \in DOMAIN Tail(s) : i \in Nat \ {0} /\ i + 1 \in DOMAIN s /\ Tail(s)[i] = s[i + 1]
<1>1. /\ Len(s) \in Nat /\ DOMAIN s = 1..Len(s)
      /\ Tail(s) \in Seq(S) /\ DOMAIN Tail(s) = 1..Len(Tail(s))
  BY LenProperties, HeadTailProperties
<1>2. Len(s) # 0
  BY EmptySeq
<1>3. /\ Head(s) \in S /\ Len(Tail(s)) = Len(s) - 1
      /\ \A i \in 1..Len(Tail(s)) : Tail(s)[i] = s[i + 1]
  BY HeadTailProperties
<1> QED
  BY <1>1, <1>2, <1>3

LEMMA Empty ==
  ASSUME NEW S
  PROVE  << >> \in Seq(S) /\ DOMAIN << >> = {}
  BY EmptySeq

IsText(f) == f.type = "send_message" /\ f.id # None
IsLoad(f) == f.type = "load_history" /\ f.id # None

InArchive(m) == \E i \in DOMAIN archive : archive[i].id = m

InWire(m)    == \E i \in DOMAIN toServer : toServer[i].kind = "message" /\ toServer[i].id = m

(* A message is in one place at most: the archive, the stream or an inbox. *)
ArchiveNumbered ==
  \A i \in DOMAIN archive : /\ archive[i].id <= messages
                            /\ \A j \in DOMAIN archive : archive[i].id = archive[j].id => i = j
WireNumbered ==
  \A i \in DOMAIN toServer : toServer[i].kind = "message" =>
    /\ toServer[i].id <= messages
    /\ ~InArchive(toServer[i].id)
    /\ \A j \in DOMAIN toServer :
         toServer[j].kind = "message" /\ toServer[j].id = toServer[i].id => i = j
InboxNumbered ==
  \A t \in Tabs : \A i \in DOMAIN inbox[t] : IsText(inbox[t][i]) =>
    /\ inbox[t][i].id <= messages
    /\ ~InArchive(inbox[t][i].id)
    /\ ~InWire(inbox[t][i].id)
    /\ \A u \in Tabs : \A j \in DOMAIN inbox[u] :
         IsText(inbox[u][j]) /\ inbox[u][j].id = inbox[t][i].id => t = u /\ i = j
Numbered == ArchiveNumbered /\ WireNumbered /\ InboxNumbered

(* Queries are told apart by their numbers, and ask for what is before a   *)
(* message of the archive.                                                 *)
Matched ==
  /\ \A i \in DOMAIN toServer : toServer[i].kind = "query" =>
       /\ toServer[i].number <= queries
       /\ toServer[i].before # None => InArchive(toServer[i].before)
       /\ \A t \in Tabs : Awaits(t, toServer[i].number) => toServer[i] = asking[t]
  /\ \A i \in DOMAIN toClient : toClient[i].kind = "result" =>
       /\ toClient[i].number <= queries
       /\ \A j \in DOMAIN toClient[i].items : InArchive(toClient[i].items[j].id)
  /\ \A t \in Tabs :
       /\ page[t].oldest # None => InArchive(page[t].oldest)
       /\ asking[t] # None => asking[t].number <= queries
       /\ \A i \in DOMAIN inbox[t] : IsLoad(inbox[t][i]) => InArchive(inbox[t][i].id)

-----------------------------------------------------------------------------
(* Gaps.                                                                   *)

(* The messages with a body from m on.                                     *)
From(s, m) == {s[i].id : i \in {j \in DOMAIN s : s[j].body /\ \E k \in DOMAIN s : k <= j /\ s[k].id = m}}

Has(t)      == (page[t].shown \cup pending[t]) \ {Warning}
WillHave(t) == (page[t].shown \cup Coming(t)) \ {Warning}

(* Every message on its way to the server has reached t.                   *)
Echoed(t) == \A j \in DOMAIN toServer : toServer[j].kind = "message" => toServer[j].id \in Has(t)

(* NoGap, strengthened by what makes it inductive: what a query asks for,  *)
(* where it is and what its answer brings.                                 *)
NoGapAround(t) ==
  /\ pc[t] = "on"
  /\ page[t].oldest # None => online /\ Echoed(t) /\ From(archive, page[t].oldest) \subseteq WillHave(t)
  /\ \A i \in DOMAIN inbox[t] : IsLoad(inbox[t][i]) =>
       page[t].oldest # None /\ From(archive, inbox[t][i].id) \subseteq WillHave(t)
  /\ asking[t] # None /\ asking[t].before # None =>
       page[t].oldest # None /\ From(archive, asking[t].before) \subseteq WillHave(t)
  /\ \A i \in DOMAIN toServer : toServer[i].kind = "query" /\ Awaits(t, toServer[i].number) =>
       \A j \in DOMAIN toServer : i < j /\ toServer[j].kind = "message" => toServer[j].id \in Has(t)
  /\ \A i \in DOMAIN toClient : toClient[i].kind = "result" /\ Awaits(t, toClient[i].number) =>
       /\ online
       /\ Echoed(t)
       /\ \A j \in DOMAIN toClient[i].items :
            From(archive, toClient[i].items[j].id) \subseteq Bodies(toClient[i].items) \cup WillHave(t)

GapInv == \A t \in whole : NoGapAround(t)

(* A handler that is not there receives nothing and waits for nothing.     *)
OffIsIdle == \A t \in Tabs : pc[t] = "off" => inbox[t] = << >> /\ asking[t] = None

NoGapInv == Types /\ Numbered /\ Matched /\ OffIsIdle /\ GapInv

-----------------------------------------------------------------------------
(* Types.                                                                  *)

LEMMA IdsAreNumbers == Ids \subseteq Nat /\ None \notin Ids /\ Warning \notin Ids
<1>1. MaxMessages \in Nat
  BY BoundsAssumption
<1>2. Ids \subseteq Nat
  BY <1>1 DEF Ids
<1> QED
  BY <1>2, NamesAssumption

LEMMA NewPageTypes == NewPage \in Pages
  BY DEF NewPage, Pages

LEMMA FrameTypes ==
  ASSUME NEW m \in Ids \cup {None}
  PROVE  LoadHistory(m) \in ClientFrames /\ SendMessage(m) \in ClientFrames
         /\ BadFrame \in ClientFrames
  BY DEF ClientFrames

LEMMA FrameIds ==
  ASSUME NEW f \in ClientFrames
  PROVE  f.id \in Ids \cup {None} /\ f.type \in {"load_history", "send_message"}
  BY DEF ClientFrames, LoadHistory, SendMessage, BadFrame

LEMMA InitTypes == Init => Types
<1> SUFFICES ASSUME Init PROVE Types
  OBVIOUS
<1> QED
  BY NewPageTypes, Empty DEF Init, Types

(* A frame goes into the inbox of t. *)
LEMMA SendsTypes ==
  ASSUME Types, NEW t \in Tabs, NEW f \in ClientFrames, Sends(t, f)
  PROVE  /\ inbox' \in [Tabs -> Seq(ClientFrames)]
         /\ \A u \in Tabs : u # t => inbox'[u] = inbox[u]
         /\ inbox'[t] = Append(inbox[t], f)
<1>1. inbox[t] \in Seq(ClientFrames)
  BY DEF Types
<1>2. Append(inbox[t], f) \in Seq(ClientFrames)
  BY <1>1, Appended
<1> QED
  BY <1>2 DEF Types, Sends

(* A frame comes out of it. *)
LEMMA ReceiveTypes ==
  ASSUME Types, NEW t \in Tabs, Receive(t)
  PROVE  /\ inbox' \in [Tabs -> Seq(ClientFrames)]
         /\ \A u \in Tabs : u # t => inbox'[u] = inbox[u]
         /\ inbox'[t] = Tail(inbox[t])
         /\ inbox[t] \in Seq(ClientFrames)
         /\ Head(inbox[t]) \in ClientFrames
<1>1. inbox[t] \in Seq(ClientFrames) /\ inbox[t] # << >>
  BY DEF Types, Receive
<1>2. Tail(inbox[t]) \in Seq(ClientFrames) /\ Head(inbox[t]) \in ClientFrames
  BY <1>1, Shortened
<1> QED
  BY <1>1, <1>2 DEF Types, Receive

LEMMA ShowItemTypes ==
  ASSUME NEW p \in Pages, NEW i \in Items
  PROVE  /\ ShowItem(p, i) \in Pages
         /\ ShowItem(p, i).oldest = p.oldest
         /\ p.shown \subseteq ShowItem(p, i).shown
         /\ i # Warning => i \in ShowItem(p, i).shown
  BY DEF Pages, ShowItem

LEMMA BroadcastTypes ==
  ASSUME Types, NEW i \in Items, NEW t \in Tabs
  PROVE  /\ Echo(i, t) \in [Tabs -> SUBSET Items] /\ ToAll(i) = Echo(i, t)
         /\ \A u \in Tabs : /\ pending[u] \subseteq Echo(i, t)[u]
                            /\ pc[u] = "on" => i \in Echo(i, t)[u]
                            /\ Echo(i, t)[u] \subseteq pending[u] \cup {i}
<1>1. pending \in [Tabs -> SUBSET Items]
  BY DEF Types
<1> QED
  BY <1>1 DEF Echo, ToAll, Attached

LEMMA BodiesTypes ==
  ASSUME NEW s \in Seq(Archived)
  PROVE  /\ Bodies(s) \subseteq Ids
         /\ \A i \in DOMAIN s : s[i].body => s[i].id \in Bodies(s)
         /\ Bodies(s) # {} => \E i \in DOMAIN s : s[i].body
<1>1. \A i \in DOMAIN s : s[i] \in Archived
  BY LenProperties, ElementOfSeq
<1> QED
  BY <1>1 DEF Bodies, Archived

LEMMA OldestBodyIsThere ==
  ASSUME NEW s \in Seq(Archived), Bodies(s) # {}
  PROVE  \E i \in DOMAIN s : s[i].body /\ OldestBody(s) = s[i].id /\ s[i].id \in Ids
<1>1. DOMAIN s \subseteq Nat /\ \A i \in DOMAIN s : s[i] \in Archived
  BY LenProperties, ElementOfSeq
<1> DEFINE T == {i \in DOMAIN s : s[i].body}
<1>2. T \in SUBSET Nat /\ T # {}
  BY <1>1, BodiesTypes
<1>3. PICK i \in T : \A j \in T : i <= j
  <2> HIDE DEF T
  <2> QED
    BY <1>2, LeastExists
<1> DEFINE P(j) == s[j].body /\ \A k \in DOMAIN s : s[k].body => j <= k
<1>4. (CHOOSE j \in DOMAIN s : P(j)) \in DOMAIN s /\ P(CHOOSE j \in DOMAIN s : P(j))
  BY <1>3
<1>5. OldestBody(s) = s[CHOOSE j \in DOMAIN s : P(j)].id
  BY DEF OldestBody
<1> HIDE DEF P
<1>6. s[CHOOSE j \in DOMAIN s : P(j)].body
  BY <1>4 DEF P
<1> QED
  BY <1>1, <1>4, <1>5, <1>6 DEF Archived

LEMMA PositionIsThere ==
  ASSUME NEW b, InArchive(b)
  PROVE  Position(archive, b) \in DOMAIN archive /\ archive[Position(archive, b)].id = b
  BY DEF InArchive, Position

(* What the archive answers: a stretch of it that ends before b, or at its *)
(* end, and begins where the archive does or is as long as a page may be.  *)
LEMMA PageOfArchive ==
  ASSUME Types, NEW b, b # None => InArchive(b)
  PROVE  /\ ArchivePage(b, PageSize).items \in Seq(Archived)
         /\ ArchivePage(b, PageSize).fin \in BOOLEAN
         /\ \E first \in Nat \ {0} :
              /\ ArchivePage(b, PageSize).fin = (first = 1)
              /\ first # 1 => DOMAIN ArchivePage(b, PageSize).items = 1..PageSize
              /\ \A j \in DOMAIN ArchivePage(b, PageSize).items :
                   /\ first + j - 1 \in DOMAIN archive
                   /\ ArchivePage(b, PageSize).items[j] = archive[first + j - 1]
                   /\ b # None => first + j - 1 < Position(archive, b)
              /\ \A i \in DOMAIN archive : first <= i =>
                   \/ i - first + 1 \in DOMAIN ArchivePage(b, PageSize).items
                   \/ b # None /\ Position(archive, b) <= i
<1> DEFINE last  == IF b = None THEN Len(archive) ELSE Position(archive, b) - 1
           first == IF last > PageSize THEN last - PageSize + 1 ELSE 1
           r     == SubSeq(archive, first, last)
<1>1. /\ archive \in Seq(Archived) /\ Len(archive) \in Nat /\ DOMAIN archive = 1..Len(archive)
      /\ \A i \in 1..Len(archive) : archive[i] \in Archived
  BY LenProperties, ElementOfSeq DEF Types
<1>2. /\ last \in Nat /\ last <= Len(archive)
      /\ b # None => last = Position(archive, b) - 1
  BY <1>1, PositionIsThere
<1>3. first \in Nat /\ 1 <= first
  BY <1>2, PageAssumption
<1>4. first # 1 => last - first + 1 = PageSize /\ PageSize \in Nat /\ first <= last
  BY <1>2, PageAssumption
<1>5. b = None => last = Len(archive)
  OBVIOUS
<1>6. ArchivePage(b, PageSize).items = r /\ ArchivePage(b, PageSize).fin = (first = 1)
  BY DEF ArchivePage
<1> HIDE DEF last, first
<1>7. \A i \in first..last : archive[i] \in Archived
  BY <1>1, <1>2, <1>3
<1>8. /\ r \in Seq(Archived)
      /\ Len(r) = IF first <= last THEN last - first + 1 ELSE 0
      /\ \A i \in 1..(last - first + 1) : r[i] = archive[first + i - 1]
  BY <1>2, <1>3, <1>7, SubSeqProperties
<1>9. DOMAIN r = 1..Len(r)
  BY <1>8, LenProperties
<1> HIDE DEF r
<1>10. ASSUME NEW j \in DOMAIN r
      PROVE  /\ first + j - 1 \in DOMAIN archive
             /\ r[j] = archive[first + j - 1]
             /\ b # None => first + j - 1 < Position(archive, b)
  <2>1. j \in 1..(last - first + 1)
    BY <1>2, <1>3, <1>8, <1>9
  <2>2. first + j - 1 \in DOMAIN archive /\ r[j] = archive[first + j - 1]
    BY <2>1, <1>1, <1>2, <1>3, <1>8
  <2>3. b # None => first + j - 1 < Position(archive, b)
    <3>1. b # None => Position(archive, b) \in DOMAIN archive
      BY PositionIsThere
    <3> QED
      BY <2>1, <3>1, <1>1, <1>2, <1>3
  <2> QED
    BY <2>2, <2>3
<1>11. ASSUME NEW i \in DOMAIN archive, first <= i, i - first + 1 \notin DOMAIN r
      PROVE  b # None /\ Position(archive, b) <= i
  <2>1. last < i
    BY <1>11, <1>1, <1>2, <1>3, <1>8, <1>9
  <2>2. b # None
    BY <2>1, <1>1, <1>5
  <2> QED
    BY <2>1, <2>2, <1>1, <1>2, PositionIsThere
<1>12. first # 1 => DOMAIN r = 1..PageSize
  BY <1>2, <1>3, <1>8, <1>9, <1>4
<1>13. first \in Nat \ {0}
  BY <1>3
<1> QED
  BY <1>6, <1>8, <1>10, <1>11, <1>12, <1>13

LEMMA AnswerTypes ==
  ASSUME Types, NEW t \in Tabs, NEW r, r.items \in Seq(Archived), r.fin \in BOOLEAN, Answer(t, r)
  PROVE  /\ asking' \in [Tabs -> Queries \cup {None}]
         /\ page' \in [Tabs -> Pages]
         /\ asking' = [asking EXCEPT ![t] = None]
         /\ \A u \in Tabs : u # t => page'[u] = page[u]
         /\ page[t].shown \cup (IF pc[t] = "on" THEN Bodies(r.items) ELSE {}) \subseteq page'[t].shown
         /\ \/ page'[t].oldest = page[t].oldest
            \/ \E i \in DOMAIN r.items : /\ page'[t].oldest = r.items[i].id
                                         /\ page'[t].oldest # None
<1>1. /\ asking' = [asking EXCEPT ![t] = None] /\ page \in [Tabs -> Pages]
      /\ asking \in [Tabs -> Queries \cup {None}]
  BY DEF Types, Answer
<1> DEFINE first == IF Bodies(r.items) = {} THEN None ELSE OldestBody(r.items)
<1>2. Bodies(r.items) # {} => \E i \in DOMAIN r.items : first = r.items[i].id /\ first \in Ids
  BY OldestBodyIsThere
<1>3. Complete(r) \in BOOLEAN /\ Bodies(r.items) \subseteq Items /\ page[t] \in Pages
  BY <1>1, BodiesTypes DEF Complete, Items
<1>4. None \notin Ids
  BY IdsAreNumbers
<1> DEFINE q == ShowHistory(page[t], Bodies(r.items), first, Complete(r))
<1>5. /\ q \in Pages /\ page[t].shown \cup Bodies(r.items) \subseteq q.shown
      /\ \/ q.oldest = page[t].oldest
         \/ \E i \in DOMAIN r.items : q.oldest = r.items[i].id /\ q.oldest # None
  <2> HIDE DEF first
  <2> QED
    BY <1>2, <1>3, <1>4 DEF ShowHistory, Pages
<1>6. page' = IF pc[t] # "on" THEN page ELSE [page EXCEPT ![t] = q]
  BY DEF Answer
<1> HIDE DEF q
<1> QED
  BY <1>1, <1>5, <1>6

-----------------------------------------------------------------------------
(* What the steps do to the sequences.                                     *)

LEMMA StanzaTypes ==
  ASSUME Types
  PROVE  /\ DOMAIN toServer \subseteq Nat /\ DOMAIN toClient \subseteq Nat /\ DOMAIN archive \subseteq Nat
         /\ \A i \in DOMAIN toServer : toServer[i] \in Texts \cup Queries
         /\ \A i \in DOMAIN toClient : toClient[i] \in Texts \cup {Bounce} \cup Results
         /\ \A i \in DOMAIN archive : archive[i] \in Archived
         /\ \A t \in Tabs : /\ DOMAIN inbox[t] \subseteq Nat
                            /\ \A i \in DOMAIN inbox[t] : inbox[t][i] \in ClientFrames
  BY LenProperties, ElementOfSeq DEF Types

LEMMA TakesTypes ==
  ASSUME Types, ServerTakes
  PROVE  /\ toServer' \in Seq(Texts \cup Queries)
         /\ Head(toServer) = toServer[1] /\ 1 \in DOMAIN toServer
         /\ Head(toServer) \in Texts \cup Queries
         /\ \A i \in DOMAIN toServer' : /\ i \in Nat \ {0} /\ i + 1 \in DOMAIN toServer
                                        /\ toServer'[i] = toServer[i + 1]
  BY Shortened DEF Types, ServerTakes

LEMMA ClientTakesTypes ==
  ASSUME Types, ClientTakes
  PROVE  /\ toClient' \in Seq(Texts \cup {Bounce} \cup Results)
         /\ Head(toClient) = toClient[1] /\ 1 \in DOMAIN toClient
         /\ Head(toClient) \in Texts \cup {Bounce} \cup Results
         /\ \A i \in DOMAIN toClient' : /\ i \in Nat \ {0} /\ i + 1 \in DOMAIN toClient
                                        /\ toClient'[i] = toClient[i + 1]
         /\ \A i \in DOMAIN toClient : i # 1 => i \in Nat /\ i - 1 \in DOMAIN toClient'
<1>1. toClient \in Seq(Texts \cup {Bounce} \cup Results) /\ toClient # << >> /\ toClient' = Tail(toClient)
  BY DEF Types, ClientTakes
<1>2. \A i \in DOMAIN toClient : i # 1 => i \in Nat /\ i - 1 \in DOMAIN Tail(toClient)
  <2>1. /\ Len(toClient) \in Nat /\ DOMAIN toClient = 1..Len(toClient)
        /\ DOMAIN Tail(toClient) = 1..Len(Tail(toClient))
        /\ Len(Tail(toClient)) = Len(toClient) - 1
    BY <1>1, LenProperties, HeadTailProperties
  <2> QED
    BY <2>1
<1> QED
  BY <1>1, <1>2, Shortened

(* The archive and the stream grow by a message. *)
LEMMA ArchiveGrows ==
  ASSUME Types, NEW x \in Archived, archive' = Append(archive, x)
  PROVE  /\ archive' \in Seq(Archived)
         /\ \A i \in DOMAIN archive : i \in DOMAIN archive' /\ archive'[i] = archive[i]
         /\ \A i \in DOMAIN archive' : \/ i \in DOMAIN archive
                                       \/ /\ archive'[i] = x
                                          /\ \A k \in DOMAIN archive : k < i
                                          /\ \A k \in DOMAIN archive' : k <= i
  BY Appended DEF Types

LEMMA ToClientGrows ==
  ASSUME Types, NEW s \in Texts \cup {Bounce} \cup Results, toClient' = Append(toClient, s)
  PROVE  /\ toClient' \in Seq(Texts \cup {Bounce} \cup Results)
         /\ \A i \in DOMAIN toClient : i \in DOMAIN toClient' /\ toClient'[i] = toClient[i]
         /\ \A i \in DOMAIN toClient' : i \in DOMAIN toClient \/ toClient'[i] = s
         /\ \E i \in DOMAIN toClient' : toClient'[i] = s
<1>1. toClient \in Seq(Texts \cup {Bounce} \cup Results)
  BY DEF Types
<1>2. /\ toClient' \in Seq(Texts \cup {Bounce} \cup Results) /\ Len(toClient) \in Nat
      /\ DOMAIN toClient = 1..Len(toClient) /\ DOMAIN toClient' = 1..(Len(toClient) + 1)
      /\ \A i \in DOMAIN toClient : toClient'[i] = toClient[i]
      /\ toClient'[Len(toClient) + 1] = s
  BY <1>1, Appended
<1> QED
  BY <1>2

LEMMA ToServerGrows ==
  ASSUME Types, NEW s \in Texts \cup Queries, Send(s)
  PROVE  /\ toServer' \in Seq(Texts \cup Queries)
         /\ DOMAIN toServer \subseteq DOMAIN toServer'
         /\ \A i \in DOMAIN toServer : toServer'[i] = toServer[i]
         /\ \A i \in DOMAIN toServer' : \/ i \in DOMAIN toServer
                                        \/ /\ toServer'[i] = s
                                           /\ \A j \in DOMAIN toServer' : j <= i
<1>1. CASE toServer' = toServer
  BY <1>1 DEF Types
<1>2. CASE toServer' = Append(toServer, s)
  BY <1>2, Appended DEF Types
<1> QED
  BY <1>1, <1>2 DEF Send

LEMMA TypesStep ==
  ASSUME Types, Matched, [Next]_vars
  PROVE  Types'
<1> USE DEF tabVars, wireVars, boundVars, historyVars
<1>0. CASE UNCHANGED vars
  BY <1>0 DEF Types, vars
<1>1. ASSUME NEW t \in Tabs, NEW r \in Requests, Handshake(t, r) PROVE Types'
  BY <1>1, NewPageTypes DEF Types, Handshake
<1>2. ASSUME NEW t \in Tabs, TabCloses(t) PROVE Types'
  BY <1>2 DEF Types, TabCloses
<1>3. ASSUME NEW t \in Tabs, HandlerEnds(t) PROVE Types'
  BY <1>3, Empty DEF Types, HandlerEnds
<1>4. ASSUME NEW t \in Tabs, SetActive(t) PROVE Types'
  <2>1. inbox' \in [Tabs -> Seq(ClientFrames)]
    <3>1. CASE UNCHANGED inbox
      BY <3>1 DEF Types
    <3>2. CASE Sends(t, LoadHistory(None))
      BY <3>2, SendsTypes, FrameTypes
    <3> QED
      BY <1>4, <3>1, <3>2 DEF SetActive
  <2>2. page' \in [Tabs -> Pages]
    BY <1>4 DEF SetActive, Types, Pages
  <2> QED
    BY <1>4, <2>1, <2>2 DEF SetActive, Types
<1>5. ASSUME NEW t \in Tabs, PageSends(t) PROVE Types'
  <2>1. \E f \in ClientFrames : Sends(t, f) /\ messages' \in Nat
    <3>1. CASE LoadOlder(t)
      <4>1. page[t].oldest \in Ids \cup {None}
        BY DEF Types, Pages
      <4> QED
        BY <3>1, <4>1, FrameTypes DEF LoadOlder, Types
    <3>2. CASE Compose(t)
      <4>1. CASE Sends(t, SendMessage(None)) /\ UNCHANGED messages
        BY <4>1, FrameTypes DEF Types
      <4>2. CASE messages < MaxMessages /\ messages' = messages + 1 /\ Sends(t, SendMessage(messages'))
        <5>1. messages' \in Ids /\ messages' \in Nat
          <6>1. MaxMessages \in Nat /\ messages \in Nat
            BY BoundsAssumption DEF Types
          <6> QED
            BY <4>2, <6>1 DEF Ids
        <5> QED
          BY <4>2, <5>1, FrameTypes
      <4> QED
        BY <3>2, <4>1, <4>2 DEF Compose
    <3>3. CASE SendBad(t)
      BY <3>3, FrameTypes DEF SendBad, Types
    <3> QED
      BY <1>5, <3>1, <3>2, <3>3 DEF PageSends
  <2>2. inbox' \in [Tabs -> Seq(ClientFrames)]
    BY <2>1, SendsTypes
  <2> QED
    BY <1>5, <2>1, <2>2 DEF PageSends, Types
<1>6. ASSUME NEW t \in Tabs, NEW i \in pending[t], Shows(t, i) PROVE Types'
  <2>1. page[t] \in Pages /\ i \in Items
    BY DEF Types
  <2>2. ShowItem(page[t], i) \in Pages
    BY <2>1, ShowItemTypes
  <2> QED
    BY <1>6, <2>2 DEF Types, Shows
<1>7. ASSUME NEW t \in Tabs, ReceiveBad(t) PROVE Types'
  BY <1>7, ReceiveTypes DEF Types, ReceiveBad
<1>8. ASSUME NEW t \in Tabs, ReceiveMessage(t) PROVE Types'
  <2> DEFINE f == Head(inbox[t])
  <2>1. inbox' \in [Tabs -> Seq(ClientFrames)] /\ f \in ClientFrames
    BY <1>8, ReceiveTypes DEF ReceiveMessage
  <2>2. CASE TooLong(f)
    <3>1. page[t] \in Pages /\ Warning \in Items
      BY DEF Types, Items
    <3>2. ShowItem(page[t], Warning) \in Pages
      BY <3>1, ShowItemTypes
    <3> QED
      BY <1>8, <2>1, <2>2, <3>2 DEF Types, ReceiveMessage
  <2>3. CASE ~TooLong(f)
    <3>1. f.id \in Ids
      BY <2>1, <2>3, FrameIds DEF TooLong
    <3>2. Message(f.id, TRUE) \in Texts
      BY <3>1 DEF Message, Texts
    <3>3. toServer' \in Seq(Texts \cup Queries)
      BY <1>8, <2>3, <3>2, ToServerGrows DEF ReceiveMessage, SendChat
    <3>4. pending' \in [Tabs -> SUBSET Items]
      <4>1. pending' = Echo(f.id, t)
        BY <1>8, <2>3 DEF ReceiveMessage
      <4> QED
        BY <3>1, <4>1, BroadcastTypes DEF Items
    <3> QED
      BY <1>8, <2>1, <2>3, <3>3, <3>4 DEF Types, ReceiveMessage
  <2> QED
    BY <2>2, <2>3
<1>9. ASSUME NEW t \in Tabs, ReceiveLoad(t) PROVE Types'
  <2> DEFINE f == Head(inbox[t])
             q == Query(queries', f.id)
  <2>1. inbox' \in [Tabs -> Seq(ClientFrames)] /\ f \in ClientFrames
    BY <1>9, ReceiveTypes DEF ReceiveLoad
  <2>2. queries' \in Nat
    BY <1>9 DEF ReceiveLoad, Types
  <2>3. q \in Queries
    BY <2>1, <2>2, FrameIds DEF Query, Queries
  <2>4. toServer' \in Seq(Texts \cup Queries)
    BY <1>9, <2>3, ToServerGrows DEF ReceiveLoad
  <2>5. asking' \in [Tabs -> Queries \cup {None}]
    BY <1>9, <2>3 DEF ReceiveLoad, Types
  <2> QED
    BY <1>9, <2>1, <2>2, <2>4, <2>5 DEF Types, ReceiveLoad
<1>10. ASSUME NEW t \in Tabs, QueryTimesOut(t) PROVE Types'
  <2>1. NoAnswer.items \in Seq(Archived) /\ NoAnswer.fin \in BOOLEAN
    BY Empty DEF NoAnswer
  <2>2. asking' \in [Tabs -> Queries \cup {None}] /\ page' \in [Tabs -> Pages]
    BY <1>10, <2>1, AnswerTypes DEF QueryTimesOut
  <2> QED
    BY <1>10, <2>2 DEF Types, QueryTimesOut
<1>11. ASSUME NEW body \in BOOLEAN, PeerWrites(body) PROVE Types'
  <2>1. messages \in Nat /\ MaxMessages \in Nat
    BY BoundsAssumption DEF Types
  <2>2. messages' \in Ids /\ messages' \in Nat
    BY <1>11, <2>1 DEF PeerWrites, Ids
  <2>3. [id |-> messages', body |-> body] \in Archived /\ Message(messages', body) \in Texts
    BY <2>2 DEF Archived, Message, Texts
  <2>4. archive' \in Seq(Archived)
    BY <1>11, <2>3, ArchiveGrows DEF PeerWrites
  <2>5. toClient' \in Seq(Texts \cup {Bounce} \cup Results)
    <3>1. CASE online
      BY <1>11, <2>3, <3>1, ToClientGrows DEF PeerWrites
    <3>2. CASE ~online
      BY <1>11, <3>2 DEF PeerWrites, Types
    <3> QED
      BY <3>1, <3>2
  <2> QED
    BY <1>11, <2>2, <2>4, <2>5 DEF Types, PeerWrites
<1>12. CASE ServerArchives
  <2>1. toServer' \in Seq(Texts \cup Queries) /\ Head(toServer) \in Texts
    BY <1>12, TakesTypes DEF ServerArchives, Queries
  <2>2. [id |-> Head(toServer).id, body |-> TRUE] \in Archived
    BY <2>1 DEF Archived, Texts
  <2>3. archive' \in Seq(Archived)
    BY <1>12, <2>2, ArchiveGrows DEF ServerArchives
  <2>4. toClient' \in Seq(Texts \cup {Bounce} \cup Results)
    <3>1. CASE UNCHANGED toClient
      BY <3>1 DEF Types
    <3>2. CASE toClient' = Append(toClient, Bounce)
      BY <3>2, ToClientGrows
    <3> QED
      BY <1>12, <3>1, <3>2 DEF ServerArchives
  <2> QED
    BY <1>12, <2>1, <2>3, <2>4 DEF Types, ServerArchives, ServerTakes
<1>13. CASE ServerAnswers
  <2> DEFINE q == Head(toServer)
  <2>1. /\ toServer' \in Seq(Texts \cup Queries) /\ q \in Queries
        /\ q = toServer[1] /\ 1 \in DOMAIN toServer /\ q.kind = "query"
    BY <1>13, TakesTypes DEF ServerAnswers, Texts
  <2>2. q.before # None => InArchive(q.before)
    BY <2>1 DEF Matched
  <2>3. Result(q.number, ArchivePage(q.before, PageSize)) \in Results
    BY <2>1, <2>2, PageOfArchive DEF Result, Results, Queries
  <2>4. toClient' \in Seq(Texts \cup {Bounce} \cup Results)
    BY <1>13, <2>3, ToClientGrows DEF ServerAnswers
  <2> QED
    BY <1>13, <2>1, <2>4 DEF Types, ServerAnswers, ServerTakes
<1>14. CASE OnMessage
  <2>1. /\ toClient' \in Seq(Texts \cup {Bounce} \cup Results)
        /\ Head(toClient) \in Texts \cup {Bounce}
    BY <1>14, ClientTakesTypes DEF OnMessage, Results
  <2>2. pending' \in [Tabs -> SUBSET Items]
    <3>1. CASE pending' = ToAll(Warning)
      BY <3>1 DEF ToAll, Types, Items
    <3>2. CASE UNCHANGED pending
      BY <3>2 DEF Types
    <3>3. CASE pending' = ToAll(Head(toClient).id) /\ Head(toClient).kind # "error"
      <4>1. Head(toClient).id \in Items
        BY <2>1, <3>3 DEF Texts, Bounce, Items
      <4>2. pending \in [Tabs -> SUBSET Items]
        BY DEF Types
      <4> QED
        BY <3>3, <4>1, <4>2 DEF ToAll
    <3> QED
      BY <1>14, <3>1, <3>2, <3>3 DEF OnMessage
  <2> QED
    BY <1>14, <2>1, <2>2 DEF Types, OnMessage, ClientTakes
<1>15. CASE OnResult
  <2>1. /\ toClient' \in Seq(Texts \cup {Bounce} \cup Results)
        /\ Head(toClient) \in Results
    BY <1>15, ClientTakesTypes DEF OnResult, Texts, Bounce
  <2>2. asking' \in [Tabs -> Queries \cup {None}] /\ page' \in [Tabs -> Pages]
    <3>1. CASE UNCHANGED <<asking, page>>
      BY <3>1 DEF Types
    <3>2. ASSUME NEW t \in Tabs, Answer(t, Head(toClient))
          PROVE  asking' \in [Tabs -> Queries \cup {None}] /\ page' \in [Tabs -> Pages]
      <4>1. Head(toClient).items \in Seq(Archived) /\ Head(toClient).fin \in BOOLEAN
        BY <2>1 DEF Results
      <4> QED
        BY <3>2, <4>1, AnswerTypes
    <3> QED
      BY <1>15, <3>1, <3>2 DEF OnResult
  <2> QED
    BY <1>15, <2>1, <2>2 DEF Types, OnResult, ClientTakes
<1>16. CASE StreamLost
  BY <1>16, Empty DEF Types, StreamLost
<1>17. CASE SessionStarts
  BY <1>17 DEF Types, SessionStarts
<1> QED
  BY <1>0, <1>1, <1>2, <1>3, <1>4, <1>5, <1>6, <1>7, <1>8, <1>9, <1>10, <1>11, <1>12, <1>13,
     <1>14, <1>15, <1>16, <1>17 DEF Next, Stream, Serve

-----------------------------------------------------------------------------
(* A message is in one place at most.                                      *)

LEMMA InitNumbered == Init => Numbered
  BY Empty DEF Init, Numbered, ArchiveNumbered, WireNumbered, InboxNumbered

(* A frame goes into an inbox; if it is a text, it has the next number.    *)
LEMMA SendsNumbered ==
  ASSUME Types, Numbered, NEW t \in Tabs, NEW f \in ClientFrames, Sends(t, f),
         UNCHANGED <<archive, toServer>>, messages' \in Nat, messages <= messages',
         IsText(f) => f.id = messages + 1 /\ messages' = messages + 1
  PROVE  Numbered'
<1> USE DEF Numbered, InArchive, InWire
<1>1. /\ Len(inbox[t]) \in Nat /\ DOMAIN inbox[t] = 1..Len(inbox[t])
      /\ DOMAIN inbox'[t] = 1..(Len(inbox[t]) + 1)
      /\ \A i \in DOMAIN inbox[t] : inbox'[t][i] = inbox[t][i]
      /\ inbox'[t][Len(inbox[t]) + 1] = f
      /\ \A u \in Tabs : u # t => inbox'[u] = inbox[u]
  <2>1. inbox[t] \in Seq(ClientFrames)
    BY DEF Types
  <2> QED
    BY <2>1, SendsTypes, Appended
<1>2. /\ \A i \in DOMAIN archive : archive[i].id \in Nat /\ archive[i].id <= messages
      /\ \A i \in DOMAIN toServer : toServer[i].kind = "message" =>
           toServer[i].id \in Nat /\ toServer[i].id <= messages
      /\ \A u \in Tabs : \A i \in DOMAIN inbox[u] : IsText(inbox[u][i]) =>
           inbox[u][i].id \in Nat /\ inbox[u][i].id <= messages
  BY StanzaTypes, FrameIds, IdsAreNumbers
     DEF ArchiveNumbered, WireNumbered, InboxNumbered, Archived, Texts, Queries, IsText
<1>3. messages \in Nat
  BY DEF Types
<1>4. ArchiveNumbered' /\ WireNumbered'
  BY <1>2, <1>3 DEF ArchiveNumbered, WireNumbered
<1>5. ASSUME NEW u \in Tabs, NEW i \in DOMAIN inbox'[u], IsText(inbox'[u][i])
      PROVE  \/ i \in DOMAIN inbox[u] /\ inbox'[u][i] = inbox[u][i]
             \/ u = t /\ i = Len(inbox[t]) + 1 /\ inbox'[u][i] = f
  BY <1>1
<1>6. ASSUME NEW u \in Tabs, NEW i \in DOMAIN inbox'[u], IsText(inbox'[u][i])
      PROVE  /\ inbox'[u][i].id <= messages'
             /\ ~InArchive(inbox'[u][i].id)
             /\ ~InWire(inbox'[u][i].id)
  BY <1>5, <1>6, <1>2, <1>3 DEF InboxNumbered
<1>7. ASSUME NEW u \in Tabs, NEW i \in DOMAIN inbox'[u], IsText(inbox'[u][i]),
             NEW v \in Tabs, NEW j \in DOMAIN inbox'[v], IsText(inbox'[v][j]),
             inbox'[v][j].id = inbox'[u][i].id
      PROVE  u = v /\ i = j
  BY <1>5, <1>7, <1>2, <1>3 DEF InboxNumbered
<1> QED
  BY <1>4, <1>6, <1>7 DEF InboxNumbered, IsText

(* A frame leaves it. *)
LEMMA InboxShrinks ==
  ASSUME Types, NEW t \in Tabs, Receive(t)
  PROVE  /\ 1 \in DOMAIN inbox[t] /\ Head(inbox[t]) = inbox[t][1]
         /\ \A u \in Tabs : u # t => inbox'[u] = inbox[u]
         /\ DOMAIN inbox[t] \subseteq Nat
         /\ \A i \in DOMAIN inbox'[t] : /\ i \in Nat \ {0} /\ i + 1 \in DOMAIN inbox[t]
                                        /\ inbox'[t][i] = inbox[t][i + 1]
<1>1. inbox[t] \in Seq(ClientFrames) /\ inbox[t] # << >>
  BY DEF Types, Receive
<1>2. inbox'[t] = Tail(inbox[t]) /\ \A u \in Tabs : u # t => inbox'[u] = inbox[u]
  BY ReceiveTypes
<1> QED
  BY <1>1, <1>2, Shortened

(* If it is a text, it goes to the server. *)
LEMMA ReceiveNumbered ==
  ASSUME Types, ArchiveNumbered, InboxNumbered, NEW t \in Tabs, Receive(t),
         UNCHANGED <<archive, messages>>,
         \A i \in DOMAIN toServer' : toServer'[i].kind = "message" =>
           \/ InWire(toServer'[i].id)
           \/ IsText(Head(inbox[t])) /\ toServer'[i].id = Head(inbox[t]).id,
         WireNumbered'
  PROVE  Numbered'
<1>1. /\ 1 \in DOMAIN inbox[t] /\ Head(inbox[t]) = inbox[t][1]
      /\ \A u \in Tabs : u # t => inbox'[u] = inbox[u]
      /\ \A i \in DOMAIN inbox'[t] : /\ i \in Nat \ {0} /\ i + 1 \in DOMAIN inbox[t]
                                     /\ inbox'[t][i] = inbox[t][i + 1]
  BY InboxShrinks
<1> DEFINE Old(u, i) == IF u = t THEN i + 1 ELSE i
<1>2. /\ \A u \in Tabs : \A i \in DOMAIN inbox'[u] :
           Old(u, i) \in DOMAIN inbox[u] /\ inbox'[u][i] = inbox[u][Old(u, i)]
      /\ \A i \in DOMAIN inbox'[t] : Old(t, i) # 1
  <2>1. \A u \in Tabs : u # t => \A i \in DOMAIN inbox'[u] :
           Old(u, i) \in DOMAIN inbox[u] /\ inbox'[u][i] = inbox[u][Old(u, i)]
    BY <1>1
  <2>2. \A i \in DOMAIN inbox'[t] :
           Old(t, i) \in DOMAIN inbox[t] /\ inbox'[t][i] = inbox[t][Old(t, i)] /\ Old(t, i) # 1
    BY <1>1
  <2> QED
    BY <2>1, <2>2
<1>3. \A u \in Tabs : \A i, j \in DOMAIN inbox'[u] : Old(u, i) = Old(u, j) => i = j
  BY <1>1
<1> HIDE DEF Old
<1>4. ASSUME NEW u \in Tabs, NEW i \in DOMAIN inbox'[u], IsText(inbox[u][i])'
      PROVE  (inbox[u][i].id <= messages /\ ~InArchive(inbox[u][i].id) /\ ~InWire(inbox[u][i].id))'
  <2> DEFINE m == inbox[u][Old(u, i)].id
  <2>0. inbox'[u][i] = inbox[u][Old(u, i)] /\ Old(u, i) \in DOMAIN inbox[u]
    BY <1>2
  <2>1. IsText(inbox[u][Old(u, i)])
    BY <2>0, <1>4 DEF IsText
  <2>2. m <= messages /\ ~InArchive(m) /\ ~InWire(m)
    BY <2>0, <2>1 DEF InboxNumbered
  <2>3. IsText(Head(inbox[t])) => Head(inbox[t]).id # m
    <3> SUFFICES ASSUME IsText(inbox[t][1]), inbox[t][1].id = m PROVE FALSE
      BY <1>1
    <3>1. u = t /\ Old(u, i) = 1
      BY <1>1, <2>0, <2>1 DEF InboxNumbered
    <3> QED
      BY <3>1, <1>2
  <2>4. inbox'[u][i].id = m
    BY <2>0
  <2>5. \A k \in DOMAIN toServer' : toServer'[k].kind = "message" => toServer'[k].id # m
    BY <2>2, <2>3
  <2> QED
    BY <2>2, <2>4, <2>5 DEF InArchive, InWire
<1>5. ASSUME NEW u \in Tabs, NEW i \in DOMAIN inbox'[u], IsText(inbox[u][i])',
             NEW v \in Tabs, NEW j \in DOMAIN inbox'[v], IsText(inbox[v][j])',
             inbox'[v][j].id = inbox'[u][i].id
      PROVE  u = v /\ i = j
  <2>1. /\ IsText(inbox[u][Old(u, i)]) /\ Old(u, i) \in DOMAIN inbox[u]
        /\ IsText(inbox[v][Old(v, j)]) /\ Old(v, j) \in DOMAIN inbox[v]
        /\ inbox[v][Old(v, j)].id = inbox[u][Old(u, i)].id
    BY <1>2, <1>5 DEF IsText
  <2>2. u = v /\ Old(u, i) = Old(v, j)
    BY <2>1 DEF InboxNumbered
  <2> QED
    BY <2>2, <1>3
<1>6. ArchiveNumbered'
  BY DEF ArchiveNumbered
<1> QED
  BY <1>4, <1>5, <1>6 DEF InboxNumbered, Numbered, IsText

(* What t receives and sends on. *)
LEMMA SendNumbered ==
  ASSUME Types, Numbered, NEW s \in Texts \cup Queries, Send(s), UNCHANGED <<archive, messages>>,
         s.kind = "message" => s.id <= messages /\ ~InArchive(s.id) /\ ~InWire(s.id)
  PROVE  /\ WireNumbered'
         /\ \A i \in DOMAIN toServer' : toServer'[i].kind = "message" =>
              InWire(toServer'[i].id) \/ (s.kind = "message" /\ toServer'[i].id = s.id)
<1>1. /\ \A i \in DOMAIN toServer' : \/ i \in DOMAIN toServer /\ toServer'[i] = toServer[i]
                                     \/ /\ i \notin DOMAIN toServer
                                        /\ toServer'[i] = s
                                        /\ \A j \in DOMAIN toServer' : j <= i
      /\ DOMAIN toServer' \subseteq Nat
  <2>1. DOMAIN toServer' \subseteq Nat
    BY ToServerGrows, LenProperties
  <2> QED
    BY <2>1, ToServerGrows
<1>2. \A i \in DOMAIN toServer' : toServer'[i].kind = "message" =>
        InWire(toServer'[i].id) \/ (s.kind = "message" /\ toServer'[i].id = s.id)
  BY <1>1 DEF InWire
<1>3. ASSUME NEW i \in DOMAIN toServer', toServer'[i].kind = "message"
      PROVE  toServer'[i].id <= messages /\ ~InArchive(toServer'[i].id)
  BY <1>1, <1>3 DEF Numbered, WireNumbered
<1>4. ASSUME NEW i \in DOMAIN toServer', toServer'[i].kind = "message",
             NEW j \in DOMAIN toServer', toServer'[j].kind = "message",
             toServer'[j].id = toServer'[i].id
      PROVE  i = j
  <2>1. CASE i \in DOMAIN toServer /\ j \in DOMAIN toServer
    BY <2>1, <1>1, <1>4 DEF Numbered, WireNumbered
  <2>2. CASE i \notin DOMAIN toServer /\ j \notin DOMAIN toServer
    BY <2>2, <1>1
  <2>3. CASE i \in DOMAIN toServer /\ j \notin DOMAIN toServer
    BY <2>3, <1>1, <1>4 DEF InWire
  <2>4. CASE i \notin DOMAIN toServer /\ j \in DOMAIN toServer
    BY <2>4, <1>1, <1>4 DEF InWire
  <2> QED
    BY <2>1, <2>2, <2>3, <2>4
<1>5. WireNumbered'
  BY <1>3, <1>4 DEF WireNumbered, InArchive
<1> QED
  BY <1>2, <1>5

(* The server takes a stanza; if it is a message, it archives it. *)
LEMMA ArchivesNumbered ==
  ASSUME Types, Numbered, ServerTakes, UNCHANGED inbox, 
         \/ UNCHANGED archive
         \/ /\ toServer[1].kind = "message"
            /\ archive' = Append(archive, [id |-> toServer[1].id, body |-> TRUE])
  PROVE  Numbered'
<1> DEFINE Moved(m) == toServer[1].kind = "message" /\ m = toServer[1].id
<1>1. /\ 1 \in DOMAIN toServer /\ toServer[1] \in Texts \cup Queries
      /\ \A i \in DOMAIN toServer' : /\ i \in Nat \ {0} /\ i + 1 \in DOMAIN toServer
                                     /\ toServer'[i] = toServer[i + 1]
  BY TakesTypes
<1>2. UNCHANGED messages
  BY DEF ServerTakes
<1>3. /\ \A i \in DOMAIN archive : i \in DOMAIN archive' /\ archive'[i] = archive[i]
      /\ \A i \in DOMAIN archive' : \/ i \in DOMAIN archive /\ archive'[i] = archive[i]
                                    \/ /\ Moved(archive'[i].id)
                                       /\ \A k \in DOMAIN archive' : k <= i
      /\ DOMAIN archive' \subseteq Nat
  <2>1. CASE UNCHANGED archive
    BY <2>1, StanzaTypes
  <2>2. CASE /\ toServer[1].kind = "message"
             /\ archive' = Append(archive, [id |-> toServer[1].id, body |-> TRUE])
    <3>1. [id |-> toServer[1].id, body |-> TRUE] \in Archived
      BY <1>1, <2>2 DEF Archived, Texts, Queries
    <3>2. archive' \in Seq(Archived)
      BY <2>2, <3>1, ArchiveGrows
    <3>3. DOMAIN archive' \subseteq Nat
      BY <3>2, LenProperties
    <3> QED
      BY <2>2, <3>1, <3>3, ArchiveGrows
  <2> QED
    BY <2>1, <2>2
<1>4. \A m : Moved(m) => m <= messages /\ ~InArchive(m)
  BY <1>1 DEF Numbered, WireNumbered
<1>5. \A i \in DOMAIN toServer' : toServer'[i].kind = "message" =>
        toServer'[i].id <= messages /\ ~InArchive(toServer'[i].id) /\ ~Moved(toServer'[i].id)
  BY <1>1 DEF Numbered, WireNumbered
<1>6. \A t \in Tabs : \A i \in DOMAIN inbox[t] : IsText(inbox[t][i]) =>
        ~Moved(inbox[t][i].id)
  BY <1>1 DEF Numbered, InboxNumbered, InWire
<1>7. WireNumbered'
  <2>1. ASSUME NEW i \in DOMAIN toServer', toServer'[i].kind = "message"
        PROVE  \A k \in DOMAIN archive' : archive'[k].id # toServer'[i].id
    BY <1>3, <1>5, <2>1 DEF InArchive
  <2>2. ASSUME NEW i \in DOMAIN toServer', toServer'[i].kind = "message",
               NEW j \in DOMAIN toServer', toServer'[j].kind = "message",
               toServer'[j].id = toServer'[i].id
        PROVE  i = j
    <3>1. i + 1 = j + 1
      BY <1>1, <2>2 DEF Numbered, WireNumbered
    <3> QED
      BY <1>1, <3>1
  <2> QED
    BY <1>2, <1>5, <2>1, <2>2 DEF WireNumbered, InArchive
<1>8. ArchiveNumbered'
  <2>1. ASSUME NEW i \in DOMAIN archive' PROVE archive'[i].id <= messages
    BY <1>3, <1>4 DEF Numbered, ArchiveNumbered
  <2>2. ASSUME NEW i \in DOMAIN archive', NEW j \in DOMAIN archive', archive'[i].id = archive'[j].id
        PROVE  i = j
    BY <1>3, <1>4, <2>2 DEF Numbered, ArchiveNumbered, InArchive
  <2> QED
    BY <1>2, <2>1, <2>2 DEF ArchiveNumbered
<1>9. InboxNumbered'
  <2>1. ASSUME NEW t \in Tabs, NEW i \in DOMAIN inbox[t], IsText(inbox[t][i])
        PROVE  /\ \A k \in DOMAIN archive' : archive'[k].id # inbox[t][i].id
               /\ \A k \in DOMAIN toServer' : toServer'[k].kind = "message" =>
                    toServer'[k].id # inbox[t][i].id
    <3>1. ~InArchive(inbox[t][i].id) /\ ~InWire(inbox[t][i].id) /\ ~Moved(inbox[t][i].id)
      BY <1>6, <2>1 DEF Numbered, InboxNumbered
    <3> QED
      BY <3>1, <1>1, <1>3 DEF InArchive, InWire
  <2> QED
    BY <1>2, <2>1 DEF Numbered, InboxNumbered, InArchive, InWire, IsText
<1> QED
  BY <1>7, <1>8, <1>9 DEF Numbered

LEMMA NumberedStep ==
  ASSUME Types, Numbered, [Next]_vars
  PROVE  Numbered'
<1> USE DEF tabVars, wireVars, boundVars, historyVars
<1>0. ASSUME UNCHANGED <<inbox, toServer, archive, messages>> PROVE Numbered'
  BY <1>0 DEF Numbered, ArchiveNumbered, WireNumbered, InboxNumbered, InArchive, InWire
<1>1. ASSUME NEW t \in Tabs, HandlerEnds(t) PROVE Numbered'
  <2>1. inbox \in [Tabs -> Seq(ClientFrames)] /\ inbox' = [inbox EXCEPT ![t] = << >>]
    BY <1>1 DEF HandlerEnds, Types
  <2>2. \A u \in Tabs : \A i \in DOMAIN inbox'[u] : i \in DOMAIN inbox[u] /\ inbox'[u][i] = inbox[u][i]
    BY <2>1, Empty
  <2>3. UNCHANGED <<toServer, archive, messages>>
    BY <1>1 DEF HandlerEnds
  <2>4. InboxNumbered'
    <3>1. ASSUME NEW u \in Tabs, NEW i \in DOMAIN inbox'[u], IsText(inbox[u][i])'
          PROVE  /\ inbox[u][i].id <= messages /\ ~InArchive(inbox[u][i].id) /\ ~InWire(inbox[u][i].id)
                 /\ inbox'[u][i] = inbox[u][i]
      BY <2>2, <3>1 DEF Numbered, InboxNumbered, IsText
    <3>2. ASSUME NEW u \in Tabs, NEW i \in DOMAIN inbox'[u], IsText(inbox[u][i])',
                 NEW v \in Tabs, NEW j \in DOMAIN inbox'[v], IsText(inbox[v][j])',
                 inbox'[v][j].id = inbox'[u][i].id
          PROVE  u = v /\ i = j
      BY <2>2, <3>2 DEF Numbered, InboxNumbered, IsText
    <3> QED
      BY <2>3, <3>1, <3>2 DEF InboxNumbered, InArchive, InWire, IsText
  <2> QED
    BY <2>3, <2>4 DEF Numbered, ArchiveNumbered, WireNumbered, InArchive
<1>2. ASSUME NEW t \in Tabs, SetActive(t) PROVE Numbered'
  <2>1. CASE UNCHANGED <<frames, inbox>>
    BY <1>0, <1>2, <2>1 DEF SetActive
  <2>2. CASE Sends(t, LoadHistory(None))
    <3>1. ~IsText(LoadHistory(None))
      BY DEF IsText, LoadHistory
    <3>2. messages' \in Nat /\ messages <= messages' /\ UNCHANGED <<archive, toServer>>
      BY <1>2 DEF SetActive, Types
    <3> QED
      BY <2>2, <3>1, <3>2, FrameTypes, SendsNumbered
  <2> QED
    BY <1>2, <2>1, <2>2 DEF SetActive
<1>3. ASSUME NEW t \in Tabs, PageSends(t) PROVE Numbered'
  <2>1. UNCHANGED <<archive, toServer>> /\ messages \in Nat
    BY <1>3 DEF PageSends, Types
  <2>2. CASE LoadOlder(t)
    <3>1. page[t].oldest \in Ids \cup {None}
      BY DEF Types, Pages
    <3>2. ~IsText(LoadHistory(page[t].oldest))
      BY DEF IsText, LoadHistory
    <3> QED
      BY <2>1, <2>2, <3>1, <3>2, FrameTypes, SendsNumbered DEF LoadOlder
  <2>3. CASE Compose(t)
    <3>1. CASE Sends(t, SendMessage(None)) /\ UNCHANGED messages
      <4>1. ~IsText(SendMessage(None))
        BY DEF IsText, SendMessage
      <4> QED
        BY <2>1, <3>1, <4>1, FrameTypes, SendsNumbered
    <3>2. CASE messages < MaxMessages /\ messages' = messages + 1 /\ Sends(t, SendMessage(messages'))
      <4>1. messages' \in Ids /\ messages' \in Nat /\ messages <= messages'
        <5>1. MaxMessages \in Nat
          BY BoundsAssumption
        <5> QED
          BY <2>1, <3>2, <5>1 DEF Ids
      <4>2. SendMessage(messages').id = messages'
        BY DEF SendMessage
      <4> QED
        BY <2>1, <3>2, <4>1, <4>2, FrameTypes, SendsNumbered
    <3> QED
      BY <2>3, <3>1, <3>2 DEF Compose
  <2>4. CASE SendBad(t)
    <3>1. ~IsText(BadFrame)
      BY DEF IsText, BadFrame
    <3> QED
      BY <2>1, <2>4, <3>1, FrameTypes, SendsNumbered DEF SendBad
  <2> QED
    BY <1>3, <2>2, <2>3, <2>4 DEF PageSends
<1>4. ASSUME NEW t \in Tabs, ReceiveBad(t) PROVE Numbered'
  <2>1. UNCHANGED <<archive, messages, toServer>> /\ Receive(t)
    BY <1>4 DEF ReceiveBad
  <2>2. WireNumbered' /\ \A i \in DOMAIN toServer' : toServer'[i].kind = "message" => InWire(toServer'[i].id)
    BY <2>1 DEF Numbered, WireNumbered, InArchive, InWire
  <2> QED
    BY <2>1, <2>2, ReceiveNumbered DEF Numbered
<1>5. ASSUME NEW t \in Tabs, ReceiveMessage(t) PROVE Numbered'
  <2> DEFINE f == Head(inbox[t])
             s == Message(f.id, TRUE)
  <2>1. UNCHANGED <<archive, messages>> /\ Receive(t) /\ f \in ClientFrames /\ f.type = "send_message"
    BY <1>5, ReceiveTypes DEF ReceiveMessage
  <2>2. CASE TooLong(f)
    <3>1. UNCHANGED toServer
      BY <1>5, <2>2 DEF ReceiveMessage
    <3>2. WireNumbered' /\ \A i \in DOMAIN toServer' : toServer'[i].kind = "message" => InWire(toServer'[i].id)
      BY <2>1, <3>1 DEF Numbered, WireNumbered, InArchive, InWire
    <3> QED
      BY <2>1, <3>2, ReceiveNumbered DEF Numbered
  <2>3. CASE ~TooLong(f)
    <3>1. Send(s)
      BY <1>5, <2>3 DEF ReceiveMessage, SendChat
    <3>2. f.id \in Ids /\ IsText(f)
      BY <2>1, <2>3, FrameIds DEF TooLong, IsText
    <3>3. s \in Texts /\ s.kind = "message" /\ s.id = f.id
      BY <3>2 DEF Message, Texts
    <3>4. f.id <= messages /\ ~InArchive(f.id) /\ ~InWire(f.id)
      BY <2>1, <3>2, InboxShrinks DEF Numbered, InboxNumbered
    <3> HIDE DEF f, s
    <3>5. /\ WireNumbered'
          /\ \A i \in DOMAIN toServer' : toServer'[i].kind = "message" =>
               InWire(toServer'[i].id) \/ toServer'[i].id = f.id
      BY <2>1, <3>1, <3>3, <3>4, SendNumbered
    <3> QED
      BY <2>1, <3>2, <3>5, ReceiveNumbered DEF Numbered, f
  <2> QED
    BY <2>2, <2>3
<1>6. ASSUME NEW t \in Tabs, ReceiveLoad(t) PROVE Numbered'
  <2> DEFINE f == Head(inbox[t])
             s == Query(queries', f.id)
  <2>1. UNCHANGED <<archive, messages>> /\ Receive(t) /\ f \in ClientFrames /\ Send(s)
    BY <1>6, ReceiveTypes DEF ReceiveLoad
  <2>2. queries' \in Nat
    BY <1>6 DEF ReceiveLoad, Types
  <2>3. s \in Queries /\ s.kind # "message"
    BY <2>1, <2>2, FrameIds DEF Query, Queries
  <2> HIDE DEF f, s
  <2>4. /\ WireNumbered'
        /\ \A i \in DOMAIN toServer' : toServer'[i].kind = "message" => InWire(toServer'[i].id)
    BY <2>1, <2>3, SendNumbered
  <2> QED
    BY <2>1, <2>4, ReceiveNumbered DEF Numbered
<1>7. ASSUME NEW body \in BOOLEAN, PeerWrites(body) PROVE Numbered'
  <2> DEFINE x == [id |-> messages + 1, body |-> body]
  <2>1. messages \in Nat /\ messages' = messages + 1 /\ UNCHANGED <<inbox, toServer>>
    BY <1>7 DEF PeerWrites, Types
  <2>2. x \in Archived
    <3>1. MaxMessages \in Nat /\ messages < MaxMessages
      BY <1>7, BoundsAssumption DEF PeerWrites
    <3> QED
      BY <2>1, <3>1 DEF Archived, Ids
  <2>3. archive' = Append(archive, x)
    BY <1>7 DEF PeerWrites
  <2>4. /\ \A i \in DOMAIN archive' : \/ i \in DOMAIN archive /\ archive'[i] = archive[i]
                                      \/ /\ archive'[i].id = messages + 1
                                         /\ \A k \in DOMAIN archive' : k <= i
        /\ DOMAIN archive' \subseteq Nat
    <3>1. archive' \in Seq(Archived)
      BY <2>2, <2>3, ArchiveGrows
    <3>2. x.id = messages + 1 /\ DOMAIN archive' \subseteq Nat
      BY <3>1, LenProperties
    <3> HIDE DEF x
    <3> QED
      BY <2>2, <2>3, <3>2, ArchiveGrows
  <2>5. /\ \A i \in DOMAIN archive : archive[i].id \in Nat /\ archive[i].id <= messages
        /\ \A i \in DOMAIN toServer : toServer[i].kind = "message" =>
             toServer[i].id \in Nat /\ toServer[i].id <= messages
        /\ \A u \in Tabs : \A i \in DOMAIN inbox[u] : IsText(inbox[u][i]) =>
             inbox[u][i].id \in Nat /\ inbox[u][i].id <= messages
    BY StanzaTypes, FrameIds, IdsAreNumbers
       DEF Numbered, ArchiveNumbered, WireNumbered, InboxNumbered, Archived, Texts, Queries, IsText
  <2>6. ArchiveNumbered'
    <3>1. \A i \in DOMAIN archive' : archive'[i].id <= messages'
      BY <2>1, <2>4, <2>5
    <3>2. ASSUME NEW i \in DOMAIN archive', NEW j \in DOMAIN archive', archive'[i].id = archive'[j].id
          PROVE  i = j
      BY <2>1, <2>4, <2>5, <3>2 DEF Numbered, ArchiveNumbered
    <3> QED
      BY <3>1, <3>2 DEF ArchiveNumbered
  <2>7. WireNumbered'
    <3>1. ASSUME NEW i \in DOMAIN toServer, toServer[i].kind = "message"
          PROVE  /\ toServer[i].id <= messages'
                 /\ \A k \in DOMAIN archive' : archive'[k].id # toServer[i].id
      BY <2>1, <2>4, <2>5, <3>1 DEF Numbered, WireNumbered, InArchive
    <3> QED
      BY <2>1, <3>1 DEF Numbered, WireNumbered, InArchive
  <2>8. InboxNumbered'
    <3>1. ASSUME NEW t \in Tabs, NEW i \in DOMAIN inbox[t], IsText(inbox[t][i])
          PROVE  /\ inbox[t][i].id <= messages'
                 /\ \A k \in DOMAIN archive' : archive'[k].id # inbox[t][i].id
      BY <2>1, <2>4, <2>5, <3>1 DEF Numbered, InboxNumbered, InArchive
    <3> QED
      BY <2>1, <3>1 DEF Numbered, InboxNumbered, InArchive, InWire, IsText
  <2> QED
    BY <2>6, <2>7, <2>8 DEF Numbered
<1>8. CASE ServerArchives \/ ServerAnswers
  <2>1. /\ ServerTakes /\ UNCHANGED inbox
        /\ \/ UNCHANGED archive
           \/ /\ toServer[1].kind = "message"
              /\ archive' = Append(archive, [id |-> toServer[1].id, body |-> TRUE])
    BY <1>8, TakesTypes DEF ServerArchives, ServerAnswers, ServerTakes
  <2> QED
    BY <2>1, ArchivesNumbered
<1>9. CASE StreamLost
  <2>1. UNCHANGED <<inbox, archive, messages>> /\ DOMAIN toServer' = {}
    BY <1>9, Empty DEF StreamLost
  <2> QED
    BY <2>1 DEF Numbered, ArchiveNumbered, WireNumbered, InboxNumbered, InArchive, InWire, IsText
<1>10. CASE UNCHANGED vars
  BY <1>0, <1>10 DEF vars
<1>11. ASSUME NEW t \in Tabs, \/ \E r \in Requests : Handshake(t, r)
                              \/ TabCloses(t) \/ QueryTimesOut(t) \/ \E i \in pending[t] : Shows(t, i)
       PROVE  Numbered'
  <2>1. CASE \E r \in Requests : Handshake(t, r)
    <3>1. PICK r \in Requests : Handshake(t, r)
      BY <2>1
    <3>2. UNCHANGED <<inbox, toServer, archive, messages>>
      BY <3>1 DEF Handshake
    <3> QED
      BY <1>0, <3>2
  <2>2. CASE TabCloses(t)
    BY <1>0, <2>2 DEF TabCloses
  <2>3. CASE QueryTimesOut(t)
    BY <1>0, <2>3 DEF QueryTimesOut
  <2>4. CASE \E i \in pending[t] : Shows(t, i)
    BY <1>0, <2>4 DEF Shows
  <2> QED
    BY <1>11, <2>1, <2>2, <2>3, <2>4
<1>12. CASE OnMessage \/ OnResult \/ SessionStarts
  <2>1. CASE ClientTakes
    BY <1>0, <2>1 DEF ClientTakes
  <2>2. CASE SessionStarts
    BY <1>0, <2>2 DEF SessionStarts
  <2>3. OnMessage => ClientTakes
    BY DEF OnMessage
  <2>4. OnResult => ClientTakes
    BY DEF OnResult
  <2> QED
    BY <1>12, <2>1, <2>2, <2>3, <2>4
<1> QED
  BY <1>1, <1>2, <1>3, <1>4, <1>5, <1>6, <1>7, <1>8, <1>9, <1>10, <1>11, <1>12 DEF Next, Stream, Serve

-----------------------------------------------------------------------------
(* What a step leaves alone, and what it does to the archive, the queries, *)
(* the streams, the inboxes and the pages.                                 *)

LEMMA TabFrames ==
  ASSUME NEW t \in Tabs
  PROVE  /\ \A r \in Requests : Handshake(t, r) =>
              UNCHANGED <<inbox, asking, pending, online, toServer, toClient, archive, queries>>
         /\ TabCloses(t) =>
              UNCHANGED <<inbox, asking, page, online, toServer, toClient, archive, queries>>
         /\ HandlerEnds(t) =>
              UNCHANGED <<asking, pending, page, online, toServer, toClient, archive, queries, whole>>
         /\ SetActive(t) =>
              UNCHANGED <<pc, asking, pending, online, toServer, toClient, archive, queries, whole>>
         /\ PageSends(t) =>
              UNCHANGED <<pc, asking, pending, page, online, toServer, toClient, archive, queries, whole>>
         /\ \A i \in pending[t] : Shows(t, i) =>
              UNCHANGED <<pc, inbox, asking, online, toServer, toClient, archive, queries, whole>>
         /\ ReceiveBad(t) =>
              UNCHANGED <<pc, asking, pending, page, online, toServer, toClient, archive, queries, whole>>
         /\ ReceiveMessage(t) =>
              UNCHANGED <<pc, asking, online, toClient, archive, queries, whole>>
         /\ ReceiveLoad(t) =>
              UNCHANGED <<pc, pending, page, online, toClient, archive, whole>>
         /\ QueryTimesOut(t) =>
              UNCHANGED <<pc, inbox, pending, online, toServer, toClient, archive, queries, whole>>
  BY DEF Handshake, TabCloses, HandlerEnds, SetActive, PageSends, ReceiveBad, ReceiveMessage,
         ReceiveLoad, QueryTimesOut, Shows, tabVars, wireVars, boundVars, historyVars

LEMMA StreamFrames ==
  /\ \A body \in BOOLEAN : PeerWrites(body) =>
       UNCHANGED <<pc, inbox, asking, pending, page, online, toServer, queries, whole>>
  /\ ServerTakes => UNCHANGED <<pc, inbox, asking, pending, page, online, queries, whole>>
  /\ ServerArchives => ServerTakes
  /\ ServerAnswers => ServerTakes /\ UNCHANGED archive
  /\ ClientTakes => UNCHANGED <<pc, inbox, online, toServer, archive, queries, whole>>
  /\ OnMessage => ClientTakes /\ UNCHANGED <<asking, page>>
  /\ OnResult => ClientTakes /\ UNCHANGED pending
  /\ StreamLost => UNCHANGED <<pc, inbox, asking, pending, page, archive, queries>>
  /\ SessionStarts =>
       /\ UNCHANGED <<pc, inbox, asking, pending, page, toServer, toClient, archive, queries, whole>>
       /\ online' = TRUE
  /\ UNCHANGED vars => 
       UNCHANGED <<pc, inbox, asking, pending, page, online, toServer, toClient, archive, queries, whole>>
  BY DEF PeerWrites, ServerTakes, ServerArchives, ServerAnswers, ClientTakes, OnMessage, OnResult,
         StreamLost, SessionStarts, vars, tabVars, wireVars, boundVars, historyVars

(* The archive and the number of queries only grow. *)
LEMMA ArchiveStep ==
  ASSUME Types, [Next]_vars
  PROVE  \A i \in DOMAIN archive : i \in DOMAIN archive' /\ archive'[i] = archive[i]
<1>0. CASE UNCHANGED archive
  BY <1>0
<1>1. ASSUME NEW body \in BOOLEAN, PeerWrites(body)
      PROVE  \A i \in DOMAIN archive : i \in DOMAIN archive' /\ archive'[i] = archive[i]
  <2>1. messages \in Nat /\ MaxMessages \in Nat
    BY BoundsAssumption DEF Types
  <2>2. [id |-> messages', body |-> body] \in Archived
    BY <1>1, <2>1 DEF PeerWrites, Ids, Archived
  <2> QED
    BY <1>1, <2>2, ArchiveGrows DEF PeerWrites
<1>2. CASE ServerArchives
  <2>1. Head(toServer) \in Texts
    BY <1>2, TakesTypes DEF ServerArchives, Queries
  <2>2. [id |-> Head(toServer).id, body |-> TRUE] \in Archived
    BY <2>1 DEF Archived, Texts
  <2> QED
    BY <1>2, <2>2, ArchiveGrows DEF ServerArchives
<1> QED
  BY <1>0, <1>1, <1>2, TabFrames, StreamFrames DEF Next, Stream, Serve

LEMMA QueriesStep ==
  ASSUME Types, [Next]_vars
  PROVE  queries \in Nat /\ queries' \in Nat /\ queries <= queries'
<1>1. queries \in Nat
  BY DEF Types
<1>2. UNCHANGED queries => queries' \in Nat /\ queries <= queries'
  BY <1>1
<1>3. ASSUME NEW t \in Tabs, ReceiveLoad(t) PROVE queries' \in Nat /\ queries <= queries'
  BY <1>1, <1>3 DEF ReceiveLoad
<1> QED
  BY <1>1, <1>2, <1>3, TabFrames, StreamFrames DEF Next, Stream, Serve

(* A handler that waits goes on waiting, or it has its answer. *)
LEMMA AskingStep ==
  ASSUME Types, [Next]_vars, NEW t \in Tabs, ~ReceiveLoad(t)
  PROVE  asking'[t] \in {asking[t], None}
<1>1. UNCHANGED asking => asking'[t] \in {asking[t], None}
  OBVIOUS
<1>2. ASSUME NEW u \in Tabs, NEW r, Answer(u, r) PROVE asking'[t] \in {asking[t], None}
  BY <1>2 DEF Answer, Types
<1>3. ASSUME NEW u \in Tabs, QueryTimesOut(u) PROVE asking'[t] \in {asking[t], None}
  BY <1>2, <1>3 DEF QueryTimesOut
<1>4. ASSUME NEW u \in Tabs, ReceiveLoad(u) PROVE asking'[t] \in {asking[t], None}
  BY <1>4 DEF ReceiveLoad, Types
<1>5. CASE OnResult
  <2>1. UNCHANGED asking \/ \E u \in Tabs : Answer(u, Head(toClient))
    BY <1>5 DEF OnResult
  <2> QED
    BY <1>1, <1>2, <2>1
<1> QED
  BY <1>1, <1>3, <1>4, <1>5, TabFrames, StreamFrames DEF Next, Stream, Serve

(* A query is sent by the handler that waits for it, with the next number. *)
LEMMA LoadAsks ==
  ASSUME Types, NEW t \in Tabs, ReceiveLoad(t)
  PROVE  /\ asking'[t] \in Queries
         /\ asking'[t].number = queries + 1 /\ queries' = queries + 1
         /\ asking'[t].before = inbox[t][1].id
         /\ inbox[t][1].type = "load_history" /\ 1 \in DOMAIN inbox[t]
         /\ Send(asking'[t])
         /\ \A u \in Tabs : u # t => asking'[u] = asking[u]
<1> DEFINE f == Head(inbox[t])
<1>1. /\ f = inbox[t][1] /\ 1 \in DOMAIN inbox[t] /\ f \in ClientFrames
      /\ f.type = "load_history"
  BY InboxShrinks, ReceiveTypes DEF ReceiveLoad
<1>2. queries \in Nat /\ queries' = queries + 1
  BY DEF Types, ReceiveLoad
<1>3. /\ asking' = [asking EXCEPT ![t] = Query(queries', f.id)]
      /\ Send(Query(queries', f.id))
  BY DEF ReceiveLoad
<1>4. asking'[t] = Query(queries', f.id) /\ \A u \in Tabs : u # t => asking'[u] = asking[u]
  BY <1>3 DEF Types
<1>5. asking'[t] \in Queries /\ asking'[t].number = queries + 1 /\ asking'[t].before = f.id
  BY <1>1, <1>2, <1>4, FrameIds DEF Query, Queries
<1> QED
  BY <1>1, <1>2, <1>3, <1>4, <1>5

LEMMA WireStep ==
  ASSUME Types, [Next]_vars, NEW i \in DOMAIN toServer'
  PROVE  \/ \E j \in DOMAIN toServer : toServer'[i] = toServer[j]
         \/ toServer'[i].kind = "message"
         \/ \E t \in Tabs : ReceiveLoad(t) /\ toServer'[i] = asking'[t]
<1> DEFINE Old == \E j \in DOMAIN toServer : toServer'[i] = toServer[j]
<1>0. UNCHANGED toServer => Old
  OBVIOUS
<1>1. ServerTakes => Old
  BY TakesTypes
<1>2. ASSUME NEW t \in Tabs, ReceiveMessage(t) PROVE Old \/ toServer'[i].kind = "message"
  <2> DEFINE f == Head(inbox[t])
             s == Message(f.id, TRUE)
  <2>1. CASE TooLong(f)
    BY <1>0, <1>2, <2>1 DEF ReceiveMessage
  <2>2. CASE ~TooLong(f)
    <3>1. Send(s)
      BY <1>2, <2>2 DEF ReceiveMessage, SendChat
    <3>2. f.id \in Ids
      BY <1>2, <2>2, ReceiveTypes, FrameIds DEF TooLong, ReceiveMessage
    <3>3. s \in Texts /\ s.kind = "message"
      BY <3>2 DEF Message, Texts
    <3> HIDE DEF f, s
    <3> QED
      BY <3>1, <3>3, ToServerGrows
  <2> QED
    BY <2>1, <2>2
<1>3. ASSUME NEW t \in Tabs, ReceiveLoad(t) PROVE Old \/ toServer'[i] = asking'[t]
  BY <1>3, LoadAsks, ToServerGrows
<1>4. CASE StreamLost
  BY <1>4, Empty DEF StreamLost
<1> QED
  BY <1>0, <1>1, <1>2, <1>3, <1>4, TabFrames, StreamFrames DEF Next, Stream, Serve

(* A result is an answer of the archive. *)
LEMMA ResultStep ==
  ASSUME Types, Matched, [Next]_vars, NEW i \in DOMAIN toClient', toClient'[i].kind = "result"
  PROVE  \/ \E j \in DOMAIN toClient : toClient'[i] = toClient[j]
         \/ /\ ServerAnswers
            /\ toClient'[i] = Result(toServer[1].number, ArchivePage(toServer[1].before, PageSize))
<1> DEFINE Old == \E j \in DOMAIN toClient : toClient'[i] = toClient[j]
<1>0. UNCHANGED toClient => Old
  OBVIOUS
<1>1. ClientTakes => Old
  BY ClientTakesTypes
<1>2. ASSUME NEW body \in BOOLEAN, PeerWrites(body) PROVE Old
  <2>1. messages \in Nat /\ MaxMessages \in Nat
    BY BoundsAssumption DEF Types
  <2>2. Message(messages', body) \in Texts /\ Message(messages', body).kind = "message"
    BY <1>2, <2>1 DEF PeerWrites, Ids, Message, Texts
  <2> QED
    BY <1>0, <1>2, <2>2, ToClientGrows DEF PeerWrites
<1>3. ServerArchives => Old
  <2>1. Bounce.kind = "error"
    BY DEF Bounce
  <2> QED
    BY <1>0, <2>1, ToClientGrows DEF ServerArchives
<1>4. ASSUME ServerAnswers
      PROVE  Old \/ toClient'[i] = Result(toServer[1].number, ArchivePage(toServer[1].before, PageSize))
  <2> DEFINE s == Result(toServer[1].number, ArchivePage(toServer[1].before, PageSize))
  <2>1. toServer[1] \in Queries /\ toServer[1].kind = "query" /\ 1 \in DOMAIN toServer
    BY <1>4, TakesTypes DEF ServerAnswers, Texts
  <2>2. s \in Results
    BY <2>1, PageOfArchive DEF Result, Results, Queries, Matched
  <2>3. toClient' = Append(toClient, s)
    BY <1>4, TakesTypes DEF ServerAnswers
  <2> HIDE DEF s
  <2>4. Old \/ toClient'[i] = s
    BY <2>2, <2>3, ToClientGrows
  <2> QED
    BY <2>4 DEF s
<1>5. CASE StreamLost
  BY <1>5, Empty DEF StreamLost
<1> QED
  BY <1>0, <1>1, <1>2, <1>3, <1>4, <1>5, TabFrames, StreamFrames DEF Next, Stream, Serve

(* A page asks for what is before its oldest message. *)
LEMMA InboxStep ==
  ASSUME Types, [Next]_vars, NEW t \in Tabs, NEW i \in DOMAIN inbox'[t], IsLoad(inbox'[t][i])
  PROVE  \/ \E j \in DOMAIN inbox[t] : inbox'[t][i] = inbox[t][j]
         \/ /\ inbox'[t][i].id = page[t].oldest /\ page[t].oldest # None
            /\ PageSends(t)
<1> DEFINE Old == \E j \in DOMAIN inbox[t] : inbox'[t][i] = inbox[t][j]
<1>0. UNCHANGED inbox => Old
  OBVIOUS
<1>1. ASSUME NEW u \in Tabs, Receive(u) PROVE Old
  <2>1. CASE u = t
    BY <1>1, <2>1, InboxShrinks
  <2>2. CASE u # t
    BY <1>1, <2>2, InboxShrinks
  <2> QED
    BY <2>1, <2>2
<1>2. ASSUME NEW u \in Tabs, NEW f \in ClientFrames, Sends(u, f) PROVE Old \/ (u = t /\ inbox'[t][i] = f)
  <2>1. CASE u = t
    <3>1. inbox[t] \in Seq(ClientFrames) /\ inbox'[t] = Append(inbox[t], f)
      BY <1>2, <2>1, SendsTypes DEF Types
    <3> QED
      BY <2>1, <3>1, Appended
  <2>2. CASE u # t
    BY <1>2, <2>2, SendsTypes
  <2> QED
    BY <2>1, <2>2
<1>3. ASSUME NEW u \in Tabs, HandlerEnds(u) PROVE Old
  <2>1. inbox \in [Tabs -> Seq(ClientFrames)] /\ inbox' = [inbox EXCEPT ![u] = << >>]
    BY <1>3 DEF HandlerEnds, Types
  <2> QED
    BY <2>1, Empty
<1>4. ASSUME NEW u \in Tabs, SetActive(u) PROVE Old
  <2>1. ~IsLoad(LoadHistory(None))
    BY DEF IsLoad, LoadHistory
  <2>2. UNCHANGED inbox \/ Sends(u, LoadHistory(None))
    BY <1>4 DEF SetActive
  <2> QED
    BY <1>0, <1>2, <2>1, <2>2, FrameTypes
<1>5. ASSUME NEW u \in Tabs, PageSends(u)
      PROVE  Old \/ (u = t /\ inbox'[t][i].id = page[t].oldest /\ page[t].oldest # None)
  <2>1. CASE LoadOlder(u)
    <3>1. page[u].oldest \in Ids \cup {None}
      BY DEF Types, Pages
    <3>2. LoadHistory(page[u].oldest).id = page[u].oldest
      BY DEF LoadHistory
    <3>3. Sends(u, LoadHistory(page[u].oldest))
      BY <2>1 DEF LoadOlder
    <3>4. Old \/ (u = t /\ inbox'[t][i] = LoadHistory(page[u].oldest))
      BY <1>2, <3>1, <3>3, FrameTypes
    <3> QED
      BY <3>2, <3>4 DEF IsLoad
  <2>2. ASSUME NEW m \in Ids \cup {None}, Sends(u, SendMessage(m)) PROVE Old
    <3>1. ~IsLoad(SendMessage(m))
      BY DEF IsLoad, SendMessage
    <3> QED
      BY <1>2, <2>2, <3>1, FrameTypes
  <2>3. CASE Compose(u)
    <3>1. messages \in Nat /\ MaxMessages \in Nat
      BY BoundsAssumption DEF Types
    <3>2. Sends(u, SendMessage(None)) \/ (messages' \in Ids /\ Sends(u, SendMessage(messages')))
      BY <2>3, <3>1 DEF Compose, Ids
    <3> QED
      BY <2>2, <3>2
  <2>4. CASE SendBad(u)
    <3>1. ~IsLoad(BadFrame)
      BY DEF IsLoad, BadFrame
    <3> QED
      BY <1>2, <2>4, <3>1, FrameTypes DEF SendBad
  <2> QED
    BY <1>5, <2>1, <2>3, <2>4 DEF PageSends
<1>6. \A u \in Tabs : /\ ReceiveBad(u) => Receive(u)
                      /\ ReceiveMessage(u) => Receive(u)
                      /\ ReceiveLoad(u) => Receive(u)
  BY DEF ReceiveBad, ReceiveMessage, ReceiveLoad
<1> QED
  BY <1>0, <1>1, <1>3, <1>4, <1>5, <1>6, TabFrames, StreamFrames DEF Next, Stream, Serve

(* The result that a client takes, and whose handler gets it. *)
LEMMA ResultTaken ==
  ASSUME Types, OnResult
  PROVE  /\ 1 \in DOMAIN toClient /\ toClient[1] \in Results
         /\ \/ UNCHANGED <<asking, page>>
            \/ \E t \in Tabs : Awaits(t, toClient[1].number) /\ Answer(t, toClient[1])
<1>1. /\ Head(toClient) = toClient[1] /\ 1 \in DOMAIN toClient
      /\ toClient[1] \in Texts \cup {Bounce} \cup Results
  BY ClientTakesTypes DEF OnResult
<1>2. toClient[1].kind = "result"
  BY <1>1 DEF OnResult
<1> QED
  BY <1>1, <1>2 DEF OnResult, Texts, Bounce

(* The oldest message of a page is one of a result, or was it before. *)
LEMMA OldestStep ==
  ASSUME Types, [Next]_vars, NEW t \in Tabs
  PROVE  \/ page'[t].oldest = page[t].oldest
         \/ pc[t] = "off" /\ page'[t].oldest = None
         \/ /\ OnResult /\ Awaits(t, toClient[1].number) /\ Answer(t, toClient[1])
            /\ page'[t].oldest # None
            /\ \E j \in DOMAIN toClient[1].items : page'[t].oldest = toClient[1].items[j].id
<1> DEFINE Same == page'[t].oldest = page[t].oldest
<1>0. UNCHANGED page => Same
  OBVIOUS
<1>1. ASSUME NEW u \in Tabs, NEW r \in Requests, Handshake(u, r)
      PROVE  Same \/ (pc[t] = "off" /\ page'[t].oldest = None)
  <2>1. page \in [Tabs -> Pages] /\ page' \in {page, [page EXCEPT ![u] = NewPage]} /\ pc[u] = "off"
    BY <1>1 DEF Handshake, Types
  <2> QED
    BY <2>1 DEF NewPage
<1>2. ASSUME NEW u \in Tabs, SetActive(u) PROVE Same
  BY <1>2 DEF SetActive, Types, Pages
<1>3. ASSUME NEW u \in Tabs, NEW i \in Items, page' = [page EXCEPT ![u] = ShowItem(@, i)] PROVE Same
  <2>1. page \in [Tabs -> Pages]
    BY DEF Types
  <2>2. ShowItem(page[u], i).oldest = page[u].oldest
    BY <2>1, ShowItemTypes
  <2> QED
    BY <1>3, <2>1, <2>2
<1>4. ASSUME NEW u \in Tabs, NEW i \in pending[u], Shows(u, i) PROVE Same
  <2>1. i \in Items /\ page' = [page EXCEPT ![u] = ShowItem(@, i)]
    BY <1>4 DEF Shows, Types
  <2> QED
    BY <1>3, <2>1
<1>5. ASSUME NEW u \in Tabs, ReceiveMessage(u) PROVE Same
  <2>1. UNCHANGED page \/ page' = [page EXCEPT ![u] = ShowItem(@, Warning)]
    BY <1>5 DEF ReceiveMessage
  <2> QED
    BY <1>0, <1>3, <2>1 DEF Items
<1>6. ASSUME NEW u \in Tabs, QueryTimesOut(u) PROVE Same
  <2>1. NoAnswer.items \in Seq(Archived) /\ NoAnswer.fin \in BOOLEAN /\ DOMAIN NoAnswer.items = {}
    BY Empty DEF NoAnswer
  <2> QED
    BY <1>6, <2>1, AnswerTypes DEF QueryTimesOut
<1>7. ASSUME OnResult
      PROVE  \/ Same
             \/ /\ Awaits(t, toClient[1].number) /\ Answer(t, toClient[1])
                /\ page'[t].oldest # None
                /\ \E j \in DOMAIN toClient[1].items : page'[t].oldest = toClient[1].items[j].id
  <2>1. CASE UNCHANGED <<asking, page>>
    BY <1>0, <2>1
  <2>2. ASSUME NEW u \in Tabs, Awaits(u, toClient[1].number), Answer(u, toClient[1])
        PROVE  \/ Same
               \/ /\ u = t
                  /\ \E j \in DOMAIN toClient[1].items :
                       page'[t].oldest = toClient[1].items[j].id /\ page'[t].oldest # None
    <3>1. toClient[1].items \in Seq(Archived) /\ toClient[1].fin \in BOOLEAN
      BY <1>7, ResultTaken DEF Results
    <3> QED
      BY <2>2, <3>1, AnswerTypes
  <2> QED
    BY <1>7, <2>1, <2>2, ResultTaken
<1> QED
  BY <1>0, <1>1, <1>2, <1>4, <1>5, <1>6, <1>7, TabFrames, StreamFrames DEF Next, Stream, Serve

-----------------------------------------------------------------------------
(* Queries, results and the messages they are about.                       *)

LEMMA InitMatched == Init => Matched
<1> SUFFICES ASSUME Init PROVE Matched
  OBVIOUS
<1> QED
  BY Empty DEF Init, Matched, NewPage

LEMMA MatchedStep ==
  ASSUME Types, Matched, [Next]_vars
  PROVE  Matched'
<1>1. queries \in Nat /\ queries <= queries' /\ queries' \in Nat
  BY QueriesStep
<1>2. ASSUME NEW i \in DOMAIN toServer', toServer'[i].kind = "query"
      PROVE  /\ toServer'[i].number <= queries'
             /\ toServer'[i].before # None => InArchive(toServer[i].before)'
             /\ \A t \in Tabs : (asking'[t] # None /\ asking'[t].number = toServer'[i].number)
                                  => toServer'[i] = asking'[t]
  <2>1. CASE \E j \in DOMAIN toServer : toServer'[i] = toServer[j]
    <3>1. PICK j \in DOMAIN toServer : toServer'[i] = toServer[j]
      BY <2>1
    <3>2. /\ toServer[j] \in Queries /\ toServer[j].number <= queries
          /\ toServer[j].before # None => InArchive(toServer[j].before)
      BY <1>2, <3>1, StanzaTypes DEF Matched, Texts
    <3>3. toServer[j].number \in Nat /\ toServer[j].number # queries + 1
      BY <1>1, <3>2 DEF Queries
    <3>4. ASSUME NEW t \in Tabs, asking'[t] # None, asking'[t].number = toServer'[i].number
          PROVE  toServer'[i] = asking'[t]
      <4>1. ~ReceiveLoad(t)
        BY <3>1, <3>3, <3>4, LoadAsks
      <4>2. asking'[t] = asking[t]
        BY <3>4, <4>1, AskingStep
      <4> QED
        BY <1>2, <3>1, <3>4, <4>2 DEF Matched, Awaits
    <3>5. toServer'[i].before # None => \E k \in DOMAIN archive' : archive'[k].id = toServer'[i].before
      BY <3>1, <3>2, ArchiveStep DEF InArchive
    <3> QED
      BY <1>1, <3>1, <3>2, <3>3, <3>4, <3>5 DEF InArchive
  <2>2. ASSUME NEW u \in Tabs, ReceiveLoad(u), toServer'[i] = asking'[u]
        PROVE  /\ toServer'[i].number <= queries'
               /\ toServer'[i].before # None =>
                    \E k \in DOMAIN archive' : archive'[k].id = toServer'[i].before
               /\ \A t \in Tabs : (asking'[t] # None /\ asking'[t].number = toServer'[i].number)
                                    => toServer'[i] = asking'[t]
    <3>1. asking'[u].number = queries + 1 /\ queries' = queries + 1
      BY <2>2, LoadAsks
    <3>2. asking'[u].before # None => InArchive(asking'[u].before)
      BY <2>2, LoadAsks DEF Matched, IsLoad
    <3>3. ASSUME NEW t \in Tabs, t # u, asking'[t] # None, asking'[t].number = queries + 1 PROVE FALSE
      <4>1. asking[t] # None /\ asking[t].number = queries + 1 /\ asking[t] \in Queries
        BY <2>2, <3>3, LoadAsks DEF Types
      <4>2. asking[t].number <= queries /\ asking[t].number \in Nat
        BY <4>1 DEF Matched, Queries
      <4> QED
        BY <1>1, <4>1, <4>2
    <3> QED
      BY <1>1, <2>2, <3>1, <3>2, <3>3, ArchiveStep DEF InArchive
  <2> QED
    BY <1>2, <2>1, <2>2, WireStep DEF InArchive
<1>3. ASSUME NEW i \in DOMAIN toClient', toClient'[i].kind = "result"
      PROVE  /\ toClient'[i].number <= queries'
             /\ \A j \in DOMAIN toClient'[i].items :
                  \E k \in DOMAIN archive' : archive'[k].id = toClient'[i].items[j].id
  <2>1. CASE \E j \in DOMAIN toClient : toClient'[i] = toClient[j]
    <3>1. PICK j \in DOMAIN toClient : toClient'[i] = toClient[j]
      BY <2>1
    <3>2. toClient[j].number <= queries /\ toClient[j].number \in Nat
      BY <1>3, <3>1, StanzaTypes DEF Matched, Texts, Bounce, Results
    <3>3. \A k \in DOMAIN toClient[j].items : InArchive(toClient[j].items[k].id)
      BY <1>3, <3>1 DEF Matched
    <3> QED
      BY <1>1, <3>1, <3>2, <3>3, ArchiveStep DEF InArchive
  <2>2. ASSUME ServerAnswers,
               toClient'[i] = Result(toServer[1].number, ArchivePage(toServer[1].before, PageSize))
        PROVE  /\ toClient'[i].number <= queries'
               /\ \A j \in DOMAIN toClient'[i].items :
                    \E k \in DOMAIN archive' : archive'[k].id = toClient'[i].items[j].id
    <3>1. toServer[1] \in Queries /\ toServer[1].kind = "query" /\ 1 \in DOMAIN toServer
      BY <2>2, TakesTypes DEF ServerAnswers, Texts
    <3> DEFINE b == toServer[1].before
    <3>2. /\ toServer[1].number <= queries /\ toServer[1].number \in Nat
          /\ b # None => InArchive(b)
      BY <3>1 DEF Matched, Queries
    <3>3. /\ toClient'[i].number = toServer[1].number
          /\ toClient'[i].items = ArchivePage(b, PageSize).items
      BY <2>2 DEF Result
    <3> HIDE DEF b
    <3>4. \A j \in DOMAIN ArchivePage(b, PageSize).items :
            \E k \in DOMAIN archive : archive[k].id = ArchivePage(b, PageSize).items[j].id
      <4>1. PICK first \in Nat : \A j \in DOMAIN ArchivePage(b, PageSize).items :
              /\ first + j - 1 \in DOMAIN archive
              /\ ArchivePage(b, PageSize).items[j] = archive[first + j - 1]
        BY <3>2, PageOfArchive
      <4> QED
        BY <4>1
    <3> QED
      BY <1>1, <3>2, <3>3, <3>4, ArchiveStep
  <2> QED
    BY <1>3, <2>1, <2>2, ResultStep
<1>4. ASSUME NEW t \in Tabs
      PROVE  /\ page'[t].oldest # None => \E k \in DOMAIN archive' : archive'[k].id = page'[t].oldest
             /\ asking'[t] # None => asking'[t].number <= queries'
             /\ \A i \in DOMAIN inbox'[t] : IsLoad(inbox'[t][i]) =>
                  \E k \in DOMAIN archive' : archive'[k].id = inbox'[t][i].id
  <2>1. ASSUME page'[t].oldest # None PROVE InArchive(page'[t].oldest)
    <3>1. CASE page'[t].oldest = page[t].oldest
      BY <2>1, <3>1 DEF Matched
    <3>2. CASE OnResult /\ \E j \in DOMAIN toClient[1].items : page'[t].oldest = toClient[1].items[j].id
      <4>1. toClient[1] \in Results /\ toClient[1].kind = "result" /\ 1 \in DOMAIN toClient
        BY <3>2, ResultTaken DEF Results
      <4> QED
        BY <3>2, <4>1 DEF Matched
    <3> QED
      BY <2>1, <3>1, <3>2, OldestStep
  <2>2. ASSUME asking'[t] # None PROVE asking'[t].number <= queries'
    <3>1. CASE ReceiveLoad(t)
      BY <1>1, <3>1, LoadAsks
    <3>2. CASE ~ReceiveLoad(t)
      <4>1. asking'[t] = asking[t] /\ asking[t] \in Queries
        BY <2>2, <3>2, AskingStep DEF Types
      <4>2. asking[t].number \in Nat /\ asking[t].number <= queries
        BY <2>2, <4>1 DEF Queries, Matched
      <4> QED
        BY <1>1, <4>1, <4>2
    <3> QED
      BY <3>1, <3>2
  <2>3. ASSUME NEW i \in DOMAIN inbox'[t], IsLoad(inbox'[t][i]) PROVE InArchive(inbox'[t][i].id)
    BY <2>3, InboxStep DEF Matched
  <2> QED
    BY <2>1, <2>2, <2>3, ArchiveStep DEF InArchive
<1> QED
  BY <1>2, <1>3, <1>4 DEF Matched, InArchive, Awaits, IsLoad

-----------------------------------------------------------------------------
(* A handler that is not there is idle.                                    *)

LEMMA InitOffIsIdle == Init => OffIsIdle
  BY DEF Init, OffIsIdle

LEMMA OffIsIdleStep ==
  ASSUME Types, OffIsIdle, [Next]_vars
  PROVE  OffIsIdle'
<1> SUFFICES ASSUME NEW t \in Tabs, pc'[t] = "off" PROVE inbox'[t] = << >> /\ asking'[t] = None
  BY DEF OffIsIdle
<1>1. CASE HandlerEnds(t)
  BY <1>1 DEF HandlerEnds, Types
<1>2. CASE ~HandlerEnds(t)
  <2>1. pc[t] = "off"
    <3>1. UNCHANGED pc => pc[t] = "off"
      OBVIOUS
    <3>2. ASSUME NEW u \in Tabs, NEW r \in Requests, Handshake(u, r) PROVE pc[t] = "off"
      BY <3>2 DEF Handshake, Types
    <3>3. ASSUME NEW u \in Tabs, TabCloses(u) PROVE pc[t] = "off"
      BY <3>3 DEF TabCloses, Types
    <3>4. ASSUME NEW u \in Tabs, HandlerEnds(u) PROVE pc[t] = "off"
      BY <1>2, <3>4 DEF HandlerEnds, Types
    <3> QED
      BY <3>1, <3>2, <3>3, <3>4, TabFrames, StreamFrames DEF Next, Stream, Serve
  <2>2. inbox[t] = << >> /\ asking[t] = None
    BY <2>1 DEF OffIsIdle
  <2>3. asking'[t] = None
    <3>1. ~ReceiveLoad(t)
      BY <2>1 DEF ReceiveLoad, Receive
    <3> QED
      BY <2>2, <3>1, AskingStep
  <2>4. inbox'[t] = << >>
    <3>1. UNCHANGED inbox => inbox'[t] = << >>
      BY <2>2
    <3>2. ASSUME NEW u \in Tabs, pc[u] # "off", NEW x, inbox' = [inbox EXCEPT ![u] = x]
          PROVE  inbox'[t] = << >>
      <4>1. u # t
        BY <2>1, <3>2
      <4> QED
        BY <2>2, <3>2, <4>1 DEF Types
    <3>3. ASSUME NEW u \in Tabs, SetActive(u) PROVE inbox'[t] = << >>
      BY <3>1, <3>2, <3>3 DEF SetActive, Sends
    <3>4. ASSUME NEW u \in Tabs, PageSends(u) PROVE inbox'[t] = << >>
      BY <3>2, <3>4 DEF PageSends, LoadOlder, Compose, SendBad, Sends
    <3>5. ASSUME NEW u \in Tabs, Receive(u) PROVE inbox'[t] = << >>
      BY <3>2, <3>5 DEF Receive
    <3>6. ASSUME NEW u \in Tabs, HandlerEnds(u) PROVE inbox'[t] = << >>
      BY <3>2, <3>6 DEF HandlerEnds
    <3>7. \A u \in Tabs : /\ ReceiveBad(u) => Receive(u)
                          /\ ReceiveMessage(u) => Receive(u)
                          /\ ReceiveLoad(u) => Receive(u)
      BY DEF ReceiveBad, ReceiveMessage, ReceiveLoad
    <3> QED
      BY <3>1, <3>3, <3>4, <3>5, <3>6, <3>7, TabFrames, StreamFrames DEF Next, Stream, Serve
  <2> QED
    BY <2>3, <2>4
<1> QED
  BY <1>1, <1>2

-----------------------------------------------------------------------------
(* A page that misses nothing.                                             *)

(* The pages that missed nothing did so before, or are new. *)
LEMMA WholeStep ==
  ASSUME Types, [Next]_vars, NEW t \in whole'
  PROVE  \/ t \in whole
         \/ pc[t] = "off" /\ pc'[t] = "on" /\ page'[t] = NewPage /\ t \in Tabs /\ UNCHANGED <<inbox, asking>>
<1>1. UNCHANGED whole => t \in whole
  OBVIOUS
<1>2. ASSUME NEW u \in Tabs, NEW r \in Requests, Handshake(u, r)
      PROVE  \/ t \in whole
             \/ pc[t] = "off" /\ pc'[t] = "on" /\ page'[t] = NewPage /\ t \in Tabs /\ UNCHANGED <<inbox, asking>>
  <2>1. /\ whole' = IF page'[u] = NewPage THEN whole \cup {u} ELSE whole \ {u}
        /\ pc[u] = "off" /\ pc' = [pc EXCEPT ![u] = "on"] /\ pc \in [Tabs -> {"off", "on", "gone"}]
    BY <1>2 DEF Handshake, Types
  <2> QED
    BY <1>2, <2>1, TabFrames
<1>3. ASSUME NEW u \in Tabs, TabCloses(u) PROVE t \in whole
  BY <1>3 DEF TabCloses
<1>4. CASE StreamLost
  BY <1>4 DEF StreamLost
<1> QED
  BY <1>1, <1>2, <1>3, <1>4, TabFrames, StreamFrames DEF Next, Stream, Serve

(* They are still there, and their stream too. *)
LEMMA StaysOn ==
  ASSUME Types, [Next]_vars, NEW t \in Tabs, pc[t] = "on", t \in whole'
  PROVE  pc'[t] = "on" /\ ~StreamLost /\ (online => online')
<1>1. pc'[t] = "on"
  <2>1. UNCHANGED pc => pc'[t] = "on"
    OBVIOUS
  <2>2. ASSUME NEW u \in Tabs, NEW r \in Requests, Handshake(u, r) PROVE pc'[t] = "on"
    BY <2>2 DEF Handshake, Types
  <2>3. ASSUME NEW u \in Tabs, TabCloses(u) PROVE pc'[t] = "on"
    BY <2>3 DEF TabCloses, Types
  <2>4. ASSUME NEW u \in Tabs, HandlerEnds(u) PROVE pc'[t] = "on"
    BY <2>4 DEF HandlerEnds, Types
  <2> QED
    BY <2>1, <2>2, <2>3, <2>4, TabFrames, StreamFrames DEF Next, Stream, Serve
<1>2. ~StreamLost
  BY DEF StreamLost
<1>3. online => online'
  BY <1>2, TabFrames, StreamFrames DEF Next, Stream, Serve
<1> QED
  BY <1>1, <1>2, <1>3

(* What a page has, it keeps. *)
LEMMA HasStep ==
  ASSUME Types, [Next]_vars, NEW t \in Tabs, pc[t] = "on", t \in whole'
  PROVE  Has(t) \subseteq Has(t)'
<1> DEFINE Kept == Has(t) \subseteq Has(t)'
<1>0. /\ pending \in [Tabs -> SUBSET Items] /\ page \in [Tabs -> Pages]
      /\ \A u \in Tabs : page[u].shown \subseteq Items
  BY DEF Types, Pages
<1>1. pending[t] \subseteq pending'[t] /\ page[t].shown \subseteq page'[t].shown => Kept
  BY DEF Has
<1>2. ASSUME NEW u \in Tabs, NEW r \in Requests, Handshake(u, r) PROVE Kept
  <2>1. u # t /\ page' \in {page, [page EXCEPT ![u] = NewPage]} /\ UNCHANGED pending
    BY <1>2, TabFrames DEF Handshake
  <2>2. page'[t] = page[t]
    BY <1>0, <2>1
  <2> QED
    BY <1>1, <2>1, <2>2
<1>3. ASSUME NEW u \in Tabs, TabCloses(u) PROVE Kept
  <2>1. u # t /\ UNCHANGED page /\ pending' = [pending EXCEPT ![u] = {}]
    BY <1>3, TabFrames DEF TabCloses
  <2> QED
    BY <1>0, <1>1, <2>1
<1>4. ASSUME NEW u \in Tabs, SetActive(u) PROVE Kept
  <2>1. page' = [page EXCEPT ![u].opened = TRUE] /\ UNCHANGED pending
    BY <1>4, TabFrames DEF SetActive
  <2>2. page'[t].shown = page[t].shown
    BY <1>0, <2>1 DEF Pages
  <2> QED
    BY <1>1, <2>1, <2>2
<1>5. ASSUME NEW u \in Tabs, NEW i \in Items, page' = [page EXCEPT ![u] = ShowItem(@, i)]
      PROVE  page[t].shown \subseteq page'[t].shown /\ (u = t /\ i # Warning => i \in page'[t].shown)
  BY <1>0, <1>5, ShowItemTypes
<1>6. ASSUME NEW u \in Tabs, NEW i \in pending[u], Shows(u, i) PROVE Kept
  <2>1. /\ i \in Items /\ page' = [page EXCEPT ![u] = ShowItem(@, i)]
        /\ pending' = [pending EXCEPT ![u] = @ \ {i}]
    BY <1>0, <1>6 DEF Shows
  <2>2. page[t].shown \subseteq page'[t].shown /\ (u = t /\ i # Warning => i \in page'[t].shown)
    BY <1>5, <2>1
  <2>3. pending'[t] = IF u = t THEN pending[t] \ {i} ELSE pending[t]
    BY <1>0, <2>1
  <2> QED
    BY <2>2, <2>3 DEF Has
<1>7. ASSUME NEW u \in Tabs, ReceiveMessage(u) PROVE Kept
  <2> DEFINE f == Head(inbox[u])
  <2>1. CASE TooLong(f)
    <3>1. UNCHANGED pending /\ (UNCHANGED page \/ page' = [page EXCEPT ![u] = ShowItem(@, Warning)])
      BY <1>7, <2>1 DEF ReceiveMessage
    <3> QED
      BY <1>1, <1>5, <3>1 DEF Items
  <2>2. CASE ~TooLong(f)
    <3>1. UNCHANGED page /\ pending' = Echo(f.id, u)
      BY <1>7, <2>2 DEF ReceiveMessage
    <3>2. pending[t] \subseteq Echo(f.id, u)[t]
      BY DEF Echo
    <3> QED
      BY <1>1, <3>1, <3>2
  <2> QED
    BY <2>1, <2>2
<1>8. ASSUME NEW u \in Tabs, NEW r, r.items \in Seq(Archived), r.fin \in BOOLEAN, Answer(u, r)
      PROVE  page[t].shown \subseteq page'[t].shown
  BY <1>8, AnswerTypes
<1>9. ASSUME NEW u \in Tabs, QueryTimesOut(u) PROVE Kept
  <2>1. NoAnswer.items \in Seq(Archived) /\ NoAnswer.fin \in BOOLEAN
    BY Empty DEF NoAnswer
  <2> QED
    BY <1>1, <1>8, <1>9, <2>1, TabFrames DEF QueryTimesOut
<1>10. CASE OnMessage
  <2>1. UNCHANGED page /\ (UNCHANGED pending \/ \E i : pending' = ToAll(i))
    BY <1>10 DEF OnMessage
  <2>2. ASSUME NEW i PROVE pending[t] \subseteq ToAll(i)[t]
    BY DEF ToAll
  <2> QED
    BY <1>1, <2>1, <2>2
<1>11. CASE OnResult
  <2>1. UNCHANGED pending /\ (UNCHANGED page \/ \E u \in Tabs : Answer(u, toClient[1]))
    BY <1>11, ResultTaken, StreamFrames
  <2>2. toClient[1].items \in Seq(Archived) /\ toClient[1].fin \in BOOLEAN
    BY <1>11, ResultTaken DEF Results
  <2> QED
    BY <1>1, <1>8, <2>1, <2>2
<1>12. UNCHANGED <<page, pending>> => Kept
  BY <1>1
<1> QED
  BY <1>2, <1>3, <1>4, <1>6, <1>7, <1>9, <1>10, <1>11, <1>12, TabFrames, StreamFrames
     DEF Next, Stream, Serve

(* What is on its way to a page gets there, or stays on its way. *)
LEMMA ComingStep ==
  ASSUME Types, Matched, [Next]_vars, NEW t \in Tabs, pc[t] = "on", t \in whole',
         NEW i \in DOMAIN toClient, toClient[i].kind = "message", toClient[i].body
  PROVE  \/ \E j \in DOMAIN toClient' : toClient'[j] = toClient[i]
         \/ toClient[i].id \in pending'[t]
<1> DEFINE Kept == \E j \in DOMAIN toClient' : toClient'[j] = toClient[i]
<1>0. UNCHANGED toClient => Kept
  OBVIOUS
<1>1. ASSUME NEW s \in Texts \cup {Bounce} \cup Results, toClient' = Append(toClient, s) PROVE Kept
  BY <1>1, ToClientGrows
<1>2. ASSUME NEW body \in BOOLEAN, PeerWrites(body) PROVE Kept
  <2>1. messages \in Nat /\ MaxMessages \in Nat
    BY BoundsAssumption DEF Types
  <2>2. Message(messages', body) \in Texts
    BY <1>2, <2>1 DEF PeerWrites, Ids, Message, Texts
  <2> QED
    BY <1>0, <1>1, <1>2, <2>2 DEF PeerWrites
<1>3. ServerArchives => Kept
  BY <1>0, <1>1 DEF ServerArchives
<1>4. ASSUME ServerAnswers PROVE Kept
  <2>1. toServer[1] \in Queries /\ toServer[1].kind = "query" /\ 1 \in DOMAIN toServer
    BY <1>4, TakesTypes DEF ServerAnswers, Texts
  <2>2. Result(toServer[1].number, ArchivePage(toServer[1].before, PageSize)) \in Results
    BY <1>4, <2>1, PageOfArchive DEF Result, Results, Queries, Matched
  <2> QED
    BY <1>1, <1>4, <2>2, TakesTypes DEF ServerAnswers
<1>5. ASSUME ClientTakes, i # 1 PROVE Kept
  <2>1. i - 1 \in DOMAIN toClient' /\ i \in Nat
    BY <1>5, ClientTakesTypes
  <2>2. toClient'[i - 1] = toClient[(i - 1) + 1]
    BY <1>5, <2>1, ClientTakesTypes
  <2> QED
    BY <2>1, <2>2
<1>6. ASSUME OnMessage, i = 1 PROVE toClient[i].id \in pending'[t]
  <2>1. pending' = ToAll(toClient[1].id)
    BY <1>6, ClientTakesTypes DEF OnMessage
  <2> QED
    BY <1>6, <2>1 DEF ToAll, Attached
<1>7. ASSUME OnResult, i = 1 PROVE FALSE
  BY <1>7, ResultTaken DEF Results
<1> QED
  BY <1>0, <1>2, <1>3, <1>4, <1>5, <1>6, <1>7, StaysOn, TabFrames, StreamFrames DEF Next, Stream, Serve

LEMMA WillHaveStep ==
  ASSUME Types, Matched, [Next]_vars, NEW t \in Tabs, pc[t] = "on", t \in whole'
  PROVE  WillHave(t) \subseteq WillHave(t)'
<1>1. Has(t) \subseteq Has(t)'
  BY HasStep
<1>2. ASSUME NEW i \in DOMAIN toClient, toClient[i].kind = "message", toClient[i].body
      PROVE  toClient[i].id \in pending'[t] \cup {toClient'[k].id : k \in
               {j \in DOMAIN toClient' : toClient'[j].kind = "message" /\ toClient'[j].body}}
  BY <1>2, ComingStep
<1> QED
  BY <1>1, <1>2 DEF WillHave, Has, Coming

(* The messages to the server: the old ones in their order, or a last one  *)
(* that is echoed.                                                         *)
LEMMA WireOrder ==
  ASSUME Types, [Next]_vars, NEW t \in Tabs, pc[t] = "on", t \in whole'
  PROVE  \E d \in {0, 1} : \A i \in DOMAIN toServer' :
           \/ i \in Nat /\ i + d \in DOMAIN toServer /\ toServer'[i] = toServer[i + d]
           \/ /\ \A j \in DOMAIN toServer' : j <= i
              /\ toServer'[i].kind = "message" => toServer'[i].id \in Has(t)'
<1> DEFINE Last(i) == /\ \A j \in DOMAIN toServer' : j <= i
                      /\ toServer'[i].kind = "message" => toServer'[i].id \in Has(t)'
           Ordered == \E d \in {0, 1} : \A i \in DOMAIN toServer' :
             (i \in Nat /\ i + d \in DOMAIN toServer /\ toServer'[i] = toServer[i + d]) \/ Last(i)
<1>0. DOMAIN toServer \subseteq Nat
  BY StanzaTypes
<1>1. UNCHANGED toServer => Ordered
  <2> HIDE DEF Last
  <2> QED
    BY <1>0
<1>2. ServerTakes => Ordered
  <2> HIDE DEF Last
  <2> QED
    BY TakesTypes
<1>3. ASSUME NEW s \in Texts \cup Queries, Send(s), s.kind = "message" => s.id \in Has(t)'
      PROVE  Ordered
  <2>1. \A i \in DOMAIN toServer' : (i \in DOMAIN toServer /\ toServer'[i] = toServer[i]) \/ Last(i)
    BY <1>3, ToServerGrows
  <2> HIDE DEF Last
  <2>2. \A i \in DOMAIN toServer' :
          (i \in Nat /\ i + 0 \in DOMAIN toServer /\ toServer'[i] = toServer[i + 0]) \/ Last(i)
    BY <1>0, <2>1
  <2> QED
    BY <2>2
<1>4. ASSUME NEW u \in Tabs, ReceiveMessage(u) PROVE Ordered
  <2> DEFINE f == Head(inbox[u])
             s == Message(f.id, TRUE)
  <2>1. CASE TooLong(f)
    BY <1>1, <1>4, <2>1 DEF ReceiveMessage
  <2>2. CASE ~TooLong(f)
    <3>1. Send(s) /\ pending' = Echo(f.id, u)
      BY <1>4, <2>2 DEF ReceiveMessage, SendChat
    <3>2. f.id \in Ids
      BY <1>4, <2>2, ReceiveTypes, FrameIds DEF TooLong, ReceiveMessage
    <3>3. s \in Texts /\ s.id = f.id
      BY <3>2 DEF Message, Texts
    <3>4. f.id \in Has(t)'
      BY <3>1, <3>2, IdsAreNumbers DEF Echo, Attached, Has
    <3> HIDE DEF f, s, Ordered
    <3> QED
      BY <1>3, <3>1, <3>3, <3>4
  <2> QED
    BY <2>1, <2>2
<1>5. ASSUME NEW u \in Tabs, ReceiveLoad(u) PROVE Ordered
  <2>1. asking'[u] \in Queries /\ Send(asking'[u]) /\ asking'[u].kind # "message"
    BY <1>5, LoadAsks DEF Queries
  <2> HIDE DEF Ordered
  <2> QED
    BY <1>3, <2>1
<1>6. ~StreamLost
  BY StaysOn
<1>7. Ordered
  <2> HIDE DEF Ordered
  <2> QED
    BY <1>1, <1>2, <1>4, <1>5, <1>6, TabFrames, StreamFrames DEF Next, Stream, Serve
<1> QED
  BY <1>7

LEMMA EchoedStep ==
  ASSUME Types, [Next]_vars, NEW t \in Tabs, pc[t] = "on", t \in whole', Echoed(t)
  PROVE  Echoed(t)'
<1>1. Has(t) \subseteq Has(t)'
  BY HasStep
<1>2. PICK d \in {0, 1} : \A i \in DOMAIN toServer' :
           \/ i \in Nat /\ i + d \in DOMAIN toServer /\ toServer'[i] = toServer[i + d]
           \/ /\ \A j \in DOMAIN toServer' : j <= i
              /\ toServer'[i].kind = "message" => toServer'[i].id \in Has(t)'
  BY WireOrder
<1>3. ASSUME NEW i \in DOMAIN toServer', toServer'[i].kind = "message" PROVE toServer'[i].id \in Has(t)'
  BY <1>1, <1>2, <1>3 DEF Echoed
<1> QED
  BY <1>3 DEF Echoed

(* What comes into the archive reaches the page, while all on the way to   *)
(* the server has reached it.                                              *)
LEMMA CoveredStep ==
  ASSUME Types, Matched, [Next]_vars, NEW t \in Tabs, pc[t] = "on", t \in whole', online, Echoed(t)
  PROVE  \A j \in DOMAIN archive' : archive'[j].body =>
           \/ /\ j \in DOMAIN archive /\ archive'[j] = archive[j]
              /\ \A k \in DOMAIN archive' : k <= j => k \in DOMAIN archive /\ archive'[k] = archive[k]
           \/ archive'[j].id \in WillHave(t)'
<1> DEFINE New(x) == archive' = Append(archive, x) /\ x \in Archived
                     /\ (x.body => x.id \in WillHave(t)')
           Covered == \A j \in DOMAIN archive' : archive'[j].body =>
             \/ /\ j \in DOMAIN archive /\ archive'[j] = archive[j]
                /\ \A k \in DOMAIN archive' : k <= j => k \in DOMAIN archive /\ archive'[k] = archive[k]
             \/ archive'[j].id \in WillHave(t)'
<1>1. UNCHANGED archive => Covered
  OBVIOUS
<1>2. ASSUME NEW x, New(x) PROVE Covered
  <2>1. /\ DOMAIN archive \subseteq Nat /\ DOMAIN archive' \subseteq Nat
        /\ \A i \in DOMAIN archive' : \/ i \in DOMAIN archive /\ archive'[i] = archive[i]
                                      \/ /\ archive'[i] = x
                                         /\ \A k \in DOMAIN archive : k < i
                                         /\ \A k \in DOMAIN archive' : k <= i
    <3>1. archive' \in Seq(Archived)
      BY <1>2, ArchiveGrows
    <3>2. DOMAIN archive' \subseteq Nat
      BY <3>1, LenProperties
    <3> QED
      BY <1>2, <3>2, ArchiveGrows, StanzaTypes
  <2>2. ASSUME NEW j \in DOMAIN archive', archive'[j].body, archive'[j].id \notin WillHave(t)'
        PROVE  /\ j \in DOMAIN archive /\ archive'[j] = archive[j]
               /\ \A k \in DOMAIN archive' : k <= j => k \in DOMAIN archive /\ archive'[k] = archive[k]
    <3>1. archive'[j] # x
      BY <1>2, <2>2
    <3>2. j \in DOMAIN archive /\ archive'[j] = archive[j]
      BY <2>1, <3>1
    <3>3. ASSUME NEW k \in DOMAIN archive', k <= j PROVE k \in DOMAIN archive /\ archive'[k] = archive[k]
      BY <2>1, <3>2, <3>3
    <3> QED
      BY <3>2, <3>3
  <2> QED
    BY <2>2
<1>3. ASSUME NEW body \in BOOLEAN, PeerWrites(body) PROVE Covered
  <2> DEFINE x == [id |-> messages', body |-> body]
             s == Message(messages', body)
  <2>1. messages \in Nat /\ MaxMessages \in Nat
    BY BoundsAssumption DEF Types
  <2>2. messages' \in Ids
    BY <1>3, <2>1 DEF PeerWrites, Ids
  <2>3. x \in Archived /\ s \in Texts /\ x.id = messages' /\ x.body = body
        /\ s.kind = "message" /\ s.id = messages' /\ s.body = body
    BY <2>2 DEF Archived, Message, Texts
  <2>4. archive' = Append(archive, x) /\ toClient' = Append(toClient, s)
    BY <1>3 DEF PeerWrites
  <2> HIDE DEF x, s
  <2>5. \E i \in DOMAIN toClient' : toClient'[i] = s
    BY <2>3, <2>4, ToClientGrows
  <2>6. body => messages' \in WillHave(t)'
    BY <2>2, <2>3, <2>5, IdsAreNumbers DEF WillHave, Coming
  <2> HIDE DEF Covered
  <2> QED
    BY <1>2, <2>3, <2>4, <2>6
<1>4. ASSUME ServerArchives PROVE Covered
  <2> DEFINE x == [id |-> toServer[1].id, body |-> TRUE]
  <2>1. 1 \in DOMAIN toServer /\ toServer[1] \in Texts /\ toServer[1].kind = "message"
    BY <1>4, TakesTypes DEF ServerArchives, Queries
  <2>2. x \in Archived /\ x.id = toServer[1].id
    BY <2>1 DEF Archived, Texts
  <2>3. archive' = Append(archive, x)
    BY <1>4, TakesTypes DEF ServerArchives
  <2>4. x.id \in WillHave(t)'
    <3>1. toServer[1].id \in Has(t)
      BY <2>1 DEF Echoed
    <3>2. Has(t)' \subseteq WillHave(t)'
      BY DEF Has, WillHave, Coming
    <3> QED
      BY <2>2, <3>1, <3>2, HasStep
  <2> HIDE DEF Covered, x
  <2> QED
    BY <1>2, <2>2, <2>3, <2>4
<1>5. Covered
  <2> HIDE DEF Covered
  <2> QED
    BY <1>1, <1>3, <1>4, TabFrames, StreamFrames DEF Next, Stream, Serve
<1> QED
  BY <1>5

LEMMA FromStep ==
  ASSUME Types, Matched, [Next]_vars, NEW t \in Tabs, pc[t] = "on", t \in whole', online, Echoed(t),
         NEW m
  PROVE  From(archive', m) \subseteq From(archive, m) \cup WillHave(t)'
  BY CoveredStep DEF From

LEMMA BodiesStep ==
  ASSUME Types, Matched, [Next]_vars, NEW t \in Tabs, pc[t] = "on", t \in whole', online, Echoed(t)
  PROVE  Bodies(archive') \subseteq Bodies(archive) \cup WillHave(t)'
  BY CoveredStep DEF Bodies

(* From any message of a page of the archive on, what is not in that page  *)
(* is not older than the message that was asked for.                       *)
LEMMA PageHasNoGap ==
  ASSUME Types, ArchiveNumbered, NEW b, b # None => InArchive(b),
         NEW j \in DOMAIN ArchivePage(b, PageSize).items
  PROVE  From(archive, ArchivePage(b, PageSize).items[j].id)
           \subseteq Bodies(ArchivePage(b, PageSize).items) \cup (IF b = None THEN {} ELSE From(archive, b))
<1> DEFINE items == ArchivePage(b, PageSize).items
<1>1. PICK first \in Nat \ {0} :
         /\ \A k \in DOMAIN items :
              first + k - 1 \in DOMAIN archive /\ items[k] = archive[first + k - 1]
         /\ \A i \in DOMAIN archive : first <= i =>
              i - first + 1 \in DOMAIN items \/ (b # None /\ Position(archive, b) <= i)
  BY PageOfArchive
<1>2. items \in Seq(Archived) /\ DOMAIN items \subseteq Nat \ {0} /\ DOMAIN archive \subseteq Nat
  BY PageOfArchive, LenProperties, StanzaTypes
<1> HIDE DEF items
<1> SUFFICES ASSUME NEW i \in DOMAIN archive, archive[i].body,
                    NEW k \in DOMAIN archive, k <= i, archive[k].id = items[j].id,
                    archive[i].id \notin Bodies(items)
             PROVE  b # None /\ archive[i].id \in From(archive, b)
  BY DEF From, items
<1>3. j \in DOMAIN items
  BY DEF items
<1>4. k = first + j - 1
  BY <1>1, <1>3 DEF ArchiveNumbered
<1>5. i - first + 1 \notin DOMAIN items
  <2> SUFFICES ASSUME i - first + 1 \in DOMAIN items PROVE FALSE
    OBVIOUS
  <2>1. first + (i - first + 1) - 1 = i
    BY <1>2
  <2>2. items[i - first + 1] = archive[i]
    BY <1>1, <2>1
  <2> QED
    BY <1>2, <2>2, BodiesTypes
<1>6. b # None /\ Position(archive, b) <= i
  <2>1. j \in Nat \ {0}
    BY <1>2, <1>3
  <2> QED
    BY <2>1, <1>1, <1>2, <1>4, <1>5
<1>7. Position(archive, b) \in DOMAIN archive /\ archive[Position(archive, b)].id = b
  BY <1>6, PositionIsThere
<1> QED
  BY <1>6, <1>7 DEF From

LEMMA InitGap == Init => GapInv
  BY DEF Init, GapInv

(* A new page has nothing, asks for nothing, and has no gap. *)
LEMMA NewPageGap ==
  ASSUME Types, Matched, OffIsIdle, [Next]_vars, NEW t \in whole', t \notin whole
  PROVE  NoGapAround(t)'
<1>1. /\ pc[t] = "off" /\ pc'[t] = "on" /\ page'[t] = NewPage /\ t \in Tabs
      /\ inbox'[t] = << >> /\ asking'[t] = None
  BY WholeStep DEF OffIsIdle
<1>2. page'[t].oldest = None
  BY <1>1 DEF NewPage
<1>3. DOMAIN inbox'[t] = {}
  BY <1>1, Empty
<1> QED
  BY <1>1, <1>2, <1>3 DEF NoGapAround, Awaits

LEMMA GapStep ==
  ASSUME Types, Types', ArchiveNumbered, Matched, OffIsIdle, GapInv, [Next]_vars
  PROVE  GapInv'
<1> SUFFICES ASSUME NEW t \in whole' PROVE NoGapAround(t)'
  BY DEF GapInv
<1>1. CASE t \notin whole
  BY <1>1, NewPageGap
<1>2. CASE t \in whole
  <2>1. t \in Tabs /\ NoGapAround(t) /\ pc[t] = "on"
    BY <1>2 DEF Types, GapInv, NoGapAround
  <2>2. pc'[t] = "on" /\ (online => online')
    BY <2>1, StaysOn
  <2>3. Has(t) \subseteq Has(t)' /\ WillHave(t) \subseteq WillHave(t)'
    BY <2>1, HasStep, WillHaveStep
  <2>4. Echoed(t) => Echoed(t)'
    BY <2>1, EchoedStep
  <2>5. ASSUME NEW m, NEW S, online, Echoed(t), From(archive, m) \subseteq S \cup WillHave(t)
        PROVE  From(archive', m) \subseteq S \cup WillHave(t)'
    <3>1. From(archive', m) \subseteq From(archive, m) \cup WillHave(t)'
      BY <2>1, <2>5, FromStep
    <3> QED
      BY <2>3, <2>5, <3>1
  <2>6. page[t].oldest # None => page'[t].oldest # None
    BY <2>1, OldestStep
  <2>7. page[t].oldest # None => online /\ Echoed(t) /\ From(archive, page[t].oldest) \subseteq WillHave(t)
    BY <2>1 DEF NoGapAround
  <2>8. ASSUME NEW n, asking'[t] # None, asking'[t].number = n, n \in Nat, n <= queries
        PROVE  asking[t] # None /\ asking[t].number = n /\ asking'[t] = asking[t]
    <3>1. queries \in Nat
      BY DEF Types
    <3>2. ~ReceiveLoad(t)
      BY <2>1, <2>8, <3>1, LoadAsks
    <3> QED
      BY <2>1, <2>8, <3>2, AskingStep
  <2>9. ASSUME page'[t].oldest # None
        PROVE  online' /\ Echoed(t)' /\ From(archive', page'[t].oldest) \subseteq WillHave(t)'
    <3>1. CASE page'[t].oldest = page[t].oldest
      BY <2>2, <2>4, <2>5, <2>7, <2>9, <3>1
    <3>2. CASE /\ OnResult /\ Awaits(t, toClient[1].number) /\ Answer(t, toClient[1])
               /\ \E j \in DOMAIN toClient[1].items : page'[t].oldest = toClient[1].items[j].id
      <4>1. toClient[1] \in Results /\ toClient[1].kind = "result" /\ 1 \in DOMAIN toClient
        BY <3>2, ResultTaken DEF Results
      <4>2. toClient[1].items \in Seq(Archived) /\ toClient[1].fin \in BOOLEAN
        BY <4>1 DEF Results
      <4>3. /\ online /\ Echoed(t)
            /\ From(archive, page'[t].oldest) \subseteq Bodies(toClient[1].items) \cup WillHave(t)
        BY <2>1, <3>2, <4>1 DEF NoGapAround
      <4>4. From(archive', page'[t].oldest) \subseteq Bodies(toClient[1].items) \cup WillHave(t)'
        BY <2>3, <4>3, <2>1, FromStep
      <4>5. Bodies(toClient[1].items) \subseteq page'[t].shown
        BY <2>1, <3>2, <4>2, AnswerTypes
      <4>6. Bodies(toClient[1].items) \subseteq WillHave(t)'
        BY <4>2, <4>5, BodiesTypes, IdsAreNumbers DEF WillHave
      <4> QED
        BY <2>2, <2>4, <4>3, <4>4, <4>6
    <3> QED
      BY <2>1, <2>9, <3>1, <3>2, OldestStep
  <2>10. ASSUME NEW i \in DOMAIN inbox'[t], IsLoad(inbox'[t][i])
         PROVE  page'[t].oldest # None /\ From(archive', inbox'[t][i].id) \subseteq WillHave(t)'
    <3>1. page[t].oldest # None /\ From(archive, inbox'[t][i].id) \subseteq WillHave(t)
      BY <2>1, <2>7, <2>10, InboxStep DEF NoGapAround
    <3>2. From(archive', inbox'[t][i].id) \subseteq WillHave(t)'
      BY <2>1, <2>3, <2>7, <3>1, FromStep
    <3> QED
      BY <2>6, <3>1, <3>2
  <2>11. ASSUME asking'[t] # None, asking'[t].before # None
         PROVE  page'[t].oldest # None /\ From(archive', asking'[t].before) \subseteq WillHave(t)'
    <3>1. page[t].oldest # None /\ From(archive, asking'[t].before) \subseteq WillHave(t)
      <4>1. CASE ReceiveLoad(t)
        BY <2>1, <2>11, <4>1, LoadAsks DEF NoGapAround, IsLoad
      <4>2. CASE ~ReceiveLoad(t)
        <5>1. asking'[t] = asking[t]
          BY <2>1, <2>11, <4>2, AskingStep
        <5> QED
          BY <2>1, <2>11, <5>1 DEF NoGapAround
      <4> QED
        BY <4>1, <4>2
    <3>2. From(archive', asking'[t].before) \subseteq WillHave(t)'
      BY <2>1, <2>3, <2>7, <3>1, FromStep
    <3> QED
      BY <2>6, <3>1, <3>2
  <2>12. ASSUME NEW i \in DOMAIN toServer', toServer'[i].kind = "query",
                asking'[t] # None, asking'[t].number = toServer'[i].number,
                NEW j \in DOMAIN toServer', i < j, toServer'[j].kind = "message"
         PROVE  toServer'[j].id \in Has(t)'
    <3>1. PICK d \in {0, 1} : \A k \in DOMAIN toServer' :
             \/ k \in Nat /\ k + d \in DOMAIN toServer /\ toServer'[k] = toServer[k + d]
             \/ /\ \A l \in DOMAIN toServer' : l <= k
                /\ toServer'[k].kind = "message" => toServer'[k].id \in Has(t)'
      BY <2>1, WireOrder
    <3>2. DOMAIN toServer' \subseteq Nat
      BY LenProperties DEF Types
    <3>3. i \in Nat /\ i + d \in DOMAIN toServer /\ toServer'[i] = toServer[i + d]
      BY <2>12, <3>1, <3>2
    <3>4. CASE j \in Nat /\ j + d \in DOMAIN toServer /\ toServer'[j] = toServer[j + d]
      <4>1. toServer[i + d].number <= queries /\ toServer[i + d].number \in Nat
        BY <2>12, <3>3, StanzaTypes DEF Matched, Texts, Queries
      <4>2. asking[t] # None /\ asking[t].number = toServer[i + d].number
        BY <2>8, <2>12, <3>3, <4>1
      <4>3. i + d < j + d
        BY <2>12, <3>3, <3>4
      <4>4. toServer[j + d].id \in Has(t)
        BY <2>1, <2>12, <3>3, <3>4, <4>2, <4>3 DEF NoGapAround, Awaits
      <4> QED
        BY <2>3, <3>4, <4>4
    <3> QED
      BY <2>12, <3>1, <3>4
  <2>13. ASSUME NEW i \in DOMAIN toClient', toClient'[i].kind = "result",
                asking'[t] # None, asking'[t].number = toClient'[i].number
         PROVE  /\ online' /\ Echoed(t)'
                /\ \A j \in DOMAIN toClient'[i].items :
                     From(archive', toClient'[i].items[j].id) \subseteq
                       Bodies(toClient'[i].items) \cup WillHave(t)'
    <3>1. CASE \E k \in DOMAIN toClient : toClient'[i] = toClient[k]
      <4>1. PICK k \in DOMAIN toClient : toClient'[i] = toClient[k]
        BY <3>1
      <4>2. toClient[k].number <= queries /\ toClient[k].number \in Nat
        BY <2>13, <4>1, StanzaTypes DEF Matched, Texts, Bounce, Results
      <4>3. Awaits(t, toClient[k].number)
        BY <2>8, <2>13, <4>1, <4>2 DEF Awaits
      <4>4. /\ online /\ Echoed(t)
            /\ \A j \in DOMAIN toClient[k].items :
                 From(archive, toClient[k].items[j].id) \subseteq Bodies(toClient[k].items) \cup WillHave(t)
        BY <2>1, <2>13, <4>1, <4>3 DEF NoGapAround
      <4> QED
        BY <2>2, <2>4, <2>5, <4>1, <4>4
    <3>2. CASE /\ ServerAnswers
               /\ toClient'[i] = Result(toServer[1].number, ArchivePage(toServer[1].before, PageSize))
      <4> DEFINE b == toServer[1].before
      <4>1. /\ toServer[1] \in Queries /\ toServer[1].kind = "query" /\ 1 \in DOMAIN toServer
            /\ ServerTakes /\ UNCHANGED <<archive, asking>> /\ online'
        BY <3>2, TakesTypes, StreamFrames DEF ServerAnswers, ServerTakes, Texts
      <4>2. /\ toClient'[i].number = toServer[1].number
            /\ toClient'[i].items = ArchivePage(b, PageSize).items
        BY <3>2 DEF Result
      <4>3. Awaits(t, toServer[1].number) /\ asking[t] = toServer[1]
        BY <2>1, <2>13, <4>1, <4>2 DEF Awaits, Matched
      <4>4. b # None => InArchive(b)
        BY <4>1 DEF Matched
      <4>5. b # None => From(archive, b) \subseteq WillHave(t)
        BY <2>1, <4>3 DEF NoGapAround, Awaits
      <4>6. Echoed(t)'
        <5>1. ASSUME NEW k \in DOMAIN toServer', toServer'[k].kind = "message"
              PROVE  toServer'[k].id \in Has(t)
          <6>1. k \in Nat \ {0} /\ k + 1 \in DOMAIN toServer /\ toServer'[k] = toServer[k + 1]
            BY <4>1, TakesTypes
          <6>2. 1 < k + 1
            BY <6>1
          <6> QED
            BY <2>1, <4>1, <4>3, <5>1, <6>1, <6>2 DEF NoGapAround
        <5> QED
          BY <2>3, <5>1 DEF Echoed
      <4> HIDE DEF b
      <4>7. ASSUME NEW j \in DOMAIN toClient'[i].items
            PROVE  From(archive', toClient'[i].items[j].id) \subseteq
                     Bodies(toClient'[i].items) \cup WillHave(t)'
        <5>1. From(archive, ArchivePage(b, PageSize).items[j].id)
                \subseteq Bodies(ArchivePage(b, PageSize).items) \cup (IF b = None THEN {} ELSE From(archive, b))
          BY <4>2, <4>4, PageHasNoGap
        <5> QED
          BY <2>3, <4>1, <4>2, <4>5, <5>1
      <4> QED
        BY <4>1, <4>6, <4>7
    <3> QED
      BY <2>13, <3>1, <3>2, ResultStep
  <2> QED
    BY <2>2, <2>9, <2>10, <2>11, <2>12, <2>13 DEF NoGapAround, Awaits, IsLoad
<1> QED
  BY <1>1, <1>2

LEMMA GapInvImpliesNoGap == NoGapInv => NoGap
<1> SUFFICES ASSUME NoGapInv, NEW t \in whole, page[t].oldest # None,
                    NEW m \in Bodies(SubSeq(archive, Position(archive, page[t].oldest), Len(archive)))
             PROVE  m \in page[t].shown \cup Coming(t)
  BY DEF NoGap
<1> DEFINE p == Position(archive, page[t].oldest)
           r == SubSeq(archive, p, Len(archive))
<1>1. Types /\ t \in Tabs /\ InArchive(page[t].oldest) /\ NoGapAround(t)
  BY DEF NoGapInv, Types, Matched, GapInv
<1>2. From(archive, page[t].oldest) \subseteq WillHave(t)
  BY <1>1 DEF NoGapAround
<1>3. p \in DOMAIN archive /\ archive[p].id = page[t].oldest
  BY <1>1, PositionIsThere
<1>4. /\ archive \in Seq(Archived) /\ Len(archive) \in Nat /\ DOMAIN archive = 1..Len(archive)
      /\ \A i \in 1..Len(archive) : archive[i] \in Archived
  BY <1>1, LenProperties, ElementOfSeq DEF Types
<1> HIDE DEF p
<1>5. /\ r \in Seq(Archived) /\ Len(r) = Len(archive) - p + 1
      /\ \A i \in 1..(Len(archive) - p + 1) : r[i] = archive[p + i - 1]
  <2>1. /\ p \in Int /\ \A i \in p..Len(archive) : archive[i] \in Archived
        /\ p <= Len(archive) /\ 1 <= p
    BY <1>3, <1>4
  <2> QED
    BY <1>4, <2>1, SubSeqProperties
<1>6. DOMAIN r = 1..(Len(archive) - p + 1)
  BY <1>5, LenProperties
<1>7. PICK i \in DOMAIN r : r[i].body /\ r[i].id = m
  BY DEF Bodies, p
<1>8. p + i - 1 \in DOMAIN archive /\ r[i] = archive[p + i - 1] /\ p <= p + i - 1
  BY <1>3, <1>4, <1>5, <1>6
<1>9. m \in From(archive, page[t].oldest)
  BY <1>3, <1>7, <1>8 DEF From
<1> QED
  BY <1>2, <1>9 DEF WillHave

LEMMA NoGapInvHolds == Spec => []NoGapInv
<1>1. Init => NoGapInv
  BY InitTypes, InitNumbered, InitMatched, InitOffIsIdle, InitGap DEF NoGapInv
<1>2. NoGapInv /\ [Next]_vars => NoGapInv'
  <2> SUFFICES ASSUME NoGapInv, [Next]_vars PROVE NoGapInv'
    OBVIOUS
  <2>1. Types'
    BY TypesStep DEF NoGapInv
  <2>2. Numbered' /\ Matched' /\ OffIsIdle'
    BY NumberedStep, MatchedStep, OffIsIdleStep DEF NoGapInv
  <2>3. GapInv'
    BY <2>1, GapStep DEF NoGapInv, Numbered
  <2> QED
    BY <2>1, <2>2, <2>3 DEF NoGapInv
<1> QED
  BY <1>1, <1>2, PTL DEF Spec

(* A page that was there all the time has no gap, for any number of tabs,  *)
(* messages, queries and sessions: from its oldest message on, all that is *)
(* in the archive is shown or on its way, whatever arrives while a query   *)
(* waits (account.py:245-296, slixmpp_client.py:181-206 and 290-328).      *)
THEOREM PagesHaveNoGap == Spec => []NoGap
  BY NoGapInvHolds, GapInvImpliesNoGap, PTL

(* Nothing that was written is archived twice, whatever handlers outlive   *)
(* their browsers and whatever sessions end on the way                     *)
(* (account.py:253, ws.py:80-82).                                          *)
THEOREM NothingIsSentTwice == Spec => []ArchivedOnce
<1>1. NoGapInv => ArchivedOnce
  BY DEF NoGapInv, Numbered, ArchiveNumbered, ArchivedOnce
<1> QED
  BY <1>1, NoGapInvHolds, PTL

-----------------------------------------------------------------------------
(* Who gets anything.                                                      *)

(* A tab that is let in has a request of one who acts as this JID, and     *)
(* only a tab that is still there gets frames.                             *)
EntitledInv ==
  /\ request \in [Tabs -> Requests \cup {None}]
  /\ \A t \in Tabs : /\ pc[t] # "off" => Entitled(request[t])
                     /\ pending[t] # {} => pc[t] = "on"

LEMMA LetInIsEntitled ==
  ASSUME NEW r, OriginAllowed(r.origin), Resolve(ExtractUsername(r)) = Me
  PROVE  Entitled(r)
<1> DEFINE u == ExtractUsername(r)
<1>1. AllowedOrigins = {} \/ r.origin \in AllowedOrigins \ {""}
  BY DEF OriginAllowed
<1>2. u \in DOMAIN Users \ {""} /\ Users[u] = Me /\ Me \in DOMAIN Credentials
  <2> HIDE DEF u
  <2> QED
    BY NamesAssumption DEF Resolve, u
<1>3. CASE Mode = "dev"
  BY <1>1, <1>2, <1>3 DEF ExtractUsername, Entitled
<1>4. CASE Mode = "proxy"
  <2> DEFINE ks == Spellings(r.headers, AuthHeader)
  <2>1. u = IF ks = {} THEN "" ELSE r.headers[CHOOSE k \in ks : TRUE]
    BY <1>4 DEF ExtractUsername
  <2>2. ks # {}
    BY <1>2, <2>1
  <2>3. PICK k \in ks : u = r.headers[k]
    BY <2>1, <2>2
  <2>4. k \in DOMAIN r.headers /\ Lower[k] = Lower[AuthHeader]
    BY DEF Spellings
  <2> HIDE DEF u, ks
  <2> QED
    BY <1>1, <1>2, <1>4, <2>3, <2>4 DEF Entitled
<1> QED
  BY <1>3, <1>4, ModeAssumption

LEMMA EntitledStep ==
  ASSUME Types, EntitledInv, [Next]_vars
  PROVE  EntitledInv'
<1> USE DEF tabVars, wireVars, boundVars, historyVars
<1> DEFINE Same == UNCHANGED <<request, pc, pending>>
<1>0. Same => EntitledInv'
  BY DEF EntitledInv
<1>1. ASSUME NEW t \in Tabs, NEW r \in Requests, Handshake(t, r) PROVE EntitledInv'
  <2>1. Entitled(r)
    BY <1>1, LetInIsEntitled DEF Handshake
  <2>2. /\ request' = [request EXCEPT ![t] = r] /\ pc' = [pc EXCEPT ![t] = "on"]
        /\ UNCHANGED pending
    BY <1>1 DEF Handshake
  <2> QED
    BY <2>1, <2>2 DEF EntitledInv, Types
<1>2. ASSUME NEW t \in Tabs, TabCloses(t) PROVE EntitledInv'
  BY <1>2 DEF TabCloses, EntitledInv, Types
<1>3. ASSUME NEW t \in Tabs, HandlerEnds(t) PROVE EntitledInv'
  <2>1. /\ request' = [request EXCEPT ![t] = None] /\ pc' = [pc EXCEPT ![t] = "off"]
        /\ UNCHANGED pending /\ pc[t] = "gone"
    BY <1>3 DEF HandlerEnds
  <2> QED
    BY <2>1 DEF EntitledInv, Types
<1>4. ASSUME UNCHANGED <<request, pc>>,
             \A t \in Tabs : pending'[t] # {} => pending[t] # {} \/ pc[t] = "on"
      PROVE  EntitledInv'
  BY <1>4 DEF EntitledInv
<1>5. ASSUME UNCHANGED <<request, pc>>, NEW i, NEW u, pending' = Echo(i, u) \/ pending' = ToAll(i)
      PROVE  EntitledInv'
  BY <1>4, <1>5 DEF Echo, ToAll, Attached
<1>6. ASSUME NEW t \in Tabs, NEW i \in pending[t], Shows(t, i) PROVE EntitledInv'
  <2>1. UNCHANGED <<request, pc>> /\ pending' = [pending EXCEPT ![t] = @ \ {i}]
    BY <1>6 DEF Shows
  <2> QED
    BY <1>4, <2>1 DEF Types
<1>7. ASSUME NEW t \in Tabs, ReceiveMessage(t) PROVE EntitledInv'
  <2>1. /\ UNCHANGED <<request, pc>>
        /\ UNCHANGED pending \/ pending' = Echo(Head(inbox[t]).id, t)
    BY <1>7 DEF ReceiveMessage
  <2> QED
    BY <1>0, <1>5, <2>1
<1>8. CASE OnMessage
  <2>1. UNCHANGED <<request, pc>> /\ (UNCHANGED pending \/ \E i : pending' = ToAll(i))
    BY <1>8 DEF OnMessage, ClientTakes
  <2> QED
    BY <1>0, <1>5, <2>1
<1>9. ASSUME NEW t \in Tabs
      PROVE  /\ SetActive(t) => Same
             /\ PageSends(t) => Same
             /\ ReceiveBad(t) => Same
             /\ ReceiveLoad(t) => Same
             /\ QueryTimesOut(t) => Same
  BY DEF SetActive, PageSends, ReceiveBad, ReceiveLoad, QueryTimesOut
<1>10. /\ \A body \in BOOLEAN : PeerWrites(body) => Same
       /\ ServerArchives => Same
       /\ ServerAnswers => Same
       /\ OnResult => Same
       /\ StreamLost => Same
       /\ SessionStarts => Same
       /\ UNCHANGED vars => Same
  BY DEF PeerWrites, ServerArchives, ServerAnswers, ServerTakes, OnResult, ClientTakes, StreamLost,
         SessionStarts, vars
<1> HIDE DEF Same
<1> QED
  BY <1>0, <1>1, <1>2, <1>3, <1>6, <1>7, <1>8, <1>9, <1>10 DEF Next, Stream, Serve

(* Nothing of the account reaches a page whose user does not act as its    *)
(* JID, however requests, tabs and frames interleave (ws.py:37-68,         *)
(* auth.py:49-106).                                                        *)
THEOREM PagesAreEntitled == Spec => []OnlyEntitledPages
<1>1. Init => EntitledInv
  BY DEF Init, EntitledInv
<1>2. Types /\ EntitledInv /\ [Next]_vars => EntitledInv'
  BY EntitledStep
<1>3. EntitledInv => OnlyEntitledPages
  BY DEF EntitledInv, OnlyEntitledPages
<1>4. Spec => []Types
  BY NoGapInvHolds, PTL DEF NoGapInv
<1> QED
  BY <1>1, <1>2, <1>3, <1>4, PTL DEF Spec

-----------------------------------------------------------------------------
(* Where the answers lead.                                                 *)

Older(s, m, b) == \E k, l \in DOMAIN s : k < l /\ s[k].id = m /\ s[l].id = b

(* What a handler waits for is older than what it asked for. *)
AnswersOlder ==
  \A t \in Tabs : \A i \in DOMAIN toClient :
    toClient[i].kind = "result" /\ Awaits(t, toClient[i].number) /\ asking[t].before # None =>
      \A j \in DOMAIN toClient[i].items : Older(archive, toClient[i].items[j].id, asking[t].before)

(* A query that ends has timed out or is answered. *)
LEMMA AnsweredStep ==
  ASSUME Types, [Next]_vars, NEW t \in Tabs, asking[t] # None, asking'[t] # asking[t]
  PROVE  \/ ReceiveLoad(t)
         \/ QueryTimesOut(t)
         \/ OnResult /\ Awaits(t, toClient[1].number) /\ Answer(t, toClient[1])
<1> DEFINE Goal == \/ ReceiveLoad(t)
                   \/ QueryTimesOut(t)
                   \/ OnResult /\ Awaits(t, toClient[1].number) /\ Answer(t, toClient[1])
<1>1. ~UNCHANGED asking
  OBVIOUS
<1>2. ASSUME NEW u \in Tabs, NEW r, Answer(u, r) PROVE u = t
  BY <1>2 DEF Answer, Types
<1>3. ASSUME NEW u \in Tabs, QueryTimesOut(u) PROVE Goal
  BY <1>2, <1>3 DEF QueryTimesOut
<1>4. ASSUME NEW u \in Tabs, ReceiveLoad(u) PROVE Goal
  BY <1>4, LoadAsks
<1>5. CASE OnResult
  BY <1>1, <1>2, <1>5, ResultTaken
<1> QED
  BY <1>1, <1>3, <1>4, <1>5, TabFrames, StreamFrames DEF Next, Stream, Serve

(* A result that a handler waits for after a step: it was there before, or *)
(* the archive just answered.                                              *)
LEMMA AwaitedStep ==
  ASSUME Types, Matched, [Next]_vars, NEW t \in Tabs,
         NEW i \in DOMAIN toClient', toClient'[i].kind = "result",
         asking'[t] # None, asking'[t].number = toClient'[i].number
  PROVE  /\ asking'[t] = asking[t]
         /\ \/ \E k \in DOMAIN toClient : toClient'[i] = toClient[k] /\ Awaits(t, toClient[k].number)
            \/ /\ ServerAnswers /\ ServerTakes /\ UNCHANGED archive
               /\ 1 \in DOMAIN toServer /\ toServer[1].kind = "query" /\ asking[t] = toServer[1]
               /\ Awaits(t, toServer[1].number)
               /\ toClient'[i].items = ArchivePage(asking[t].before, PageSize).items
               /\ toClient'[i].fin = ArchivePage(asking[t].before, PageSize).fin
               /\ asking[t].before # None => InArchive(asking[t].before)
<1>1. ASSUME toClient'[i].number \in Nat, toClient'[i].number <= queries
      PROVE  asking'[t] = asking[t]
  <2>1. queries \in Nat
    BY DEF Types
  <2>2. ~ReceiveLoad(t)
    BY <1>1, <2>1, LoadAsks
  <2> QED
    BY <2>2, AskingStep
<1>2. CASE \E k \in DOMAIN toClient : toClient'[i] = toClient[k]
  <2>1. PICK k \in DOMAIN toClient : toClient'[i] = toClient[k]
    BY <1>2
  <2>2. toClient[k].number <= queries /\ toClient[k].number \in Nat
    BY <2>1, StanzaTypes DEF Matched, Texts, Bounce, Results
  <2> QED
    BY <1>1, <2>1, <2>2 DEF Awaits
<1>3. CASE /\ ServerAnswers
           /\ toClient'[i] = Result(toServer[1].number, ArchivePage(toServer[1].before, PageSize))
  <2>1. /\ toServer[1] \in Queries /\ toServer[1].kind = "query" /\ 1 \in DOMAIN toServer
        /\ ServerTakes /\ UNCHANGED <<archive, asking>>
    BY <1>3, TakesTypes, StreamFrames DEF ServerAnswers, Texts
  <2>2. /\ toClient'[i].number = toServer[1].number
        /\ toClient'[i].items = ArchivePage(toServer[1].before, PageSize).items
        /\ toClient'[i].fin = ArchivePage(toServer[1].before, PageSize).fin
    BY <1>3 DEF Result
  <2>3. Awaits(t, toServer[1].number) /\ asking[t] = toServer[1] /\ asking'[t] = asking[t]
    BY <2>1, <2>2 DEF Awaits, Matched
  <2>4. asking[t].before # None => InArchive(asking[t].before)
    BY <2>1, <2>3 DEF Matched
  <2> QED
    BY <1>3, <2>1, <2>2, <2>3, <2>4
<1> QED
  BY <1>2, <1>3, ResultStep

LEMMA OlderStep ==
  ASSUME Types, Matched, AnswersOlder, [Next]_vars
  PROVE  AnswersOlder'
<1> SUFFICES ASSUME NEW t \in Tabs, NEW i \in DOMAIN toClient', toClient'[i].kind = "result",
                    asking'[t] # None, asking'[t].number = toClient'[i].number,
                    asking'[t].before # None, NEW j \in DOMAIN toClient'[i].items
             PROVE  Older(archive', toClient'[i].items[j].id, asking'[t].before)
  BY DEF AnswersOlder, Awaits
<1>1. asking'[t] = asking[t]
  BY AwaitedStep
<1>2. Older(archive, toClient'[i].items[j].id, asking[t].before)
  <2>1. CASE \E k \in DOMAIN toClient : toClient'[i] = toClient[k] /\ Awaits(t, toClient[k].number)
    BY <1>1, <2>1 DEF AnswersOlder
  <2>2. ASSUME NEW b, b = asking[t].before, InArchive(b),
               toClient'[i].items = ArchivePage(b, PageSize).items
        PROVE  Older(archive, toClient'[i].items[j].id, b)
    <3>1. PICK first \in Nat : \A k \in DOMAIN ArchivePage(b, PageSize).items :
            /\ first + k - 1 \in DOMAIN archive
            /\ ArchivePage(b, PageSize).items[k] = archive[first + k - 1]
            /\ b # None => first + k - 1 < Position(archive, b)
      BY <2>2, PageOfArchive
    <3>2. Position(archive, b) \in DOMAIN archive /\ archive[Position(archive, b)].id = b
      BY <2>2, PositionIsThere
    <3> QED
      BY <1>1, <2>2, <3>1, <3>2 DEF Older
  <2> QED
    BY <1>1, <2>1, <2>2, AwaitedStep
<1> QED
  BY <1>1, <1>2, ArchiveStep DEF Older

(* What an answer does to a page that is there. *)
LEMMA AnswerShown ==
  ASSUME Types, NEW t \in Tabs, NEW r, r.items \in Seq(Archived), r.fin \in BOOLEAN, Answer(t, r),
         pc[t] = "on"
  PROVE  /\ page'[t].complete = Complete(r)
         /\ Bodies(r.items) # {} =>
              page'[t].oldest # None /\ \E i \in DOMAIN r.items : page'[t].oldest = r.items[i].id
<1> DEFINE first == IF Bodies(r.items) = {} THEN None ELSE OldestBody(r.items)
           q     == ShowHistory(page[t], Bodies(r.items), first, Complete(r))
<1>1. page'[t] = q
  BY DEF Answer, Types
<1>2. /\ q.complete = Complete(r)
      /\ Bodies(r.items) # {} => q.oldest = first
  <2>1. page[t] \in Pages
    BY DEF Types
  <2> HIDE DEF first
  <2> QED
    BY <2>1 DEF ShowHistory, Pages
<1>3. Bodies(r.items) # {} => first # None /\ \E i \in DOMAIN r.items : first = r.items[i].id
  BY OldestBodyIsThere, IdsAreNumbers
<1> HIDE DEF q, first
<1> QED
  BY <1>1, <1>2, <1>3

LEMMA AdvanceStep ==
  ASSUME Types, ArchiveNumbered, AnswersOlder, [Next]_vars, NEW t \in Tabs,
         asking[t] # None, asking'[t] = None, pc[t] = "on", ~page'[t].complete
  PROVE  /\ page'[t].oldest # None
         /\ asking[t].before # None =>
              Position(archive, page'[t].oldest) < Position(archive, asking[t].before)
<1>1. ~ReceiveLoad(t)
  BY DEF ReceiveLoad, Receive
<1>2. ~QueryTimesOut(t)
  <2>1. NoAnswer.items \in Seq(Archived) /\ NoAnswer.fin \in BOOLEAN /\ Complete(NoAnswer)
    BY Empty DEF NoAnswer, Complete
  <2> QED
    BY <2>1, AnswerShown DEF QueryTimesOut
<1>3. OnResult /\ Awaits(t, toClient[1].number) /\ Answer(t, toClient[1])
  BY <1>1, <1>2, AnsweredStep
<1> DEFINE items == toClient[1].items
<1>4. /\ 1 \in DOMAIN toClient /\ toClient[1].kind = "result"
      /\ items \in Seq(Archived) /\ toClient[1].fin \in BOOLEAN
  BY <1>3, ResultTaken DEF Results
<1>5. Bodies(items) # {}
  <2> SUFFICES ASSUME Bodies(items) = {} PROVE FALSE
    OBVIOUS
  <2>1. Cardinality(Bodies(items)) = 0
    BY FS_EmptySet
  <2>2. Complete(toClient[1])
    BY <2>1, PageAssumption DEF Complete
  <2> QED
    BY <1>3, <1>4, <2>2, AnswerShown
<1>6. page'[t].oldest # None /\ \E j \in DOMAIN items : page'[t].oldest = items[j].id
  BY <1>3, <1>4, <1>5, AnswerShown
<1>7. asking[t].before # None => Older(archive, page'[t].oldest, asking[t].before)
  BY <1>3, <1>4, <1>6 DEF AnswersOlder
<1>8. ASSUME NEW m, NEW b, Older(archive, m, b) PROVE Position(archive, m) < Position(archive, b)
  <2>1. PICK k, l \in DOMAIN archive : k < l /\ archive[k].id = m /\ archive[l].id = b
    BY <1>8 DEF Older
  <2>2. Position(archive, m) \in DOMAIN archive /\ archive[Position(archive, m)].id = m
    BY <2>1, PositionIsThere DEF InArchive
  <2>3. Position(archive, b) \in DOMAIN archive /\ archive[Position(archive, b)].id = b
    BY <2>1, PositionIsThere DEF InArchive
  <2>4. Position(archive, m) = k /\ Position(archive, b) = l
    BY <2>1, <2>2, <2>3 DEF ArchiveNumbered
  <2> QED
    BY <2>1, <2>4
<1> QED
  BY <1>6, <1>7, <1>8

(* Nobody loads older messages for ever: every answer takes its page       *)
(* further back or tells it to stop (slixmpp_client.py:290-328).           *)
THEOREM LoadingOlderAdvances == Spec => PagesAdvance
<1>1. Init => AnswersOlder
  BY DEF Init, AnswersOlder, Awaits
<1>2. NoGapInv /\ AnswersOlder /\ [Next]_vars => AnswersOlder'
  BY OlderStep DEF NoGapInv
<1>3. NoGapInv /\ AnswersOlder /\ [Next]_vars =>
        [\A t \in Tabs :
           asking[t] # None /\ asking'[t] = None /\ pc[t] = "on" =>
             \/ page'[t].complete
             \/ /\ page'[t].oldest # None
                /\ asking[t].before # None =>
                     Position(archive, page'[t].oldest) < Position(archive, asking[t].before)]_vars
  BY AdvanceStep DEF NoGapInv, Numbered
<1> QED
  BY <1>1, <1>2, <1>3, NoGapInvHolds, PTL DEF Spec, PagesAdvance

-----------------------------------------------------------------------------
(* The rest of the types.                                                  *)

(* The frames that no handler has received. *)
Waiting == {w \in Tabs \X Nat : w[2] \in DOMAIN inbox[w[1]]}

BoundsInv ==
  /\ failed \in SUBSET Tabs
  /\ messages \in 0..MaxMessages
  /\ frames \in 0..MaxFrames
  /\ sessions \in 0..MaxSessions
  /\ faults \in 0..MaxFaults
  /\ IsFiniteSet(Waiting)
  /\ Cardinality(Waiting) + queries <= frames

(* A frame goes into an inbox, and is counted. *)
LEMMA SendsCounted ==
  ASSUME Types, BoundsInv, NEW t \in Tabs, NEW f \in ClientFrames, Sends(t, f), UNCHANGED queries
  PROVE  /\ frames' \in 0..MaxFrames
         /\ IsFiniteSet(Waiting') /\ Cardinality(Waiting') + queries' <= frames'
<1>1. /\ Len(inbox[t]) \in Nat /\ DOMAIN inbox[t] = 1..Len(inbox[t])
      /\ DOMAIN inbox'[t] = 1..(Len(inbox[t]) + 1)
      /\ \A u \in Tabs : u # t => inbox'[u] = inbox[u]
  <2>1. inbox[t] \in Seq(ClientFrames)
    BY DEF Types
  <2> QED
    BY <2>1, SendsTypes, Appended
<1> DEFINE w == <<t, Len(inbox[t]) + 1>>
<1>2. Waiting' = Waiting \cup {w}
  <2>1. ASSUME NEW u \in Tabs, NEW i \in Nat
        PROVE  <<u, i>> \in Waiting' <=> <<u, i>> \in Waiting \cup {w}
    BY <1>1 DEF Waiting
  <2> QED
    BY <1>1, <2>1 DEF Waiting
<1>3. IsFiniteSet(Waiting') /\ Cardinality(Waiting') <= Cardinality(Waiting) + 1
  <2>1. IsFiniteSet(Waiting) /\ Cardinality(Waiting) \in Nat
    BY FS_CardinalityType DEF BoundsInv
  <2> HIDE DEF w
  <2>2. /\ IsFiniteSet(Waiting \cup {w})
        /\ Cardinality(Waiting \cup {w}) <= Cardinality(Waiting) + 1
    BY <2>1, FS_AddElement
  <2> QED
    BY <1>2, <2>2
<1>4. frames' = frames + 1 /\ frames < MaxFrames /\ MaxFrames \in Nat
  BY BoundsAssumption DEF Sends
<1> QED
  <2>1. Cardinality(Waiting) \in Nat /\ Cardinality(Waiting') \in Nat
    BY <1>3, FS_CardinalityType DEF BoundsInv
  <2>2. queries \in Nat /\ frames \in 0..MaxFrames /\ Cardinality(Waiting) + queries <= frames
    BY DEF BoundsInv, Types
  <2>3. frames' \in 0..MaxFrames /\ Cardinality(Waiting') + queries' <= frames'
    BY <1>3, <1>4, <2>1, <2>2
  <2> QED
    BY <1>3, <2>3

(* A frame that is received makes a query at most. *)
LEMMA ReceiveCounted ==
  ASSUME Types, BoundsInv, NEW t \in Tabs, Receive(t)
  PROVE  IsFiniteSet(Waiting') /\ Cardinality(Waiting') + queries + 1 <= frames
<1>1. /\ 1 \in DOMAIN inbox[t] /\ inbox[t] \in Seq(ClientFrames)
      /\ inbox[t] # << >> /\ inbox'[t] = Tail(inbox[t])
      /\ \A u \in Tabs : u # t => inbox'[u] = inbox[u]
  BY InboxShrinks, ReceiveTypes DEF Receive
<1>2. /\ Len(inbox[t]) \in Nat /\ Len(inbox[t]) # 0 /\ DOMAIN inbox[t] = 1..Len(inbox[t])
      /\ DOMAIN inbox'[t] = 1..(Len(inbox[t]) - 1)
  BY <1>1, EmptySeq, LenProperties, HeadTailProperties
<1> DEFINE w == <<t, Len(inbox[t])>>
<1>3. Waiting' = Waiting \ {w} /\ w \in Waiting
  <2>1. ASSUME NEW u \in Tabs, NEW i \in Nat
        PROVE  <<u, i>> \in Waiting' <=> <<u, i>> \in Waiting \ {w}
    <3>1. /\ <<u, i>> \in Waiting' <=> i \in DOMAIN inbox'[u]
          /\ <<u, i>> \in Waiting <=> i \in DOMAIN inbox[u]
      BY DEF Waiting
    <3>2. CASE u = t
      BY <1>2, <3>1, <3>2
    <3>3. CASE u # t
      BY <1>1, <3>1, <3>3
    <3> QED
      BY <3>2, <3>3
  <2>2. w \in Waiting
    BY <1>2 DEF Waiting
  <2> QED
    BY <2>1, <2>2 DEF Waiting
<1>4. Cardinality(Waiting) \in Nat
  BY FS_CardinalityType DEF BoundsInv
<1>5. IsFiniteSet(Waiting') /\ Cardinality(Waiting') = Cardinality(Waiting) - 1
  BY <1>3, FS_RemoveElement DEF BoundsInv
<1> QED
  BY <1>4, <1>5 DEF BoundsInv, Types

LEMMA SeqMonotone ==
  ASSUME NEW S, NEW T, S \subseteq T, NEW s \in Seq(S)
  PROVE  s \in Seq(T)
<1>1. Len(s) \in Nat /\ DOMAIN s = 1..Len(s) /\ s = [i \in 1..Len(s) |-> s[i]]
  BY LenProperties
<1>2. \A i \in 1..Len(s) : s[i] \in T
  BY ElementOfSeq
<1> QED
  BY <1>1, <1>2

LEMMA InitBounds == Init => BoundsInv
<1> SUFFICES ASSUME Init PROVE BoundsInv
  OBVIOUS
<1>1. \A u \in Tabs : DOMAIN inbox[u] = {}
  BY Empty DEF Init
<1>2. Waiting = {}
  BY <1>1 DEF Waiting
<1>3. IsFiniteSet(Waiting) /\ Cardinality(Waiting) = 0
  BY <1>2, FS_EmptySet
<1> QED
  BY <1>3, BoundsAssumption DEF Init, BoundsInv

LEMMA BoundsStep ==
  ASSUME Types, BoundsInv, [Next]_vars
  PROVE  BoundsInv'
<1> USE DEF tabVars, wireVars, boundVars, historyVars
<1> DEFINE Inboxes  == UNCHANGED <<inbox, frames, queries>>
           Counts   == UNCHANGED <<messages, sessions, faults, failed>>
           Counted  == /\ frames' \in 0..MaxFrames
                       /\ IsFiniteSet(Waiting') /\ Cardinality(Waiting') + queries' <= frames'
           InBounds == /\ failed' \in SUBSET Tabs
                       /\ messages' \in 0..MaxMessages
                       /\ sessions' \in 0..MaxSessions
                       /\ faults' \in 0..MaxFaults
<1>1. Inboxes => Counted
  BY DEF BoundsInv, Waiting
<1>2. Counts => InBounds
  BY DEF BoundsInv
<1>3. Counted /\ InBounds => BoundsInv'
  BY DEF BoundsInv
<1>4. /\ messages < MaxMessages /\ messages' = messages + 1 => messages' \in 0..MaxMessages
      /\ sessions < MaxSessions /\ sessions' = sessions + 1 => sessions' \in 0..MaxSessions
      /\ Fault => faults' \in 0..MaxFaults
  BY BoundsAssumption DEF Fault, BoundsInv
<1>5. ASSUME NEW t \in Tabs, Receive(t), UNCHANGED <<frames, messages, sessions, faults, failed>>,
             queries' \in {queries, queries + 1}
      PROVE  BoundsInv'
  <2>1. IsFiniteSet(Waiting') /\ Cardinality(Waiting') + queries + 1 <= frames
    BY <1>5, ReceiveCounted
  <2>2. Cardinality(Waiting') \in Nat /\ queries \in Nat /\ frames \in Nat /\ frames \in 0..MaxFrames
    BY <2>1, FS_CardinalityType DEF BoundsInv, Types
  <2>3. Counted
    BY <1>5, <2>1, <2>2
  <2> QED
    BY <1>2, <1>3, <1>5, <2>3
<1>6. ASSUME NEW t \in Tabs PROVE
      /\ ReceiveBad(t) => BoundsInv'
      /\ ReceiveMessage(t) => BoundsInv'
      /\ ReceiveLoad(t) => BoundsInv'
  <2> HIDE DEF Counted, InBounds, Inboxes, Counts
  <2>1. ReceiveBad(t) => Receive(t) /\ UNCHANGED <<frames, messages, sessions, faults, failed, queries>>
    BY DEF ReceiveBad
  <2>2. ReceiveMessage(t) => Receive(t) /\ UNCHANGED <<frames, messages, sessions, faults, failed, queries>>
    BY DEF ReceiveMessage
  <2>3. ReceiveLoad(t) => /\ Receive(t) /\ UNCHANGED <<frames, messages, sessions, faults, failed>>
                          /\ queries' = queries + 1
    BY DEF ReceiveLoad
  <2> QED
    BY <1>5, <2>1, <2>2, <2>3
<1>7. ASSUME NEW t \in Tabs, NEW f \in ClientFrames, Sends(t, f),
             UNCHANGED <<queries, sessions, faults, failed>>, messages' \in 0..MaxMessages
      PROVE  BoundsInv'
  <2>1. Counted
    BY <1>7, SendsCounted
  <2>2. InBounds
    BY <1>7 DEF BoundsInv
  <2> QED
    BY <1>3, <2>1, <2>2
<1>8. ASSUME NEW t \in Tabs, SetActive(t) PROVE BoundsInv'
  <2>1. CASE UNCHANGED <<frames, inbox>>
    BY <1>1, <1>2, <1>3, <1>8, <2>1 DEF SetActive
  <2>2. CASE Sends(t, LoadHistory(None))
    BY <1>7, <1>8, <2>2, FrameTypes DEF SetActive, BoundsInv
  <2> QED
    BY <1>8, <2>1, <2>2 DEF SetActive
<1>9. ASSUME NEW t \in Tabs, PageSends(t) PROVE BoundsInv'
  <2>1. messages \in 0..MaxMessages
    BY DEF BoundsInv
  <2>2. UNCHANGED <<queries, sessions, faults, failed>>
    BY <1>9 DEF PageSends
  <2>3. CASE LoadOlder(t)
    <3>1. page[t].oldest \in Ids \cup {None}
      BY DEF Types, Pages
    <3> QED
      BY <1>7, <2>1, <2>2, <2>3, <3>1, FrameTypes DEF LoadOlder
  <2>4. CASE Compose(t)
    <3>1. CASE Sends(t, SendMessage(None)) /\ UNCHANGED messages
      BY <1>7, <2>1, <2>2, <3>1, FrameTypes
    <3>2. CASE messages < MaxMessages /\ messages' = messages + 1 /\ Sends(t, SendMessage(messages'))
      <4>1. messages' \in Ids /\ messages' \in 0..MaxMessages
        BY <2>1, <3>2, BoundsAssumption DEF Ids
      <4> QED
        BY <1>7, <2>2, <3>2, <4>1, FrameTypes
    <3> QED
      BY <2>4, <3>1, <3>2 DEF Compose
  <2>5. CASE SendBad(t)
    BY <1>7, <2>1, <2>2, <2>5, FrameTypes DEF SendBad
  <2> QED
    BY <1>9, <2>3, <2>4, <2>5 DEF PageSends
<1>10. ASSUME NEW t \in Tabs, HandlerEnds(t) PROVE BoundsInv'
  <2>1. inbox \in [Tabs -> Seq(ClientFrames)] /\ inbox' = [inbox EXCEPT ![t] = << >>]
    BY <1>10 DEF HandlerEnds, Types
  <2>2. \A u \in Tabs : DOMAIN inbox'[u] \subseteq DOMAIN inbox[u]
    BY <2>1, Empty
  <2>3. Waiting' \in SUBSET Waiting
    BY <2>2 DEF Waiting
  <2>4. /\ IsFiniteSet(Waiting) /\ IsFiniteSet(Waiting') /\ Cardinality(Waiting') <= Cardinality(Waiting)
        /\ Cardinality(Waiting) \in Nat /\ Cardinality(Waiting') \in Nat
    BY <2>3, FS_Subset, FS_CardinalityType DEF BoundsInv
  <2>5. UNCHANGED <<frames, queries, messages, sessions, faults, failed>>
    BY <1>10 DEF HandlerEnds
  <2>6. Counted
    BY <2>4, <2>5 DEF BoundsInv, Types
  <2> QED
    BY <1>2, <1>3, <2>5, <2>6
<1>11. ASSUME NEW t \in Tabs, NEW r \in Requests, Handshake(t, r) PROVE BoundsInv'
  <2>1. Inboxes /\ UNCHANGED <<messages, sessions, faults>> /\ failed' \in {failed, failed \ {t}}
    BY <1>11 DEF Handshake
  <2>2. InBounds
    BY <2>1 DEF BoundsInv
  <2> QED
    BY <1>1, <1>3, <2>1, <2>2
<1>12. ASSUME NEW t \in Tabs, TabCloses(t) PROVE BoundsInv'
  <2>1. Inboxes /\ UNCHANGED <<messages, sessions, failed>> /\ Fault
    BY <1>12 DEF TabCloses
  <2>2. InBounds
    BY <1>4, <2>1 DEF BoundsInv
  <2> QED
    BY <1>1, <1>3, <2>1, <2>2
<1>13. ASSUME NEW t \in Tabs, QueryTimesOut(t) PROVE BoundsInv'
  <2>1. /\ Inboxes /\ UNCHANGED <<messages, sessions>> /\ failed' = failed \cup {t}
        /\ UNCHANGED faults \/ Fault
    BY <1>13 DEF QueryTimesOut
  <2>2. InBounds
    BY <1>4, <2>1 DEF BoundsInv
  <2> QED
    BY <1>1, <1>3, <2>1, <2>2
<1>14. ASSUME NEW body \in BOOLEAN, PeerWrites(body) PROVE BoundsInv'
  <2>1. /\ Inboxes /\ UNCHANGED <<faults, sessions, failed>>
        /\ messages < MaxMessages /\ messages' = messages + 1
    BY <1>14 DEF PeerWrites
  <2>2. InBounds
    BY <1>4, <2>1 DEF BoundsInv
  <2> QED
    BY <1>1, <1>3, <2>1, <2>2
<1>15. CASE ServerArchives
  <2>1. Inboxes /\ UNCHANGED <<messages, sessions, failed>> /\ (UNCHANGED faults \/ Fault)
    BY <1>15 DEF ServerArchives, ServerTakes
  <2>2. InBounds
    BY <1>4, <2>1 DEF BoundsInv
  <2> QED
    BY <1>1, <1>3, <2>1, <2>2
<1>16. CASE SessionStarts
  <2>1. /\ Inboxes /\ UNCHANGED <<messages, faults, failed>>
        /\ sessions < MaxSessions /\ sessions' = sessions + 1
    BY <1>16 DEF SessionStarts
  <2>2. InBounds
    BY <1>4, <2>1 DEF BoundsInv
  <2> QED
    BY <1>1, <1>3, <2>1, <2>2
<1>17. ASSUME NEW t \in Tabs, NEW i \in pending[t], Shows(t, i) PROVE BoundsInv'
  <2>1. Inboxes /\ Counts
    BY <1>17 DEF Shows
  <2> QED
    BY <1>1, <1>2, <1>3, <2>1
<1>18. /\ ServerAnswers => Inboxes /\ Counts
       /\ OnMessage => Inboxes /\ Counts
       /\ OnResult => Inboxes /\ Counts
       /\ StreamLost => Inboxes /\ Counts
       /\ UNCHANGED vars => Inboxes /\ Counts
  BY DEF ServerAnswers, ServerTakes, OnMessage, OnResult, ClientTakes, StreamLost, vars
<1> HIDE DEF Inboxes, Counts, Counted, InBounds
<1> QED
  BY <1>1, <1>2, <1>3, <1>6, <1>8, <1>9, <1>10, <1>11, <1>12, <1>13, <1>14, <1>15, <1>16, <1>17,
     <1>18 DEF Next, Stream, Serve

LEMMA TypesOfAll ==
  ASSUME Types, EntitledInv, BoundsInv
  PROVE  TypeOK
<1>1. /\ Texts \cup Queries \subseteq Stanzas
      /\ Texts \cup {Bounce} \cup Results \subseteq Stanzas
  BY DEF Texts, Queries, Results, Stanzas
<1>2. toServer \in Seq(Stanzas) /\ toClient \in Seq(Stanzas)
  BY <1>1, SeqMonotone DEF Types
<1>3. Cardinality(Waiting) \in Nat
  BY FS_CardinalityType DEF BoundsInv
<1>4. {frames, queries} \subseteq 0..MaxFrames
  BY <1>3, BoundsAssumption DEF BoundsInv, Types
<1> QED
  BY <1>2, <1>4 DEF TypeOK, Types, EntitledInv, BoundsInv, Pages, Queries

(* Every variable keeps its type; there are at most as many queries as the *)
(* pages may send frames, because a handler takes one frame at a time and  *)
(* each asks for one page at most (ws.py:80-82).                           *)
THEOREM ConversationTyped == Spec => []TypeOK
<1>1. Init => BoundsInv /\ EntitledInv
  BY InitBounds DEF Init, EntitledInv
<1>2. NoGapInv /\ BoundsInv /\ EntitledInv /\ [Next]_vars => BoundsInv' /\ EntitledInv'
  BY BoundsStep, EntitledStep DEF NoGapInv
<1>3. NoGapInv /\ BoundsInv /\ EntitledInv => TypeOK
  BY TypesOfAll DEF NoGapInv
<1> QED
  BY <1>1, <1>2, <1>3, NoGapInvHolds, PTL DEF Spec

-----------------------------------------------------------------------------
(* When the history of a page is complete.                                 *)

AllBodied == \A i \in DOMAIN archive : archive[i].body

(* What a complete page has, and what a result brings that will make it    *)
(* complete.                                                               *)
CompleteAround(t) ==
  /\ page[t].complete /\ AllBodied =>
       online /\ Echoed(t) /\ Bodies(archive) \subseteq WillHave(t)
  /\ \A i \in DOMAIN toClient : toClient[i].kind = "result" /\ Awaits(t, toClient[i].number) =>
       (Complete(toClient[i]) /\ AllBodied =>
          Bodies(archive) \subseteq Bodies(toClient[i].items) \cup WillHave(t))

CompleteInv == \A t \in whole \ failed : CompleteAround(t)

(* A short page, or one that begins where the archive does, leaves nothing *)
(* out that is older.                                                      *)
LEMMA CompletePage ==
  ASSUME Types, ArchiveNumbered, AllBodied, NEW b, b # None => InArchive(b),
         NEW r, r.items = ArchivePage(b, PageSize).items, r.fin = ArchivePage(b, PageSize).fin,
         Complete(r)
  PROVE  Bodies(archive) \subseteq Bodies(r.items) \cup (IF b = None THEN {} ELSE From(archive, b))
<1> DEFINE items == r.items
<1>1. PICK first \in Nat \ {0} :
         /\ r.fin = (first = 1)
         /\ first # 1 => DOMAIN items = 1..PageSize
         /\ \A k \in DOMAIN items :
              first + k - 1 \in DOMAIN archive /\ items[k] = archive[first + k - 1]
         /\ \A i \in DOMAIN archive : first <= i =>
              i - first + 1 \in DOMAIN items \/ (b # None /\ Position(archive, b) <= i)
  BY PageOfArchive
<1>2. /\ items \in Seq(Archived) /\ DOMAIN items \subseteq Nat \ {0}
      /\ DOMAIN archive \subseteq Nat \ {0}
  BY PageOfArchive, LenProperties DEF Types
<1> HIDE DEF items
<1>3. first = 1
  <2> SUFFICES ASSUME first # 1 PROVE FALSE
    OBVIOUS
  <2>1. DOMAIN items = 1..PageSize /\ PageSize \in Nat
    BY <1>1, PageAssumption
  <2> DEFINE f == [k \in 1..PageSize |-> items[k].id]
  <2>2. \A k \in 1..PageSize : items[k].body /\ items[k].id \in Bodies(items)
    BY <1>1, <1>2, <2>1, BodiesTypes DEF AllBodied
  <2>3. \A j, k \in 1..PageSize : items[j].id = items[k].id => j = k
    <3>1. ASSUME NEW j \in 1..PageSize, NEW k \in 1..PageSize, items[j].id = items[k].id
          PROVE  first + j - 1 = first + k - 1
      BY <1>1, <2>1, <3>1 DEF ArchiveNumbered
    <3> QED
      BY <3>1
  <2>4. \A m \in Bodies(items) : \E k \in 1..PageSize : items[k].id = m
    BY <2>1 DEF Bodies
  <2>5. f \in Bijection(1..PageSize, Bodies(items))
    <3>1. f \in [1..PageSize -> Bodies(items)]
      BY <2>2
    <3>2. \A j, k \in 1..PageSize : f[j] = f[k] => j = k
      BY <2>3
    <3>3. \A m \in Bodies(items) : \E k \in 1..PageSize : f[k] = m
      BY <2>4
    <3> HIDE DEF f
    <3> QED
      BY <3>1, <3>2, <3>3 DEF Bijection, Injection, Surjection, IsInjective
  <2>6. Cardinality(1..PageSize) = PageSize /\ IsFiniteSet(1..PageSize)
    BY <2>1, FS_Interval
  <2>7. Cardinality(Bodies(items)) = PageSize
    <3> HIDE DEF f
    <3> QED
      BY <2>5, <2>6, FS_Bijection DEF ExistsBijection
  <2>8. ~r.fin
    BY <1>1
  <2>9. Cardinality(Bodies(items)) < PageSize
    BY <2>8 DEF Complete, items
  <2> QED
    BY <2>1, <2>7, <2>9
<1>4. ASSUME NEW i \in DOMAIN archive, archive[i].id \notin Bodies(items)
      PROVE  b # None /\ archive[i].id \in From(archive, b)
  <2>1. i \notin DOMAIN items
    <3> SUFFICES ASSUME i \in DOMAIN items PROVE FALSE
      OBVIOUS
    <3>1. items[i] = archive[i]
      BY <1>1, <1>2, <1>3
    <3> QED
      BY <1>2, <1>4, <3>1, BodiesTypes DEF AllBodied
  <2>2. b # None /\ Position(archive, b) <= i
    BY <1>1, <1>2, <1>3, <2>1
  <2>3. Position(archive, b) \in DOMAIN archive /\ archive[Position(archive, b)].id = b
    BY <2>2, PositionIsThere
  <2> QED
    BY <2>2, <2>3 DEF From, AllBodied
<1> QED
  BY <1>4 DEF Bodies, items

(* Only an answer completes a page that is there. *)
LEMMA CompleteFlagStep ==
  ASSUME Types, [Next]_vars, NEW t \in Tabs, pc[t] = "on"
  PROVE  \/ page'[t].complete = page[t].complete
         \/ QueryTimesOut(t)
         \/ OnResult /\ Awaits(t, toClient[1].number) /\ Answer(t, toClient[1])
<1> DEFINE Same == page'[t].complete = page[t].complete
<1>0. page'[t] = page[t] => Same
  OBVIOUS
<1>1. ASSUME NEW u \in Tabs, NEW r \in Requests, Handshake(u, r) PROVE Same
  <2>1. u # t /\ page' \in {page, [page EXCEPT ![u] = NewPage]}
    BY <1>1 DEF Handshake
  <2> QED
    BY <1>0, <2>1 DEF Types
<1>2. ASSUME NEW u \in Tabs, SetActive(u) PROVE Same
  BY <1>2 DEF SetActive, Types, Pages
<1>3. ASSUME NEW u \in Tabs, NEW i \in Items, page' = [page EXCEPT ![u] = ShowItem(@, i)] PROVE Same
  <2>1. page[u] \in Pages /\ page \in [Tabs -> Pages]
    BY DEF Types
  <2>2. ShowItem(page[u], i).complete = page[u].complete
    BY <2>1 DEF ShowItem, Pages
  <2> QED
    BY <1>3, <2>1, <2>2
<1>4. ASSUME NEW u \in Tabs, NEW i \in pending[u], Shows(u, i) PROVE Same
  <2>1. i \in Items /\ page' = [page EXCEPT ![u] = ShowItem(@, i)]
    BY <1>4 DEF Shows, Types
  <2> QED
    BY <1>3, <2>1
<1>5. ASSUME NEW u \in Tabs, ReceiveMessage(u) PROVE Same
  <2>1. UNCHANGED page \/ page' = [page EXCEPT ![u] = ShowItem(@, Warning)]
    BY <1>5 DEF ReceiveMessage
  <2> QED
    BY <1>0, <1>3, <2>1 DEF Items
<1>6. ASSUME NEW u \in Tabs, NEW r, Answer(u, r), u # t PROVE Same
  BY <1>0, <1>6 DEF Answer, Types
<1>7. ASSUME NEW u \in Tabs, QueryTimesOut(u) PROVE Same \/ QueryTimesOut(t)
  BY <1>6, <1>7 DEF QueryTimesOut
<1>8. ASSUME OnResult
      PROVE  Same \/ (Awaits(t, toClient[1].number) /\ Answer(t, toClient[1]))
  BY <1>0, <1>6, <1>8, ResultTaken
<1> QED
  BY <1>0, <1>1, <1>2, <1>4, <1>5, <1>7, <1>8, TabFrames, StreamFrames DEF Next, Stream, Serve

LEMMA FailedStep ==
  ASSUME Types, [Next]_vars, NEW t \in Tabs, pc[t] = "on", t \notin failed'
  PROVE  t \notin failed /\ ~QueryTimesOut(t)
<1> USE DEF tabVars, wireVars, boundVars, historyVars
<1>1. UNCHANGED failed => t \notin failed
  OBVIOUS
<1>2. ASSUME NEW u \in Tabs, NEW r \in Requests, Handshake(u, r) PROVE t \notin failed
  <2>1. u # t /\ failed' \in {failed, failed \ {u}}
    BY <1>2 DEF Handshake
  <2> QED
    BY <2>1
<1>3. ASSUME NEW u \in Tabs, QueryTimesOut(u) PROVE t \notin failed /\ u # t
  BY <1>3 DEF QueryTimesOut
<1>4. ASSUME NEW u \in Tabs
      PROVE  /\ TabCloses(u) => UNCHANGED failed
             /\ HandlerEnds(u) => UNCHANGED failed
             /\ SetActive(u) => UNCHANGED failed
             /\ PageSends(u) => UNCHANGED failed
             /\ \A i \in pending[u] : Shows(u, i) => UNCHANGED failed
             /\ ReceiveBad(u) => UNCHANGED failed
             /\ ReceiveMessage(u) => UNCHANGED failed
             /\ ReceiveLoad(u) => UNCHANGED failed
  BY DEF TabCloses, HandlerEnds, SetActive, PageSends, Shows, ReceiveBad, ReceiveMessage, ReceiveLoad
<1>5. /\ \A body \in BOOLEAN : PeerWrites(body) => UNCHANGED failed
      /\ ServerArchives => UNCHANGED failed
      /\ ServerAnswers => UNCHANGED failed
      /\ OnMessage => UNCHANGED failed
      /\ OnResult => UNCHANGED failed
      /\ StreamLost => UNCHANGED failed
      /\ SessionStarts => UNCHANGED failed
      /\ UNCHANGED vars => UNCHANGED failed
  BY DEF PeerWrites, ServerArchives, ServerAnswers, ServerTakes, OnMessage, OnResult, ClientTakes,
         StreamLost, SessionStarts, vars
<1>6. ~QueryTimesOut(t)
  BY <1>3
<1> QED
  BY <1>1, <1>2, <1>3, <1>4, <1>5, <1>6 DEF Next, Stream, Serve

LEMMA CompleteStep ==
  ASSUME Types, ArchiveNumbered, Matched, OffIsIdle, GapInv, CompleteInv, [Next]_vars
  PROVE  CompleteInv'
<1> SUFFICES ASSUME NEW t \in whole', t \notin failed' PROVE CompleteAround(t)'
  BY DEF CompleteInv
<1>1. CASE t \notin whole
  <2>1. t \in Tabs /\ page'[t] = NewPage /\ asking'[t] = None
    BY <1>1, WholeStep DEF OffIsIdle
  <2>2. ~page'[t].complete
    BY <2>1 DEF NewPage
  <2> QED
    BY <2>1, <2>2 DEF CompleteAround, Awaits
<1>2. CASE t \in whole
  <2>1. t \in Tabs /\ NoGapAround(t) /\ pc[t] = "on"
    BY <1>2 DEF Types, GapInv, NoGapAround
  <2>2. t \notin failed /\ ~QueryTimesOut(t) /\ CompleteAround(t)
    BY <1>2, <2>1, FailedStep DEF CompleteInv
  <2>3. WillHave(t) \subseteq WillHave(t)' /\ (online => online') /\ (Echoed(t) => Echoed(t)')
    BY <2>1, WillHaveStep, StaysOn, EchoedStep
  <2>4. AllBodied' => AllBodied
    BY ArchiveStep DEF AllBodied
  <2>5. ASSUME NEW S, online, Echoed(t), Bodies(archive) \subseteq S \cup WillHave(t)
        PROVE  Bodies(archive') \subseteq S \cup WillHave(t)'
    <3>1. Bodies(archive') \subseteq Bodies(archive) \cup WillHave(t)'
      BY <2>1, <2>5, BodiesStep
    <3> QED
      BY <2>3, <2>5, <3>1
  <2>6. ASSUME page'[t].complete, AllBodied'
        PROVE  online' /\ Echoed(t)' /\ Bodies(archive') \subseteq WillHave(t)'
    <3>1. CASE page'[t].complete = page[t].complete
      <4>1. online /\ Echoed(t) /\ Bodies(archive) \subseteq WillHave(t)
        BY <2>2, <2>4, <2>6, <3>1 DEF CompleteAround
      <4>2. Bodies(archive') \subseteq Bodies(archive) \cup WillHave(t)'
        BY <2>1, <4>1, BodiesStep
      <4> QED
        BY <2>3, <4>1, <4>2
    <3>2. CASE OnResult /\ Awaits(t, toClient[1].number) /\ Answer(t, toClient[1])
      <4> DEFINE r == toClient[1]
      <4>1. /\ r.kind = "result" /\ 1 \in DOMAIN toClient
            /\ r.items \in Seq(Archived) /\ r.fin \in BOOLEAN
        BY <3>2, ResultTaken DEF Results
      <4>2. Complete(r)
        BY <2>1, <2>6, <3>2, <4>1, AnswerShown
      <4>3. Bodies(archive) \subseteq Bodies(r.items) \cup WillHave(t)
        BY <2>2, <2>4, <2>6, <3>2, <4>1, <4>2 DEF CompleteAround
      <4>4. online /\ Echoed(t)
        BY <2>1, <3>2, <4>1 DEF NoGapAround
      <4>5. Bodies(r.items) \subseteq page'[t].shown
        BY <2>1, <3>2, <4>1, AnswerTypes
      <4>6. Bodies(r.items) \subseteq WillHave(t)'
        BY <4>1, <4>5, BodiesTypes, IdsAreNumbers DEF WillHave
      <4>7. Bodies(archive') \subseteq Bodies(r.items) \cup WillHave(t)'
        BY <2>5, <4>3, <4>4
      <4> QED
        BY <2>3, <4>4, <4>6, <4>7
    <3> QED
      BY <2>1, <2>2, <3>1, <3>2, CompleteFlagStep
  <2>7. ASSUME NEW i \in DOMAIN toClient', toClient'[i].kind = "result",
               asking'[t] # None, asking'[t].number = toClient'[i].number,
               Complete(toClient'[i]), AllBodied'
        PROVE  Bodies(archive') \subseteq Bodies(toClient'[i].items) \cup WillHave(t)'
    <3>1. CASE \E k \in DOMAIN toClient : toClient'[i] = toClient[k] /\ Awaits(t, toClient[k].number)
      <4>1. PICK k \in DOMAIN toClient : toClient'[i] = toClient[k] /\ Awaits(t, toClient[k].number)
        BY <3>1
      <4>2. Bodies(archive) \subseteq Bodies(toClient[k].items) \cup WillHave(t)
        BY <2>2, <2>4, <2>7, <4>1 DEF CompleteAround
      <4>3. online /\ Echoed(t)
        BY <2>1, <2>7, <4>1 DEF NoGapAround
      <4> QED
        BY <2>5, <4>1, <4>2, <4>3
    <3>2. ASSUME UNCHANGED archive, NEW b, b = asking[t].before, b # None => InArchive(b),
                 asking[t] # None,
                 toClient'[i].items = ArchivePage(b, PageSize).items,
                 toClient'[i].fin = ArchivePage(b, PageSize).fin
          PROVE  Bodies(archive') \subseteq Bodies(toClient'[i].items) \cup WillHave(t)'
      <4>1. b # None => From(archive, b) \subseteq WillHave(t)
        BY <2>1, <3>2 DEF NoGapAround
      <4>2. Bodies(archive) \subseteq Bodies(toClient'[i].items) \cup (IF b = None THEN {} ELSE From(archive, b))
        BY <2>4, <2>7, <3>2, CompletePage
      <4> QED
        BY <2>3, <3>2, <4>1, <4>2
    <3> QED
      BY <2>1, <2>7, <3>1, <3>2, AwaitedStep DEF Awaits
  <2> QED
    BY <2>6, <2>7 DEF CompleteAround, Awaits, AllBodied
<1> QED
  BY <1>1, <1>2

(* A page that calls its history complete has all of it, live messages     *)
(* included, if none of its queries failed and all messages have a body    *)
(* (slixmpp_client.py:290-328).                                            *)
THEOREM CompleteHistory == Spec => []CompleteMeansAll
<1>1. Init => CompleteInv
  BY DEF Init, CompleteInv
<1>2. NoGapInv /\ CompleteInv /\ [Next]_vars => CompleteInv'
  BY CompleteStep DEF NoGapInv, Numbered
<1>3. NoGapInv /\ CompleteInv => CompleteMeansAll
  <2> SUFFICES ASSUME CompleteInv, NEW t \in whole \ failed, page[t].complete,
                      \A i \in DOMAIN archive : archive[i].body
               PROVE  Bodies(archive) \subseteq page[t].shown \cup Coming(t)
    BY DEF CompleteMeansAll
  <2>1. Bodies(archive) \subseteq WillHave(t)
    BY DEF CompleteInv, CompleteAround, AllBodied
  <2> QED
    BY <2>1 DEF WillHave
<1> QED
  BY <1>1, <1>2, <1>3, NoGapInvHolds, PTL DEF Spec

=============================================================================
