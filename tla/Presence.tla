-------------------------------- MODULE Presence --------------------------------
(***************************************************************************)
(* Presence and roster of one open account, from the chat server to the    *)
(* browser pages: the presence map of the client (xmpp/slixmpp_client.py), *)
(* the caches of the account, its broadcasts and the replay for a late tab *)
(* (session/account.py), and the contact list of a page (static/js/app.js).*)
(*                                                                         *)
(* A send writes its frame to the socket at once and suspends while the    *)
(* socket's buffer is full.  So a broadcast is at one tab at a time, and   *)
(* those that wait at one tab go on in the order in which they came.       *)
(*                                                                         *)
(* What the server still has to report is a set: a later report about a    *)
(* device replaces an undelivered one.  Presence without a contact (our    *)
(* own, a room's occupants) is filtered by the code and does not occur;    *)
(* status texts are left out.  A frame that is sent again by changed_status*)
(* for the same stanza is the first one once more.                         *)
(***************************************************************************)
EXTENDS Naturals, FiniteSets

CONSTANTS
  Tabs,         \* browser tabs of the account
  Contacts,     \* bare JIDs of contacts
  Devices,      \* full JIDs of contacts
  Bare,         \* the bare JID of a full one
  Uses,         \* values of <show/> that a device uses
  MaxChanges,   \* bound on changes from outside (see Change)
  MaxCasts      \* bound on broadcasts under way at the same time

ASSUME BareAssumption   == Bare \in [Devices -> Contacts]
ASSUME BoundsAssumption == {MaxChanges, MaxCasts} \subseteq Nat
ASSUME UsesAssumption   == DOMAIN Uses = Devices /\ \A d \in Devices : "offline" \notin Uses[d]

VARIABLES
  real,       \* what each device last told the server (external)
  online,     \* the client has a session
  visible,    \* the server counts the session as available (external)
  unreported, \* devices whose presence the server has yet to send (external)
  missed,     \* devices whose going the server never told us of (history variable)
  resources,  \* SlixmppClient._presence_resources; "offline" is no entry
  presence,   \* Account._presence; "unknown" is no entry
  roster,     \* Account._roster, always what slixmpp's client_roster has
  removing,   \* contacts a tab removed, without an answer so far
  subs,       \* Account._subscribers
  casts,      \* calls of _broadcast under way
  sent,       \* number of broadcasts so far
  pc,         \* where attach is for a tab
  keys,       \* keys of _presence when the replay began to iterate over them
  rest,       \* those it has still to send
  page,       \* the page's roster: the show of a contact, or "unknown"
  doubt,      \* pages whose frames may be out of order (history variable)
  changes     \* changes so far

serverVars == <<real, visible, unreported, missed>>
clientVars == <<online, resources>>
castVars   == <<casts, sent, page, subs>>
tabVars    == <<pc, keys, rest, doubt>>
vars == <<serverVars, clientVars, presence, roster, removing, castVars, tabVars, changes>>

Shows     == {"online", "away", "xa", "dnd"}
StanzaShows == UNION {Uses[d] : d \in Devices}
AnyShow   == Shows \cup {"offline"}
CacheShow == AnyShow \cup {"unknown"}

(* Events of the client, and the frames made from them. *)
PresenceUpdate  == [type : {"presence"}, jid : Contacts, show : AnyShow]
RosterSnapshot  == [type : {"roster"}, contacts : SUBSET Contacts]
Frames          == PresenceUpdate \cup RosterSnapshot
PresenceFrame(c, s) == [type |-> "presence", jid |-> c, show |-> s]
RosterFrame(cs)     == [type |-> "roster", contacts |-> cs]

Orders == {o \in [Tabs -> 1..Cardinality(Tabs)] : \A t, u \in Tabs : o[t] = o[u] => t = u}
Casts  == [number : Nat, frame : Frames, order : [Tabs -> 1..Cardinality(Tabs)],
           at : Tabs, rest : SUBSET Tabs]

-----------------------------------------------------------------------------
(* Shows.                                                                  *)

(* Mutant: the value of the stanza is kept as it is. *)
ShowAsSent(s) == s

(* _SHOW_MAP with its default. *)
ShowOf(s) == IF s \in {"away", "xa", "dnd"} THEN s ELSE "online"

(* _SHOW_PRIORITY with its default, and what is less available than any show. *)
Priority(s) == CASE s = "away" -> 1 [] s = "xa" -> 2 [] s = "dnd" -> 3
                 [] s = "offline" -> 4 [] s = "unknown" -> 5 [] OTHER -> 0

DevicesOf(c) == {d \in Devices : Bare[d] = c}

(* A contact shows as its most available device, and as offline without one. *)
BestShow(m, c) ==
  LET present == {m[d] : d \in DevicesOf(c)} \ {"offline"} IN
  IF present = {} THEN "offline"
  ELSE CHOOSE s \in present : \A o \in present : Priority(s) <= Priority(o)

Truth == [d \in Devices |-> IF real[d] = "offline" THEN "offline" ELSE ShowOf(real[d])]

Available == {d \in Devices : real[d] # "offline"}

Known == {c \in Contacts : presence[c] # "unknown"}

-----------------------------------------------------------------------------
(* Frames and pages.                                                       *)

(* handleFrame: presence adds or updates a contact, a roster adds contacts *)
(* and takes none away.                                                    *)
HandleFrame(p, f) ==
  IF f.type = "presence" THEN [p EXCEPT ![f.jid] = f.show]
  ELSE [c \in Contacts |-> IF c \in f.contacts /\ p[c] = "unknown" THEN "offline" ELSE p[c]]

First(ts, o) == CHOOSE t \in ts : \A u \in ts : o[t] <= o[u]

(* Mutant: tabs that are still attaching get no frames. *)
ReadySubscribers == {t \in subs : pc[t] = "on"}

(* list(self._subscribers) *)
Recipients == subs

Dead == {t \in Tabs : pc[t] = "off"}

(* Mutant: a send that fails ends the broadcast. *)
LiveUpToFailure(ts, o) == IF ts # {} /\ First(ts, o) \in Dead THEN {} ELSE ts \ Dead

(* The tabs among ts that a broadcast can reach, and so has to.            *)
Live(ts, o) == ts \ Dead

(* A broadcast with number n sends f to ts, in order o, up to the next     *)
(* suspension: dead tabs are dropped, the first live one gets the frame.   *)
Sends(n, f, ts, o, others) ==
  /\ subs' = subs \ (ts \cap Dead)
  /\ IF Live(ts, o) = {} THEN casts' = others /\ UNCHANGED page
     ELSE LET t == First(Live(ts, o), o) IN
          /\ casts' = others \cup {[number |-> n, frame |-> f, order |-> o, at |-> t,
                                    rest |-> Live(ts, o) \ {t}]}
          /\ page' = [page EXCEPT ![t] = HandleFrame(@, f)]

(* Mutant: each call walks the tabs in an order of its own. *)
BroadcastAnyhow(f) ==
  /\ \E o \in Orders : Sends(sent, f, Recipients, o, casts)
  /\ sent' = sent + 1

(* A new call of _broadcast. The set iterates in any order, the same as for *)
(* the broadcasts under way unless its members changed since.              *)
Broadcast(f) ==
  /\ \E o \in Orders :
       /\ doubt # Tabs => \A k \in casts : k.order = o
       /\ Sends(sent, f, Recipients, o, casts)
  /\ sent' = sent + 1

(* Those that came earlier to the same tab are gone.                       *)
MayGoOn(k) == \A e \in casts : e.at = k.at => k.number <= e.number

(* The tab took the frame; the loop goes on to the next one. Numbers start *)
(* again when nothing is under way.                                        *)
BroadcastNext(k) ==
  /\ MayGoOn(k)
  /\ Sends(k.number, k.frame, k.rest, k.order, casts \ {k})
  /\ sent' = IF casts' = {} THEN 0 ELSE sent
  /\ UNCHANGED <<serverVars, clientVars, presence, roster, removing, tabVars, changes>>

MayBroadcast == Cardinality(casts) < MaxCasts

(* A session starts, a page opens, or a contact or a user changes something. *)
Change == changes < MaxChanges /\ changes' = changes + 1

-----------------------------------------------------------------------------
Init ==
  /\ real \in {r \in [Devices -> StanzaShows \cup {"offline"}] :
                 \A d \in Devices : r[d] \in Uses[d] \cup {"offline"}}
  /\ online = FALSE
  /\ visible = FALSE
  /\ unreported = {}
  /\ missed = {}
  /\ resources = [d \in Devices |-> "offline"]
  /\ presence = [c \in Contacts |-> "unknown"]
  /\ roster = {}
  /\ removing = {}
  /\ subs = {}
  /\ casts = {}
  /\ sent = 0
  /\ pc = [t \in Tabs |-> "off"]
  /\ keys = [t \in Tabs |-> {}]
  /\ rest = [t \in Tabs |-> {}]
  /\ page = [t \in Tabs |-> [c \in Contacts |-> "unknown"]]
  /\ doubt = {}
  /\ changes = 0

-----------------------------------------------------------------------------
(* The connection.                                                         *)

(* Reports that do not come any more: devices that went stay in our map.   *)
DropReports == missed' = missed \cup (unreported \ Available)

(* set_presence of the client, send_presence at a session start: once we   *)
(* become available the server reports everybody who is, and once we are   *)
(* not, what it has not reported by then it reports no more.               *)
SendPresence(show) ==
  /\ DropReports
  /\ visible' = (show # "offline")
  /\ unreported' = IF show # "offline" THEN Available ELSE {}

(* _on_session_start. The maps are as the last session left them.  That it *)
(* sends its presence again when the roster has come (account.py:133) makes*)
(* a difference only to a tab that chose another one meanwhile.            *)
SessionStarts ==
  /\ ~online
  /\ Change
  /\ online' = TRUE
  /\ SendPresence("online")
  /\ UNCHANGED <<real, resources, presence, roster, removing, castVars, tabVars>>

StreamLost ==
  /\ online
  /\ online' = FALSE
  /\ visible' = FALSE
  /\ unreported' = {}
  /\ DropReports
  /\ UNCHANGED <<real, resources, presence, roster, removing, castVars,
                 tabVars, changes>>

(* A device of a contact appears, changes its show or goes.                *)
ContactChanges(d, s) ==
  /\ real[d] # s
  /\ Change
  /\ real' = [real EXCEPT ![d] = s]
  /\ unreported' = IF visible THEN unreported \cup {d} ELSE unreported
  /\ missed' = IF ~visible /\ s = "offline" THEN missed \cup {d} ELSE missed
  /\ UNCHANGED <<visible, clientVars, presence, roster, removing, castVars, tabVars>>

(* _cmd_set_presence, where it makes a difference. What a tab chooses while *)
(* there is no session is lost.                                            *)
SetPresence(t, show) ==
  /\ pc[t] = "on"
  /\ online
  /\ visible # (show # "offline")
  /\ IF show = "offline" THEN Change ELSE UNCHANGED changes
  /\ SendPresence(show)
  /\ UNCHANGED <<real, clientVars, presence, roster, removing, castVars, tabVars>>

(* Mutant: a device that goes takes its contact's others with it. *)
ForgetContact(d) ==
  resources' = [e \in Devices |-> IF Bare[e] = Bare[d] THEN "offline" ELSE resources[e]]

(* Mutant: a device stays in the map when it goes. *)
KeepDevice(d) == UNCHANGED resources

(* resources.pop(frm.resource, None) *)
ForgetDevice(d) == resources' = [resources EXCEPT ![d] = "offline"]

(* _on_event(PresenceUpdate).                                              *)
PresenceEvent(c, show) ==
  /\ presence' = [presence EXCEPT ![c] = show]
  /\ Broadcast(PresenceFrame(c, show))

(* _on_presence with its event: map, cache and the first send without a    *)
(* suspension between them.                                                *)
OnPresence(d) ==
  /\ d \in unreported
  /\ MayBroadcast
  /\ unreported' = unreported \ {d}
  /\ missed' = missed \ {d}
  /\ IF real[d] = "offline" THEN ForgetDevice(d)
     ELSE resources' = [resources EXCEPT ![d] = ShowOf(real[d])]
  /\ PresenceEvent(Bare[d], BestShow(resources', Bare[d]))
  /\ UNCHANGED <<real, visible, online, roster, removing, tabVars, changes>>

-----------------------------------------------------------------------------
(* The roster.                                                             *)

(* Mutant: the new roster is kept for late tabs only. *)
EmitRosterSilently(cs) ==
  /\ roster' = cs
  /\ UNCHANGED castVars

(* _on_event(RosterSnapshot).                                              *)
RosterEvent(cs) ==
  /\ roster' = cs
  /\ Broadcast(RosterFrame(cs))

(* _emit_roster, when the client's roster has become cs.                   *)
EmitRoster(cs) == RosterEvent(cs)

(* _on_roster_update: the server sent the roster, or a change to it.       *)
RosterUpdate(cs) ==
  /\ online
  /\ Change
  /\ MayBroadcast
  /\ EmitRoster(cs)
  /\ UNCHANGED <<serverVars, clientVars, presence, removing, tabVars>>

(* add_contact: the local roster has the contact before the server does.   *)
AddContact(t, c) ==
  /\ pc[t] = "on"
  /\ Change
  /\ MayBroadcast
  /\ EmitRoster(roster \cup {c})
  /\ UNCHANGED <<serverVars, clientVars, presence, removing, tabVars>>

(* remove_contact up to its wait; the page of this tab drops the contact   *)
(* at once.                                                                *)
RemoveContact(t, c) ==
  /\ pc[t] = "on"
  /\ \A e \in Contacts : <<t, e>> \notin removing
  /\ Change
  /\ removing' = removing \cup {<<t, c>>}
  /\ page' = [page EXCEPT ![t][c] = "unknown"]
  /\ doubt' = doubt \cup {t}
  /\ UNCHANGED <<serverVars, clientVars, presence, roster, casts, sent, subs, pc, keys, rest>>

(* The server removed the contact, refused, or did not answer.             *)
RemovalEnds(t, c) ==
  /\ <<t, c>> \in removing
  /\ MayBroadcast
  /\ removing' = removing \ {<<t, c>>}
  /\ \E cs \in {roster, roster \ {c}} : EmitRoster(cs)
  /\ UNCHANGED <<serverVars, clientVars, presence, tabVars, changes>>

-----------------------------------------------------------------------------
(* Tabs.                                                                   *)

(* A new page, or one that lost its socket and kept its contacts, is       *)
(* subscribed; the set may iterate in another order from now on.           *)
Attach(t) ==
  /\ pc[t] = "off"
  /\ Change
  /\ \A k \in casts : t # k.at /\ t \notin k.rest
  /\ pc' = [pc EXCEPT ![t] = "attaching"]
  /\ subs' = subs \cup {t}
  /\ page' \in {page, [page EXCEPT ![t] = [c \in Contacts |-> "unknown"]]}
  /\ doubt' = IF casts = {} THEN doubt \ {t} ELSE Tabs
  /\ UNCHANGED <<serverVars, clientVars, presence, roster, removing, casts, sent, keys, rest>>

(* _send_snapshot with the roster, up to the loop over presence.           *)
SnapshotStarts(t) ==
  /\ pc[t] = "attaching"
  /\ pc' = [pc EXCEPT ![t] = "replaying"]
  /\ page' = [page EXCEPT ![t] = HandleFrame(@, RosterFrame(roster))]
  /\ keys' = [keys EXCEPT ![t] = Known]
  /\ rest' = [rest EXCEPT ![t] = Known]
  /\ UNCHANGED <<serverVars, clientVars, presence, roster, removing, casts, sent, subs,
                 doubt, changes>>

SnapshotNext(t, c) ==
  /\ pc[t] = "replaying"
  /\ keys[t] = Known
  /\ c \in rest[t]
  /\ page' = [page EXCEPT ![t] = HandleFrame(@, PresenceFrame(c, presence[c]))]
  /\ rest' = [rest EXCEPT ![t] = @ \ {c}]
  /\ UNCHANGED <<serverVars, clientVars, presence, roster, removing, casts, sent, subs, pc, keys,
                 doubt, changes>>

SnapshotEnds(t) ==
  /\ pc[t] = "replaying"
  /\ keys[t] = Known
  /\ rest[t] = {}
  /\ pc' = [pc EXCEPT ![t] = "on"]
  /\ keys' = [keys EXCEPT ![t] = {}]
  /\ UNCHANGED <<serverVars, clientVars, presence, roster, removing, castVars, rest,
                 doubt, changes>>

(* A send fails because the page is closed, or the dictionary changed its  *)
(* size during the iteration: the handler ends without a detach.           *)
AttachFails(t) ==
  /\ pc[t] \in {"attaching", "replaying"}
  /\ pc' = [pc EXCEPT ![t] = "off"]
  /\ doubt' = IF casts = {} THEN doubt ELSE Tabs
  /\ keys' = [keys EXCEPT ![t] = {}]
  /\ rest' = [rest EXCEPT ![t] = {}]
  /\ UNCHANGED <<serverVars, clientVars, presence, roster, removing, castVars, changes>>

(* The tab goes and is detached.                                           *)
TabCloses(t) ==
  /\ pc[t] = "on"
  /\ \A c \in Contacts : <<t, c>> \notin removing
  /\ pc' = [pc EXCEPT ![t] = "off"]
  /\ subs' = subs \ {t}
  /\ doubt' = IF casts = {} THEN doubt ELSE Tabs
  /\ UNCHANGED <<serverVars, clientVars, presence, roster, removing, casts, sent, page, keys,
                 rest, changes>>

-----------------------------------------------------------------------------
Next ==
  \/ SessionStarts \/ StreamLost
  \/ \E d \in Devices : \/ OnPresence(d)
                        \/ \E s \in Uses[d] \cup {"offline"} : ContactChanges(d, s)
  \/ \E k \in casts : BroadcastNext(k)
  \/ \E cs \in SUBSET Contacts : RosterUpdate(cs)
  \/ \E t \in Tabs :
       \/ Attach(t) \/ SnapshotStarts(t) \/ SnapshotEnds(t) \/ AttachFails(t) \/ TabCloses(t)
       \/ \E show \in {"online", "offline"} : SetPresence(t, show)
       \/ \E c \in Contacts : \/ SnapshotNext(t, c) \/ AddContact(t, c)
                              \/ RemoveContact(t, c) \/ RemovalEnds(t, c)

Spec == Init /\ [][Next]_vars

(* A full buffer drains or its connection is given up (a ping goes         *)
(* unanswered), so a broadcast goes on in the end.                         *)
FairSpec == Spec /\ WF_vars(\E k \in casts : BroadcastNext(k))

-----------------------------------------------------------------------------
(* Properties.                                                             *)

(* Every variable has its type; in particular only the four shows of the   *)
(* user interface get into the map of the client, whatever value a stanza  *)
(* has (slixmpp_client.py:232).                                            *)
TypeOK ==
  /\ real \in [Devices -> StanzaShows \cup {"offline"}]
  /\ online \in BOOLEAN
  /\ visible \in BOOLEAN
  /\ unreported \in SUBSET Devices
  /\ missed \in SUBSET Devices
  /\ resources \in [Devices -> AnyShow]
  /\ presence \in [Contacts -> CacheShow]
  /\ roster \in SUBSET Contacts
  /\ removing \in SUBSET (Tabs \X Contacts)
  /\ subs \in SUBSET Tabs
  /\ casts \in SUBSET Casts
  /\ sent \in Nat
  /\ pc \in [Tabs -> {"off", "attaching", "replaying", "on"}]
  /\ keys \in [Tabs -> SUBSET Contacts]
  /\ rest \in [Tabs -> SUBSET Contacts]
  /\ page \in [Tabs -> [Contacts -> CacheShow]]
  /\ doubt \in SUBSET Tabs
  /\ changes \in 0..MaxChanges

(* No contact shows as less available than one of its devices that the     *)
(* server has reported, whichever of the others go, and whatever sessions  *)
(* before left in the map.                                                 *)
NeverUnderstated ==
  online /\ visible =>
    \A d \in Available \ unreported : Priority(presence[Bare[d]]) <= Priority(Truth[d])

(* A contact shows exactly as its most available device does, and as       *)
(* offline without one, once the server has reported all of them; devices  *)
(* come, change and go in any order, in any number of sessions.  Excepted  *)
(* are contacts of which a device went while we were away (see below).     *)
ShowsExactly ==
  online /\ visible =>
    \A c \in Contacts : DevicesOf(c) \cap (unreported \cup missed) = {} =>
      BestShow(Truth, c) = IF c \in Known THEN presence[c] ELSE "offline"

(* A contact of the roster is listed by every attached page, or will be by *)
(* a frame on its way, except where its user just removed it: neither the  *)
(* order of replay and broadcasts nor a removal that failed loses one.     *)
Coming(t, c) == \E k \in casts : /\ t \in k.rest
                                 /\ k.frame.type = "roster"
                                 /\ c \in k.frame.contacts
ContactsShown ==
  \A t \in Tabs : pc[t] \in {"replaying", "on"} =>
    \A c \in roster : page[t][c] # "unknown" \/ <<t, c>> \in removing \/ Coming(t, c)

(* Once nothing is under way, every attached page shows what the account   *)
(* has cached: broadcasts that overlap, and a replay among them, leave no  *)
(* page with an older state.  Excepted are pages that were attached while  *)
(* the set of tabs changed under a running broadcast, and those that       *)
(* removed a contact.                                                      *)
PagesAgree ==
  casts = {} =>
    \A t \in Tabs \ doubt : pc[t] = "on" => \A c \in Known : page[t][c] = presence[c]

(* The broadcasts are the feed they promise to be: each page in line takes *)
(* the frames in the order in which they were broadcast, none is lost,     *)
(* doubled or overtaken on the way to it, although every broadcast walks   *)
(* the tabs by itself and is suspended at any of them (account.py:408-413).*)
Settled == {t \in Tabs \ doubt : pc[t] # "off"}
Due(t) == {[number |-> k.number, frame |-> k.frame] : k \in {e \in casts : t \in e.rest}}
Feed == INSTANCE PageFeed WITH
  Pages <- [Contacts -> CacheShow],
  view <- [t \in Settled |-> page[t]],
  due <- [t \in Settled |-> Due(t)],
  next <- sent
FeedSpec == Feed!Spec

(* A page that is behind the cache catches up: no broadcast gets stuck     *)
(* behind another one or ends at a tab that is gone.                       *)
PagesCatchUp ==
  \A t \in Tabs : \A c \in Contacts :
    pc[t] = "on" /\ c \in Known /\ page[t][c] # presence[c]
      ~> page[t][c] = presence[c] \/ pc[t] # "on" \/ t \in doubt

-----------------------------------------------------------------------------
(* A claim of the repository that the code does not keep: a contact shows  *)
(* as online only while one of its devices is (slixmpp_client.py:85).      *)
LastOneLeavingIsOffline ==
  online /\ visible /\ unreported = {} =>
    \A c \in Contacts : presence[c] \in Shows => \E d \in DevicesOf(c) : real[d] # "offline"

=============================================================================
