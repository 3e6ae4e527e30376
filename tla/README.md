# A TLA+ verification of PyConduit

PyConduit bridges browser tabs to an XMPP server. Every tab of a bare JID shares
one XMPP connection, kept up by one process and one asyncio event loop. This
directory holds the models of that program, the TLC runs that check them and the
TLAPS proofs about them. Paths below are relative to the repository; `src/pyconduit/`
is left out of file names.

## 1. The system

| Part | State it keeps | Operations | What makes it correct |
|---|---|---|---|
| `web/ws.py` handler, one coroutine per tab | its place in the code, its `Account` | accept, authenticate, `manager.attach`, receive loop, `manager.detach` | every attached tab detaches; one bad frame does not end the tab |
| `session/manager.py` AccountManager | `_accounts` | `attach`, `detach`, `_on_idle_expired`, `shutdown` | one open account per JID; an account in use is never dropped |
| `session/account.py` Account, connection half | `_subscribers`, `_idle_task`, `_reconnect_task`, `_connect_lock`, `_closing` | `attach`, `detach`, `ensure_connected`, `_reconnect_loop`, `_idle_countdown`, `close` | a dropped connection comes back while tabs are attached; an idle one closes; a closed one stays closed |
| `session/account.py` Account, data half | `_roster`, `_presence`, `_joined_rooms`, `_muc_occupants` | `_on_event`, `_cmd_*`, `_broadcast`, `_send_snapshot` | all tabs end up showing the same state; a late tab is brought up to date |
| `xmpp/slixmpp_client.py` lifecycle | `_connected`, `_session_ready`, `_session_failed` | `connect`, `disconnect`, `_on_session_start`, `_on_disconnected`, `_on_failed_auth` | connect returns only when connected; the flag follows the stream |
| `xmpp/slixmpp_client.py` rooms, presence, history | `_joined_rooms`, `_presence_resources` | `join_room`, `leave_room`, `_on_groupchat_*`, `_on_presence`, `fetch_history` | the client knows every room it sits in; a contact shows as its most available device; history ends where the archive does |
| `static/js/app.js` page | `roster`, `convos`, `active`, the socket | `handleFrame`, user actions, reconnecting `connect` | every message, contact and entered room is on every page, in whatever order frames come |
| `auth.py`, `web/security.py`, `protocol.py` | none (pure) | `extract_username`, `resolve`, `client_ip`, `origin_allowed`, `parse_client_message` | the stated mapping on every input |
| `config.py`, `audit.py`, `web/app.py`, `web/routes.py`, `session/hub.py` | settings, log sinks, app state | wiring | `lifespan` shuts the manager down |

How they interact: a socket handler calls the manager, which calls the account of
the JID, which awaits its client. slixmpp calls the client's handlers, each in a
task of its own, and these call `Account._on_event`. `Account` calls back into the
manager when its idle time is over. Everything a tab sees comes out of
`_broadcast` or `_send_snapshot`.

What is hard: the code runs on one loop, so races sit at awaits only, but there
are many of them. A tab can disappear while it attaches; the reconnect task
connects without the lock that tabs use; a session start waits for the roster
while its stream may drop; all connectors of a client share one event and one
future; the idle timer ends in the turn in which a tab attaches; the snapshot
iterates over dictionaries across awaits. The list with lines is in `PROJECT.json`
under `hazards`.

## 2. Modules

| Module | Content |
|---|---|
| `AccountSession` | manager, account lifecycle, client lifecycle and socket handlers, composed |
| `SharedSession` | what that session layer promises to the web layer |
| `Rooms` | rooms of one open account: tabs, account, client and pages |
| `Presence` | presence and roster of one open account: server, client, caches, broadcasts tab by tab, replay and pages |
| `PageFeed` | what broadcasts and replays promise to a page, without sockets and suspensions |
| `Identity` | who may open a socket and which frames it may send (pure) |
| `Conversation` | one 1:1 conversation: handshake, frames, messages, history and pages; uses `Identity` |
| `MCAccountSession`, `MCRooms`, `MCPresence`, `MCConversation` | constants and symmetry for TLC |
| `AccountSessionProofs` | type correctness, and who may be woken from `connect` |
| `AccountConnectProofs` | connectors, reconnect, lock and backoff, for any constants |
| `AccountAttachProofs` | registry, subscribers and tabs; the refinement of `SharedSession`; who minds an account, and who reopens one |
| `RoomsProofs` | the records of rooms, what pages list, and how rooms come back |
| `PresenceProofs` | the presence map and what contacts show, and how contacts reach pages |
| `PresenceOrderProofs` | the order of broadcasts and replays; the refinement of `PageFeed` |
| `ConversationProofs` | messages and the history of pages: gaps, completeness, progress, entitlement |
| `LeastNumber` | a set of naturals that is not empty has a least element |

`AccountSession` is about accounts that come and go. The other three take one account
that stays open and look at what passes through it: each has the chain from the chat
server to the pages for its kind of data, because that is where its hazards are. They
do not share state, apart from the session of the client, which each takes as coming
and going at any time.

### AccountSession and the code

A step is what one coroutine does between two points at which it really
suspends. `asyncio.Lock.acquire` on a free lock, `SlixmppClient.disconnect` and
`set_presence` do not suspend, so the manager's own lock never has a waiter, and
`Account.close` with the unregistering that follows it is one step.

| Variables | In the code |
|---|---|
| `registry`, `jidOf`, `serving` | `AccountManager._accounts`, `Account.jid`, whether `shutdown` ran |
| `pc`, `at`, `gone` | the `handle_ws` coroutine, its local `account`, the browser's end of the socket |
| `subs`, `idle`, `closing` | `_subscribers`, a live `_idle_task`, `_closing` |
| `holder`, `queue` | `_connect_lock` and its waiters |
| `recon`, `delay`, `notices` | the reconnect task and its local `delay`, `_on_event(Disconnected)` calls under way |
| `connected`, `ready`, `failed`, `owner`, `woken` | `_connected`, `_session_ready`, the future in `_session_failed`, who created it, connectors whose `asyncio.wait` is over |
| `stream`, `starting`, `stale` | the XML stream, a roster wait of the current stream, roster waits of earlier streams |

| Actions | In the code |
|---|---|
| `OpenTab` | `manager.attach` with `Account.attach` up to its first suspension |
| `TakeLock`, `ReportFailure` | `ensure_connected` after the lock, and after a failed connect was broadcast |
| `SendSnapshot`, `SnapshotRaises` | `_send_snapshot` through, or out of `handle_ws` before its `try` |
| `TabGone`, `PumpEnds`, `CommandRaises` | the browser leaves; the receive loop ends and detaches |
| `BroadcastDiscards` | `_broadcast` finds a dead tab |
| `ConnectTimesOut`, `ResumeConnectors` | the 30 seconds of `connect`; what connectors do after the wait |
| `ReconnectStarts`, `ReconnectWakes` | `_reconnect_loop` before and after its sleep |
| `SessionStarts`, `RosterAnswered`, `StaleRosterTimesOut` | `_on_session_start` before and after `get_roster`, the last for a stream that is gone |
| `AuthFails`, `StreamLost`, `NoticeSent` | `_on_failed_auth`, `_on_disconnected`, the end of `_on_event(Disconnected)` |
| `IdleExpires`, `Shutdown` | `_idle_countdown` with `close` and `_on_idle_expired`; the manager's `shutdown` |

Four choices deserve a word.
* Connectors woken by one event run in one batch, `ResumeConnectors`. asyncio
  resumes them in the same or the next loop turns; what each of them reads is
  the newest future and the event, and no step of another coroutine that changes
  those fits in between without also waking them.
* The 30-second timers of overlapping connects end in the order in which they
  were started, so the newest connector times out after the older ones. Without
  that guard `NeverStranded` is false: the fact is part of the argument.
* slixmpp abandons the stream it has when `connect` is called again. A stream
  that `close` ends is reported as lost later (`stream = "ending"`).
* Uvicorn runs the lifespan's shutdown after the handlers are done, so `Shutdown`
  waits for the tabs.

`SharedSession` knows JIDs, sessions and attached tabs only: `Join`, `Leave`,
`Expire`, `ShutDown`. The mapping takes the registered JIDs for open sessions and
the subscribers of the registered account for the attached tabs.

### Rooms and the code

`Rooms` takes one account that stays open; `AccountSession` says when it does. A step
is again what a coroutine does between two suspensions. A broadcast waits at one tab
after the other; its frame is due at a page until `Shows` brings it there, at each page
in a step of its own and behind the frames due to it before, and the coroutine that
broadcasts may go on at any time. The code makes it wait for the last page, so that the
model allows more. That a page gets its frames in the order of the broadcasts is what
`Presence` proves of the same `_broadcast` (`ImplementsPageFeed`), with the same
exception: when a tab comes or goes while frames are due, the copies of the set that
later broadcasts walk may have another order, and all pages are in `doubt`. A page in
doubt takes the frames due to it in any order; an attach with nothing due ends that.
Pages only tell apart frames that open a room (`"show"`: `muc_joined`, `muc_occupants`,
`muc_presence`, `muc_message`, each through `getConvo`) and `muc_left`, so an entry stands
for one or more equal frames in a row. `Followed` are the rooms whose frames are modelled.

| Variables | In the code |
|---|---|
| `recorded`, `member` | `_joined_rooms` of `Account` and of `SlixmppClient` |
| `seats`, `wire` | the rooms the server has the session in; stanzas it did not answer yet |
| `online`, `sessions` | the client has a session; how many it had |
| `pc`, `gone` | the `handle_ws` coroutine of a tab, the browser's end of its socket |
| `shown` | rooms among the conversations of a page, which outlive its socket |
| `due`, `doubt` | frames about a room that were broadcast or replayed and did not reach a page; pages whose frames may be out of order (a history variable) |
| `stage`, `room`, `todo` | where a handler or a re-join loop is in `join_room`, its argument, the rest of the loop's copy of the list |
| `refreshing` | an occupant handler between its notice and its occupant list |

| Actions | In the code |
|---|---|
| `Attach`, `Snapshot`, `TabCloses`, `HandlerEnds` | a page connects (new, or with its old conversations), the replay of rooms, the end of its handler |
| `Shows` | `handleFrame` for a frame about a room |
| `JoinRoom`, `LeaveRoom` | `_cmd_join_room` up to its wait, `_cmd_leave_room` |
| `JoinTimesOut`, `JoinTimesOutEarly`, `JoinAnnounced`, `JoinEnds` | the 20 seconds of `join_muc_wait`; `MucJoined`; `_emit_occupants` |
| `SessionUp`, `RejoinNext`, `RejoinEnds`, `SessionDown` | `_on_event(Connected)` with its loop; a lost stream |
| `RoomEntered`, `JoinRefused`, `RoomLeft`, `RoomExpels` | the answers of the server, with `_on_groupchat_presence` for our own nick |
| `OccupantChanges`, `OccupantsSent`, `RoomMessage` | `_on_groupchat_presence` for others, in its two halves; `_on_groupchat_message` |

Of the server the module assumes that it answers the stanzas for a room in order,
that stanzas sent without a stream or on a lost one are lost, and that a member who
joins again is not refused. Rooms are those of allowed domains (a join elsewhere is
refused with a frame to the tab and changes nothing), spelled as the server lists
them; the nick is the default one.

### Presence and the code

A send writes its frame and suspends while the socket's buffer is full. So a call of
`_broadcast` is at one tab at a time, and a step takes it to the next one. Calls that
wait at the same tab go on in the order in which they came there, which is how
websockets wakes the senders that wait for a buffer. `_broadcast` walks a copy of a
set; the order of that copy is any, but the same for calls that overlap as long as no
tab comes or goes.

| Variables | In the code |
|---|---|
| `real`, `visible`, `unreported` | the server's side: what each device announced, whether we count as available, what it has yet to send us |
| `online`, `resources` | the client has a session; `_presence_resources` |
| `presence`, `roster` | `Account._presence` and `_roster` |
| `removing` | calls of `remove_contact` that wait for the server |
| `subs`, `pc`, `keys`, `rest` | `_subscribers`; where `attach` is for a tab; the keys of `_presence` when the replay began, and those left |
| `casts`, `sent` | the calls of `_broadcast` under way, numbered |
| `page` | the roster of a page with the show of each contact |

| Actions | In the code |
|---|---|
| `SessionStarts`, `StreamLost` | `_on_session_start` with its first presence; `_on_disconnected` |
| `ContactChanges` | a device of a contact appears, changes its show or goes |
| `SetPresence` | `_cmd_set_presence` with `set_presence`, where it changes our visibility |
| `OnPresence` | `_on_presence` with `PresenceUpdate` up to its first send |
| `RosterUpdate`, `AddContact` | `_on_roster_update`, `add_contact`, with `_emit_roster` up to its first send |
| `RemoveContact`, `RemovalEnds` | `remove_contact` before and after its wait; the page drops the contact at once |
| `BroadcastNext` | `_broadcast` goes on to the next tab |
| `Attach`, `SnapshotStarts`, `SnapshotNext`, `SnapshotEnds`, `AttachFails`, `TabCloses` | `attach` and `_send_snapshot` frame by frame, and the two ways a tab goes |

`PageFeed` knows the caches, the pages that are in line and a queue of frames for each of
them. `Publish` puts a frame into all queues and the cache at once, `Deliver` takes the
first one of a queue, `Replay` shows what is cached, `Enter` and `Drop` say which pages are
in line; a page changes in no other way. The mapping takes the pages of tabs that attach or
are attached and not in doubt (`Settled`) for the pages in line, the frames of the
broadcasts that have yet to reach a tab (`Due`) for its queue, and `sent` for the next
number. A page gets out of line when it removes a contact, which it does on its own, and
when the set of tabs changes under a running broadcast, whose order it may leave then;
a new attach with nothing under way brings it back. Two history variables serve the
properties: `doubt` has those pages, and `missed` the devices whose going the server never
told us of, because we were away.

### Identity, Conversation and the code

`Identity` has `origin_allowed`, `extract_username`, `AuthMapper.resolve` and
`parse_client_message` with `require` as operators over any users and credentials
files. `Conversation` uses them where `handle_ws` does: a handshake that passes them
opens a tab, and a frame that passes them is a command.

| Variables | In the code |
|---|---|
| `request`, `pc`, `inbox`, `asking` | the handshake of a tab, its handler, the frames it has not received, the query it waits for |
| `pending` | items broadcast to a tab that its page has not handled |
| `page` | `opened` (the conversation was created), `messages`, `oldestId`, `complete` |
| `online`, `toServer`, `toClient` | the session and what is on its stream |
| `archive` | the server's archive of the conversation |

| Actions | In the code |
|---|---|
| `Handshake`, `TabCloses`, `HandlerEnds` | `handle_ws` up to its loop; the socket closes; the handler finds out |
| `SetActive`, `LoadOlder`, `Compose`, `SendBad` | what a page sends, and a frame no page sends |
| `Shows` | `handleFrame` for a message or a warning |
| `ReceiveMessage`, `ReceiveLoad`, `ReceiveBad` | the receive loop with `_cmd_send_message`, `_cmd_load_history` up to its wait, a `ProtocolError` |
| `OnMessage`, `OnResult`, `QueryTimesOut` | `_on_message` with its event; `fetch_history` with its answer, or without one |
| `PeerWrites`, `ServerArchives`, `ServerAnswers` | the peer; the server takes a message (and may bounce it) or a query |
| `StreamLost`, `SessionStarts` | the stream |

Messages are numbers and a page has a set of them: an item shown twice, times and order
are left out. Bodies matter, because `fetch_history` drops items without one and counts
the others. What is sent without a session is lost or waits for the next one; slixmpp
leaves that open (`Rooms` takes it as lost, which is the harder case there).

## 3. Runs

| Run | Instance | Question |
|---|---|---|
| `session` | 3 tabs of 2 JIDs, 2 accounts, 1 fault | `RegistrySound`, `IdleOnlyWhenEmpty`, `NoTabCutOff`, `JidsIsolated`, `NoForgottenSession`; `ReopenedOnlyByDeadTabs`; `SharedSpec`: the layer implements `SharedSession` |
| `session_live` | 2 tabs, 1 account, 2 faults, 1 late session start, fair | `TypeOK`, `LockExclusive`, `LockHandedOn`, `NeverStranded`, `ConnectorsSound`, `ClosedStopsRetrying`, `BackoffGrows`; `AttachFinishes`, `TeardownWithoutLeaks`, `ClientComesBack` |
| `rooms` | 2 tabs, 1 room with its frames to the pages, 2 sessions, 1 fault | `SeatsKnown`, `RoomsShown` |
| `rooms_live` | 1 tab, 2 rooms, 2 sessions, occupant notices, fair | `TypeOK`, `RoomsOnTheirWay`; `JoinsEnd`, `RoomsComeBack` |
| `presence` | 2 tabs, 1 contact with 2 devices, 4 changes, 2 broadcasts at once, fair | `TypeOK`, `NeverUnderstated`, `ShowsExactly`, `ContactsShown`, `PagesAgree`; `PagesCatchUp`; `FeedSpec`: broadcasts and replays implement `PageFeed` |
| `conversation` | 2 tabs, 5 handshakes, 2 messages, 2 frames, pages of 1, 1 fault, fair | `TypeOK`, `OnlyEntitledPages`, `ArchivedOnce`, `NoGap`, `CompleteMeansAll`, `PagesAdvance`; `CommandsServed` |
| `second_connect`, `phantom_session`, `leaked_tab` | 1 or 2 tabs, 1 account | findings below |
| `rejoin_after_leave`, `failed_join` | 1 tab, 1 or 2 rooms | findings below |
| `stale_presence` | 1 tab, 1 contact with 2 devices, 3 changes (2 of them session starts) | finding below |

Bounds. `Accounts` bounds how often an account is created: two let a JID's account
expire and be replaced while a tab of the old one is still on its way out. Two
tabs are enough for one to act for the account while the other leaves, and a third
one of another JID shows that accounts keep apart. `MaxFaults` counts drops, refused logins and
answers later than 30 seconds; two give a failed first connect and a failed retry,
or a drop in the middle of a retry. `MaxStale` counts session starts that outlive
their stream; without it a stale wake-up could not happen at all. Delays 2 and 3
reach the cap in one step. Tabs of one JID, and accounts, are interchangeable,
and symmetry is used in safety runs only.

Bounds of `Rooms`. Two sessions let a re-join loop of the first overlap the second.
`MaxWire` lets a leave and a join of one room be unanswered together; re-join loops
add to it. `MaxFaults` counts refused joins, answers later than 20 seconds and
removals by the room, `MaxNotices` occupant handlers under way at once. `MaxDue` is what
a page may still have to get when somebody leaves; with none, a `muc_left` is first in line
at a slow page, and the frames of the next join line up behind it, which is what pages in
doubt may get the other way round. `rooms` has
two tabs (one attaches, or is slow, while the other joins or leaves) and one room, whose
frames it follows; that rooms interfere through the loop only is what `rooms_live`, with
two rooms, is for, and the proofs do not depend on either number. `rooms` has no notices,
since a room message sends the same kind of frame at any time. `rooms_live` has them, but no
faults, after which its properties promise nothing, and follows no room: its properties
do not look at pages.

Bounds of `Presence`. Broadcasts interfere in pairs (`MaxCasts`), at one tab or across
two; a third one adds another pair. One contact suffices, since a frame is about one
contact or about membership of each in the roster; it has two devices, one
available when it is there, the other busy or away, so that shows change and the aggregate
differs from that of either. `MaxChanges` counts what comes from outside: session starts, pages that open, changes by
devices and by users; at the start any device may be there already. Four of them give two
sessions with a device that goes in the outage between them and another change, a
contact that is in the roster of an open page and whose removal fails, or two pages in
a session with a change that reaches them. Three are enough for `stale_presence`. The
proofs do not depend on any of these numbers. With `MaxCasts` reached, handlers wait, so
that a state without a successor is no deadlock of the code and is not looked for.

Bounds of `Conversation`. Pages of one message make two messages three pages, so that
full, short and empty ones occur. Two frames from tabs are enough for a query with a
message behind it, two queries of one tab, and a message of one tab while another asks.
One fault is a query that fails although an answer is near, a bounce, or a page that goes.
The handshakes are a colleague from the right origin, one without a password, one of
another page, one without an origin and one that did not pass the proxy.

Fairness of `Presence`: a broadcast goes on, since a full buffer drains or the ping of
its socket times out. `Conversation`: handlers serve the next frame, a query that
nothing will answer times out, and a stream that lives carries what is on it. Users,
the peer and sessions need not act.

Fairness of `Rooms`: handlers and loops that can go on do, a wait that nothing can
end any more times out, and the server answers what reached it. Sessions need not
come up or last.

Fairness of `AccountSession` (`FairSpec`). Weak fairness holds for what the event loop runs once it
can run (a tab that can go on, woken connectors, the reconnect task, a notice, the
idle task) and for its timers. The server answers in the end: a stream that
opens starts its session, or fails by a bounded fault; a roster query is answered
or times out by itself; a stream the server refused is closed. `ConnectTimesOut`
is fair only when there is no stream, since then nothing else ends the wait. Tabs
need not come, leave, or send anything.

### Findings

* **second_connect**: `xmpp/interface.py:127` speaks of one shared connection. The
  reconnect task looks at `is_connected` before its sleep only and connects
  without `_connect_lock`; it can open a second stream on a connected client.
* **phantom_session**: `README.md:46` promises that dropped connections reconnect. A
  stream that drops while `_on_session_start` awaits the roster raises no
  `Disconnected`, and when the query times out the dead client is marked
  connected. Nobody reconnects.
* **leaked_tab**: `README.md:45` promises that a connection closes after the last tab.
  An exception during attach leaves `handle_ws` before its `try`, the subscriber
  is never detached, and the idle timer is never started.
* **rejoin_after_leave**: `session/account.py:56` calls the record of rooms the state that
  late tabs get. The re-join walks a copy of it across waits of 20 seconds; a room left
  meanwhile is joined again, and the session sits in a room the account dropped.
* **failed_join**: `web/ws.py:5` says that an error in a frame does not tear the socket
  down. A refused or late join ends the tab's handler without a report.
* **stale_presence**: `xmpp/slixmpp_client.py:85` and `DEVELOPERS.md:310` say that a contact
  is online if any of its resources is. Nothing clears the map of resources when a
  stream ends; one that leaves during the outage keeps its contact online afterwards.

`TeardownWithoutLeaks`, `NoForgottenSession`, `ClientComesBack`, `RoomsOnTheirWay`,
`NeverUnderstated` and `ShowsExactly` say what remains true beside these: a leaked tab is the
only thing that keeps an account open for ever, a room is missing after a reconnect only
after a join was refused or late, or the room threw us out, and a contact is wrong only when
one of its devices went unseen. `NoForgottenSession` does not count a leaked tab as somebody
who minds an account, and so excepts accounts that have one. `RoomsShown`, `PagesAgree`
and `PageFeed` except pages in doubt: a tab that comes or goes under a running broadcast
may change the order in which two frames reach another page (`account.py:409`). Two cases are exceptions in a property and no run of their own:
`CompleteMeansAll` speaks of pages none of whose queries failed and of archives in which
every message has a body. Otherwise `fetch_history` calls a page the last one although
older messages exist (`slixmpp_client.py:302` and `:325`, against `interface.py:161`), and
the page hides its button for them.

## 4. Proofs

The proofs hold for every set of tabs, JIDs and accounts and every bound on faults and
late starts. They assume what the module assumes of its constants: `TabJid` maps tabs to
JIDs, `None` and `Loop` are distinct from the other values, the bounds are naturals, and
the two delays and the factor are naturals. Nothing relates the delays to each other,
since `config.py:84-87` validates nothing: the first delay may exceed `max_seconds`, and
`TypeOK` bounds the later ones only. `WaitsGrow` alone needs more, a positive first delay
and a factor above 1, as in the defaults. Those
about `Rooms` assume that `None` is no room, that tabs are not numbers (which stand
for re-join loops), that `Followed` are rooms and that the bounds are naturals. Those about `Presence` assume
that every device belongs to a contact, that "offline" is nothing a device uses as its
show, and that the bounds are naturals. Those about `Conversation` assume that `None` is
no request and no number, that no user maps to an empty JID, that pages have room for a
message, and that the bounds are naturals.

| Theorem | Statement |
|---|---|
| `TypeCorrect` | `Spec => []TypeOK` |
| `ConnectorsAreSound` | `Spec => []ConnectorsSound` |
| `NobodyIsStranded` | `Spec => []NeverStranded` |
| `ClosedAccountsRest` | `Spec => []ClosedStopsRetrying` |
| `LockIsExclusive` | `Spec => []LockExclusive` |
| `LockGoesOn` | `Spec => []LockHandedOn` |
| `WaitsGrow` | `InitialDelay > 0` and `Factor > 1` imply `Spec => BackoffGrows` |
| `RegistryIsSound`, `IdleMeansEmpty`, `NobodyIsCutOff`, `JidsAreIsolated` | `Spec => []` of the invariant checked by the runs |
| `NothingIsForgotten` | `Spec => []NoForgottenSession` |
| `OnlyDeadTabsReopen` | `Spec => ReopenedOnlyByDeadTabs` |
| `ImplementsSharedSession` | `Spec => SharedSpec` |
| `RoomsTyped` | `Rooms`: `Spec => []TypeOK` |
| `SeatsAreKnown` | `Rooms`: `Spec => []SeatsKnown` |
| `EnteredRoomsAreShown` | `Rooms`: `Spec => []RoomsShown` |
| `NoRoomIsForgotten` | `Rooms`: `Spec => []RoomsOnTheirWay` |
| `PresenceTyped` | `Presence`: `Spec => []TypeOK` |
| `NotUnderstated` | `Presence`: `Spec => []NeverUnderstated` |
| `ShownExactly` | `Presence`: `Spec => []ShowsExactly` |
| `ContactsReachPages` | `Presence`: `Spec => []ContactsShown` |
| `PagesEndUpEqual` | `Presence`: `Spec => []PagesAgree` |
| `ImplementsPageFeed` | `Presence`: `Spec => FeedSpec` |
| `PagesAreEntitled` | `Conversation`: `Spec => []OnlyEntitledPages` |
| `PagesHaveNoGap` | `Conversation`: `Spec => []NoGap` |
| `NothingIsSentTwice` | `Conversation`: `Spec => []ArchivedOnce` |
| `CompleteHistory` | `Conversation`: `Spec => []CompleteMeansAll` |
| `LoadingOlderAdvances` | `Conversation`: `Spec => PagesAdvance` |
| `ConversationTyped` | `Conversation`: `Spec => []TypeOK` |

The arguments.
* Types alone are not inductive: a woken tab is moved on by `ResumeConnectors`, so
  the invariant must say that only coroutines inside `connect` are woken
  (`Woken`).
* `NeverStranded` rests on `ConnectorsSound`. When a connector leaves its wait and
  takes the attempt for a success, the loop ends or the lock is released with
  nobody left to retry. That is harmless only if the client is connected, which
  the shared event and future guarantee because `connect` clears the event first,
  a failure marks the newest future, and the newest connector is the last to time
  out.
* `RegistrySound`, `NoTabCutOff`, `IdleOnlyWhenEmpty` are proved together (`Attached`)
  with four helpers: accounts not created yet are blank, leaked handlers have no
  browser, a subscriber works with the account it subscribed to, and that account
  has its JID.
* The refinement uses the same invariant: a tab that opens is in no session yet
  because it is subscribed nowhere, and an account that expires is empty.
* `NothingIsForgotten` has two halves. Whoever makes an account open, or opens its stream,
  works with it at that moment (`StreamSteps`: a tab that opens, a tab that takes the lock,
  or a retry, which has subscribers); and who works with it goes only by starting the
  countdown or leaving other tabs behind, while the countdown ends in a tab that attaches or
  in `close`, which takes the stream down (`MindedStays`). An exception out of an attach is the
  one way in which a handler goes and does neither; the account has a leaked tab from then
  on, and the property leaves it out. `OnlyDeadTabsReopen` uses the first
  half again: a tab that waits for the lock of a closed account is no open one, by `NoTabCutOff`.
* `LockGoesOn` needs `LockExclusive` and `Woken`: a lock is given back by its holder or by the
  connectors that were woken, and those are inside. A tab enters the queue when it begins
  to wait and leaves it from the front (`RestOfQueue`); that it is there once only
  makes it leave entirely.
* `WaitsGrow` needs that a loop that waits has a positive delay, unless `max_seconds` is 0.
* `RoomsShown` is inductive with `SeatsKnown` and `NothingOffline`. What a page will list is
  what the last frame due to it says, or the page itself when none is due (`WillShow`); a
  broadcast puts its frame last for every attached page (`BroadcastEffect`), a frame that
  arrives takes itself from the front, so that what comes last stays (`ShowsPages`), and
  the replay puts every recorded room last (`SnapshotPages`). When the answer to a
  join settles a recorded room, `SeatsKnown` gives `r \in member`, so that
  `_on_groupchat_presence` broadcasts its occupants and every page will list it; without a
  session (`NothingOffline`) a join settles nothing. `SeatsKnown` speaks of the last
  stanza on the wire (`WillSit`), because a leave and a join of one room can be under way
  together. `TabsAssumption` keeps tabs and loops apart.
* `NoRoomIsForgotten` is inductive with these. A loop that takes a room off its list sends a
  join, after which the session will sit in the room (`SitsAfterJoin`); an answer that is
  no refusal changes nothing about rooms whose last stanza was a join
  (`SitsOnAfterAnswer`); and a leave takes the room out of the record first.
* `NeverUnderstated` needs `MapCurrent`: what the server has reported is in the map, and the
  cache has the aggregate of the map. An entry that is out of date can only add a
  device, and the aggregate takes the most available one.
* `ShownExactly` is the other direction. The cache is the aggregate of the map (`Cached`),
  and a device that is in the map although it went is one whose going is still to be
  reported, or never was (`Ghosts`); so where neither is the case the map has the truth
  about every device of the contact, and both aggregates are equal (`SameDevices`).
* `ContactsShown` is inductive with `Subscribed` (who attaches or is attached is subscribed)
  and `RestKnown` (a replay only has keys of the cache left).
* `PagesAgree` speaks of the end, so its invariant `OrderInv` speaks of every broadcast under
  way. While the set of tabs is settled, all casts have one order (`InLine`), and a later
  cast is never ahead of an earlier one; hence the last one about a contact has the
  cached show (`LatestIsCached`), and a page to which nothing about a contact is on its
  way, by a cast or by its replay, shows what is cached (`PagesCurrent`). A replay sends
  the show that is cached when it gets there, so that a cast behind it is no older.
* `ImplementsPageFeed` adds the steps to it. `BroadcastNext` delivers to one page the frame
  of its cast. That this frame is the first in the page's queue is the point: an earlier
  cast with a frame for the page would be, by `InLine`, at the same tab or further
  on, and `MayGoOn` excludes the first, the order the second. The other steps
  publish (with the first tab served at once, whose queue is empty), replay, enter or drop;
  a tab's death takes it out of line in the same step as in `Settled`.
* `NothingIsSentTwice` is a part of `Numbered`: a message is in one inbox, on the stream or
  in the archive, once, and each step of its way takes it out where it was.
* `NoGap` looks at pages, but what closes a gap is the answer to a query under way. `GapInv`
  says of each query of a page that it asks for what is older than a message from which on
  the page has everything, that messages behind it on the stream have been shown already,
  and that from each item of its answer on nothing is missing in answer and page together.
  That a message is in one place at most (`Numbered`) makes positions in the archive unique,
  and that numbers tell queries apart (`Matched`) gives each answer to the tab that asked.
* `CompleteMeansAll` adds to it (`CompleteInv`) that an answer which says "no older ones", or
  is short, has everything the page lacks. For a short one this counts (`CompletePage`): if
  there were older messages the page would be full, and with a body in each its messages
  would be `PageSize` many.
* `PagesAdvance` needs that the items of an answer are older than what was asked for
  (`AnswersOlder`); one that is not the last has a message, because pages have room for one.
* For `OnlyEntitledPages` only tabs whose browser is there have anything coming to them
  (`EntitledInv`); the rest is what a handshake that passes `Identity` implies.
  `ConversationTyped` needs that queries, with the frames that still wait, are no more than
  the frames that were sent (`BoundsInv`).

Only model-checked: the liveness properties (`ENABLED` and fairness are beyond the
prover) and, by nature, the violated claims.

## 5. Not modelled

* `audit.py` and `config.py`: output without effect, and settings read at the start; those
  that matter are constants.
* `web/routes.py`, the headers and static files of `web/app.py`, `client_ip` (the audit log
  alone uses it), the loading of the users and credentials files.
* Of rooms: the contents of occupant lists and their cache, nicknames, subjects, room
  discovery, `send_muc` (a send without any state) and the allowlist of domains (a guard
  in front of `_cmd_join_room`).
* Subscription requests and answers: a broadcast that is not cached, and two stanzas.
* Of the frames about a conversation: a body that is no text and an invalid JID, which no
  page sends. What the library raises then ends the handler (`ws.py:87`), which is
  `CommandRaises` of `AccountSession`; `Conversation` leaves these frames out.
* Of pages: unread counts, rendering, sound. Timestamps, wording of errors and texts of
  messages are data no property depends on.
* Presence of our own devices: filtered in the first lines of `_on_presence`.
