---------------------------- MODULE AccountSession ----------------------------
(***************************************************************************)
(* The shared XMPP session of pyconduit: browser tabs (web/ws.py) attach   *)
(* through the AccountManager (session/manager.py) to the one Account of   *)
(* their JID (session/account.py), which owns one SlixmppClient            *)
(* (xmpp/slixmpp_client.py).                                               *)
(*                                                                         *)
(* The program is asyncio code on one event loop, so a step of this module *)
(* is what one coroutine does between two points where it really suspends: *)
(* the connect lock, the wait in SlixmppClient.connect, the roster query,  *)
(* the sends of a broadcast or of a snapshot, and the two sleeps.  slixmpp *)
(* and the chat server are external: the stream opens, starts a session,   *)
(* refuses the login or drops as they choose, at most MaxFaults times for  *)
(* the choices that hurt.                                                  *)
(***************************************************************************)
EXTENDS Naturals, Sequences

CONSTANTS
  Tabs,          \* browser tabs; a tab that closed may come back as a new one
  JIDs,          \* bare JIDs of the credentials file
  TabJid,        \* the JID a tab's user resolves to
  Accounts,      \* Account objects the process may create (bound on Account())
  None,          \* Python's None
  Loop,          \* the _reconnect_loop task of an account, as a connector
  InitialDelay, Factor, MaxDelay,  \* xmpp.reconnect of the configuration
  MaxFaults,     \* bound on drops, refused logins and slow answers
  MaxStale       \* bound on session starts that outlive their stream

ASSUME TabJidAssumption   == TabJid \in [Tabs -> JIDs]
ASSUME NoneAssumption     == None \notin Accounts \cup JIDs \cup Tabs \cup {Loop}
ASSUME LoopAssumption     == Loop \notin Tabs
ASSUME BackoffAssumption  == {InitialDelay, Factor, MaxDelay} \subseteq Nat
ASSUME BoundsAssumption   == {MaxFaults, MaxStale} \subseteq Nat

VARIABLES
  registry,    \* AccountManager._accounts: the account of a JID, or None
  jidOf,       \* Account.jid; None for an object not created yet
  serving,     \* FALSE once AccountManager.shutdown ran
  pc,          \* where the handle_ws coroutine of a tab is
  at,          \* the account the tab's coroutine works with
  gone,        \* tabs whose browser end is closed, the handler still running
  subs,        \* Account._subscribers
  idle,        \* Account._idle_task is counting down
  closing,     \* Account._closing
  holder,      \* the tab that holds Account._connect_lock
  queue,       \* the tabs waiting for it, first come first served
  recon,       \* Account._reconnect_task
  delay,       \* the local delay of _reconnect_loop, 0 when there is no loop
  notices,     \* Disconnected events being broadcast by _on_event
  connected,   \* SlixmppClient._connected
  ready,       \* SlixmppClient._session_ready
  failed,      \* state of the future in SlixmppClient._session_failed
  owner,       \* the connector that created that future
  woken,       \* connectors whose asyncio.wait is over, not resumed yet
  stream,      \* the XML stream, slixmpp's side (external)
  starting,    \* _on_session_start awaits the roster of the current stream
  stale,       \* number of those whose stream is already lost or replaced
  faults       \* faults used so far

managerVars == <<registry, jidOf, serving>>
tabVars     == <<pc, at, gone>>
lockVars    == <<holder, queue>>
loopVars    == <<recon, delay>>
clientVars  == <<connected, ready, failed, owner, woken, stream, starting, stale>>
vars == <<managerVars, tabVars, lockVars, loopVars, clientVars,
          subs, idle, closing, notices, faults>>

TabStates    == {"closed", "lockwait", "connecting", "reporting", "snapshot", "pump", "leaked"}
LoopStates   == {"none", "starting", "sleeping", "connecting"}
FutureStates == {"none", "pending", "raised", "cancelled"}
StreamStates == {"down", "opening", "ending", "up"}
Connectors   == Tabs \cup {Loop}

-----------------------------------------------------------------------------
(* Helper predicates. *)

(* Mutant: a released lock looks free while its holder is still inside.     *)
LockedByWaiters(a) == queue[a] # << >>

Locked(a) == holder[a] # None \/ queue[a] # << >>

(* The coroutines that are inside SlixmppClient.connect of account a. *)
Connecting(a) == {t \in Tabs : pc[t] = "connecting" /\ at[t] = a}
                 \cup (IF recon[a] = "connecting" THEN {Loop} ELSE {})

(* Mutant: the test of _closing is missing.                                *)
MayRetryClosed(a) == subs[a] # {}

(* The check of _schedule_reconnect, and of _reconnect_loop after a sleep. *)
MayRetry(a) == ~closing[a] /\ subs[a] # {}

(* The condition of the while in _reconnect_loop. *)
MustRetry(a) == MayRetry(a) /\ ~connected[a]

(* Mutant: the cap is missing.                                             *)
BackoffUncapped(d) == d * Factor

(* Mutant: every failure starts over.                                      *)
BackoffReset(d) == InitialDelay

(* The next delay of _reconnect_loop: min(delay * factor, max_seconds).    *)
Backoff(d) == IF d * Factor < MaxDelay THEN d * Factor ELSE MaxDelay

(* A session start that waits for the roster of a stream that is no more. *)
Orphaned(a) == IF starting[a] /\ stale[a] < MaxStale THEN stale[a] + 1 ELSE stale[a]

-----------------------------------------------------------------------------
Init ==
  /\ registry = [j \in JIDs |-> None]
  /\ jidOf = [a \in Accounts |-> None]
  /\ serving = TRUE
  /\ pc = [t \in Tabs |-> "closed"]
  /\ at = [t \in Tabs |-> None]
  /\ gone = {}
  /\ subs = [a \in Accounts |-> {}]
  /\ idle = [a \in Accounts |-> FALSE]
  /\ closing = [a \in Accounts |-> FALSE]
  /\ holder = [a \in Accounts |-> None]
  /\ queue = [a \in Accounts |-> << >>]
  /\ recon = [a \in Accounts |-> "none"]
  /\ delay = [a \in Accounts |-> 0]
  /\ notices = [a \in Accounts |-> 0]
  /\ connected = [a \in Accounts |-> FALSE]
  /\ ready = [a \in Accounts |-> FALSE]
  /\ failed = [a \in Accounts |-> "none"]
  /\ owner = [a \in Accounts |-> None]
  /\ woken = [a \in Accounts |-> {}]
  /\ stream = [a \in Accounts |-> "down"]
  /\ starting = [a \in Accounts |-> FALSE]
  /\ stale = [a \in Accounts |-> 0]
  /\ faults = 0

-----------------------------------------------------------------------------
(* Parts of steps.  Each says what it does to the variables it names.      *)

(* Mutant: connect does not clear the event of the last session.           *)
KeepReady(a) == UNCHANGED ready

(* The first line of SlixmppClient.connect.                                *)
ClearReady(a) == ready' = [ready EXCEPT ![a] = FALSE]

(* SlixmppClient.connect up to its asyncio.wait.  slixmpp abandons the     *)
(* stream it may still have for the new attempt.                           *)
Connect(a, c) ==
  /\ ClearReady(a)
  /\ failed' = [failed EXCEPT ![a] = "pending"]
  /\ owner' = [owner EXCEPT ![a] = c]
  /\ stream' = [stream EXCEPT ![a] = "opening"]
  /\ starting' = [starting EXCEPT ![a] = FALSE]
  /\ stale' = [stale EXCEPT ![a] = Orphaned(a)]
  /\ UNCHANGED <<connected, woken>>

(* ensure_connected with the lock in hand: return at once or connect.      *)
WithLock(a, t) ==
  \/ /\ connected[a]
     /\ pc' = [pc EXCEPT ![t] = "snapshot"]
     /\ UNCHANGED <<holder, clientVars>>
  \/ /\ ~connected[a]
     /\ pc' = [pc EXCEPT ![t] = "connecting"]
     /\ holder' = [holder EXCEPT ![a] = t]
     /\ Connect(a, t)

(* Mutant: attach leaves the countdown running.                            *)
KeepIdle(a) == UNCHANGED idle

(* Account._cancel_idle.  Cancelling wins even over a sleep that is over   *)
(* but whose task has not run on yet.                                      *)
CancelIdle(a) == idle' = [idle EXCEPT ![a] = FALSE]

(* Account.attach up to its first suspension.                              *)
Attach(a, t) ==
  /\ CancelIdle(a)
  /\ subs' = [subs EXCEPT ![a] = @ \cup {t}]
  /\ \/ /\ Locked(a)
        /\ pc' = [pc EXCEPT ![t] = "lockwait"]
        /\ queue' = [queue EXCEPT ![a] = Append(@, t)]
        /\ UNCHANGED <<holder, clientVars>>
     \/ /\ ~Locked(a)
        /\ WithLock(a, t)
        /\ UNCHANGED queue

(* Mutant: the test for an empty set is made before the discard.           *)
LastTabEarly(a, t) == subs[a] = {}

(* After t is discarded nobody is left.                                    *)
LastTab(a, t) == subs[a] \ {t} = {}

(* Account.detach, in the finally of handle_ws.                            *)
Detach(a, t) ==
  /\ subs' = [subs EXCEPT ![a] = @ \ {t}]
  /\ idle' = [idle EXCEPT ![a] = IF LastTab(a, t) THEN TRUE ELSE @]
  /\ pc' = [pc EXCEPT ![t] = "closed"]
  /\ at' = [at EXCEPT ![t] = None]
  /\ gone' = gone \ {t}

(* Account._schedule_reconnect.                                            *)
ScheduleReconnect(a) ==
  recon' = [recon EXCEPT ![a] = IF @ = "none" /\ MayRetry(a) THEN "starting" ELSE @]

(* Account.close of every account in S; SlixmppClient.disconnect never     *)
(* suspends, so nothing runs in between.  slixmpp reports the end of the   *)
(* stream later.                                                           *)
Close(S) ==
  /\ closing' = [a \in Accounts |-> closing[a] \/ a \in S]
  /\ idle' = [a \in Accounts |-> idle[a] /\ a \notin S]
  /\ recon' = [a \in Accounts |-> IF a \in S THEN "none" ELSE recon[a]]
  /\ delay' = [a \in Accounts |-> IF a \in S THEN 0 ELSE delay[a]]
  /\ woken' = [a \in Accounts |-> IF a \in S THEN woken[a] \ {Loop} ELSE woken[a]]
  /\ connected' = [a \in Accounts |-> connected[a] /\ a \notin S]
  /\ stream' = [a \in Accounts |->
       IF a \in S /\ stream[a] # "down" THEN "ending" ELSE stream[a]]
  /\ starting' = [a \in Accounts |-> starting[a] /\ a \notin S]
  /\ stale' = [a \in Accounts |-> IF a \in S THEN Orphaned(a) ELSE stale[a]]
  /\ UNCHANGED <<ready, failed, owner>>

(* set_exception on the future of the newest connect, if still pending:    *)
(* the connector that created it is woken, an older one is not.            *)
FailPending(a) ==
  /\ failed' = [failed EXCEPT ![a] = IF @ = "pending" THEN "raised" ELSE @]
  /\ woken' = [woken EXCEPT ![a] =
       IF failed[a] = "pending" THEN @ \cup ({owner[a]} \cap Connecting(a)) ELSE @]

(* Mutant: _connected is read after it was cleared.                        *)
NoticesAfterClear(a) == notices[a]

(* A Disconnected event is raised only if the client was connected.        *)
NoticesAfterLoss(a) == IF connected[a] THEN notices[a] + 1 ELSE notices[a]

(* The end of _on_session_start: connected, and every connector woken.     *)
SessionReady(a) ==
  /\ connected' = [connected EXCEPT ![a] = TRUE]
  /\ ready' = [ready EXCEPT ![a] = TRUE]
  /\ woken' = [woken EXCEPT ![a] = Connecting(a)]
  /\ UNCHANGED <<failed, owner, stream>>

(* Mutant: manager.attach does not look into the registry.                 *)
AlwaysCreate(j, a) ==
  /\ jidOf[a] = None
  /\ registry' = [registry EXCEPT ![j] = a]
  /\ jidOf' = [jidOf EXCEPT ![a] = j]

(* Mutant: the registry is not keyed by the JID.                           *)
FindAnyOrCreate(j, a) ==
  \/ /\ \E k \in JIDs : registry[k] = a
     /\ UNCHANGED <<registry, jidOf>>
  \/ /\ \A k \in JIDs : registry[k] = None
     /\ jidOf[a] = None
     /\ registry' = [registry EXCEPT ![j] = a]
     /\ jidOf' = [jidOf EXCEPT ![a] = j]

(* a is the registered account of j, or a new one registered for it.       *)
FindOrCreate(j, a) ==
  \/ /\ registry[j] = a
     /\ UNCHANGED <<registry, jidOf>>
  \/ /\ registry[j] = None
     /\ jidOf[a] = None
     /\ registry' = [registry EXCEPT ![j] = a]
     /\ jidOf' = [jidOf EXCEPT ![a] = j]

(* Mutant: the account that expired stays registered.                      *)
KeepRegistered(a) == UNCHANGED registry

(* Mutant: whatever account has the JID now is unregistered.               *)
UnregisterJid(a) == registry' = [registry EXCEPT ![jidOf[a]] = None]

(* AccountManager._on_idle_expired: only the account that expired goes.    *)
Unregister(a) == registry' = [registry EXCEPT ![jidOf[a]] = IF @ = a THEN None ELSE @]

(* Mutant: a failed connect leaves the lock taken.                         *)
KeepLock(a) == UNCHANGED holder

(* The end of "async with self._connect_lock".                             *)
Release(a) == holder' = [holder EXCEPT ![a] = None]

(* One of the bounded environment faults.                                  *)
Fault == faults < MaxFaults /\ faults' = faults + 1

-----------------------------------------------------------------------------
(* Tabs: the handle_ws coroutine.                                          *)

(* An authenticated socket: AccountManager.attach finds or creates the     *)
(* account and attaches to it, with no suspension in between.              *)
OpenTab(t) ==
  /\ serving
  /\ pc[t] = "closed"
  /\ \E a \in Accounts :
       /\ FindOrCreate(TabJid[t], a)
       /\ at' = [at EXCEPT ![t] = a]
       /\ Attach(a, t)
  /\ UNCHANGED <<serving, gone, loopVars, closing, notices, faults>>

(* The connect lock is free again and goes to the tab that waits longest.  *)
TakeLock(t) ==
  LET a == at[t] IN
  /\ pc[t] = "lockwait"
  /\ holder[a] = None
  /\ queue[a] # << >> /\ Head(queue[a]) = t
  /\ queue' = [queue EXCEPT ![a] = Tail(@)]
  /\ WithLock(a, t)
  /\ UNCHANGED <<managerVars, at, gone, loopVars, subs, idle, closing, notices, faults>>

(* The connect of this tab failed; its tabs have been told.                *)
ReportFailure(t) ==
  LET a == at[t] IN
  /\ pc[t] = "reporting"
  /\ ScheduleReconnect(a)
  /\ Release(a)
  /\ pc' = [pc EXCEPT ![t] = "snapshot"]
  /\ UNCHANGED <<managerVars, at, gone, queue, delay, clientVars,
                 subs, idle, closing, notices, faults>>

(* _send_snapshot went through: the tab enters the receive loop.           *)
SendSnapshot(t) ==
  /\ pc[t] = "snapshot"
  /\ pc' = [pc EXCEPT ![t] = "pump"]
  /\ UNCHANGED <<managerVars, at, gone, lockVars, loopVars, clientVars,
                 subs, idle, closing, notices, faults>>

(* _send_snapshot raised: the socket is gone, or while a loop of it was    *)
(* suspended in a send a presence changed _presence or another tab's join  *)
(* or leave _joined_rooms.  The exception leaves handle_ws before its try, *)
(* so nobody detaches this subscriber.                                     *)
SnapshotRaises(t) ==
  /\ pc[t] = "snapshot"
  /\ \/ t \in gone
     \/ stream[at[t]] = "up"
     \/ \E u \in Tabs : at[u] = at[t] /\ pc[u] = "pump"
  /\ pc' = [pc EXCEPT ![t] = "leaked"]
  /\ gone' = gone \cup {t}
  /\ UNCHANGED <<managerVars, at, lockVars, loopVars, clientVars,
                 subs, idle, closing, notices, faults>>

(* The user closes the tab, or its network does.                           *)
TabGone(t) ==
  /\ pc[t] \notin {"closed", "leaked"}
  /\ t \notin gone
  /\ gone' = gone \cup {t}
  /\ UNCHANGED <<managerVars, pc, at, lockVars, loopVars, clientVars,
                 subs, idle, closing, notices, faults>>

(* receive_json raises WebSocketDisconnect, and the tab detaches.          *)
PumpEnds(t) ==
  /\ pc[t] = "pump"
  /\ t \in gone
  /\ Detach(at[t], t)
  /\ UNCHANGED <<managerVars, lockVars, loopVars, clientVars, closing, notices, faults>>

(* A command raised something that is not a ProtocolError: same way out,   *)
(* with the browser still there.                                           *)
CommandRaises(t) ==
  /\ pc[t] = "pump"
  /\ t \notin gone
  /\ Detach(at[t], t)
  /\ UNCHANGED <<managerVars, lockVars, loopVars, clientVars, closing, notices, faults>>

(* A broadcast reaches a dead tab and drops it: the connect error, the     *)
(* disconnect notice, an inbound event, the echo of a tab's command or the *)
(* roster, which a session start reports even when it outlived its stream. *)
BroadcastDiscards(a, t) ==
  /\ \/ \E u \in Tabs : at[u] = a /\ pc[u] \in {"reporting", "pump"}
     \/ notices[a] > 0
     \/ stream[a] = "up"
     \/ connected[a]
  /\ t \in subs[a] \cap gone
  /\ subs' = [subs EXCEPT ![a] = @ \ {t}]
  /\ UNCHANGED <<managerVars, tabVars, lockVars, loopVars, clientVars,
                 idle, closing, notices, faults>>

-----------------------------------------------------------------------------
(* Connection attempts.                                                    *)

(* asyncio.wait of connector c runs into its 30 seconds, the newest one    *)
(* after those that began to wait before it.  When the stream could still  *)
(* come up, that is a slow server and counts as a fault.                   *)
ConnectTimesOut(a, c) ==
  /\ c \in Connecting(a) \ woken[a]
  /\ c = owner[a] => Connecting(a) \subseteq woken[a] \cup {c}
  /\ \/ stream[a] = "down" /\ UNCHANGED faults
     \/ stream[a] # "down" /\ Fault
  /\ woken' = [woken EXCEPT ![a] = @ \cup {c}]
  /\ UNCHANGED <<managerVars, tabVars, lockVars, loopVars, connected, ready, failed,
                 owner, stream, starting, stale, subs, idle, closing, notices>>

(* Mutant: connect looks at the event only, not at its future.             *)
ConnectSucceededIfReady(a) == ready[a]

(* What SlixmppClient.connect makes of the newest future and the event.    *)
ConnectSucceeded(a) == failed[a] # "raised" /\ ready[a]

(* The woken connectors run on, in one batch: what each one finds is the   *)
(* session_ready event and the future of the NEWEST connect.  The tab      *)
(* releases the lock or reports its failure, the loop ends or goes back to *)
(* its while.                                                              *)
ResumeConnectors(a) ==
  LET ok == ConnectSucceeded(a)
      ts == woken[a] \cap Tabs
  IN
  /\ woken[a] # {}
  /\ woken' = [woken EXCEPT ![a] = {}]
  /\ failed' = [failed EXCEPT ![a] =
       IF @ = "pending" /\ owner[a] \in woken[a] THEN "cancelled" ELSE @]
  /\ pc' = [t \in Tabs |->
       IF t \in ts THEN (IF ok THEN "snapshot" ELSE "reporting") ELSE pc[t]]
  /\ holder' = [holder EXCEPT ![a] = IF ts # {} /\ ok THEN None ELSE @]
  /\ \/ /\ Loop \notin woken[a]
        /\ UNCHANGED loopVars
     \/ /\ Loop \in woken[a]
        /\ ~ok /\ MustRetry(a)
        /\ recon' = [recon EXCEPT ![a] = "sleeping"]
        /\ delay' = [delay EXCEPT ![a] = Backoff(@)]
     \/ /\ Loop \in woken[a]
        /\ ok \/ ~MustRetry(a)
        /\ recon' = [recon EXCEPT ![a] = "none"]
        /\ delay' = [delay EXCEPT ![a] = 0]
  /\ UNCHANGED <<managerVars, at, gone, queue, connected, ready, owner, stream,
                 starting, stale, subs, idle, closing, notices, faults>>

(* The reconnect task runs for the first time.                             *)
ReconnectStarts(a) ==
  /\ recon[a] = "starting"
  /\ \/ /\ MustRetry(a)
        /\ recon' = [recon EXCEPT ![a] = "sleeping"]
        /\ delay' = [delay EXCEPT ![a] = InitialDelay]
     \/ /\ ~MustRetry(a)
        /\ recon' = [recon EXCEPT ![a] = "none"]
        /\ UNCHANGED delay
  /\ UNCHANGED <<managerVars, tabVars, lockVars, clientVars,
                 subs, idle, closing, notices, faults>>

(* Its sleep is over: it connects, without the connect lock and without    *)
(* looking at is_connected again.                                          *)
ReconnectWakes(a) ==
  /\ recon[a] = "sleeping"
  /\ \/ /\ MayRetry(a)
        /\ recon' = [recon EXCEPT ![a] = "connecting"]
        /\ Connect(a, Loop)
        /\ UNCHANGED delay
     \/ /\ ~MayRetry(a)
        /\ recon' = [recon EXCEPT ![a] = "none"]
        /\ delay' = [delay EXCEPT ![a] = 0]
        /\ UNCHANGED clientVars
  /\ UNCHANGED <<managerVars, tabVars, lockVars, subs, idle, closing, notices, faults>>

-----------------------------------------------------------------------------
(* slixmpp and the server, and the handlers of their events.               *)

(* session_start: the handler sends presence and waits for the roster.     *)
SessionStarts(a) ==
  /\ stream[a] = "opening"
  /\ stream' = [stream EXCEPT ![a] = "up"]
  /\ starting' = [starting EXCEPT ![a] = TRUE]
  /\ UNCHANGED <<managerVars, tabVars, lockVars, loopVars, connected, ready, failed,
                 owner, woken, stale, subs, idle, closing, notices, faults>>

(* The roster of the current stream arrives, or its query times out.       *)
RosterAnswered(a) ==
  /\ starting[a]
  /\ starting' = [starting EXCEPT ![a] = FALSE]
  /\ SessionReady(a)
  /\ UNCHANGED <<managerVars, tabVars, lockVars, loopVars, stale,
                 subs, idle, closing, notices, faults>>

(* The roster query of a stream that is gone times out, and the handler    *)
(* goes on as if the session had started.                                  *)
StaleRosterTimesOut(a) ==
  /\ stale[a] > 0
  /\ stale' = [stale EXCEPT ![a] = @ - 1]
  /\ SessionReady(a)
  /\ UNCHANGED <<managerVars, tabVars, lockVars, loopVars, starting,
                 subs, idle, closing, notices, faults>>

(* failed_auth: the server will close this stream next.                    *)
AuthFails(a) ==
  /\ stream[a] = "opening"
  /\ Fault
  /\ stream' = [stream EXCEPT ![a] = "ending"]
  /\ FailPending(a)
  /\ UNCHANGED <<managerVars, tabVars, lockVars, loopVars, connected, ready, owner,
                 starting, stale, subs, idle, closing, notices>>

(* disconnected: _on_disconnected up to the broadcast of the notice.       *)
StreamLost(a) ==
  /\ \/ stream[a] \in {"opening", "up"} /\ Fault
     \/ stream[a] = "ending" /\ UNCHANGED faults
  /\ stream' = [stream EXCEPT ![a] = "down"]
  /\ starting' = [starting EXCEPT ![a] = FALSE]
  /\ stale' = [stale EXCEPT ![a] = Orphaned(a)]
  /\ connected' = [connected EXCEPT ![a] = FALSE]
  /\ notices' = [notices EXCEPT ![a] = NoticesAfterLoss(a)]
  /\ FailPending(a)
  /\ UNCHANGED <<managerVars, tabVars, lockVars, loopVars, ready, owner,
                 subs, idle, closing>>

(* The notice reached the tabs: _on_event ends with _schedule_reconnect.   *)
NoticeSent(a) ==
  /\ notices[a] > 0
  /\ notices' = [notices EXCEPT ![a] = @ - 1]
  /\ ScheduleReconnect(a)
  /\ UNCHANGED <<managerVars, tabVars, lockVars, delay, clientVars,
                 subs, idle, closing, faults>>

-----------------------------------------------------------------------------
(* The end of an account.                                                  *)

(* The idle countdown ends: close and AccountManager._on_idle_expired, in  *)
(* one go, since neither suspends.  (The code also returns when somebody   *)
(* re-attached during the sleep: IdleOnlyWhenEmpty shows that the cancel   *)
(* always comes first.)                                                    *)
IdleExpires(a) ==
  /\ idle[a]
  /\ subs[a] = {}
  /\ Close({a})
  /\ Unregister(a)
  /\ UNCHANGED <<jidOf, serving, tabVars, lockVars, subs, notices, faults>>

(* AccountManager.shutdown: uvicorn runs it when no handler is left.       *)
Shutdown ==
  /\ serving
  /\ \A t \in Tabs : pc[t] \in {"closed", "leaked"}
  /\ serving' = FALSE
  /\ Close({a \in Accounts : \E j \in JIDs : registry[j] = a})
  /\ registry' = [j \in JIDs |-> None]
  /\ UNCHANGED <<jidOf, tabVars, lockVars, subs, notices, faults>>

(* After the shutdown the process may stay as it is: it is on its way out. *)
Stopped == ~serving /\ UNCHANGED vars

-----------------------------------------------------------------------------
TabStep(t) ==
  \/ TakeLock(t)      \/ ReportFailure(t) \/ SendSnapshot(t)
  \/ SnapshotRaises(t) \/ PumpEnds(t)

AccountStep(a) ==
  \/ ResumeConnectors(a) \/ ReconnectStarts(a) \/ ReconnectWakes(a)
  \/ NoticeSent(a)       \/ IdleExpires(a)

ServerStep(a) ==
  \/ SessionStarts(a) \/ RosterAnswered(a) \/ StaleRosterTimesOut(a)

Next ==
  \/ \E t \in Tabs : OpenTab(t) \/ TabGone(t) \/ CommandRaises(t) \/ TabStep(t)
  \/ \E a \in Accounts : \/ AccountStep(a) \/ ServerStep(a)
                         \/ AuthFails(a) \/ StreamLost(a)
                         \/ \E t \in Tabs : BroadcastDiscards(a, t)
                         \/ \E c \in Connectors : ConnectTimesOut(a, c)
  \/ Shutdown
  \/ Stopped

Spec == Init /\ [][Next]_vars

(* The steps the event loop, the timers and a server that answers in the   *)
(* end are bound to take.  Tabs need not come, leave or send, and nothing  *)
(* has to fail.                                                            *)
WaitEnds(a, c)      == stream[a] = "down" /\ ConnectTimesOut(a, c)
ConnectionCloses(a) == stream[a] = "ending" /\ StreamLost(a)

Fairness ==
  /\ \A t \in Tabs : WF_vars(TabStep(t))
  /\ \A a \in Accounts :
       /\ WF_vars(ResumeConnectors(a))
       /\ WF_vars(ReconnectStarts(a))
       /\ WF_vars(ReconnectWakes(a))
       /\ WF_vars(NoticeSent(a))
       /\ WF_vars(IdleExpires(a))
       /\ WF_vars(SessionStarts(a))
       /\ WF_vars(RosterAnswered(a))
       /\ WF_vars(StaleRosterTimesOut(a))
       /\ WF_vars(ConnectionCloses(a))
       /\ WF_vars(\E c \in Connectors : WaitEnds(a, c))

FairSpec == Spec /\ Fairness

-----------------------------------------------------------------------------
(* Safety.                                                                 *)

ManagerTypes ==
  /\ registry \in [JIDs -> Accounts \cup {None}]
  /\ jidOf \in [Accounts -> JIDs \cup {None}]
  /\ serving \in BOOLEAN
TabTypes ==
  /\ pc \in [Tabs -> TabStates]
  /\ at \in [Tabs -> Accounts \cup {None}]
  /\ gone \in SUBSET Tabs
  /\ \A t \in Tabs : pc[t] = "closed" <=> at[t] = None
AccountTypes ==
  /\ subs \in [Accounts -> SUBSET Tabs]
  /\ idle \in [Accounts -> BOOLEAN]
  /\ closing \in [Accounts -> BOOLEAN]
  /\ notices \in [Accounts -> Nat]
LockTypes ==
  /\ holder \in [Accounts -> Tabs \cup {None}]
  /\ queue \in [Accounts -> Seq(Tabs)]
LoopTypes ==
  /\ recon \in [Accounts -> LoopStates]
  /\ delay \in [Accounts -> {0, InitialDelay} \cup 0..MaxDelay]
ClientTypes ==
  /\ connected \in [Accounts -> BOOLEAN]
  /\ ready \in [Accounts -> BOOLEAN]
  /\ failed \in [Accounts -> FutureStates]
  /\ owner \in [Accounts -> Connectors \cup {None}]
  /\ woken \in [Accounts -> SUBSET Connectors]
  /\ stream \in [Accounts -> StreamStates]
  /\ starting \in [Accounts -> BOOLEAN]
  /\ stale \in [Accounts -> 0..MaxStale]

(* Every variable has its type; a retry delay is initial_seconds, which    *)
(* the code does not cap (account.py:116), or at most max_seconds.         *)
TypeOK ==
  /\ ManagerTypes
  /\ TabTypes
  /\ AccountTypes
  /\ LockTypes
  /\ LoopTypes
  /\ ClientTypes
  /\ faults \in 0..MaxFaults

(* The registry and the accounts agree: what is registered for a JID is an *)
(* open account of that JID, and every open account is registered, so that *)
(* no second one is made beside it (manager.py, "one Account per bare      *)
(* JID").                                                                  *)
RegistrySound ==
  /\ \A j \in JIDs : registry[j] # None =>
       jidOf[registry[j]] = j /\ ~closing[registry[j]]
  /\ \A a \in Accounts : jidOf[a] # None /\ ~closing[a] => registry[jidOf[a]] = a

(* The idle countdown of an account runs only while no tab is attached.    *)
IdleOnlyWhenEmpty == \A a \in Accounts : idle[a] => subs[a] = {}

(* A tab whose browser is there is subscribed to the open, registered      *)
(* account of its JID, at every point of its handler: no idle expiry, dead *)
(* neighbour or late detach takes its session away.                        *)
NoTabCutOff ==
  \A t \in Tabs : pc[t] # "closed" /\ t \notin gone =>
    /\ t \in subs[at[t]]
    /\ ~closing[at[t]]
    /\ registry[TabJid[t]] = at[t]

(* A tab is only ever subscribed to an account of its own JID.             *)
JidsIsolated ==
  \A a \in Accounts : \A t \in subs[a] : jidOf[a] = TabJid[t]

(* None of the account's attaches was cut short by an exception.           *)
LeakFree(a) == \A t \in Tabs : ~(at[t] = a /\ pc[t] = "leaked")

(* Nothing stays open that nobody will ever close: an account that is not  *)
(* closed has its idle countdown running or a handler working with it, and *)
(* so has every stream that is up or being opened, that of a closed        *)
(* account too, which a dead tab may reopen (account.py:84-93, 413).  A    *)
(* leaked tab is no such handler: its coroutine is over.  The exception    *)
(* are the accounts with a leaked tab (ws.py:74), which the code does      *)
(* forget (TeardownAfterLastTab below).                                    *)
NoForgottenSession ==
  \A a \in Accounts :
    /\ LeakFree(a)
    /\ (jidOf[a] # None /\ ~closing[a]) \/ stream[a] \in {"opening", "up"}
    => idle[a] \/ \E t \in Tabs : at[t] = a /\ pc[t] # "leaked"

(* At most one tab of an account is inside ensure_connected, and it is the *)
(* one that holds the lock.                                                *)
LockExclusive ==
  \A a \in Accounts : \A t \in Tabs :
    at[t] = a /\ pc[t] \in {"connecting", "reporting"} => holder[a] = t

(* The lock is never lost on the way from one tab to the next, whatever    *)
(* ends a connect and whoever dies meanwhile: its holder is inside, and    *)
(* the tabs that wait for it are those in its queue, each of them once     *)
(* (account.py:93), so that some tab can always go on.                     *)
LockHandedOn ==
  \A a \in Accounts :
    /\ holder[a] # None => at[holder[a]] = a /\ pc[holder[a]] \in {"connecting", "reporting"}
    /\ \A t \in Tabs : at[t] = a /\ pc[t] = "lockwait"
                         <=> \E i \in DOMAIN queue[a] : queue[a][i] = t
    /\ \A i, j \in DOMAIN queue[a] : queue[a][i] = queue[a][j] => i = j

(* A closed account has no reconnect task, whatever notice of a lost       *)
(* stream is still being broadcast when it closes.                         *)
ClosedStopsRetrying ==
  \A a \in Accounts : closing[a] => recon[a] = "none"

(* Somebody will bring a client back that is down while tabs are attached: *)
(* a tab in ensure_connected, the reconnect task or a notice being sent,   *)
(* which ends in _schedule_reconnect.                                      *)
NeverStranded ==
  \A a \in Accounts : MustRetry(a) =>
    \/ recon[a] # "none"
    \/ notices[a] > 0
    \/ \E t \in Tabs : at[t] = a /\ pc[t] \in {"lockwait", "connecting", "reporting"}

(* Who waits in connect, who was woken and what the newest future and the  *)
(* event say fit together: the future is never one that was cancelled      *)
(* while somebody still waits, an attempt that waits sees no event of an   *)
(* earlier session, and an attempt is taken for a success only when the    *)
(* client is connected.                                                    *)
ConnectorsSound ==
  \A a \in Accounts :
    /\ woken[a] \subseteq Connecting(a)
    /\ Connecting(a) # {} => failed[a] \in {"pending", "raised"}
    /\ failed[a] = "pending" /\ owner[a] \in woken[a] => Connecting(a) \subseteq woken[a]
    /\ ready[a] => Connecting(a) \subseteq woken[a]
    /\ ~closing[a] /\ woken[a] # {} /\ ConnectSucceeded(a) => connected[a]

(* Every failed attempt of a reconnect loop makes the next wait longer, or *)
(* the wait is max_seconds (for InitialDelay > 0 and Factor > 1).          *)
BackoffGrows ==
  [][\A a \in Accounts :
       recon[a] = "connecting" /\ recon'[a] = "sleeping"
         => delay'[a] > delay[a] \/ delay'[a] = MaxDelay]_vars

(* A closed account connects again only for a tab whose browser is gone    *)
(* and which waited for the lock since before (account.py:93); neither a   *)
(* retry nor a tab that somebody looks at does it.                         *)
ReopenedOnlyByDeadTabs ==
  [][\A a \in Accounts :
       closing[a] /\ stream[a] # "opening" /\ stream'[a] = "opening"
         => \E t \in gone : at[t] = a /\ pc[t] = "lockwait"]_vars

(* The session layer is the shared session it promises to be.              *)
Shared == INSTANCE SharedSession WITH
  accepting <- serving,
  open <- {j \in JIDs : registry[j] # None},
  attached <- [j \in JIDs |-> IF registry[j] = None THEN {} ELSE subs[registry[j]]]
SharedSpec == Shared!Spec

-----------------------------------------------------------------------------
(* Liveness, under FairSpec.                                               *)

OpenTabs(a) == {t \in Tabs : at[t] = a /\ pc[t] \notin {"closed", "leaked"} /\ t \notin gone}

(* A tab that attaches gets through: it never waits forever for the        *)
(* connect lock, a connection or a failure report.                         *)
AttachFinishes ==
  \A t \in Tabs : pc[t] \in {"lockwait", "connecting", "reporting", "snapshot"}
                    ~> pc[t] \in {"pump", "leaked"}

(* Once the last browser tab of an account is closed the account closes,   *)
(* unless a tab comes back first.                                          *)
TeardownAfterLastTab ==
  \A a \in Accounts : (jidOf[a] # None /\ OpenTabs(a) = {})
                        ~> (closing[a] \/ OpenTabs(a) # {})

(* The same for accounts none of whose attaches was cut short by an        *)
(* exception.                                                              *)
TeardownWithoutLeaks ==
  \A a \in Accounts : (jidOf[a] # None /\ OpenTabs(a) = {} /\ LeakFree(a))
                        ~> (closing[a] \/ OpenTabs(a) # {} \/ ~LeakFree(a))

(* A client that is down while a tab is attached is up again some day,     *)
(* unless the last tab leaves or the account closes first.                 *)
ClientComesBack ==
  \A a \in Accounts : MustRetry(a) ~> ~MustRetry(a)

(* A stream that is lost while a tab is open is opened again.              *)
DroppedConnectionsReconnect ==
  \A a \in Accounts : (stream[a] = "down" /\ ~closing[a] /\ OpenTabs(a) # {})
                        ~> (stream[a] # "down" \/ closing[a] \/ OpenTabs(a) = {})

-----------------------------------------------------------------------------
(* Claims of the repository's comments and documents that the code does    *)
(* not keep.                                                               *)

(* Nobody opens another stream on a client that has one.                   *)
OneSharedConnection ==
  \A a \in Accounts : connected[a] => Connecting(a) \subseteq woken[a]

=============================================================================
