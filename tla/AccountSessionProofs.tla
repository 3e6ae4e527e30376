------------------------- MODULE AccountSessionProofs -------------------------
(* Theorems about AccountSession, for every value of its constants.        *)
EXTENDS AccountSession, TLAPS

-----------------------------------------------------------------------------
(* The assumptions on the constants, in the form the provers use.          *)
ConstantsOK ==
  /\ TabJid \in [Tabs -> JIDs]
  /\ None \notin Accounts \cup JIDs \cup Tabs \cup {Loop}
  /\ Loop \notin Tabs
  /\ InitialDelay \in Nat
  /\ Factor \in Nat
  /\ MaxDelay \in Nat
  /\ MaxFaults \in Nat
  /\ MaxStale \in Nat

LEMMA ConstantFacts == ConstantsOK
  BY TabJidAssumption, NoneAssumption, LoopAssumption, BackoffAssumption, BoundsAssumption
  DEF ConstantsOK

(* Whatever the delay was, the next one stays within max_seconds.          *)
LEMMA BackoffType == \A d \in Nat : Backoff(d) \in 0..MaxDelay
  <1> SUFFICES ASSUME NEW d \in Nat PROVE Backoff(d) \in 0..MaxDelay
    OBVIOUS
  <1>1. d \in Nat /\ Factor \in Nat /\ MaxDelay \in Nat
    BY ConstantFacts DEF ConstantsOK
  <1>2. d * Factor \in Nat
    BY <1>1
  <1> QED BY <1>1, <1>2 DEF Backoff

LEMMA OrphanedType ==
  ASSUME ClientTypes, NEW a \in Accounts PROVE Orphaned(a) \in 0..MaxStale
  BY ConstantFacts DEF ClientTypes, Orphaned, ConstantsOK

LEMMA ConnectType ==
  ASSUME ClientTypes, NEW a \in Accounts, NEW c \in Connectors, Connect(a, c)
  PROVE  ClientTypes'
  <1>1. Orphaned(a) \in 0..MaxStale
    BY OrphanedType
  <1> QED BY <1>1 DEF ClientTypes, Connect, ClearReady, FutureStates, StreamStates

LEMMA WithLockType ==
  ASSUME ClientTypes, LockTypes, NEW a \in Accounts, NEW t \in Tabs, WithLock(a, t)
  PROVE  /\ ClientTypes'
         /\ holder' \in [Accounts -> Tabs \cup {None}]
         /\ \E s \in TabStates \ {"closed"} : pc' = [pc EXCEPT ![t] = s]
  <1>1. CASE UNCHANGED <<holder, clientVars>> /\ pc' = [pc EXCEPT ![t] = "snapshot"]
    BY <1>1 DEF ClientTypes, LockTypes, clientVars, TabStates
  <1>2. CASE Connect(a, t) /\ pc' = [pc EXCEPT ![t] = "connecting"] /\ holder' = [holder EXCEPT ![a] = t]
    <2>1. ClientTypes'
      BY <1>2, ConnectType DEF Connectors
    <2> QED BY <1>2, <2>1 DEF LockTypes, TabStates
  <1> QED BY <1>1, <1>2 DEF WithLock

LEMMA CloseType ==
  ASSUME ClientTypes, AccountTypes, LoopTypes, NEW S \in SUBSET Accounts, Close(S)
  PROVE  ClientTypes' /\ LoopTypes' /\ idle' \in [Accounts -> BOOLEAN] /\ closing' \in [Accounts -> BOOLEAN]
  <1>1. \A a \in Accounts : Orphaned(a) \in 0..MaxStale
    BY OrphanedType
  <1>2. LoopTypes'
    BY ConstantFacts DEF Close, LoopTypes, LoopStates, ConstantsOK
  <1>3. idle' \in [Accounts -> BOOLEAN] /\ closing' \in [Accounts -> BOOLEAN]
    BY DEF Close, AccountTypes
  <1>4. ClientTypes'
    <2>1. stale' \in [Accounts -> 0..MaxStale]
      BY <1>1 DEF Close, ClientTypes
    <2> QED BY <2>1 DEF Close, ClientTypes, StreamStates
  <1> QED BY <1>2, <1>3, <1>4

LEMMA FailPendingType ==
  ASSUME ClientTypes, NEW a \in Accounts, FailPending(a)
  PROVE  failed' \in [Accounts -> FutureStates] /\ woken' \in [Accounts -> SUBSET Connectors]
  BY DEF ClientTypes, FailPending, FutureStates, Connecting, Connectors

LEMMA ScheduleType ==
  ASSUME LoopTypes, NEW a \in Accounts, ScheduleReconnect(a)
  PROVE  recon' \in [Accounts -> LoopStates]
  BY DEF LoopTypes, ScheduleReconnect, LoopStates

LEMMA DetachType ==
  ASSUME TabTypes, AccountTypes, NEW t \in Tabs, Detach(at[t], t), UNCHANGED <<closing, notices>>
  PROVE  TabTypes' /\ AccountTypes'
  BY ConstantFacts DEF TabTypes, AccountTypes, Detach, TabStates, ConstantsOK

(* The account of a tab whose handler runs.                                *)
LEMMA TabAccount ==
  ASSUME TabTypes, NEW t \in Tabs, pc[t] # "closed" PROVE at[t] \in Accounts
  BY DEF TabTypes

(* A handler that goes on without leaving keeps the types of the tabs.     *)
LEMMA MoveTabType ==
  ASSUME TabTypes, NEW t \in Tabs, pc[t] # "closed", NEW s \in TabStates \ {"closed"},
         pc' = [pc EXCEPT ![t] = s], UNCHANGED at, gone' \in SUBSET Tabs
  PROVE  TabTypes'
  BY DEF TabTypes

-----------------------------------------------------------------------------
(* Only coroutines that are inside connect are woken from its wait.  The   *)
(* types alone are not inductive: a woken tab that is not connecting would *)
(* be moved on without having an account.                                  *)
Woken == \A a \in Accounts : woken[a] \subseteq Connecting(a)

(* Every variable keeps its type.                                          *)
LEMMA InitType == Init => TypeOK
  BY ConstantFacts DEF Init, TypeOK, ManagerTypes, TabTypes, AccountTypes, LockTypes, LoopTypes,
     ClientTypes, ConstantsOK, TabStates, LoopStates, FutureStates, StreamStates

LEMMA NextType ==
  ASSUME TypeOK, Woken, [Next]_vars PROVE TypeOK'
  <1> USE DEF TypeOK
  <1>1. ASSUME NEW t \in Tabs, OpenTab(t) PROVE TypeOK'
    <2>1. PICK a \in Accounts : FindOrCreate(TabJid[t], a) /\ at' = [at EXCEPT ![t] = a] /\ Attach(a, t)
      BY <1>1 DEF OpenTab
    <2>2. ManagerTypes'
      <3>1. TabJid[t] \in JIDs
        BY ConstantFacts DEF ConstantsOK
      <3>2. FindOrCreate(TabJid[t], a) /\ UNCHANGED serving
        BY <1>1, <2>1 DEF OpenTab
      <3> QED BY <3>1, <3>2 DEF FindOrCreate, ManagerTypes
    <2>3. AccountTypes'
      BY <1>1, <2>1 DEF OpenTab, Attach, CancelIdle, AccountTypes
    <2>4. /\ ClientTypes' /\ LockTypes'
          /\ \E s \in TabStates \ {"closed"} : pc' = [pc EXCEPT ![t] = s]
      <3>1. CASE WithLock(a, t) /\ UNCHANGED queue
        BY <3>1, WithLockType DEF LockTypes
      <3>2. CASE /\ pc' = [pc EXCEPT ![t] = "lockwait"]
                 /\ queue' = [queue EXCEPT ![a] = Append(@, t)]
                 /\ UNCHANGED <<holder, clientVars>>
        <4>1. queue \in [Accounts -> Seq(Tabs)] /\ Append(queue[a], t) \in Seq(Tabs)
          BY DEF LockTypes
        <4>2. LockTypes'
          BY <3>2, <4>1 DEF LockTypes
        <4> QED BY <3>2, <4>2 DEF ClientTypes, clientVars, TabStates
      <3> QED BY <2>1, <3>1, <3>2 DEF Attach
    <2>5. TabTypes'
      <3>1. PICK s \in TabStates \ {"closed"} : pc' = [pc EXCEPT ![t] = s]
        BY <2>4
      <3>2. UNCHANGED gone /\ a # None /\ at' = [at EXCEPT ![t] = a]
        BY <1>1, <2>1, ConstantFacts DEF OpenTab, ConstantsOK
      <3> QED BY <3>1, <3>2 DEF TabTypes
    <2> QED BY <1>1, <2>2, <2>3, <2>4, <2>5 DEF OpenTab, LoopTypes, loopVars
  <1>2. ASSUME NEW t \in Tabs, TakeLock(t) PROVE TypeOK'
    <2>1. at[t] \in Accounts /\ pc[t] # "closed" /\ WithLock(at[t], t)
      BY <1>2, TabAccount DEF TakeLock
    <2>2. /\ ClientTypes' /\ holder' \in [Accounts -> Tabs \cup {None}]
          /\ \E s \in TabStates \ {"closed"} : pc' = [pc EXCEPT ![t] = s]
      BY <2>1, WithLockType
    <2>3. TabTypes'
      BY <1>2, <2>1, <2>2, MoveTabType DEF TakeLock, TabTypes
    <2>4. queue' \in [Accounts -> Seq(Tabs)]
      <3>1. queue \in [Accounts -> Seq(Tabs)] /\ queue[at[t]] # << >>
            /\ queue' = [queue EXCEPT ![at[t]] = Tail(@)]
        BY <1>2 DEF TakeLock, LockTypes
      <3>2. Tail(queue[at[t]]) \in Seq(Tabs)
        BY <2>1, <3>1
      <3> QED BY <2>1, <3>1, <3>2
    <2> QED BY <1>2, <2>2, <2>3, <2>4 DEF TakeLock, LockTypes, LoopTypes, loopVars, ManagerTypes, managerVars, AccountTypes
  <1>3. ASSUME NEW t \in Tabs, ReportFailure(t) PROVE TypeOK'
    <2>1. at[t] \in Accounts /\ TabTypes'
      BY <1>3, TabAccount, MoveTabType DEF ReportFailure, TabStates, TabTypes
    <2>2. LoopTypes'
      BY <1>3, <2>1, ScheduleType DEF ReportFailure, LoopTypes
    <2>3. LockTypes'
      BY <1>3, <2>1 DEF ReportFailure, Release, LockTypes
    <2> QED BY <1>3, <2>1, <2>2, <2>3
            DEF ReportFailure, ManagerTypes, managerVars, AccountTypes, ClientTypes, clientVars
  <1>4. ASSUME NEW t \in Tabs, SendSnapshot(t) \/ SnapshotRaises(t) \/ TabGone(t) PROVE TypeOK'
    <2>1. TabTypes'
      BY <1>4, MoveTabType DEF SendSnapshot, SnapshotRaises, TabGone, TabStates, TabTypes
    <2>2. UNCHANGED <<managerVars, lockVars, loopVars, clientVars, subs, idle, closing, notices, faults>>
      BY <1>4 DEF SendSnapshot, SnapshotRaises, TabGone
    <2> QED BY <2>1, <2>2 DEF ManagerTypes, managerVars, LockTypes, lockVars, LoopTypes, loopVars,
               ClientTypes, clientVars, AccountTypes
  <1>5. ASSUME NEW t \in Tabs, PumpEnds(t) \/ CommandRaises(t) PROVE TypeOK'
    <2>1. TabTypes' /\ AccountTypes'
      BY <1>5, DetachType DEF PumpEnds, CommandRaises
    <2>2. UNCHANGED <<managerVars, lockVars, loopVars, clientVars, faults>>
      BY <1>5 DEF PumpEnds, CommandRaises
    <2> QED BY <2>1, <2>2 DEF ManagerTypes, managerVars, LockTypes, lockVars, LoopTypes, loopVars,
               ClientTypes, clientVars
  <1>6. ASSUME NEW a \in Accounts, NEW t \in Tabs, BroadcastDiscards(a, t) PROVE TypeOK'
    BY <1>6 DEF BroadcastDiscards, ManagerTypes, managerVars, TabTypes, tabVars, LockTypes, lockVars,
       LoopTypes, loopVars, ClientTypes, clientVars, AccountTypes
  <1>7. ASSUME NEW a \in Accounts, NEW c \in Connectors, ConnectTimesOut(a, c) PROVE TypeOK'
    <2>1. ClientTypes'
      BY <1>7 DEF ConnectTimesOut, ClientTypes
    <2>2. faults' \in 0..MaxFaults
      BY <1>7, ConstantFacts DEF ConnectTimesOut, Fault, ConstantsOK
    <2> QED BY <1>7, <2>1, <2>2 DEF ConnectTimesOut, ManagerTypes, managerVars, TabTypes, tabVars,
               LockTypes, lockVars, LoopTypes, loopVars, AccountTypes
  <1>8. ASSUME NEW a \in Accounts, ResumeConnectors(a) PROVE TypeOK'
    <2>1. TabTypes'
      <3>1. \A t \in woken[a] \cap Tabs : pc[t] # "closed"
        BY ConstantFacts DEF Woken, Connecting, ConstantsOK
      <3> QED BY <1>8, <3>1 DEF ResumeConnectors, TabTypes, TabStates
    <2>2. LockTypes'
      BY <1>8 DEF ResumeConnectors, LockTypes
    <2>3. LoopTypes'
      <3>1. Backoff(delay[a]) \in 0..MaxDelay
        <4>1. delay[a] \in Nat
          BY ConstantFacts DEF LoopTypes, ConstantsOK
        <4> QED BY <4>1, BackoffType, ConstantFacts DEF ConstantsOK
      <3> QED BY <1>8, <3>1 DEF ResumeConnectors, LoopTypes, LoopStates, loopVars
    <2>4. ClientTypes'
      BY <1>8 DEF ResumeConnectors, ClientTypes, FutureStates
    <2> QED BY <1>8, <2>1, <2>2, <2>3, <2>4 DEF ResumeConnectors, ManagerTypes, managerVars, AccountTypes
  <1>9. ASSUME NEW a \in Accounts, ReconnectStarts(a) PROVE TypeOK'
    <2>1. LoopTypes'
      BY <1>9, ConstantFacts DEF ReconnectStarts, LoopTypes, LoopStates, ConstantsOK
    <2> QED BY <1>9, <2>1 DEF ReconnectStarts, ManagerTypes, managerVars, TabTypes, tabVars,
               LockTypes, lockVars, ClientTypes, clientVars, AccountTypes
  <1>10. ASSUME NEW a \in Accounts, ReconnectWakes(a) PROVE TypeOK'
    <2>1. LoopTypes'
      BY <1>10, ConstantFacts DEF ReconnectWakes, LoopTypes, LoopStates, ConstantsOK
    <2>2. ClientTypes'
      <3>1. CASE Connect(a, Loop)
        BY <3>1, ConnectType DEF Connectors
      <3>2. CASE UNCHANGED clientVars
        BY <3>2 DEF ClientTypes, clientVars
      <3> QED BY <1>10, <3>1, <3>2 DEF ReconnectWakes
    <2> QED BY <1>10, <2>1, <2>2 DEF ReconnectWakes, ManagerTypes, managerVars, TabTypes, tabVars,
               LockTypes, lockVars, AccountTypes
  <1>11. ASSUME NEW a \in Accounts, SessionStarts(a) \/ RosterAnswered(a) \/ StaleRosterTimesOut(a)
         PROVE  TypeOK'
    <2>1. ClientTypes'
      <3>1. CASE SessionStarts(a)
        BY <3>1 DEF SessionStarts, ClientTypes, StreamStates
      <3>2. CASE RosterAnswered(a)
        BY <3>2 DEF RosterAnswered, SessionReady, ClientTypes, Connecting, Connectors
      <3>3. CASE StaleRosterTimesOut(a)
        <4>1. stale[a] \in 0..MaxStale /\ stale[a] - 1 \in 0..MaxStale
          BY <3>3, ConstantFacts DEF StaleRosterTimesOut, ClientTypes, ConstantsOK
        <4> QED BY <3>3, <4>1 DEF StaleRosterTimesOut, SessionReady, ClientTypes, Connecting, Connectors
      <3> QED BY <1>11, <3>1, <3>2, <3>3
    <2>2. UNCHANGED <<managerVars, tabVars, lockVars, loopVars, subs, idle, closing, notices, faults>>
      BY <1>11 DEF SessionStarts, RosterAnswered, StaleRosterTimesOut
    <2> QED BY <2>1, <2>2 DEF ManagerTypes, managerVars, TabTypes, tabVars, LockTypes, lockVars,
               LoopTypes, loopVars, AccountTypes
  <1>12. ASSUME NEW a \in Accounts, AuthFails(a) PROVE TypeOK'
    <2>1. ClientTypes'
      BY <1>12, FailPendingType DEF AuthFails, ClientTypes, StreamStates
    <2>2. faults' \in 0..MaxFaults
      BY <1>12, ConstantFacts DEF AuthFails, Fault, ConstantsOK
    <2> QED BY <1>12, <2>1, <2>2 DEF AuthFails, ManagerTypes, managerVars, TabTypes, tabVars,
               LockTypes, lockVars, LoopTypes, loopVars, AccountTypes
  <1>13. ASSUME NEW a \in Accounts, StreamLost(a) PROVE TypeOK'
    <2>1. ClientTypes'
      BY <1>13, FailPendingType, OrphanedType DEF StreamLost, ClientTypes, StreamStates
    <2>2. faults' \in 0..MaxFaults
      BY <1>13, ConstantFacts DEF StreamLost, Fault, ConstantsOK
    <2>3. AccountTypes'
      <3>1. NoticesAfterLoss(a) \in Nat
        BY DEF NoticesAfterLoss, AccountTypes
      <3> QED BY <1>13, <3>1 DEF StreamLost, AccountTypes
    <2> QED BY <1>13, <2>1, <2>2, <2>3 DEF StreamLost, ManagerTypes, managerVars, TabTypes, tabVars,
               LockTypes, lockVars, LoopTypes, loopVars
  <1>14. ASSUME NEW a \in Accounts, NoticeSent(a) PROVE TypeOK'
    <2>1. LoopTypes'
      BY <1>14, ScheduleType DEF NoticeSent, LoopTypes
    <2>2. AccountTypes'
      <3>1. notices[a] - 1 \in Nat
        BY <1>14 DEF NoticeSent, AccountTypes
      <3> QED BY <1>14, <3>1 DEF NoticeSent, AccountTypes
    <2> QED BY <1>14, <2>1, <2>2 DEF NoticeSent, ManagerTypes, managerVars, TabTypes, tabVars,
               LockTypes, lockVars, ClientTypes, clientVars
  <1>15. ASSUME NEW a \in Accounts, IdleExpires(a) PROVE TypeOK'
    <2>1. ClientTypes' /\ LoopTypes' /\ AccountTypes'
      BY <1>15, CloseType DEF IdleExpires, AccountTypes
    <2>2. ManagerTypes'
      BY <1>15 DEF IdleExpires, Unregister, ManagerTypes
    <2> QED BY <1>15, <2>1, <2>2 DEF IdleExpires, TabTypes, tabVars, LockTypes, lockVars
  <1>16. ASSUME Shutdown PROVE TypeOK'
    <2>1. ClientTypes' /\ LoopTypes' /\ AccountTypes'
      BY <1>16, CloseType DEF Shutdown, AccountTypes
    <2>2. ManagerTypes'
      BY <1>16 DEF Shutdown, ManagerTypes
    <2> QED BY <1>16, <2>1, <2>2 DEF Shutdown, TabTypes, tabVars, LockTypes, lockVars
  <1>17. ASSUME UNCHANGED vars PROVE TypeOK'
    BY <1>17 DEF vars, ManagerTypes, managerVars, TabTypes, tabVars, LockTypes, lockVars,
       LoopTypes, loopVars, ClientTypes, clientVars, AccountTypes
  <1> QED BY <1>1, <1>2, <1>3, <1>4, <1>5, <1>6, <1>7, <1>8, <1>9, <1>10, <1>11, <1>12, <1>13,
             <1>14, <1>15, <1>16, <1>17
          DEF Next, TabStep, AccountStep, ServerStep, Stopped

(* A step that wakes nobody and lets no connector leave keeps Woken.       *)
LEMMA WokenKept ==
  ASSUME Woken,
         \A a \in Accounts : woken'[a] \subseteq woken[a],
         \A a \in Accounts : recon[a] = "connecting" /\ Loop \in woken'[a] => recon'[a] = "connecting",
         \A t \in Tabs : pc[t] = "connecting" => pc'[t] = "connecting" /\ at'[t] = at[t]
  PROVE  Woken'
  BY ConstantFacts DEF Woken, Connecting, ConstantsOK

LEMMA WithLockKeepsOthers ==
  ASSUME TypeOK, NEW a \in Accounts, NEW t \in Tabs, WithLock(a, t)
  PROVE  UNCHANGED woken /\ \A u \in Tabs \ {t} : pc'[u] = pc[u]
  BY DEF WithLock, Connect, clientVars, TypeOK, TabTypes

LEMMA NextWoken ==
  ASSUME TypeOK, Woken, [Next]_vars PROVE Woken'
  <1> USE DEF TypeOK
  <1>1. ASSUME NEW t \in Tabs, OpenTab(t) PROVE Woken'
    <2>1. PICK a \in Accounts : at' = [at EXCEPT ![t] = a] /\ Attach(a, t)
      BY <1>1 DEF OpenTab
    <2>2. UNCHANGED woken /\ \A u \in Tabs \ {t} : pc'[u] = pc[u]
      BY <2>1, WithLockKeepsOthers DEF Attach, clientVars, TabTypes
    <2>3. \A u \in Tabs \ {t} : at'[u] = at[u]
      BY <2>1 DEF TabTypes
    <2> QED BY <1>1, <2>2, <2>3, WokenKept DEF OpenTab, loopVars
  <1>2. ASSUME NEW t \in Tabs, TakeLock(t) PROVE Woken'
    <2>1. at[t] \in Accounts
      BY <1>2, TabAccount DEF TakeLock
    <2>2. UNCHANGED woken /\ \A u \in Tabs \ {t} : pc'[u] = pc[u]
      BY <1>2, <2>1, WithLockKeepsOthers DEF TakeLock
    <2> QED BY <1>2, <2>2, WokenKept DEF TakeLock, loopVars
  <1>3. ASSUME NEW t \in Tabs, ReportFailure(t) PROVE Woken'
    <2>1. at[t] \in Accounts
      BY <1>3, TabAccount DEF ReportFailure
    <2> QED BY <1>3, <2>1, WokenKept DEF ReportFailure, ScheduleReconnect, clientVars, TabTypes, LoopTypes
  <1>4. ASSUME NEW t \in Tabs, SendSnapshot(t) \/ SnapshotRaises(t) \/ TabGone(t) PROVE Woken'
    BY <1>4, WokenKept DEF SendSnapshot, SnapshotRaises, TabGone, clientVars, loopVars, TabTypes
  <1>5. ASSUME NEW t \in Tabs, PumpEnds(t) \/ CommandRaises(t) PROVE Woken'
    BY <1>5, WokenKept DEF PumpEnds, CommandRaises, Detach, clientVars, loopVars, TabTypes
  <1>6. ASSUME NEW a \in Accounts, NEW t \in Tabs, BroadcastDiscards(a, t) PROVE Woken'
    BY <1>6, WokenKept DEF BroadcastDiscards, clientVars, loopVars, tabVars
  <1>7. ASSUME NEW a \in Accounts, NEW c \in Connectors, ConnectTimesOut(a, c) PROVE Woken'
    BY <1>7 DEF ConnectTimesOut, Woken, Connecting, loopVars, tabVars, ClientTypes
  <1>8. ASSUME NEW a \in Accounts, ResumeConnectors(a) PROVE Woken'
    <2> SUFFICES ASSUME NEW b \in Accounts, b # a PROVE woken'[b] \subseteq Connecting(b)'
      BY <1>8 DEF ResumeConnectors, Woken, ClientTypes
    <2>1. woken'[b] = woken[b] /\ recon'[b] = recon[b]
      BY <1>8 DEF ResumeConnectors, ClientTypes, LoopTypes, loopVars
    <2>2. \A t \in Tabs : pc[t] = "connecting" /\ at[t] = b => t \notin woken[a]
      BY ConstantFacts DEF Woken, Connecting, ConstantsOK
    <2>3. \A t \in Tabs : pc[t] = "connecting" /\ at[t] = b => pc'[t] = "connecting" /\ at'[t] = b
      BY <1>8, <2>2 DEF ResumeConnectors
    <2> QED BY <2>1, <2>3 DEF Woken, Connecting
  <1>9. ASSUME NEW a \in Accounts, ReconnectStarts(a) PROVE Woken'
    BY <1>9, WokenKept DEF ReconnectStarts, clientVars, tabVars, LoopTypes
  <1>10. ASSUME NEW a \in Accounts, ReconnectWakes(a) PROVE Woken'
    BY <1>10, WokenKept DEF ReconnectWakes, Connect, clientVars, tabVars, LoopTypes
  <1>11. ASSUME NEW a \in Accounts, SessionStarts(a) PROVE Woken'
    BY <1>11, WokenKept DEF SessionStarts, loopVars, tabVars
  <1>12. ASSUME NEW a \in Accounts, RosterAnswered(a) \/ StaleRosterTimesOut(a) PROVE Woken'
    BY <1>12 DEF RosterAnswered, StaleRosterTimesOut, SessionReady, Woken, Connecting, loopVars, tabVars,
       ClientTypes
  <1>13. ASSUME NEW a \in Accounts, AuthFails(a) \/ StreamLost(a) PROVE Woken'
    BY <1>13 DEF AuthFails, StreamLost, FailPending, Woken, Connecting, loopVars, tabVars, ClientTypes
  <1>14. ASSUME NEW a \in Accounts, NoticeSent(a) PROVE Woken'
    BY <1>14, WokenKept DEF NoticeSent, ScheduleReconnect, clientVars, tabVars, LoopTypes
  <1>15. ASSUME NEW S \in SUBSET Accounts, Close(S), UNCHANGED tabVars PROVE Woken'
    BY <1>15, WokenKept DEF Close, tabVars
  <1>16. ASSUME NEW a \in Accounts, IdleExpires(a) PROVE Woken'
    BY <1>15, <1>16 DEF IdleExpires
  <1>17. ASSUME Shutdown PROVE Woken'
    BY <1>15, <1>17 DEF Shutdown
  <1>18. ASSUME UNCHANGED vars PROVE Woken'
    BY <1>18, WokenKept DEF vars, clientVars, loopVars, tabVars
  <1> QED BY <1>1, <1>2, <1>3, <1>4, <1>5, <1>6, <1>7, <1>8, <1>9, <1>10, <1>11, <1>12, <1>13,
             <1>14, <1>16, <1>17, <1>18
          DEF Next, TabStep, AccountStep, ServerStep, Stopped

(* Every variable keeps its type; in particular every retry delay after    *)
(* the first, initial_seconds, is at most max_seconds (account.py:126).    *)
THEOREM TypeCorrect == Spec => []TypeOK
  <1>1. Init => TypeOK /\ Woken
    BY InitType DEF Init, Woken
  <1>2. TypeOK /\ Woken /\ [Next]_vars => (TypeOK /\ Woken)'
    BY NextType, NextWoken
  <1> QED BY <1>1, <1>2, PTL DEF Spec

=============================================================================
