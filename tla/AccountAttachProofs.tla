-------------------------- MODULE AccountAttachProofs --------------------------
(***************************************************************************)
(* Attach, detach, idle expiry and shutdown: the registry of accounts, the *)
(* subscribers of an account and the tabs' own view of them agree, for any *)
(* number of tabs, JIDs and accounts, and the session layer implements     *)
(* SharedSession.                                                          *)
(***************************************************************************)
EXTENDS AccountSessionProofs

(* An account that does not exist yet is blank, and nobody knows it.       *)
Fresh ==
  \A a \in Accounts : jidOf[a] = None =>
    ~closing[a] /\ ~idle[a] /\ subs[a] = {} /\ \A t \in Tabs : at[t] # a

(* A handler that left with an exception left a closed socket behind.      *)
LeakedGone == \A t \in Tabs : pc[t] = "leaked" => t \in gone

(* A subscriber works with the account it subscribed to, and no other.     *)
Placed == \A a \in Accounts : \A t \in subs[a] : at[t] = a

(* A tab works with an account of its own JID.                             *)
OwnAccount == \A t \in Tabs : at[t] # None => jidOf[at[t]] = TabJid[t]

(* The inductive invariant.  RegistrySound needs Fresh when an account is  *)
(* created, NoTabCutOff needs LeakedGone at the shutdown.                  *)
Attached ==
  /\ RegistrySound
  /\ IdleOnlyWhenEmpty
  /\ NoTabCutOff
  /\ Fresh
  /\ LeakedGone
  /\ Placed
  /\ OwnAccount

-----------------------------------------------------------------------------
(* What the other steps leave alone.                                       *)
Inner ==
  /\ UNCHANGED <<registry, jidOf, serving, at, subs, idle, closing>>
  /\ gone \subseteq gone'
  /\ LeakedGone'

LEMMA StepKinds ==
  ASSUME TypeOK, LeakedGone, [Next]_vars
  PROVE  \/ \E t \in Tabs : OpenTab(t) \/ PumpEnds(t) \/ CommandRaises(t)
         \/ \E a \in Accounts, t \in Tabs : BroadcastDiscards(a, t)
         \/ \E a \in Accounts : IdleExpires(a)
         \/ Shutdown
         \/ Inner
  <1> USE DEF TypeOK
  <1>1. ASSUME NEW t \in Tabs, TakeLock(t) PROVE Inner
    <2>1. PICK s \in TabStates \ {"closed", "leaked"} : pc' = [pc EXCEPT ![t] = s]
      BY <1>1 DEF TakeLock, WithLock, TabStates
    <2> QED BY <1>1, <2>1 DEF TakeLock, Inner, LeakedGone, TabTypes, managerVars
  <1>2. ASSUME NEW t \in Tabs, ReportFailure(t) \/ SendSnapshot(t) \/ SnapshotRaises(t) \/ TabGone(t)
        PROVE  Inner
    BY <1>2 DEF ReportFailure, SendSnapshot, SnapshotRaises, TabGone, Inner, LeakedGone, TabTypes, managerVars
  <1>3. ASSUME NEW a \in Accounts, ResumeConnectors(a) PROVE Inner
    BY <1>3 DEF ResumeConnectors, Inner, LeakedGone, TabTypes, managerVars
  <1>4. ASSUME NEW a \in Accounts, ReconnectStarts(a) \/ ReconnectWakes(a) \/ NoticeSent(a) PROVE Inner
    BY <1>4 DEF ReconnectStarts, ReconnectWakes, NoticeSent, Inner, LeakedGone, managerVars, tabVars
  <1>5. ASSUME NEW a \in Accounts, ServerStep(a) \/ AuthFails(a) \/ StreamLost(a) PROVE Inner
    BY <1>5 DEF ServerStep, SessionStarts, RosterAnswered, StaleRosterTimesOut, AuthFails, StreamLost,
       Inner, LeakedGone, managerVars, tabVars
  <1>6. ASSUME NEW a \in Accounts, NEW c \in Connectors, ConnectTimesOut(a, c) PROVE Inner
    BY <1>6 DEF ConnectTimesOut, Inner, LeakedGone, managerVars, tabVars
  <1>7. ASSUME UNCHANGED vars PROVE Inner
    BY <1>7 DEF vars, Inner, LeakedGone, managerVars, tabVars
  <1> QED BY <1>1, <1>2, <1>3, <1>4, <1>5, <1>6, <1>7 DEF Next, TabStep, AccountStep, Stopped

-----------------------------------------------------------------------------
(* What the steps that matter do to the variables of Attached.             *)

LEMMA OpenTabEffect ==
  ASSUME TypeOK, Attached, NEW t \in Tabs, OpenTab(t)
  PROVE  \E a \in Accounts :
           /\ serving /\ pc[t] = "closed" /\ at[t] = None
           /\ FindOrCreate(TabJid[t], a)
           /\ ~closing[a] /\ jidOf'[a] = TabJid[t] /\ registry'[TabJid[t]] = a
           /\ at' = [at EXCEPT ![t] = a]
           /\ subs' = [subs EXCEPT ![a] = @ \cup {t}]
           /\ idle' = [idle EXCEPT ![a] = FALSE]
           /\ UNCHANGED <<serving, gone, closing>>
           /\ pc'[t] \notin {"closed", "leaked"}
           /\ \A u \in Tabs \ {t} : pc'[u] = pc[u]
  <1>1. PICK a \in Accounts : FindOrCreate(TabJid[t], a) /\ at' = [at EXCEPT ![t] = a] /\ Attach(a, t)
    BY DEF OpenTab
  <1>2. TabJid[t] \in JIDs /\ a # None
    BY ConstantFacts DEF ConstantsOK
  <1>3. ~closing[a] /\ jidOf'[a] = TabJid[t] /\ registry'[TabJid[t]] = a
    BY <1>1, <1>2 DEF FindOrCreate, TypeOK, ManagerTypes, Attached, RegistrySound, Fresh
  <1>4. \E s \in {"lockwait", "connecting", "snapshot"} : pc' = [pc EXCEPT ![t] = s]
    BY <1>1 DEF Attach, WithLock
  <1>5. subs' = [subs EXCEPT ![a] = @ \cup {t}] /\ idle' = [idle EXCEPT ![a] = FALSE]
    BY <1>1 DEF Attach, CancelIdle
  <1>6. pc'[t] \notin {"closed", "leaked"} /\ \A u \in Tabs \ {t} : pc'[u] = pc[u]
    BY <1>4 DEF TypeOK, TabTypes
  <1> QED BY <1>1, <1>3, <1>5, <1>6 DEF OpenTab, TypeOK, TabTypes

LEMMA DetachEffect ==
  ASSUME TypeOK, NEW t \in Tabs, PumpEnds(t) \/ CommandRaises(t)
  PROVE  \E a \in Accounts :
           /\ at[t] = a /\ pc[t] = "pump"
           /\ subs' = [subs EXCEPT ![a] = @ \ {t}]
           /\ idle' = [idle EXCEPT ![a] = IF subs[a] \ {t} = {} THEN TRUE ELSE @]
           /\ pc' = [pc EXCEPT ![t] = "closed"]
           /\ at' = [at EXCEPT ![t] = None]
           /\ gone' = gone \ {t}
           /\ UNCHANGED <<managerVars, closing>>
  BY TabAccount DEF PumpEnds, CommandRaises, Detach, LastTab, TypeOK

LEMMA OpenTabAttached ==
  ASSUME TypeOK, Attached, NEW t \in Tabs, OpenTab(t) PROVE Attached'
  <1> USE DEF TypeOK, ManagerTypes, TabTypes, AccountTypes
  <1>1. PICK a \in Accounts :
           /\ serving /\ pc[t] = "closed" /\ at[t] = None
           /\ FindOrCreate(TabJid[t], a)
           /\ ~closing[a] /\ jidOf'[a] = TabJid[t] /\ registry'[TabJid[t]] = a
           /\ at' = [at EXCEPT ![t] = a]
           /\ subs' = [subs EXCEPT ![a] = @ \cup {t}]
           /\ idle' = [idle EXCEPT ![a] = FALSE]
           /\ UNCHANGED <<serving, gone, closing>>
           /\ pc'[t] \notin {"closed", "leaked"}
           /\ \A u \in Tabs \ {t} : pc'[u] = pc[u]
    BY OpenTabEffect
  <1>2. TabJid[t] \in JIDs /\ a # None /\ TabJid[t] # None
    BY ConstantFacts DEF ConstantsOK
  <1>3. /\ \A j \in JIDs \ {TabJid[t]} : registry'[j] = registry[j]
        /\ \A b \in Accounts \ {a} : jidOf'[b] = jidOf[b]
        /\ registry[TabJid[t]] \in {a, None}
    BY <1>1, <1>2 DEF FindOrCreate
  <1>4. RegistrySound'
    <2>1. ASSUME NEW j \in JIDs, registry'[j] # None
          PROVE  jidOf'[registry'[j]] = j /\ ~closing'[registry'[j]]
      <3>1. CASE j = TabJid[t]
        BY <1>1, <3>1
      <3>2. CASE j # TabJid[t]
        <4>1. registry'[j] = registry[j] /\ jidOf[registry[j]] = j /\ ~closing[registry[j]]
          BY <1>3, <2>1, <3>2 DEF Attached, RegistrySound
        <4>2. registry[j] # a /\ registry[j] \in Accounts
          BY <1>1, <2>1, <3>2, <4>1, ConstantFacts DEF FindOrCreate, ConstantsOK
        <4> QED BY <1>1, <1>3, <4>1, <4>2
      <3> QED BY <3>1, <3>2
    <2>2. ASSUME NEW b \in Accounts, jidOf'[b] # None, ~closing'[b] PROVE registry'[jidOf'[b]] = b
      <3>1. CASE b = a
        BY <1>1, <3>1
      <3>2. CASE b # a
        <4>1. jidOf'[b] = jidOf[b] /\ registry[jidOf[b]] = b /\ jidOf[b] \in JIDs
          BY <1>1, <1>3, <2>2, <3>2 DEF Attached, RegistrySound
        <4>2. jidOf[b] # TabJid[t]
          BY <1>3, <3>2, <4>1, ConstantFacts DEF ConstantsOK
        <4> QED BY <1>3, <4>1, <4>2
      <3> QED BY <3>1, <3>2
    <2> QED BY <2>1, <2>2 DEF RegistrySound
  <1>5. IdleOnlyWhenEmpty'
    BY <1>1 DEF Attached, IdleOnlyWhenEmpty
  <1>6. NoTabCutOff'
    <2>1. ASSUME NEW u \in Tabs \ {t}, pc'[u] # "closed", u \notin gone'
          PROVE  u \in subs'[at'[u]] /\ ~closing'[at'[u]] /\ registry'[TabJid[u]] = at'[u]
      <3>1. /\ u \in subs[at[u]] /\ ~closing[at[u]] /\ registry[TabJid[u]] = at[u]
            /\ at[u] \in Accounts /\ TabJid[u] \in JIDs
        BY <1>1, <2>1, ConstantFacts DEF Attached, NoTabCutOff, ConstantsOK
      <3>2. at'[u] = at[u] /\ closing' = closing
        BY <1>1
      <3>3. registry'[TabJid[u]] = at[u]
        BY <1>1, <1>2, <1>3, <3>1, ConstantFacts DEF ConstantsOK
      <3>4. u \in subs'[at[u]]
        BY <1>1, <3>1
      <3> QED BY <3>1, <3>2, <3>3, <3>4
    <2> QED BY <1>1, <2>1 DEF NoTabCutOff
  <1>7. Fresh'
    BY <1>1, <1>2, <1>3 DEF Attached, Fresh
  <1>8. LeakedGone' /\ Placed'
    <2>1. ASSUME NEW b \in Accounts, NEW u \in subs'[b] PROVE at'[u] = b
      <3>1. CASE u = t
        <4>1. \A c \in Accounts : t \notin subs[c]
          BY <1>1, ConstantFacts DEF Attached, Placed, ConstantsOK
        <4> QED BY <1>1, <2>1, <3>1, <4>1
      <3>2. CASE u # t
        <4>1. u \in subs[b] /\ u \in Tabs
          BY <1>1, <2>1, <3>2
        <4> QED BY <1>1, <3>2, <4>1 DEF Attached, Placed
      <3> QED BY <3>1, <3>2
    <2>2. Placed'
      BY <2>1 DEF Placed
    <2>3. LeakedGone'
      BY <1>1 DEF Attached, LeakedGone
    <2> QED BY <2>2, <2>3
  <1>9. OwnAccount'
    BY <1>1, <1>2, <1>3 DEF Attached, OwnAccount, Fresh, FindOrCreate
  <1> QED BY <1>4, <1>5, <1>6, <1>7, <1>8, <1>9 DEF Attached

LEMMA DetachAttached ==
  ASSUME TypeOK, Attached, NEW t \in Tabs, PumpEnds(t) \/ CommandRaises(t) PROVE Attached'
  <1> USE DEF TypeOK, ManagerTypes, TabTypes, AccountTypes, managerVars
  <1>1. PICK a \in Accounts :
           /\ at[t] = a /\ pc[t] = "pump"
           /\ subs' = [subs EXCEPT ![a] = @ \ {t}]
           /\ idle' = [idle EXCEPT ![a] = IF subs[a] \ {t} = {} THEN TRUE ELSE @]
           /\ pc' = [pc EXCEPT ![t] = "closed"]
           /\ at' = [at EXCEPT ![t] = None]
           /\ gone' = gone \ {t}
           /\ UNCHANGED <<managerVars, closing>>
    BY DetachEffect
  <1>2. RegistrySound'
    BY <1>1 DEF Attached, RegistrySound
  <1>3. IdleOnlyWhenEmpty'
    BY <1>1 DEF Attached, IdleOnlyWhenEmpty
  <1>4. NoTabCutOff'
    BY <1>1 DEF Attached, NoTabCutOff
  <1>5. Fresh'
    BY <1>1, ConstantFacts DEF Attached, Fresh, ConstantsOK
  <1>6. LeakedGone' /\ Placed' /\ OwnAccount'
    BY <1>1 DEF Attached, LeakedGone, Placed, OwnAccount
  <1> QED BY <1>2, <1>3, <1>4, <1>5, <1>6 DEF Attached

LEMMA ExpiryAttached ==
  ASSUME TypeOK, Attached, NEW a \in Accounts, IdleExpires(a) PROVE Attached'
  <1> USE DEF TypeOK, ManagerTypes, TabTypes, AccountTypes, managerVars, tabVars
  <1>1. /\ idle[a] /\ subs[a] = {} /\ Unregister(a)
        /\ UNCHANGED <<jidOf, pc, at, gone, subs>>
        /\ \A b \in Accounts : closing'[b] <=> closing[b] \/ b = a
        /\ \A b \in Accounts : idle'[b] => idle[b]
    BY DEF IdleExpires, Close
  <1>2. jidOf[a] \in JIDs
    BY <1>1 DEF Attached, Fresh
  <1>3. \A j \in JIDs : registry'[j] = IF registry[j] = a THEN None ELSE registry[j]
    BY <1>1, <1>2, ConstantFacts DEF Unregister, Attached, RegistrySound, ConstantsOK
  <1>4. RegistrySound'
    BY <1>1, <1>2, <1>3 DEF Attached, RegistrySound
  <1>5. NoTabCutOff'
    BY <1>1, <1>3, ConstantFacts DEF Attached, NoTabCutOff, ConstantsOK
  <1>6. IdleOnlyWhenEmpty' /\ Fresh' /\ LeakedGone' /\ Placed' /\ OwnAccount'
    BY <1>1, <1>2, ConstantFacts
    DEF Attached, IdleOnlyWhenEmpty, Fresh, LeakedGone, Placed, OwnAccount, ConstantsOK
  <1> QED BY <1>4, <1>5, <1>6 DEF Attached

LEMMA ShutdownAttached ==
  ASSUME TypeOK, Attached, Shutdown PROVE Attached'
  <1> USE DEF TypeOK, ManagerTypes, TabTypes, AccountTypes, managerVars, tabVars
  <1>1. /\ UNCHANGED <<jidOf, pc, at, gone, subs>>
        /\ \A j \in JIDs : registry'[j] = None
        /\ \A b \in Accounts : closing'[b] <=> closing[b] \/ \E j \in JIDs : registry[j] = b
        /\ \A b \in Accounts : idle'[b] => idle[b]
    BY DEF Shutdown, Close
  <1>2. RegistrySound'
    BY <1>1 DEF Attached, RegistrySound
  <1>3. NoTabCutOff'
    BY <1>1 DEF Shutdown, Attached, NoTabCutOff, LeakedGone
  <1>4. Fresh'
    BY <1>1, ConstantFacts DEF Attached, Fresh, RegistrySound, ConstantsOK
  <1>5. IdleOnlyWhenEmpty' /\ LeakedGone' /\ Placed' /\ OwnAccount'
    BY <1>1 DEF Attached, IdleOnlyWhenEmpty, LeakedGone, Placed, OwnAccount
  <1> QED BY <1>2, <1>3, <1>4, <1>5 DEF Attached

LEMMA NextAttached ==
  ASSUME TypeOK, TypeOK', Attached, [Next]_vars PROVE Attached'
  <1>1. ASSUME NEW a \in Accounts, NEW t \in Tabs, BroadcastDiscards(a, t) PROVE Attached'
    <2>1. /\ t \in gone /\ subs' = [subs EXCEPT ![a] = @ \ {t}]
          /\ UNCHANGED <<registry, jidOf, pc, at, gone, idle, closing>>
      BY <1>1 DEF BroadcastDiscards, managerVars, tabVars
    <2>2. \A b \in Accounts : subs'[b] \subseteq subs[b] /\ subs[b] \ {t} \subseteq subs'[b]
      BY <2>1 DEF TypeOK, AccountTypes
    <2> QED BY <2>1, <2>2 DEF Attached, RegistrySound, IdleOnlyWhenEmpty, NoTabCutOff, Fresh,
                LeakedGone, Placed, OwnAccount, TypeOK, TabTypes
  <1>2. CASE Inner
    <2>1. \A t \in Tabs : pc'[t] = "closed" <=> pc[t] = "closed"
      BY <1>2 DEF Inner, TypeOK, TabTypes
    <2> QED BY <1>2, <2>1 DEF Inner, Attached, RegistrySound, IdleOnlyWhenEmpty, NoTabCutOff, Fresh,
                Placed, OwnAccount
  <1>3. LeakedGone
    BY DEF Attached
  <1> QED BY <1>1, <1>2, <1>3, StepKinds, OpenTabAttached, DetachAttached, ExpiryAttached, ShutdownAttached

(* Registry, subscribers and tabs agree in every reachable state.          *)
THEOREM AttachedHolds == Spec => [](TypeOK /\ Attached)
  <1>1. Init => TypeOK /\ Woken /\ Attached
    BY InitType, ConstantFacts
    DEF Init, Woken, Attached, RegistrySound, IdleOnlyWhenEmpty, NoTabCutOff, Fresh, LeakedGone, Placed,
        OwnAccount, ConstantsOK
  <1>2. TypeOK /\ Woken /\ Attached /\ [Next]_vars => (TypeOK /\ Woken /\ Attached)'
    BY NextType, NextWoken, NextAttached
  <1> QED BY <1>1, <1>2, PTL DEF Spec

(* One open account per JID, and none that nobody can reach.               *)
THEOREM RegistryIsSound == Spec => []RegistrySound
  <1>1. Attached => RegistrySound
    BY DEF Attached
  <1> QED BY <1>1, AttachedHolds, PTL

(* No idle countdown runs beside an attached tab.                          *)
THEOREM IdleMeansEmpty == Spec => []IdleOnlyWhenEmpty
  <1>1. Attached => IdleOnlyWhenEmpty
    BY DEF Attached
  <1> QED BY <1>1, AttachedHolds, PTL

(* A tab whose browser is there keeps its subscription and its account.    *)
THEOREM NobodyIsCutOff == Spec => []NoTabCutOff
  <1>1. Attached => NoTabCutOff
    BY DEF Attached
  <1> QED BY <1>1, AttachedHolds, PTL

(* No tab is subscribed to the account of another JID.                     *)
THEOREM JidsAreIsolated == Spec => []JidsIsolated
  <1>1. TypeOK /\ Attached => JidsIsolated
    <2> SUFFICES ASSUME TypeOK, Attached, NEW a \in Accounts, NEW t \in subs[a]
                 PROVE  jidOf[a] = TabJid[t]
      BY DEF JidsIsolated
    <2>1. t \in Tabs /\ at[t] = a /\ a # None
      BY ConstantFacts DEF TypeOK, AccountTypes, Attached, Placed, ConstantsOK
    <2> QED BY <2>1 DEF Attached, OwnAccount
  <1> QED BY <1>1, AttachedHolds, PTL

-----------------------------------------------------------------------------
(* Streams: who opens one, and who will close it.                          *)

Live(a) == stream[a] \in {"opening", "up"}

(* A tab that connects opens the stream of its account, and no other.      *)
LEMMA WithLockStreams ==
  ASSUME TypeOK, NEW a \in Accounts, NEW t \in Tabs, WithLock(a, t), NEW b \in Accounts
  PROVE  stream'[b] = stream[b] \/ b = a
  BY DEF WithLock, Connect, clientVars, TypeOK, ClientTypes

(* The steps that open a stream, and the one that brings it up.            *)
LEMMA StreamSteps ==
  ASSUME TypeOK, Attached, [Next]_vars, NEW a \in Accounts, stream'[a] # stream[a], Live(a)'
  PROVE  \/ Inner /\ stream[a] = "opening" /\ stream'[a] = "up"
         \/ \E t \in Tabs : OpenTab(t) /\ at'[t] = a
         \/ Inner /\ \E t \in Tabs : at[t] = a /\ pc[t] = "lockwait"
         \/ Inner /\ MayRetry(a)
  <1> USE DEF TypeOK, Live
  <1>1. ASSUME NEW t \in Tabs, OpenTab(t) PROVE at'[t] = a
    <2>1. PICK b \in Accounts : at' = [at EXCEPT ![t] = b] /\ Attach(b, t)
      BY <1>1 DEF OpenTab
    <2>2. WithLock(b, t)
      BY <2>1 DEF Attach, clientVars
    <2> QED BY <2>1, <2>2, WithLockStreams DEF TabTypes
  <1>2. ASSUME NEW t \in Tabs, TakeLock(t) PROVE at[t] = a /\ pc[t] = "lockwait"
    BY <1>2, TabAccount, WithLockStreams DEF TakeLock
  <1>3. ASSUME NEW b \in Accounts, ReconnectWakes(b) PROVE MayRetry(a)
    BY <1>3 DEF ReconnectWakes, Connect, clientVars, ClientTypes
  <1>4. ASSUME NEW b \in Accounts, SessionStarts(b) PROVE stream[a] = "opening" /\ stream'[a] = "up"
    BY <1>4 DEF SessionStarts, ClientTypes
  <1>5. ASSUME NEW S \in SUBSET Accounts, Close(S) PROVE FALSE
    BY <1>5 DEF Close, ClientTypes
  <1>6. ASSUME NEW b \in Accounts, AuthFails(b) \/ StreamLost(b) PROVE FALSE
    BY <1>6 DEF AuthFails, StreamLost, ClientTypes
  <1>7. ASSUME NEW b \in Accounts, IdleExpires(b) PROVE FALSE
    <2>1. {b} \in SUBSET Accounts
      OBVIOUS
    <2> QED BY <1>5, <1>7, <2>1 DEF IdleExpires
  <1>8. ASSUME Shutdown PROVE FALSE
    <2>1. {b \in Accounts : \E j \in JIDs : registry[j] = b} \in SUBSET Accounts
      OBVIOUS
    <2> QED BY <1>5, <1>8, <2>1 DEF Shutdown
  <1>9. \A t \in Tabs : ~(ReportFailure(t) \/ SendSnapshot(t) \/ SnapshotRaises(t) \/ TabGone(t)
                          \/ PumpEnds(t) \/ CommandRaises(t))
    BY DEF ReportFailure, SendSnapshot, SnapshotRaises, TabGone, PumpEnds, CommandRaises, clientVars
  <1>10. \A b \in Accounts, t \in Tabs : ~BroadcastDiscards(b, t)
    BY DEF BroadcastDiscards, clientVars
  <1>11. \A b \in Accounts, c \in Connectors : ~ConnectTimesOut(b, c)
    BY DEF ConnectTimesOut
  <1>12. \A b \in Accounts : ~(ResumeConnectors(b) \/ ReconnectStarts(b) \/ NoticeSent(b)
                               \/ RosterAnswered(b) \/ StaleRosterTimesOut(b))
    BY DEF ResumeConnectors, ReconnectStarts, NoticeSent, RosterAnswered, StaleRosterTimesOut,
       SessionReady, clientVars
  <1>13. ~UNCHANGED vars
    BY DEF vars, clientVars
  <1>14. Inner \/ \E t \in Tabs : OpenTab(t)
    BY <1>7, <1>8, <1>9, <1>10, StepKinds DEF Attached
  <1> QED BY <1>1, <1>2, <1>3, <1>4, <1>6, <1>9, <1>10, <1>11, <1>12, <1>13, <1>14, <1>7, <1>8
          DEF Next, TabStep, AccountStep, ServerStep, Stopped

(* An account that somebody will close, or leave.                          *)
Minded(a) == idle[a] \/ \E t \in Tabs : at[t] = a

(* Only its end takes the last handler and the countdown from an account.  *)
LEMMA MindedStays ==
  ASSUME TypeOK, Attached, [Next]_vars, NEW a \in Accounts, Minded(a), ~Minded(a)'
  PROVE  closing'[a] /\ ~Live(a)'
  <1> USE DEF TypeOK, Minded
  <1>1. ASSUME NEW t \in Tabs, OpenTab(t) PROVE FALSE
    <2>1. PICK b \in Accounts :
             /\ at[t] = None
             /\ at' = [at EXCEPT ![t] = b]
             /\ idle' = [idle EXCEPT ![b] = FALSE]
      BY <1>1, OpenTabEffect
    <2>2. a # None
      BY ConstantFacts DEF ConstantsOK
    <2> QED BY <2>1, <2>2 DEF TabTypes, AccountTypes
  <1>2. ASSUME NEW t \in Tabs, PumpEnds(t) \/ CommandRaises(t) PROVE FALSE
    <2>1. PICK b \in Accounts :
             /\ at[t] = b
             /\ idle' = [idle EXCEPT ![b] = IF subs[b] \ {t} = {} THEN TRUE ELSE @]
             /\ at' = [at EXCEPT ![t] = None]
      BY <1>2, DetachEffect
    <2>2. \A u \in subs[b] \ {t} : u \in Tabs /\ at'[u] = b
      BY <2>1 DEF Attached, Placed, TabTypes, AccountTypes
    <2> QED BY <2>1, <2>2 DEF TabTypes, AccountTypes
  <1>3. ASSUME NEW b \in Accounts, NEW t \in Tabs, BroadcastDiscards(b, t) PROVE FALSE
    BY <1>3 DEF BroadcastDiscards, tabVars
  <1>4. ASSUME NEW S \in SUBSET Accounts, Close(S), UNCHANGED at PROVE a \in S
    BY <1>4 DEF Close, AccountTypes
  <1>5. ASSUME NEW S \in SUBSET Accounts, Close(S), a \in S PROVE closing'[a] /\ ~Live(a)'
    BY <1>5 DEF Close, Live, AccountTypes, ClientTypes
  <1>6. ASSUME NEW b \in Accounts, IdleExpires(b) PROVE closing'[a] /\ ~Live(a)'
    <2>1. {b} \in SUBSET Accounts
      OBVIOUS
    <2> QED BY <1>4, <1>5, <1>6, <2>1 DEF IdleExpires, tabVars
  <1>7. ASSUME Shutdown PROVE closing'[a] /\ ~Live(a)'
    <2>1. {b \in Accounts : \E j \in JIDs : registry[j] = b} \in SUBSET Accounts
      OBVIOUS
    <2> QED BY <1>4, <1>5, <1>7, <2>1 DEF Shutdown, tabVars
  <1>8. ~Inner
    BY DEF Inner
  <1> QED BY <1>1, <1>2, <1>3, <1>6, <1>7, <1>8, StepKinds DEF Attached

LEMMA NextForgetsNone ==
  ASSUME TypeOK, TypeOK', Attached, NoForgottenSession, [Next]_vars PROVE NoForgottenSession'
  <1> USE DEF TypeOK
  <1> SUFFICES ASSUME NEW a \in Accounts, (jidOf'[a] # None /\ ~closing'[a]) \/ Live(a)'
               PROVE  Minded(a)'
    BY DEF NoForgottenSession, Minded, Live, LeakFree
  <1>1. \A t \in Tabs : at'[t] = a => Minded(a)'
    BY DEF Minded
  <1>2. CASE Minded(a)
    BY <1>2, MindedStays
  <1>3. CASE ~Minded(a)
    <2>1. ~Live(a) /\ ~(jidOf[a] # None /\ ~closing[a]) /\ subs[a] = {}
      BY <1>3 DEF NoForgottenSession, LeakFree, Minded, Live, Attached, Placed, AccountTypes
    <2>2. CASE Live(a)'
      <3>1. stream'[a] # stream[a] /\ ~MayRetry(a) /\ ~\E t \in Tabs : at[t] = a
        BY <1>3, <2>1, <2>2 DEF Live, MayRetry, Minded
      <3>2. stream[a] # "opening"
        BY <2>1 DEF Live
      <3> QED BY <1>1, <2>2, <3>1, <3>2, StreamSteps
    <2>3. CASE jidOf'[a] # None /\ ~closing'[a]
      <3>1. \/ \E t \in Tabs : OpenTab(t)
            \/ UNCHANGED jidOf /\ (closing[a] => closing'[a])
        <4>1. ASSUME NEW S \in SUBSET Accounts, Close(S) PROVE closing[a] => closing'[a]
          BY <4>1 DEF Close, AccountTypes
        <4>2. ASSUME NEW b \in Accounts, IdleExpires(b) PROVE UNCHANGED jidOf /\ Close({b})
          BY <4>2 DEF IdleExpires
        <4>3. ASSUME NEW t \in Tabs, PumpEnds(t) \/ CommandRaises(t)
              PROVE  UNCHANGED <<jidOf, closing>>
          BY <4>3, DetachEffect DEF managerVars
        <4>4. ASSUME NEW b \in Accounts, NEW t \in Tabs, BroadcastDiscards(b, t)
              PROVE  UNCHANGED <<jidOf, closing>>
          BY <4>4 DEF BroadcastDiscards, managerVars
        <4>5. ASSUME Shutdown
              PROVE  UNCHANGED jidOf /\ \E S \in SUBSET Accounts : Close(S)
          <5>1. {b \in Accounts : \E j \in JIDs : registry[j] = b} \in SUBSET Accounts
            OBVIOUS
          <5> QED BY <4>5, <5>1 DEF Shutdown
        <4>6. \A b \in Accounts : {b} \in SUBSET Accounts
          OBVIOUS
        <4> QED BY <4>1, <4>2, <4>3, <4>4, <4>5, <4>6, StepKinds DEF Attached, Inner
      <3>2. ASSUME NEW t \in Tabs, OpenTab(t) PROVE Minded(a)'
        <4>1. PICK b \in Accounts : /\ FindOrCreate(TabJid[t], b)
                                    /\ at' = [at EXCEPT ![t] = b]
                                    /\ UNCHANGED closing
          BY <3>2, OpenTabEffect
        <4>2. a # b => jidOf'[a] = jidOf[a]
          BY <4>1 DEF FindOrCreate, ManagerTypes
        <4>3. a = b
          BY <2>1, <2>3, <4>1, <4>2
        <4> QED BY <1>1, <4>1, <4>3 DEF TabTypes
      <3> QED BY <2>1, <2>3, <3>1, <3>2
    <2> QED BY <2>2, <2>3
  <1> QED BY <1>2, <1>3

(* Every open account and every live stream has its countdown running or a *)
(* handler that works with it (account.py:84-93, 413), except on accounts  *)
(* of which an exception cut an attach short (ws.py:74): only there is     *)
(* something left that nobody will ever close.                             *)
THEOREM NothingIsForgotten == Spec => []NoForgottenSession
  <1>1. Init => NoForgottenSession
    BY DEF Init, NoForgottenSession
  <1>2. TypeOK /\ TypeOK' /\ Attached /\ NoForgottenSession /\ [Next]_vars => NoForgottenSession'
    BY NextForgetsNone
  <1> QED BY <1>1, <1>2, AttachedHolds, PTL DEF Spec

(* Only a dead tab that waited for the lock connects a closed account      *)
(* (account.py:93).                                                        *)
THEOREM OnlyDeadTabsReopen == Spec => ReopenedOnlyByDeadTabs
  <1>1. TypeOK /\ Attached /\ [Next]_vars =>
          [\A a \in Accounts : closing[a] /\ stream[a] # "opening" /\ stream'[a] = "opening"
             => \E t \in gone : at[t] = a /\ pc[t] = "lockwait"]_vars
    <2> SUFFICES ASSUME TypeOK, Attached, [Next]_vars, NEW a \in Accounts,
                        closing[a], stream[a] # "opening", stream'[a] = "opening"
                 PROVE  \E t \in gone : at[t] = a /\ pc[t] = "lockwait"
      OBVIOUS
    <2>1. ASSUME NEW t \in Tabs, OpenTab(t), at'[t] = a PROVE FALSE
      <3>1. PICK b \in Accounts : at' = [at EXCEPT ![t] = b] /\ ~closing[b]
        BY <2>1, OpenTabEffect
      <3> QED BY <2>1, <3>1 DEF TypeOK, TabTypes
    <2>2. \A t \in Tabs : at[t] = a /\ pc[t] = "lockwait" => t \in gone
      BY DEF Attached, NoTabCutOff
    <2>3. ~MayRetry(a)
      BY DEF MayRetry
    <2> QED BY <2>1, <2>2, <2>3, StreamSteps DEF Live
  <1> QED BY <1>1, AttachedHolds, PTL DEF Spec, ReopenedOnlyByDeadTabs

-----------------------------------------------------------------------------
(* AccountSession implements SharedSession.                                *)

Open     == {j \in JIDs : registry[j] # None}
Sessions == [j \in JIDs |-> IF registry[j] = None THEN {} ELSE subs[registry[j]]]

(* Nothing SharedSession speaks of changes.                                *)
LEMMA InnerStutters == ASSUME Inner PROVE UNCHANGED <<serving, Open, Sessions>>
  BY DEF Inner, Open, Sessions

LEMMA OpenTabJoins ==
  ASSUME TypeOK, Attached, NEW t \in Tabs, OpenTab(t) PROVE Shared!Join(t)
  <1> USE DEF TypeOK, ManagerTypes, TabTypes, AccountTypes
  <1>1. PICK a \in Accounts :
           /\ serving /\ pc[t] = "closed" /\ at[t] = None
           /\ FindOrCreate(TabJid[t], a)
           /\ ~closing[a] /\ jidOf'[a] = TabJid[t] /\ registry'[TabJid[t]] = a
           /\ at' = [at EXCEPT ![t] = a]
           /\ subs' = [subs EXCEPT ![a] = @ \cup {t}]
           /\ idle' = [idle EXCEPT ![a] = FALSE]
           /\ UNCHANGED <<serving, gone, closing>>
           /\ pc'[t] \notin {"closed", "leaked"}
           /\ \A u \in Tabs \ {t} : pc'[u] = pc[u]
    BY OpenTabEffect
  <1>2. TabJid[t] \in JIDs /\ a # None
    BY ConstantFacts DEF ConstantsOK
  <1>3. \A j \in JIDs \ {TabJid[t]} : registry'[j] = registry[j] /\ registry[j] # a
    <2>1. jidOf[a] \in {None, TabJid[t]}
      BY <1>1, <1>2 DEF FindOrCreate
    <2>2. \A j \in JIDs : registry[j] = a => jidOf[a] = j /\ j # None
      BY <1>2, ConstantFacts DEF Attached, RegistrySound, ConstantsOK
    <2> QED BY <1>1, <2>1, <2>2 DEF FindOrCreate
  <1>4. t \notin Sessions[TabJid[t]]
    BY <1>1, <1>2, ConstantFacts DEF Sessions, Attached, Placed, ConstantsOK
  <1>5. Open' = Open \cup {TabJid[t]}
    BY <1>1, <1>2, <1>3 DEF Open
  <1>6. Sessions' = [Sessions EXCEPT ![TabJid[t]] = @ \cup {t}]
    <2>1. Sessions'[TabJid[t]] = Sessions[TabJid[t]] \cup {t}
      BY <1>1, <1>2 DEF Sessions, FindOrCreate, Attached, Fresh
    <2>2. \A j \in JIDs \ {TabJid[t]} : Sessions'[j] = Sessions[j]
      BY <1>1, <1>3 DEF Sessions
    <2> QED BY <1>2, <2>1, <2>2 DEF Sessions
  <1> QED BY <1>1, <1>4, <1>5, <1>6 DEF Shared!Join, Open, Sessions

(* t is taken out of the subscribers of the account it works with.         *)
LEMMA DiscardLeaves ==
  ASSUME TypeOK, Attached, NEW t \in Tabs, NEW a \in Accounts, at[t] = a \/ t \in subs[a],
         subs' = [subs EXCEPT ![a] = @ \ {t}], UNCHANGED <<registry, serving>>
  PROVE  Shared!Leave(t) \/ UNCHANGED <<serving, Open, Sessions>>
  <1> USE DEF TypeOK, ManagerTypes, TabTypes, AccountTypes
  <1>1. TabJid[t] \in JIDs /\ a # None /\ jidOf[a] = TabJid[t]
    BY ConstantFacts DEF ConstantsOK, Attached, Placed, OwnAccount
  <1>2. \A j \in JIDs \ {TabJid[t]} : registry[j] # a
    BY <1>1 DEF Attached, RegistrySound
  <1>3. \A j \in JIDs \ {TabJid[t]} : Sessions'[j] = Sessions[j]
    BY <1>2 DEF Sessions
  <1>4. CASE registry[TabJid[t]] = a /\ t \in subs[a]
    <2>1. t \in Sessions[TabJid[t]] /\ Sessions'[TabJid[t]] = Sessions[TabJid[t]] \ {t}
      BY <1>1, <1>4 DEF Sessions
    <2>2. Sessions' = [Sessions EXCEPT ![TabJid[t]] = @ \ {t}]
      BY <1>1, <1>3, <2>1 DEF Sessions
    <2> QED BY <2>1, <2>2 DEF Shared!Leave, Open, Sessions
  <1>5. CASE registry[TabJid[t]] # a \/ t \notin subs[a]
    <2>1. Sessions'[TabJid[t]] = Sessions[TabJid[t]]
      BY <1>1, <1>5 DEF Sessions
    <2>2. Sessions' = Sessions
      BY <1>3, <2>1 DEF Sessions
    <2> QED BY <2>2 DEF Open
  <1> QED BY <1>4, <1>5

LEMMA ExpiryExpires ==
  ASSUME TypeOK, Attached, NEW a \in Accounts, IdleExpires(a)
  PROVE  (\E j \in JIDs : Shared!Expire(j)) \/ UNCHANGED <<serving, Open, Sessions>>
  <1> USE DEF TypeOK, ManagerTypes, TabTypes, AccountTypes
  <1>1. PICK j \in JIDs : j = jidOf[a]
    BY DEF IdleExpires, Attached, Fresh
  <1>2. /\ subs[a] = {} /\ UNCHANGED <<serving, subs>>
        /\ registry' = [registry EXCEPT ![j] = IF @ = a THEN None ELSE @]
    BY <1>1 DEF IdleExpires, Unregister
  <1>3. Sessions' = Sessions
    BY <1>2, ConstantFacts DEF Sessions, ConstantsOK
  <1>4. CASE registry[j] = a
    <2>1. j \in Open /\ Sessions[j] = {} /\ Open' = Open \ {j}
      BY <1>2, <1>4, ConstantFacts DEF Open, Sessions, ConstantsOK
    <2>2. Shared!Expire(j)
      BY <1>2, <1>3, <2>1 DEF Shared!Expire, Open, Sessions
    <2> QED BY <2>2
  <1>5. CASE registry[j] # a
    BY <1>2, <1>3, <1>5 DEF Open
  <1> QED BY <1>4, <1>5

LEMMA ShutdownShutsDown == ASSUME TypeOK, Shutdown PROVE Shared!ShutDown
  BY DEF Shutdown, Shared!ShutDown, TypeOK, ManagerTypes

LEMMA NextImplements ==
  ASSUME TypeOK, Attached, [Next]_vars PROVE [Shared!Next]_(Shared!sessionVars)
  <1>1. ASSUME NEW t \in Tabs, PumpEnds(t) \/ CommandRaises(t)
        PROVE  Shared!Leave(t) \/ UNCHANGED <<serving, Open, Sessions>>
    BY <1>1, DetachEffect, DiscardLeaves DEF managerVars
  <1>2. ASSUME NEW a \in Accounts, NEW t \in Tabs, BroadcastDiscards(a, t)
        PROVE  Shared!Leave(t) \/ UNCHANGED <<serving, Open, Sessions>>
    BY <1>2, DiscardLeaves DEF BroadcastDiscards, managerVars
  <1>3. ASSUME NEW a \in Accounts, IdleExpires(a)
        PROVE  (\E j \in JIDs : Shared!Expire(j)) \/ UNCHANGED <<serving, Open, Sessions>>
    BY <1>3, ExpiryExpires
  <1>4. UNCHANGED <<serving, Open, Sessions>> => UNCHANGED Shared!sessionVars
    BY DEF Open, Sessions, Shared!sessionVars
  <1> QED BY <1>1, <1>2, <1>3, <1>4, StepKinds, OpenTabJoins, ShutdownShutsDown, InnerStutters
          DEF Attached, Shared!Next

(* The session layer keeps the promise of SharedSession: one session per   *)
(* JID, which ends only when nobody is attached to it, or with the process.*)
THEOREM ImplementsSharedSession == Spec => SharedSpec
  <1>1. Init => Shared!Init
    BY DEF Init, Shared!Init
  <1>2. TypeOK /\ Attached /\ [Next]_vars => [Shared!Next]_(Shared!sessionVars)
    BY NextImplements
  <1> QED BY <1>1, <1>2, AttachedHolds, PTL DEF Spec, SharedSpec, Shared!Spec

=============================================================================
