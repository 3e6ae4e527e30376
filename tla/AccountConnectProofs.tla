------------------------- MODULE AccountConnectProofs -------------------------
(***************************************************************************)
(* No account is ever left down with tabs attached and nobody to bring it  *)
(* back, although the reconnect task connects without the connect lock.    *)
(* The argument is about the bookkeeping of SlixmppClient.connect: whoever *)
(* takes an attempt for a success finds the client connected.              *)
(***************************************************************************)
EXTENDS AccountSessionProofs

(* What ConnectorsSound says of one account, besides Woken.                *)
Sound(a) ==
  /\ Connecting(a) # {} => failed[a] \in {"pending", "raised"}
  /\ failed[a] = "pending" /\ owner[a] \in woken[a] => Connecting(a) \subseteq woken[a]
  /\ ready[a] => Connecting(a) \subseteq woken[a]
  /\ ~closing[a] /\ woken[a] # {} /\ ConnectSucceeded(a) => connected[a]

LEMMA SoundParts == ConnectorsSound <=> Woken /\ \A a \in Accounts : Sound(a)
  BY DEF ConnectorsSound, Woken, Sound

(* An account whose client and connectors a step leaves alone.             *)
LEMMA SoundKept ==
  ASSUME NEW a \in Accounts, Sound(a), Connecting(a)' = Connecting(a), closing[a] => closing'[a],
         failed'[a] = failed[a], owner'[a] = owner[a], woken'[a] = woken[a],
         ready'[a] = ready[a], connected'[a] = connected[a]
  PROVE  Sound(a)'
  BY DEF Sound, ConnectSucceeded

(* The account that a new connector starts to connect.                     *)
LEMMA SoundAfterConnect ==
  ASSUME TypeOK, Woken, NEW a \in Accounts, NEW c \in Connectors \ Connecting(a), Connect(a, c)
  PROVE  Sound(a)'
  BY DEF TypeOK, ClientTypes, Connect, ClearReady, Sound, ConnectSucceeded, Woken

LEMMA NotConnecting ==
  ASSUME NEW t \in Tabs, pc[t] # "connecting" PROVE \A a \in Accounts : t \notin Connecting(a)
  BY ConstantFacts DEF Connecting, ConstantsOK

(* A step of one tab that is not, and does not become, a connector.        *)
LEMMA ConnectingKept ==
  ASSUME NEW t \in Tabs, pc[t] # "connecting", pc'[t] # "connecting",
         \A u \in Tabs \ {t} : pc'[u] = pc[u] /\ at'[u] = at[u],
         \A a \in Accounts : recon[a] = "connecting" <=> recon'[a] = "connecting"
  PROVE  \A a \in Accounts : Connecting(a)' = Connecting(a)
  BY DEF Connecting

LEMMA WithLockSound ==
  ASSUME TypeOK, Woken, \A b \in Accounts : Sound(b), NEW a \in Accounts, NEW t \in Tabs,
         WithLock(a, t), pc[t] # "connecting", at'[t] = a,
         \A u \in Tabs \ {t} : at'[u] = at[u],
         UNCHANGED <<recon, closing>>
  PROVE  \A b \in Accounts : Sound(b)'
  <1>1. CASE UNCHANGED clientVars /\ pc' = [pc EXCEPT ![t] = "snapshot"]
    <2>1. \A b \in Accounts : Connecting(b)' = Connecting(b)
      BY <1>1, ConnectingKept DEF TypeOK, TabTypes
    <2> QED BY <1>1, <2>1, SoundKept DEF clientVars
  <1>2. CASE Connect(a, t) /\ pc' = [pc EXCEPT ![t] = "connecting"]
    <2>1. Sound(a)'
      BY <1>2, NotConnecting, SoundAfterConnect DEF Connectors
    <2>2. ASSUME NEW b \in Accounts, b # a PROVE Sound(b)'
      <3>1. Connecting(b)' = Connecting(b)
        BY <1>2, <2>2 DEF Connecting, TypeOK, TabTypes
      <3> QED BY <1>2, <2>2, <3>1, SoundKept DEF Connect, ClearReady, TypeOK, ClientTypes
    <2> QED BY <2>1, <2>2
  <1> QED BY <1>1, <1>2 DEF WithLock

LEMMA NextSound ==
  ASSUME TypeOK, Woken, \A a \in Accounts : Sound(a), [Next]_vars
  PROVE  \A a \in Accounts : Sound(a)'
  <1> USE DEF TypeOK
  <1>0. Woken'
    BY NextWoken
  <1>1. ASSUME NEW t \in Tabs, OpenTab(t) PROVE \A a \in Accounts : Sound(a)'
    <2>1. PICK a \in Accounts : at' = [at EXCEPT ![t] = a] /\ Attach(a, t)
      BY <1>1 DEF OpenTab
    <2>2. /\ at'[t] = a /\ \A u \in Tabs \ {t} : at'[u] = at[u]
          /\ UNCHANGED <<recon, closing>> /\ pc[t] # "connecting"
      BY <1>1, <2>1 DEF OpenTab, TabTypes, loopVars
    <2>3. CASE WithLock(a, t)
      BY <2>2, <2>3, WithLockSound
    <2>4. CASE UNCHANGED clientVars /\ pc' = [pc EXCEPT ![t] = "lockwait"]
      <3>1. \A b \in Accounts : Connecting(b)' = Connecting(b)
        BY <2>2, <2>4, ConnectingKept DEF TabTypes
      <3> QED BY <2>2, <2>4, <3>1, SoundKept DEF clientVars
    <2> QED BY <2>1, <2>3, <2>4 DEF Attach
  <1>2. ASSUME NEW t \in Tabs, TakeLock(t) PROVE \A a \in Accounts : Sound(a)'
    BY <1>2, TabAccount, WithLockSound DEF TakeLock, loopVars
  <1>3. ASSUME NEW t \in Tabs, ReportFailure(t) PROVE \A a \in Accounts : Sound(a)'
    <2>1. \A b \in Accounts : Connecting(b)' = Connecting(b)
      BY <1>3, ConnectingKept DEF ReportFailure, ScheduleReconnect, TabTypes, LoopTypes
    <2> QED BY <1>3, <2>1, SoundKept DEF ReportFailure, clientVars
  <1>4. ASSUME NEW t \in Tabs, SendSnapshot(t) \/ SnapshotRaises(t) \/ TabGone(t)
        PROVE  \A a \in Accounts : Sound(a)'
    <2>1. \A b \in Accounts : Connecting(b)' = Connecting(b)
      BY <1>4 DEF SendSnapshot, SnapshotRaises, TabGone, Connecting, TabTypes, loopVars
    <2> QED BY <1>4, <2>1, SoundKept DEF SendSnapshot, SnapshotRaises, TabGone, clientVars
  <1>5. ASSUME NEW t \in Tabs, PumpEnds(t) \/ CommandRaises(t) PROVE \A a \in Accounts : Sound(a)'
    <2>1. \A b \in Accounts : Connecting(b)' = Connecting(b)
      BY <1>5, ConnectingKept DEF PumpEnds, CommandRaises, Detach, TabTypes, loopVars
    <2> QED BY <1>5, <2>1, SoundKept DEF PumpEnds, CommandRaises, clientVars
  <1>6. ASSUME NEW a \in Accounts, NEW t \in Tabs, BroadcastDiscards(a, t)
        PROVE  \A b \in Accounts : Sound(b)'
    BY <1>6, SoundKept DEF BroadcastDiscards, Connecting, tabVars, loopVars, clientVars
  <1>7. ASSUME NEW a \in Accounts, NEW c \in Connectors, ConnectTimesOut(a, c)
        PROVE  \A b \in Accounts : Sound(b)'
    <2>1. \A b \in Accounts : Connecting(b)' = Connecting(b)
      BY <1>7 DEF ConnectTimesOut, Connecting, tabVars, loopVars
    <2>2. Sound(a)'
      BY <1>7, <2>1 DEF ConnectTimesOut, Sound, ConnectSucceeded, ClientTypes
    <2>3. ASSUME NEW b \in Accounts, b # a PROVE Sound(b)'
      BY <1>7, <2>1, <2>3, SoundKept DEF ConnectTimesOut, ClientTypes
    <2> QED BY <2>2, <2>3
  <1>8. ASSUME NEW a \in Accounts, ResumeConnectors(a) PROVE \A b \in Accounts : Sound(b)'
    <2>1. ASSUME NEW b \in Accounts, b # a PROVE Sound(b)'
      <3>1. \A t \in Tabs : at[t] = b => t \notin woken[a]
        BY <2>1, ConstantFacts DEF Woken, Connecting, ConstantsOK
      <3>2. Connecting(b)' = Connecting(b)
        BY <1>8, <2>1, <3>1 DEF ResumeConnectors, Connecting, LoopTypes, loopVars
      <3> QED BY <1>8, <2>1, <3>2, SoundKept DEF ResumeConnectors, ClientTypes
    <2>2. Connecting(a)' = Connecting(a) \ woken[a]
      BY <1>8, ConstantFacts DEF ResumeConnectors, Connecting, LoopTypes, loopVars, TabTypes, ConstantsOK
    <2>3. Sound(a)'
      BY <1>8, <2>2 DEF ResumeConnectors, Sound, ConnectSucceeded, ClientTypes
    <2> QED BY <2>1, <2>3
  <1>9. ASSUME NEW a \in Accounts, ReconnectStarts(a) \/ NoticeSent(a)
        PROVE  \A b \in Accounts : Sound(b)'
    <2>1. \A b \in Accounts : Connecting(b)' = Connecting(b)
      BY <1>9 DEF ReconnectStarts, NoticeSent, ScheduleReconnect, Connecting, tabVars, LoopTypes
    <2> QED BY <1>9, <2>1, SoundKept DEF ReconnectStarts, NoticeSent, clientVars
  <1>10. ASSUME NEW a \in Accounts, ReconnectWakes(a) PROVE \A b \in Accounts : Sound(b)'
    <2>1. CASE Connect(a, Loop) /\ recon' = [recon EXCEPT ![a] = "connecting"]
      <3>1. Loop \in Connectors \ Connecting(a)
        BY <1>10, ConstantFacts DEF ReconnectWakes, Connecting, Connectors, ConstantsOK
      <3>2. Sound(a)'
        BY <2>1, <3>1, SoundAfterConnect
      <3>3. ASSUME NEW b \in Accounts, b # a PROVE Sound(b)'
        <4>1. Connecting(b)' = Connecting(b)
          BY <1>10, <2>1, <3>3 DEF ReconnectWakes, Connecting, tabVars, LoopTypes
        <4> QED BY <1>10, <2>1, <3>3, <4>1, SoundKept
                DEF ReconnectWakes, Connect, ClearReady, ClientTypes
      <3> QED BY <3>2, <3>3
    <2>2. CASE UNCHANGED clientVars /\ recon' = [recon EXCEPT ![a] = "none"]
      <3>1. \A b \in Accounts : Connecting(b)' = Connecting(b)
        BY <1>10, <2>2 DEF ReconnectWakes, Connecting, tabVars, LoopTypes
      <3> QED BY <1>10, <2>2, <3>1, SoundKept DEF ReconnectWakes, clientVars
    <2> QED BY <1>10, <2>1, <2>2 DEF ReconnectWakes
  <1>11. ASSUME NEW a \in Accounts, SessionStarts(a) PROVE \A b \in Accounts : Sound(b)'
    BY <1>11, SoundKept DEF SessionStarts, Connecting, tabVars, loopVars
  <1>12. ASSUME NEW a \in Accounts, RosterAnswered(a) \/ StaleRosterTimesOut(a)
         PROVE  \A b \in Accounts : Sound(b)'
    <2>1. \A b \in Accounts : Connecting(b)' = Connecting(b)
      BY <1>12 DEF RosterAnswered, StaleRosterTimesOut, Connecting, tabVars, loopVars
    <2>2. SessionReady(a) /\ UNCHANGED closing
      BY <1>12 DEF RosterAnswered, StaleRosterTimesOut
    <2>3. Sound(a)'
      BY <2>1, <2>2 DEF SessionReady, Sound, ConnectSucceeded, ClientTypes
    <2>4. ASSUME NEW b \in Accounts, b # a PROVE Sound(b)'
      BY <2>1, <2>2, <2>4, SoundKept DEF SessionReady, ClientTypes
    <2> QED BY <2>3, <2>4
  <1>13. ASSUME NEW a \in Accounts, AuthFails(a) \/ StreamLost(a)
         PROVE  \A b \in Accounts : Sound(b)'
    <2>1. \A b \in Accounts : Connecting(b)' = Connecting(b)
      BY <1>13 DEF AuthFails, StreamLost, Connecting, tabVars, loopVars
    <2>2. /\ FailPending(a) /\ UNCHANGED <<owner, ready, closing>>
          /\ \A b \in Accounts \ {a} : connected'[b] = connected[b]
      BY <1>13 DEF AuthFails, StreamLost, ClientTypes
    <2>3. Sound(a)'
      <3>1. woken'[a] \subseteq Connecting(a)
        BY <1>0, <2>1 DEF Woken
      <3>2. Connecting(a) # {} => failed'[a] = "raised"
        BY <2>2 DEF FailPending, Sound, ClientTypes
      <3>3. failed'[a] # "pending" /\ woken[a] \subseteq woken'[a]
        BY <2>2 DEF FailPending, ClientTypes
      <3> QED BY <2>1, <2>2, <3>1, <3>2, <3>3 DEF Sound, ConnectSucceeded
    <2>4. ASSUME NEW b \in Accounts, b # a PROVE Sound(b)'
      BY <2>1, <2>2, <2>4, SoundKept DEF FailPending, ClientTypes
    <2> QED BY <2>3, <2>4
  <1>14. ASSUME NEW S \in SUBSET Accounts, Close(S), UNCHANGED tabVars
         PROVE  \A b \in Accounts : Sound(b)'
    <2>1. ASSUME NEW b \in S PROVE Sound(b)'
      <3>1. Connecting(b)' = Connecting(b) \ {Loop}
        BY <1>14, <2>1, ConstantFacts DEF Close, Connecting, tabVars, ConstantsOK
      <3>2. woken'[b] = woken[b] \ {Loop} /\ closing'[b] /\ failed'[b] = failed[b]
            /\ owner'[b] = owner[b] /\ ready'[b] = ready[b] /\ Sound(b)
        BY <1>14, <2>1 DEF Close
      <3> QED BY <3>1, <3>2 DEF Sound
    <2>2. ASSUME NEW b \in Accounts \ S PROVE Sound(b)'
      <3>1. Connecting(b)' = Connecting(b)
        BY <1>14, <2>2 DEF Close, Connecting, tabVars
      <3> QED BY <1>14, <2>2, <3>1, SoundKept DEF Close, ClientTypes
    <2> QED BY <2>1, <2>2
  <1>15. ASSUME NEW a \in Accounts, IdleExpires(a) PROVE \A b \in Accounts : Sound(b)'
    BY <1>14, <1>15 DEF IdleExpires
  <1>16. ASSUME Shutdown PROVE \A b \in Accounts : Sound(b)'
    BY <1>14, <1>16 DEF Shutdown
  <1>17. ASSUME UNCHANGED vars PROVE \A b \in Accounts : Sound(b)'
    BY <1>17, SoundKept DEF vars, clientVars, loopVars, tabVars, Connecting
  <1> QED BY <1>1, <1>2, <1>3, <1>4, <1>5, <1>6, <1>7, <1>8, <1>9, <1>10, <1>11, <1>12, <1>13,
             <1>15, <1>16, <1>17
          DEF Next, TabStep, AccountStep, ServerStep, Stopped

(* Attempts, wake-ups, future and event of a client always fit together:   *)
(* nobody takes an attempt for a success unless the client is connected.   *)
THEOREM ConnectorsAreSound == Spec => []ConnectorsSound
  <1> DEFINE Inv == TypeOK /\ Woken /\ \A a \in Accounts : Sound(a)
  <1>1. Init => Inv
    BY InitType, ConstantFacts DEF Init, Woken, Sound, Connecting, ConstantsOK
  <1>2. Inv /\ [Next]_vars => Inv'
    BY NextType, NextWoken, NextSound
  <1>3. Inv => ConnectorsSound
    BY SoundParts
  <1> QED BY <1>1, <1>2, <1>3, PTL DEF Spec

-----------------------------------------------------------------------------
(* What NeverStranded says of one account.                                 *)
Helped(a) ==
  MustRetry(a) =>
    \/ recon[a] # "none"
    \/ notices[a] > 0
    \/ \E t \in Tabs : at[t] = a /\ pc[t] \in {"lockwait", "connecting", "reporting"}

(* A step that leaves an account's connection, its helpers and their tabs  *)
(* alone, though tabs may leave it.                                        *)
LEMMA HelpedKept ==
  ASSUME NEW a \in Accounts, Helped(a), subs'[a] \subseteq subs[a], closing[a] => closing'[a],
         connected[a] => connected'[a], recon'[a] = recon[a], notices'[a] = notices[a],
         \A t \in Tabs : at[t] = a /\ pc[t] \in {"lockwait", "connecting", "reporting"}
                           => at'[t] = a /\ pc'[t] \in {"lockwait", "connecting", "reporting"}
  PROVE  Helped(a)'
  BY DEF Helped, MustRetry, MayRetry

LEMMA WithLockHelps ==
  ASSUME TypeOK, \A b \in Accounts : Helped(b), NEW a \in Accounts, NEW t \in Tabs,
         WithLock(a, t), at'[t] = a, \A u \in Tabs \ {t} : at'[u] = at[u],
         at[t] \in {a, None}, UNCHANGED <<recon, closing, notices>>,
         \A b \in Accounts \ {a} : subs'[b] = subs[b]
  PROVE  \A b \in Accounts : Helped(b)'
  <1>1. ASSUME NEW b \in Accounts, b # a PROVE Helped(b)'
    <2>1. UNCHANGED connected /\ \A u \in Tabs \ {t} : pc'[u] = pc[u]
      BY DEF WithLock, Connect, clientVars, TypeOK, TabTypes
    <2> QED BY <1>1, <2>1, ConstantFacts, HelpedKept DEF ConstantsOK
  <1>2. Helped(a)'
    <2>1. CASE connected[a] /\ UNCHANGED clientVars
      BY <2>1 DEF Helped, MustRetry, clientVars
    <2>2. CASE pc' = [pc EXCEPT ![t] = "connecting"]
      BY <2>2 DEF Helped, TypeOK, TabTypes
    <2> QED BY <2>1, <2>2 DEF WithLock
  <1> QED BY <1>1, <1>2

LEMMA NextHelped ==
  ASSUME TypeOK, Woken, \A a \in Accounts : Sound(a), \A a \in Accounts : Helped(a), [Next]_vars
  PROVE  \A a \in Accounts : Helped(a)'
  <1> USE DEF TypeOK
  <1>1. ASSUME NEW t \in Tabs, OpenTab(t) PROVE \A b \in Accounts : Helped(b)'
    <2>1. PICK a \in Accounts : at' = [at EXCEPT ![t] = a] /\ Attach(a, t)
      BY <1>1 DEF OpenTab
    <2>2. /\ at[t] = None /\ at'[t] = a /\ \A u \in Tabs \ {t} : at'[u] = at[u]
          /\ UNCHANGED <<recon, closing, notices>>
          /\ \A b \in Accounts \ {a} : subs'[b] = subs[b]
      BY <1>1, <2>1 DEF OpenTab, Attach, TabTypes, AccountTypes, loopVars
    <2>3. CASE WithLock(a, t)
      BY <2>2, <2>3, WithLockHelps
    <2>4. CASE UNCHANGED clientVars /\ pc' = [pc EXCEPT ![t] = "lockwait"]
      <3>1. Helped(a)'
        BY <2>2, <2>4 DEF Helped, TabTypes
      <3>2. ASSUME NEW b \in Accounts, b # a PROVE Helped(b)'
        BY <2>2, <2>4, <3>2, ConstantFacts, HelpedKept DEF TabTypes, clientVars, ConstantsOK
      <3> QED BY <3>1, <3>2
    <2> QED BY <2>1, <2>3, <2>4 DEF Attach
  <1>2. ASSUME NEW t \in Tabs, TakeLock(t) PROVE \A b \in Accounts : Helped(b)'
    BY <1>2, TabAccount, WithLockHelps DEF TakeLock, loopVars
  <1>3. ASSUME NEW t \in Tabs, ReportFailure(t) PROVE \A b \in Accounts : Helped(b)'
    <2>1. PICK a \in Accounts : a = at[t]
      BY <1>3, TabAccount DEF ReportFailure
    <2>2. Helped(a)'
      BY <1>3, <2>1
      DEF ReportFailure, ScheduleReconnect, Helped, MustRetry, MayRetry, LoopTypes, clientVars
    <2>3. ASSUME NEW b \in Accounts, b # a PROVE Helped(b)'
      BY <1>3, <2>1, <2>3, HelpedKept
      DEF ReportFailure, ScheduleReconnect, LoopTypes, TabTypes, clientVars
    <2> QED BY <2>2, <2>3
  <1>4. ASSUME NEW t \in Tabs, SendSnapshot(t) \/ SnapshotRaises(t) \/ TabGone(t)
        PROVE  \A b \in Accounts : Helped(b)'
    BY <1>4, HelpedKept DEF SendSnapshot, SnapshotRaises, TabGone, TabTypes, loopVars, clientVars
  <1>5. ASSUME NEW t \in Tabs, PumpEnds(t) \/ CommandRaises(t) PROVE \A b \in Accounts : Helped(b)'
    <2> SUFFICES ASSUME NEW b \in Accounts PROVE Helped(b)'
      OBVIOUS
    <2>1. subs'[b] \subseteq subs[b]
      <3>1. PICK a : a = at[t]
        OBVIOUS
      <3>2. subs' = [subs EXCEPT ![a] = @ \ {t}]
        BY <1>5, <3>1 DEF PumpEnds, CommandRaises, Detach
      <3> QED BY <3>2 DEF AccountTypes
    <2>2. \A u \in Tabs \ {t} : at'[u] = at[u] /\ pc'[u] = pc[u]
      BY <1>5 DEF PumpEnds, CommandRaises, Detach, TabTypes
    <2>3. pc[t] = "pump" /\ UNCHANGED <<closing, connected, recon, notices>>
      BY <1>5 DEF PumpEnds, CommandRaises, loopVars, clientVars
    <2> QED BY <2>1, <2>2, <2>3, HelpedKept
  <1>6. ASSUME NEW a \in Accounts, NEW t \in Tabs, BroadcastDiscards(a, t)
        PROVE  \A b \in Accounts : Helped(b)'
    BY <1>6, HelpedKept DEF BroadcastDiscards, AccountTypes, tabVars, loopVars, clientVars
  <1>7. ASSUME NEW a \in Accounts, NEW c \in Connectors, ConnectTimesOut(a, c)
        PROVE  \A b \in Accounts : Helped(b)'
    BY <1>7, HelpedKept DEF ConnectTimesOut, tabVars, loopVars
  <1>8. ASSUME NEW a \in Accounts, ResumeConnectors(a) PROVE \A b \in Accounts : Helped(b)'
    <2>1. ASSUME NEW b \in Accounts, b # a PROVE Helped(b)'
      <3>1. \A t \in Tabs : at[t] = b => t \notin woken[a]
        BY <2>1, ConstantFacts DEF Woken, Connecting, ConstantsOK
      <3> QED BY <1>8, <2>1, <3>1, HelpedKept DEF ResumeConnectors, LoopTypes, loopVars
    <2>2. Helped(a)'
      <3>1. CASE ConnectSucceeded(a) /\ ~closing[a]
        BY <1>8, <3>1 DEF ResumeConnectors, Sound, Helped, MustRetry
      <3>2. CASE closing[a]
        BY <1>8, <3>2 DEF ResumeConnectors, Helped, MustRetry, MayRetry
      <3>3. CASE ~ConnectSucceeded(a) /\ woken[a] \cap Tabs # {}
        <4>1. PICK t \in Tabs : t \in woken[a]
          BY <3>3
        <4>2. at'[t] = a /\ pc'[t] = "reporting"
          BY <1>8, <3>3, <4>1, ConstantFacts DEF ResumeConnectors, Woken, Connecting, ConstantsOK
        <4> QED BY <4>2 DEF Helped
      <3>4. CASE ~ConnectSucceeded(a) /\ woken[a] \cap Tabs = {}
        <4>1. Loop \in woken[a]
          BY <1>8, <3>4 DEF ResumeConnectors, ClientTypes, Connectors
        <4>2. MustRetry(a)' <=> MustRetry(a)
          BY <1>8 DEF ResumeConnectors, MustRetry, MayRetry
        <4> QED BY <1>8, <3>4, <4>1, <4>2 DEF ResumeConnectors, Helped, LoopTypes
      <3> QED BY <3>1, <3>2, <3>3, <3>4
    <2> QED BY <2>1, <2>2
  <1>9. ASSUME NEW a \in Accounts, ReconnectStarts(a) PROVE \A b \in Accounts : Helped(b)'
    <2>1. Helped(a)'
      BY <1>9 DEF ReconnectStarts, Helped, MustRetry, MayRetry, LoopTypes, clientVars
    <2>2. ASSUME NEW b \in Accounts, b # a PROVE Helped(b)'
      BY <1>9, <2>2, HelpedKept DEF ReconnectStarts, LoopTypes, tabVars, clientVars
    <2> QED BY <2>1, <2>2
  <1>10. ASSUME NEW a \in Accounts, ReconnectWakes(a) PROVE \A b \in Accounts : Helped(b)'
    <2>1. Helped(a)'
      BY <1>10 DEF ReconnectWakes, Helped, MustRetry, MayRetry, LoopTypes
    <2>2. ASSUME NEW b \in Accounts, b # a PROVE Helped(b)'
      <3>1. UNCHANGED connected
        BY <1>10 DEF ReconnectWakes, Connect, clientVars
      <3> QED BY <1>10, <2>2, <3>1, HelpedKept DEF ReconnectWakes, LoopTypes, tabVars
    <2> QED BY <2>1, <2>2
  <1>11. ASSUME NEW a \in Accounts, SessionStarts(a) \/ AuthFails(a)
         PROVE  \A b \in Accounts : Helped(b)'
    BY <1>11, HelpedKept DEF SessionStarts, AuthFails, tabVars, loopVars
  <1>12. ASSUME NEW a \in Accounts, RosterAnswered(a) \/ StaleRosterTimesOut(a)
         PROVE  \A b \in Accounts : Helped(b)'
    BY <1>12, HelpedKept
    DEF RosterAnswered, StaleRosterTimesOut, SessionReady, ClientTypes, tabVars, loopVars
  <1>13. ASSUME NEW a \in Accounts, StreamLost(a) PROVE \A b \in Accounts : Helped(b)'
    <2>1. CASE connected[a]
      <3>1. notices'[a] > 0
        BY <1>13, <2>1 DEF StreamLost, NoticesAfterLoss, AccountTypes
      <3>2. ASSUME NEW b \in Accounts, b # a PROVE Helped(b)'
        BY <1>13, <3>2, HelpedKept DEF StreamLost, ClientTypes, AccountTypes, tabVars, loopVars
      <3> QED BY <3>1, <3>2 DEF Helped
    <2>2. CASE ~connected[a]
      <3>1. UNCHANGED <<notices, connected>>
        BY <1>13, <2>2 DEF StreamLost, NoticesAfterLoss, AccountTypes, ClientTypes
      <3> QED BY <1>13, <3>1, HelpedKept DEF StreamLost, tabVars, loopVars
    <2> QED BY <2>1, <2>2 DEF ClientTypes
  <1>14. ASSUME NEW a \in Accounts, NoticeSent(a) PROVE \A b \in Accounts : Helped(b)'
    <2>1. Helped(a)'
      BY <1>14 DEF NoticeSent, ScheduleReconnect, Helped, MustRetry, MayRetry, LoopTypes, clientVars
    <2>2. ASSUME NEW b \in Accounts, b # a PROVE Helped(b)'
      BY <1>14, <2>2, HelpedKept
      DEF NoticeSent, ScheduleReconnect, LoopTypes, AccountTypes, tabVars, clientVars
    <2> QED BY <2>1, <2>2
  <1>15. ASSUME NEW S \in SUBSET Accounts, Close(S), UNCHANGED <<tabVars, subs, notices>>
         PROVE  \A b \in Accounts : Helped(b)'
    <2>1. ASSUME NEW b \in S PROVE Helped(b)'
      BY <1>15, <2>1 DEF Close, Helped, MustRetry, MayRetry
    <2>2. ASSUME NEW b \in Accounts \ S PROVE Helped(b)'
      BY <1>15, <2>2, HelpedKept DEF Close, tabVars
    <2> QED BY <2>1, <2>2
  <1>16. ASSUME NEW a \in Accounts, IdleExpires(a) PROVE \A b \in Accounts : Helped(b)'
    BY <1>15, <1>16 DEF IdleExpires
  <1>17. ASSUME Shutdown PROVE \A b \in Accounts : Helped(b)'
    BY <1>15, <1>17 DEF Shutdown
  <1>18. ASSUME UNCHANGED vars PROVE \A b \in Accounts : Helped(b)'
    BY <1>18, HelpedKept DEF vars, clientVars, loopVars, tabVars
  <1> QED BY <1>1, <1>2, <1>3, <1>4, <1>5, <1>6, <1>7, <1>8, <1>9, <1>10, <1>11, <1>12, <1>13,
             <1>14, <1>16, <1>17, <1>18
          DEF Next, TabStep, AccountStep, ServerStep, Stopped

(* While tabs are attached to an open account whose client is down,        *)
(* somebody is there who will bring the client back.                       *)
THEOREM NobodyIsStranded == Spec => []NeverStranded
  <1> DEFINE Inv == TypeOK /\ Woken /\ (\A a \in Accounts : Sound(a)) /\ (\A a \in Accounts : Helped(a))
  <1>1. Init => Inv
    BY InitType, ConstantFacts DEF Init, Woken, Sound, Connecting, Helped, MustRetry, MayRetry, ConstantsOK
  <1>2. Inv /\ [Next]_vars => Inv'
    BY NextType, NextWoken, NextSound, NextHelped
  <1>3. Inv => NeverStranded
    BY DEF Helped, NeverStranded
  <1> QED BY <1>1, <1>2, <1>3, PTL DEF Spec

-----------------------------------------------------------------------------
(* A closed account: no step gives it a reconnect task.                    *)
LEMMA NextClosed ==
  ASSUME TypeOK, Woken, ClosedStopsRetrying, [Next]_vars PROVE ClosedStopsRetrying'
  <1> USE DEF TypeOK, ClosedStopsRetrying
  <1>1. ASSUME NEW t \in Tabs, ReportFailure(t) PROVE ClosedStopsRetrying'
    <2>1. PICK a \in Accounts : a = at[t]
      BY <1>1, TabAccount DEF ReportFailure
    <2> QED BY <1>1, <2>1 DEF ReportFailure, ScheduleReconnect, MayRetry, LoopTypes
  <1>2. ASSUME NEW t \in Tabs, TabStep(t) \/ OpenTab(t) \/ TabGone(t) \/ CommandRaises(t), ~ReportFailure(t)
        PROVE  ClosedStopsRetrying'
    BY <1>2 DEF TabStep, OpenTab, TakeLock, SendSnapshot, SnapshotRaises, TabGone, PumpEnds, CommandRaises,
       loopVars
  <1>3. ASSUME NEW a \in Accounts, ResumeConnectors(a) PROVE ClosedStopsRetrying'
    BY <1>3 DEF ResumeConnectors, MustRetry, MayRetry, loopVars, LoopTypes
  <1>4. ASSUME NEW a \in Accounts, ReconnectStarts(a) \/ ReconnectWakes(a) \/ NoticeSent(a)
        PROVE  ClosedStopsRetrying'
    BY <1>4 DEF ReconnectStarts, ReconnectWakes, NoticeSent, ScheduleReconnect, MustRetry, MayRetry, LoopTypes
  <1>5. ASSUME NEW a \in Accounts, IdleExpires(a) PROVE ClosedStopsRetrying'
    BY <1>5 DEF IdleExpires, Close
  <1>6. ASSUME Shutdown PROVE ClosedStopsRetrying'
    BY <1>6 DEF Shutdown, Close
  <1>7. ASSUME NEW a \in Accounts, ServerStep(a) \/ AuthFails(a) \/ StreamLost(a)
               \/ (\E t \in Tabs : BroadcastDiscards(a, t)) \/ \E c \in Connectors : ConnectTimesOut(a, c)
        PROVE  ClosedStopsRetrying'
    BY <1>7 DEF ServerStep, SessionStarts, RosterAnswered, StaleRosterTimesOut, AuthFails, StreamLost,
       BroadcastDiscards, ConnectTimesOut, loopVars
  <1>8. ASSUME UNCHANGED vars PROVE ClosedStopsRetrying'
    BY <1>8 DEF vars, loopVars
  <1> QED BY <1>1, <1>2, <1>3, <1>4, <1>5, <1>6, <1>7, <1>8 DEF Next, AccountStep, Stopped

(* A closed account never gets a reconnect task.                           *)
THEOREM ClosedAccountsRest == Spec => []ClosedStopsRetrying
  <1> DEFINE Inv == TypeOK /\ Woken /\ ClosedStopsRetrying
  <1>1. Init => Inv
    BY InitType DEF Init, Woken, ClosedStopsRetrying
  <1>2. Inv /\ [Next]_vars => Inv'
    BY NextType, NextWoken, NextClosed
  <1> QED BY <1>1, <1>2, PTL DEF Spec

-----------------------------------------------------------------------------
(* The connect lock.                                                       *)

LEMMA LockKept ==
  ASSUME LockExclusive, UNCHANGED holder,
         \A t \in Tabs : pc'[t] \in {"connecting", "reporting"}
                           => pc[t] \in {"connecting", "reporting"} /\ at'[t] = at[t]
  PROVE  LockExclusive'
  BY DEF LockExclusive

LEMMA WithLockExclusive ==
  ASSUME TypeOK, LockExclusive, NEW a \in Accounts, NEW t \in Tabs, WithLock(a, t), holder[a] = None,
         at'[t] = a, \A u \in Tabs \ {t} : at'[u] = at[u]
  PROVE  LockExclusive'
  <1>1. \A u \in Tabs \ {t} : pc'[u] = pc[u]
    BY DEF WithLock, TypeOK, TabTypes
  <1>2. CASE pc' = [pc EXCEPT ![t] = "snapshot"] /\ UNCHANGED holder
    <2>1. pc'[t] = "snapshot"
      BY <1>2 DEF TypeOK, TabTypes
    <2> QED BY <1>1, <1>2, <2>1 DEF LockExclusive
  <1>3. CASE pc' = [pc EXCEPT ![t] = "connecting"] /\ holder' = [holder EXCEPT ![a] = t]
    <2> SUFFICES ASSUME NEW b \in Accounts, NEW u \in Tabs, at'[u] = b, pc'[u] \in {"connecting", "reporting"}
                 PROVE  holder'[b] = u
      BY DEF LockExclusive
    <2>1. CASE u = t
      BY <1>3, <2>1 DEF TypeOK, LockTypes
    <2>2. CASE u # t
      <3>1. holder[b] = u /\ u # None
        BY <1>1, <2>2, ConstantFacts DEF LockExclusive, ConstantsOK
      <3> QED BY <1>3, <3>1 DEF TypeOK, LockTypes
    <2> QED BY <2>1, <2>2
  <1> QED BY <1>2, <1>3 DEF WithLock

LEMMA NextExclusive ==
  ASSUME TypeOK, Woken, LockExclusive, [Next]_vars PROVE LockExclusive'
  <1> USE DEF TypeOK
  <1>1. ASSUME NEW t \in Tabs, OpenTab(t) PROVE LockExclusive'
    <2>1. PICK a \in Accounts : at' = [at EXCEPT ![t] = a] /\ Attach(a, t)
      BY <1>1 DEF OpenTab
    <2>2. at'[t] = a /\ \A u \in Tabs \ {t} : at'[u] = at[u]
      BY <2>1 DEF TabTypes
    <2>3. CASE WithLock(a, t) /\ ~Locked(a)
      BY <2>2, <2>3, WithLockExclusive DEF Locked
    <2>4. CASE pc' = [pc EXCEPT ![t] = "lockwait"] /\ UNCHANGED holder
      BY <2>2, <2>4, LockKept DEF TabTypes
    <2> QED BY <2>1, <2>3, <2>4 DEF Attach
  <1>2. ASSUME NEW t \in Tabs, TakeLock(t) PROVE LockExclusive'
    BY <1>2, TabAccount, WithLockExclusive DEF TakeLock
  <1>3. ASSUME NEW t \in Tabs, ReportFailure(t) PROVE LockExclusive'
    <2>1. holder[at[t]] = t /\ at[t] \in Accounts
      BY <1>3, TabAccount DEF ReportFailure, LockExclusive
    <2> QED BY <1>3, <2>1 DEF ReportFailure, Release, LockExclusive, TabTypes, LockTypes
  <1>4. ASSUME NEW t \in Tabs,
               SendSnapshot(t) \/ SnapshotRaises(t) \/ TabGone(t) \/ PumpEnds(t) \/ CommandRaises(t)
        PROVE  LockExclusive'
    BY <1>4, LockKept DEF SendSnapshot, SnapshotRaises, TabGone, PumpEnds, CommandRaises, Detach, TabTypes,
       lockVars
  <1>5. ASSUME NEW a \in Accounts, ResumeConnectors(a) PROVE LockExclusive'
    <2> SUFFICES ASSUME NEW b \in Accounts, NEW u \in Tabs, at'[u] = b, pc'[u] \in {"connecting", "reporting"}
                 PROVE  holder'[b] = u
      BY DEF LockExclusive
    <2>1. \A t \in Tabs : t \in woken[a] => pc[t] = "connecting" /\ at[t] = a
      BY ConstantFacts DEF Woken, Connecting, ConstantsOK
    <2>2. at[u] = b /\ pc[u] \in {"connecting", "reporting"}
      BY <1>5, <2>1 DEF ResumeConnectors
    <2>3. holder[b] = u
      BY <2>2 DEF LockExclusive
    <2>4. CASE woken[a] \cap Tabs # {} /\ ConnectSucceeded(a) /\ b = a
      <3>1. PICK t \in Tabs : t \in woken[a]
        BY <2>4
      <3>2. u = t
        BY <2>1, <2>3, <2>4, <3>1 DEF LockExclusive
      <3> QED BY <1>5, <2>4, <3>1, <3>2 DEF ResumeConnectors
    <2> QED BY <1>5, <2>3, <2>4 DEF ResumeConnectors, LockTypes
  <1>6. ASSUME NEW a \in Accounts,
               \/ ReconnectStarts(a) \/ ReconnectWakes(a) \/ NoticeSent(a) \/ ServerStep(a)
               \/ AuthFails(a) \/ StreamLost(a) \/ IdleExpires(a)
               \/ (\E t \in Tabs : BroadcastDiscards(a, t)) \/ \E c \in Connectors : ConnectTimesOut(a, c)
        PROVE  LockExclusive'
    BY <1>6, LockKept
    DEF ReconnectStarts, ReconnectWakes, NoticeSent, ServerStep, SessionStarts, RosterAnswered,
        StaleRosterTimesOut, AuthFails, StreamLost, IdleExpires, BroadcastDiscards, ConnectTimesOut,
        tabVars, lockVars
  <1>7. ASSUME Shutdown \/ UNCHANGED vars PROVE LockExclusive'
    BY <1>7, LockKept DEF Shutdown, vars, tabVars, lockVars
  <1> QED BY <1>1, <1>2, <1>3, <1>4, <1>5, <1>6, <1>7 DEF Next, TabStep, AccountStep, Stopped

(* Only the holder of the connect lock is inside ensure_connected.         *)
THEOREM LockIsExclusive == Spec => []LockExclusive
  <1> DEFINE Inv == TypeOK /\ Woken /\ LockExclusive
  <1>1. Init => Inv
    BY InitType DEF Init, Woken, LockExclusive
  <1>2. Inv /\ [Next]_vars => Inv'
    BY NextType, NextWoken, NextExclusive
  <1> QED BY <1>1, <1>2, PTL DEF Spec

(* LockHandedOn: the holder is inside, and the queue has those who wait.   *)
Inside(t)  == pc[t] \in {"connecting", "reporting"}
Waits(t)   == pc[t] = "lockwait"
Held(a)    == holder[a] # None => at[holder[a]] = a /\ Inside(holder[a])
Queued(a)  ==
  /\ \A t \in Tabs : at[t] = a /\ Waits(t) <=> \E i \in DOMAIN queue[a] : queue[a][i] = t
  /\ \A i, j \in DOMAIN queue[a] : queue[a][i] = queue[a][j] => i = j

LEMMA HandedOnParts == LockHandedOn <=> \A a \in Accounts : Held(a) /\ Queued(a)
  BY DEF LockHandedOn, Held, Queued, Inside, Waits

LEMMA HeldKept ==
  ASSUME TypeOK, NEW a \in Accounts, Held(a), holder'[a] = holder[a],
         \A t \in Tabs : Inside(t) => Inside(t)' /\ at'[t] = at[t]
  PROVE  Held(a)'
  BY DEF Held, TypeOK, LockTypes

LEMMA QueuedKept ==
  ASSUME NEW a \in Accounts, Queued(a), queue'[a] = queue[a],
         \A t \in Tabs : (at'[t] = a /\ Waits(t)') <=> (at[t] = a /\ Waits(t))
  PROVE  Queued(a)'
  BY DEF Queued

LEMMA AppendedTab ==
  ASSUME NEW q \in Seq(Tabs), NEW t \in Tabs
  PROVE  /\ DOMAIN Append(q, t) = DOMAIN q \cup {Len(q) + 1}
         /\ Len(q) + 1 \notin DOMAIN q
         /\ Append(q, t)[Len(q) + 1] = t
         /\ \A i \in DOMAIN q : Append(q, t)[i] = q[i]
  OBVIOUS

(* Whoever comes next in the queue leaves it, the others move up.          *)
LEMMA RestOfQueue ==
  ASSUME NEW q \in Seq(Tabs), q # << >>,
         \A i, j \in DOMAIN q : q[i] = q[j] => i = j
  PROVE  /\ \A i, j \in DOMAIN Tail(q) : Tail(q)[i] = Tail(q)[j] => i = j
         /\ \A t \in Tabs : (\E i \in DOMAIN Tail(q) : Tail(q)[i] = t)
                              <=> t # Head(q) /\ \E i \in DOMAIN q : q[i] = t
  <1>1. /\ Len(q) \in Nat \ {0} /\ DOMAIN q = 1..Len(q) /\ Head(q) = q[1]
        /\ DOMAIN Tail(q) = 1..(Len(q) - 1)
        /\ \A i \in DOMAIN Tail(q) : i + 1 \in DOMAIN q /\ Tail(q)[i] = q[i + 1]
    OBVIOUS
  <1>2. ASSUME NEW i \in DOMAIN Tail(q), NEW j \in DOMAIN Tail(q), Tail(q)[i] = Tail(q)[j]
        PROVE  i = j
    <2>1. i + 1 = j + 1
      BY <1>1, <1>2
    <2> QED BY <1>1, <2>1
  <1>3. ASSUME NEW t \in Tabs, NEW i \in DOMAIN Tail(q), Tail(q)[i] = t
        PROVE  t # Head(q) /\ \E k \in DOMAIN q : q[k] = t
    <2>1. i + 1 \in DOMAIN q /\ q[i + 1] = t /\ i + 1 # 1 /\ 1 \in DOMAIN q
      BY <1>1, <1>3
    <2> QED BY <1>1, <2>1
  <1>4. ASSUME NEW t \in Tabs, t # Head(q), NEW i \in DOMAIN q, q[i] = t
        PROVE  \E k \in DOMAIN Tail(q) : Tail(q)[k] = t
    <2>1. i - 1 \in DOMAIN Tail(q) /\ (i - 1) + 1 = i
      BY <1>1, <1>4
    <2> QED BY <1>1, <1>4, <2>1
  <1> QED BY <1>2, <1>3, <1>4

(* A tab that was outside and gets the lock in hand.                       *)
LEMMA WithLockHeld ==
  ASSUME TypeOK, NEW a \in Accounts, NEW t \in Tabs, WithLock(a, t), ~Inside(t), holder[a] = None,
         at'[t] = a, \A u \in Tabs \ {t} : at'[u] = at[u],
         NEW b \in Accounts, Held(b)
  PROVE  Held(b)'
  <1> USE DEF TypeOK, TabTypes, LockTypes, Inside
  <1>1. \A u \in Tabs \ {t} : pc'[u] = pc[u] /\ at'[u] = at[u]
    BY DEF WithLock
  <1>2. CASE holder'[b] = holder[b]
    BY <1>1, <1>2 DEF Held
  <1>3. CASE holder'[b] # holder[b]
    <2>1. b = a /\ holder'[b] = t /\ pc'[t] = "connecting"
      BY <1>3 DEF WithLock
    <2> QED BY <2>1 DEF Held
  <1> QED BY <1>2, <1>3

LEMMA NextHanded ==
  ASSUME TypeOK, Woken, LockExclusive, [Next]_vars, NEW a \in Accounts, Held(a), Queued(a)
  PROVE  Held(a)' /\ Queued(a)'
  <1> USE DEF TypeOK
  <1>0. ASSUME UNCHANGED lockVars,
               \A t \in Tabs : at'[t] = at[t] \/ ~(Inside(t) \/ Waits(t) \/ Waits(t)'),
               \A t \in Tabs : Inside(t) => Inside(t)',
               \A t \in Tabs : Waits(t)' <=> Waits(t)
        PROVE  Held(a)' /\ Queued(a)'
    BY <1>0, HeldKept, QueuedKept DEF lockVars, Inside, Waits
  <1>1. ASSUME NEW t \in Tabs, OpenTab(t) PROVE Held(a)' /\ Queued(a)'
    <2>1. PICK b \in Accounts : at' = [at EXCEPT ![t] = b] /\ Attach(b, t)
      BY <1>1 DEF OpenTab
    <2>2. /\ at'[t] = b /\ \A u \in Tabs \ {t} : at'[u] = at[u]
          /\ ~Inside(t) /\ ~Waits(t)
      BY <1>1, <2>1 DEF TabTypes, OpenTab, Inside, Waits
    <2>3. CASE WithLock(b, t) /\ ~Locked(b) /\ UNCHANGED queue
      <3>1. Held(a)'
        BY <2>2, <2>3, WithLockHeld DEF Locked
      <3>2. \A u \in Tabs : Waits(u)' <=> Waits(u)
        BY <2>2, <2>3 DEF WithLock, Waits, TabTypes
      <3> QED BY <2>2, <2>3, <3>1, <3>2, QueuedKept
    <2>4. CASE /\ pc' = [pc EXCEPT ![t] = "lockwait"] /\ UNCHANGED holder
               /\ queue' = [queue EXCEPT ![b] = Append(@, t)]
      <3>1. Held(a)'
        BY <2>2, <2>4, HeldKept DEF Inside, TabTypes
      <3>2. \A u \in Tabs : Waits(u)' <=> Waits(u) \/ u = t
        BY <2>2, <2>4 DEF Waits, TabTypes
      <3>3. CASE a # b
        BY <2>2, <2>4, <3>1, <3>2, <3>3, QueuedKept DEF LockTypes
      <3>4. CASE a = b
        <4>1. queue[a] \in Seq(Tabs) /\ queue'[a] = Append(queue[a], t)
          BY <2>4, <3>4 DEF LockTypes
        <4>2. ~\E i \in DOMAIN queue[a] : queue[a][i] = t
          BY <2>2 DEF Queued
        <4>3. \A u \in Tabs : (\E i \in DOMAIN queue'[a] : queue'[a][i] = u)
                                <=> u = t \/ \E i \in DOMAIN queue[a] : queue[a][i] = u
          BY <4>1, AppendedTab
        <4>4. \A i, j \in DOMAIN queue'[a] : queue'[a][i] = queue'[a][j] => i = j
          BY <4>1, <4>2, AppendedTab DEF Queued
        <4>5. \A u \in Tabs : at'[u] = a /\ Waits(u)' <=> u = t \/ (at[u] = a /\ Waits(u))
          BY <2>2, <3>2, <3>4
        <4>6. \A u \in Tabs : at[u] = a /\ Waits(u) <=> \E i \in DOMAIN queue[a] : queue[a][i] = u
          BY DEF Queued
        <4>7. \A u \in Tabs : at'[u] = a /\ Waits(u)'
                                <=> \E i \in DOMAIN queue'[a] : queue'[a][i] = u
          BY <4>3, <4>5, <4>6
        <4> QED BY <3>1, <4>4, <4>7 DEF Queued
      <3> QED BY <3>3, <3>4
    <2> QED BY <2>1, <2>3, <2>4 DEF Attach
  <1>2. ASSUME NEW t \in Tabs, TakeLock(t) PROVE Held(a)' /\ Queued(a)'
    <2>1. PICK b \in Accounts : /\ b = at[t] /\ WithLock(b, t) /\ holder[b] = None
                                /\ queue[b] # << >> /\ Head(queue[b]) = t
                                /\ queue' = [queue EXCEPT ![b] = Tail(@)]
      BY <1>2, TabAccount DEF TakeLock
    <2>2. UNCHANGED at /\ Waits(t) /\ ~Inside(t)
      BY <1>2 DEF TakeLock, Waits, Inside
    <2>3. Held(a)'
      BY <2>1, <2>2, WithLockHeld
    <2>4. \A u \in Tabs : Waits(u)' <=> Waits(u) /\ u # t
      BY <2>1 DEF WithLock, Waits, TabTypes
    <2>5. CASE a # b
      BY <2>1, <2>2, <2>3, <2>4, <2>5, QueuedKept DEF LockTypes
    <2>6. CASE a = b
      <3>1. queue[a] \in Seq(Tabs) /\ queue'[a] = Tail(queue[a])
        BY <2>1, <2>6 DEF LockTypes
      <3>2. /\ \A i, j \in DOMAIN queue'[a] : queue'[a][i] = queue'[a][j] => i = j
            /\ \A u \in Tabs : (\E i \in DOMAIN queue'[a] : queue'[a][i] = u)
                                 <=> u # t /\ \E i \in DOMAIN queue[a] : queue[a][i] = u
        <4>1. \A i, j \in DOMAIN queue[a] : queue[a][i] = queue[a][j] => i = j
          BY DEF Queued
        <4>2. PICK q : q = queue[a]
          OBVIOUS
        <4>3. /\ q \in Seq(Tabs) /\ q # << >> /\ Head(q) = t
              /\ \A i, j \in DOMAIN q : q[i] = q[j] => i = j
          BY <2>1, <2>6, <3>1, <4>1, <4>2
        <4>4. /\ \A i, j \in DOMAIN Tail(q) : Tail(q)[i] = Tail(q)[j] => i = j
              /\ \A u \in Tabs : (\E i \in DOMAIN Tail(q) : Tail(q)[i] = u)
                                   <=> u # t /\ \E i \in DOMAIN q : q[i] = u
          BY <4>3, RestOfQueue
        <4>5. PICK p : p = Tail(q)
          OBVIOUS
        <4>6. queue'[a] = p
          BY <3>1, <4>2, <4>5
        <4>7. /\ \A i, j \in DOMAIN p : p[i] = p[j] => i = j
              /\ \A u \in Tabs : (\E i \in DOMAIN p : p[i] = u)
                                   <=> u # t /\ \E i \in DOMAIN q : q[i] = u
          BY <4>4, <4>5
        <4> QED BY <4>2, <4>6, <4>7
      <3> QED BY <2>2, <2>3, <2>4, <3>2 DEF Queued
    <2> QED BY <2>5, <2>6
  <1>3. ASSUME NEW t \in Tabs, ReportFailure(t) PROVE Held(a)' /\ Queued(a)'
    <2>1. PICK b \in Accounts : b = at[t] /\ holder' = [holder EXCEPT ![b] = None]
      BY <1>3, TabAccount DEF ReportFailure, Release
    <2>2. UNCHANGED <<at, queue>> /\ pc[t] = "reporting" /\ pc' = [pc EXCEPT ![t] = "snapshot"]
      BY <1>3 DEF ReportFailure
    <2>3. Held(a)'
      BY <2>1, <2>2 DEF Held, Inside, LockTypes, TabTypes
    <2>4. \A u \in Tabs : Waits(u)' <=> Waits(u)
      BY <2>2 DEF Waits, TabTypes
    <2> QED BY <2>2, <2>3, <2>4, QueuedKept
  <1>4. ASSUME NEW t \in Tabs,
               SendSnapshot(t) \/ SnapshotRaises(t) \/ TabGone(t) \/ PumpEnds(t) \/ CommandRaises(t)
        PROVE  Held(a)' /\ Queued(a)'
    BY <1>0, <1>4 DEF SendSnapshot, SnapshotRaises, TabGone, PumpEnds, CommandRaises, Detach, TabTypes,
       lockVars, Inside, Waits
  <1>5. ASSUME NEW b \in Accounts, ResumeConnectors(b) PROVE Held(a)' /\ Queued(a)'
    <2>1. \A t \in Tabs : t \in woken[b] => pc[t] = "connecting" /\ at[t] = b
      BY ConstantFacts DEF Woken, Connecting, ConstantsOK
    <2>2. /\ UNCHANGED <<at, queue>>
          /\ \A t \in Tabs : Waits(t)' <=> Waits(t)
      BY <1>5, <2>1 DEF ResumeConnectors, Waits
    <2>3. Held(a)'
      <3>1. CASE a = b /\ woken[b] \cap Tabs # {} /\ ConnectSucceeded(b)
        BY <1>5, <3>1 DEF ResumeConnectors, Held, LockTypes
      <3>2. CASE a # b
        <4>1. holder'[a] = holder[a] /\ \A t \in Tabs : at[t] = a => pc'[t] = pc[t]
          BY <1>5, <2>1, <3>2 DEF ResumeConnectors, LockTypes
        <4> QED BY <2>2, <4>1 DEF Held, Inside, LockTypes
      <3>3. CASE a = b /\ ~(woken[b] \cap Tabs # {} /\ ConnectSucceeded(b))
        <4>1. holder'[a] = holder[a]
          BY <1>5, <3>3 DEF ResumeConnectors, LockTypes
        <4>2. \A t \in Tabs : Inside(t) => Inside(t)'
          BY <1>5, <3>3 DEF ResumeConnectors, Inside
        <4> QED BY <2>2, <4>1, <4>2, HeldKept
      <3> QED BY <3>1, <3>2, <3>3
    <2> QED BY <2>2, <2>3, QueuedKept
  <1>6. ASSUME NEW b \in Accounts,
               \/ ReconnectStarts(b) \/ ReconnectWakes(b) \/ NoticeSent(b) \/ ServerStep(b)
               \/ AuthFails(b) \/ StreamLost(b) \/ IdleExpires(b)
               \/ (\E t \in Tabs : BroadcastDiscards(b, t)) \/ \E c \in Connectors : ConnectTimesOut(b, c)
        PROVE  Held(a)' /\ Queued(a)'
    <2>1. UNCHANGED <<lockVars, at, pc>>
      BY <1>6
      DEF ReconnectStarts, ReconnectWakes, NoticeSent, ServerStep, SessionStarts, RosterAnswered,
          StaleRosterTimesOut, AuthFails, StreamLost, IdleExpires, BroadcastDiscards, ConnectTimesOut,
          tabVars
    <2> QED BY <1>0, <2>1 DEF Inside, Waits
  <1>7. ASSUME Shutdown \/ UNCHANGED vars PROVE Held(a)' /\ Queued(a)'
    <2>1. UNCHANGED <<lockVars, at, pc>>
      BY <1>7 DEF Shutdown, vars, tabVars
    <2> QED BY <1>0, <2>1 DEF Inside, Waits
  <1> QED BY <1>1, <1>2, <1>3, <1>4, <1>5, <1>6, <1>7 DEF Next, TabStep, AccountStep, Stopped

(* The connect lock is never lost (account.py:93): it is held by a tab that*)
(* is inside, and each tab that waits for it has its place in the queue.   *)
THEOREM LockGoesOn == Spec => []LockHandedOn
  <1> DEFINE Inv == TypeOK /\ Woken /\ LockExclusive /\ LockHandedOn
  <1>1. Init => Inv
    BY InitType DEF Init, Woken, LockExclusive, LockHandedOn
  <1>2. Inv /\ [Next]_vars => Inv'
    <2>1. Inv /\ [Next]_vars => \A a \in Accounts : Held(a)' /\ Queued(a)'
      BY NextHanded, HandedOnParts
    <2>2. LockHandedOn' <=> \A a \in Accounts : Held(a)' /\ Queued(a)'
      BY DEF LockHandedOn, Held, Queued, Inside, Waits
    <2> QED BY <2>1, <2>2, NextType, NextWoken, NextExclusive
  <1> QED BY <1>1, <1>2, PTL DEF Spec

-----------------------------------------------------------------------------
(* The backoff.                                                            *)

LEMMA BackoffStep ==
  ASSUME Factor > 1, NEW d \in Nat, d > 0 \/ MaxDelay = 0
  PROVE  /\ Backoff(d) \in Nat
         /\ Backoff(d) > 0 \/ MaxDelay = 0
         /\ Backoff(d) > d \/ Backoff(d) = MaxDelay
  <1>1. d \in Nat /\ Factor \in Nat /\ MaxDelay \in Nat
    BY ConstantFacts DEF ConstantsOK
  <1>2. d * Factor = d * (Factor - 1) + d
    BY <1>1
  <1>3. d * (Factor - 1) \in Nat /\ d * Factor \in Nat
    BY <1>1
  <1>4. d > 0 => d * (Factor - 1) > 0
    BY <1>1
  <1> QED BY <1>1, <1>2, <1>3, <1>4 DEF Backoff

(* A loop that sleeps or connects has a delay, unless max_seconds is 0.    *)
Delayed ==
  \A a \in Accounts :
    recon[a] \in {"sleeping", "connecting"} => delay[a] > 0 \/ MaxDelay = 0

LEMMA NextDelay ==
  ASSUME InitialDelay > 0, Factor > 1, TypeOK, Woken, Delayed, [Next]_vars
  PROVE  /\ Delayed'
         /\ \A a \in Accounts : recon[a] = "connecting" /\ recon'[a] = "sleeping"
                                 => delay'[a] > delay[a] \/ delay'[a] = MaxDelay
  <1> DEFINE Grows == \A a \in Accounts : recon[a] = "connecting" /\ recon'[a] = "sleeping"
                                            => delay'[a] > delay[a] \/ delay'[a] = MaxDelay
  <1> USE DEF TypeOK, Delayed, LoopTypes
  <1>1. ASSUME NEW a \in Accounts, ResumeConnectors(a) PROVE Delayed' /\ Grows
    <2>1. /\ delay[a] \in Nat
          /\ Loop \in woken[a] => recon[a] = "connecting" /\ (delay[a] > 0 \/ MaxDelay = 0)
      BY ConstantFacts DEF Woken, Connecting, ConstantsOK
    <2>2. Loop \in woken[a] => /\ Backoff(delay[a]) > 0 \/ MaxDelay = 0
                               /\ Backoff(delay[a]) > delay[a] \/ Backoff(delay[a]) = MaxDelay
      BY <2>1, BackoffStep
    <2>3. \A b \in Accounts \ {a} : recon'[b] = recon[b] /\ delay'[b] = delay[b]
      BY <1>1 DEF ResumeConnectors, loopVars
    <2>4. \/ recon'[a] = recon[a] /\ delay'[a] = delay[a]
          \/ recon'[a] = "none"
          \/ Loop \in woken[a] /\ delay'[a] = Backoff(delay[a])
      BY <1>1 DEF ResumeConnectors, loopVars
    <2> QED BY <2>2, <2>3, <2>4
  <1>2. ASSUME NEW a \in Accounts, ReconnectStarts(a) \/ ReconnectWakes(a) \/ NoticeSent(a)
        PROVE  Delayed' /\ Grows
    BY <1>2 DEF ReconnectStarts, ReconnectWakes, NoticeSent, ScheduleReconnect
  <1>3. ASSUME NEW t \in Tabs, ReportFailure(t) PROVE Delayed' /\ Grows
    <2>1. PICK a \in Accounts : a = at[t]
      BY <1>3, TabAccount DEF ReportFailure
    <2> QED BY <1>3, <2>1 DEF ReportFailure, ScheduleReconnect
  <1>4. ASSUME NEW t \in Tabs, TabStep(t) \/ OpenTab(t) \/ TabGone(t) \/ CommandRaises(t), ~ReportFailure(t)
        PROVE  Delayed' /\ Grows
    BY <1>4 DEF TabStep, OpenTab, TakeLock, SendSnapshot, SnapshotRaises, TabGone, PumpEnds, CommandRaises,
       loopVars
  <1>5. ASSUME NEW S \in SUBSET Accounts, Close(S) PROVE Delayed' /\ Grows
    BY <1>5 DEF Close
  <1>6. ASSUME Shutdown \/ \E a \in Accounts : IdleExpires(a) PROVE Delayed' /\ Grows
    BY <1>5, <1>6 DEF IdleExpires, Shutdown
  <1>7. ASSUME NEW a \in Accounts, ServerStep(a) \/ AuthFails(a) \/ StreamLost(a)
               \/ (\E t \in Tabs : BroadcastDiscards(a, t)) \/ \E c \in Connectors : ConnectTimesOut(a, c)
        PROVE  Delayed' /\ Grows
    BY <1>7 DEF ServerStep, SessionStarts, RosterAnswered, StaleRosterTimesOut, AuthFails, StreamLost,
       BroadcastDiscards, ConnectTimesOut, loopVars
  <1>8. ASSUME UNCHANGED vars PROVE Delayed' /\ Grows
    BY <1>8 DEF vars, loopVars
  <1> QED BY <1>1, <1>2, <1>3, <1>4, <1>6, <1>7, <1>8 DEF Next, AccountStep, Stopped

(* With initial_seconds positive and a factor above 1 every failed attempt *)
(* lengthens the next wait or makes it max_seconds (account.py:126).       *)
THEOREM WaitsGrow == ASSUME InitialDelay > 0, Factor > 1 PROVE Spec => BackoffGrows
  <1> DEFINE Inv == TypeOK /\ Woken /\ Delayed
  <1>1. Init => Inv
    BY InitType DEF Init, Woken, Delayed
  <1>2. Inv /\ [Next]_vars => Inv'
    BY NextType, NextWoken, NextDelay
  <1>3. Inv /\ [Next]_vars =>
          [\A a \in Accounts : recon[a] = "connecting" /\ recon'[a] = "sleeping"
             => delay'[a] > delay[a] \/ delay'[a] = MaxDelay]_vars
    BY NextDelay
  <1> QED BY <1>1, <1>2, <1>3, PTL DEF Spec, BackoffGrows

=============================================================================
