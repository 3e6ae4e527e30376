---------------------------- MODULE SharedSession ----------------------------
(***************************************************************************)
(* What the session layer promises to the web layer, with no connection,   *)
(* task or timer in sight: a JID has at most one session, a tab joins the  *)
(* session of its JID, and a session ends only when no tab is attached to  *)
(* it, or with the process.  AccountSession implements this.               *)
(***************************************************************************)
CONSTANTS Tabs, JIDs, TabJid

VARIABLES
  accepting,  \* the process still takes new tabs
  open,       \* the JIDs that have a session
  attached    \* the tabs attached to the session of a JID

sessionVars == <<accepting, open, attached>>

Init ==
  /\ accepting = TRUE
  /\ open = {}
  /\ attached = [j \in JIDs |-> {}]

(* A tab attaches; the first one opens the session.                        *)
Join(t) ==
  /\ accepting
  /\ t \notin attached[TabJid[t]]
  /\ open' = open \cup {TabJid[t]}
  /\ attached' = [attached EXCEPT ![TabJid[t]] = @ \cup {t}]
  /\ UNCHANGED accepting

(* A tab leaves, or is found dead by a broadcast.                          *)
Leave(t) ==
  /\ t \in attached[TabJid[t]]
  /\ attached' = [attached EXCEPT ![TabJid[t]] = @ \ {t}]
  /\ UNCHANGED <<accepting, open>>

(* The idle period of a session nobody is attached to is over.             *)
Expire(j) ==
  /\ j \in open
  /\ attached[j] = {}
  /\ open' = open \ {j}
  /\ UNCHANGED <<accepting, attached>>

(* The process stops.                                                      *)
ShutDown ==
  /\ accepting' = FALSE
  /\ open' = {}
  /\ attached' = [j \in JIDs |-> {}]

Next ==
  \/ \E t \in Tabs : Join(t) \/ Leave(t)
  \/ \E j \in JIDs : Expire(j)
  \/ ShutDown

Spec == Init /\ [][Next]_sessionVars

=============================================================================
