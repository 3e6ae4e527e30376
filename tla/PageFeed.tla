-------------------------------- MODULE PageFeed --------------------------------
(***************************************************************************)
(* What the broadcasts of an account promise to its pages, with no socket, *)
(* task or suspension in sight: a page that is in line has a queue of its  *)
(* own.  Every frame enters all queues at once, with the state it carries  *)
(* in the caches, and leaves each of them from the front; a page changes   *)
(* by the frame it takes, or by a replay of what is cached at that moment, *)
(* and by nothing else.  Nothing is promised to a page that is not in      *)
(* line.  Presence implements this.                                        *)
(***************************************************************************)
EXTENDS Naturals

CONSTANTS
  Tabs, Contacts,
  Pages,  \* what a page may show of the contacts
  Frames  \* a show of one contact, or the contacts of the roster

VARIABLES
  presence, roster,  \* the caches of the account
  view,              \* the contact list of each page in line
  due,               \* the numbered frames in its queue
  next               \* the number of the next frame

feedVars == <<presence, roster, view, due, next>>

InLine == DOMAIN view

Init ==
  /\ presence = [c \in Contacts |-> "unknown"]
  /\ roster = {}
  /\ view = [t \in {} |-> {}]
  /\ due = view
  /\ next = 0

(* A show replaces the one before, a roster adds contacts.                 *)
Apply(p, f) ==
  IF f.type = "presence" THEN [p EXCEPT ![f.jid] = f.show]
  ELSE [c \in Contacts |-> IF c \in f.contacts /\ p[c] = "unknown" THEN "offline" ELSE p[c]]

Cache(f) ==
  IF f.type = "presence"
  THEN presence' = [presence EXCEPT ![f.jid] = f.show] /\ UNCHANGED roster
  ELSE roster' = f.contacts /\ UNCHANGED presence

(* A frame enters every queue, and may be through an empty one at once.    *)
Publish(f) ==
  /\ Cache(f)
  /\ next' = next + 1
  /\ \E now \in SUBSET {t \in InLine : due[t] = {}} :
       /\ view' = [t \in InLine |-> IF t \in now THEN Apply(view[t], f) ELSE view[t]]
       /\ due' = [t \in InLine |-> IF t \in now THEN {}
                                   ELSE due[t] \cup {[number |-> next, frame |-> f]}]

(* Numbers may start again when nothing is due.                            *)
NumbersGoOn == next' = next \/ (next' = 0 /\ \A t \in DOMAIN due' : due'[t] = {})

(* A page takes the frame that waits longest.                              *)
Deliver(t) ==
  \E d \in due[t] :
    /\ \A e \in due[t] : d.number <= e.number
    /\ view' = [view EXCEPT ![t] = Apply(@, d.frame)]
    /\ due' = [due EXCEPT ![t] = @ \ {d}]
    /\ NumbersGoOn
    /\ UNCHANGED <<presence, roster>>

(* A late page gets the roster, and contact by contact what is known.      *)
Replay(t) ==
  /\ \/ view' = [view EXCEPT ![t] = Apply(@, [type |-> "roster", contacts |-> roster])]
     \/ \E c \in Contacts : /\ presence[c] # "unknown"
                            /\ view' = [view EXCEPT ![t] = [@ EXCEPT ![c] = presence[c]]]
  /\ UNCHANGED <<presence, roster, due, next>>

(* A page, with whatever it has, comes into line when nothing is due.      *)
Enter(t) ==
  /\ t \notin InLine
  /\ \A u \in InLine : due[u] = {}
  /\ \E p \in Pages : view' = [u \in InLine \cup {t} |-> IF u = t THEN p ELSE view[u]]
  /\ due' = [u \in InLine \cup {t} |-> {}]
  /\ UNCHANGED <<presence, roster, next>>

(* Pages close, or get out of line.                                        *)
Drop(ts) ==
  /\ view' = [t \in InLine \ ts |-> view[t]]
  /\ due' = [t \in InLine \ ts |-> due[t]]
  /\ UNCHANGED <<presence, roster, next>>

Renumber ==
  /\ NumbersGoOn
  /\ UNCHANGED <<presence, roster, view, due>>

Next ==
  \/ \E f \in Frames : Publish(f)
  \/ \E t \in InLine : Deliver(t) \/ Replay(t)
  \/ \E t \in Tabs : Enter(t)
  \/ \E ts \in SUBSET InLine : Drop(ts)
  \/ Renumber

Spec == Init /\ [][Next]_feedVars

=============================================================================
