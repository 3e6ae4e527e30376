---------------------------- MODULE MCAccountSession ----------------------------
(* Instances of AccountSession for TLC.                                    *)
EXTENDS AccountSession, TLC

(* Several users of one JID ("helpdesk mode").                             *)
SharedJid == [t \in Tabs |-> CHOOSE j \in JIDs : TRUE]

(* One tab has a JID of its own, the others share another.                 *)
MixedJids ==
  LET u == CHOOSE t \in Tabs : TRUE
      j == CHOOSE k \in JIDs : TRUE
  IN  [t \in Tabs |-> IF t = u THEN j ELSE CHOOSE k \in JIDs : k # j]

(* Account objects are interchangeable, and so are the tabs of one JID.    *)
AccountSymmetry == Permutations(Accounts)
Symmetry        == Permutations(Tabs) \cup AccountSymmetry

=============================================================================
