---------------------------- MODULE MCConversation ----------------------------
(* Instances of Conversation for TLC: two colleagues act as one JID.       *)
EXTENDS Conversation

Helpdesk  == [alice |-> "desk", carol |-> "desk", dave |-> "dave"]
Passwords == [desk |-> "secret"]
Names     == [X_User |-> "x_user", x_user |-> "x_user"]

Proxied(u, o) == [origin |-> o, headers |-> [x_user |-> u], user |-> ""]

(* A colleague, one without a password, a page of somebody else or none,   *)
(* and one that did not come through the proxy.                            *)
Handshakes == {Proxied("alice", "home"), Proxied("dave", "home"),
               Proxied("alice", "elsewhere"), Proxied("carol", ""),
               [origin |-> "home", headers |-> [k \in {} |-> ""], user |-> "alice"]}

=============================================================================
