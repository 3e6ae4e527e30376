-------------------------------- MODULE Identity --------------------------------
(***************************************************************************)
(* Who may open a socket and which frames it may send: auth.py,            *)
(* web/security.py (the origin) and the inbound half of protocol.py.       *)
(*                                                                         *)
(* "" stands for an absent or empty text, which the code treats alike. A   *)
(* request is [origin, headers, user]: headers is a function on the names  *)
(* it carries, user the ?user= of the address.                             *)
(***************************************************************************)
EXTENDS Naturals, Sequences

CONSTANTS
  Mode,           \* auth.mode: "proxy" or "dev"
  AuthHeader,     \* auth.header
  DefaultUser,    \* auth.dev_default_user
  AllowedOrigins, \* server.allowed_origins, {} for any
  Users,          \* the users file: user name to bare JID
  Credentials,    \* the credentials file: bare JID to password
  Lower           \* header names in lower case

ASSUME ModeAssumption == Mode \in {"proxy", "dev"}
ASSUME UsersAssumption == "" \notin {Users[u] : u \in DOMAIN Users}

(* Mutant: a request without an origin is no cross-site one. *)
OriginAllowedIfAbsent(o) == AllowedOrigins = {} \/ o = "" \/ o \in AllowedOrigins

OriginAllowed(o) == AllowedOrigins = {} \/ (o # "" /\ o \in AllowedOrigins)

Spellings(headers, name) == {k \in DOMAIN headers : Lower[k] = Lower[name]}

(* The user name the request is trusted to have, "" for an AuthError. Of   *)
(* several spellings of the header the code takes the last one; no property*)
(* depends on which.                                                       *)
ExtractUsername(r) ==
  IF Mode = "dev" THEN IF r.user # "" THEN r.user ELSE DefaultUser
  ELSE LET ks == Spellings(r.headers, AuthHeader) IN
       IF ks = {} THEN "" ELSE r.headers[CHOOSE k \in ks : TRUE]

(* The JID it acts as, "" for an AuthError.                                *)
Resolve(u) ==
  IF u \in DOMAIN Users \ {""} /\ Users[u] \in DOMAIN Credentials THEN Users[u] ELSE ""

CLIENT_TYPES == {"send_message", "load_history", "set_presence", "join_room", "leave_room",
                 "send_muc", "add_contact", "remove_contact", "subscription", "disco_servers"}

(* Fields that the handlers of two of them insist on.                      *)
Required == [send_message |-> {"to", "body"}, load_history |-> {"jid"}]

(* parse_client_message and require: a frame is [type, given, ...], given  *)
(* being the fields that are neither null nor "".                          *)
WellFormed(f) ==
  /\ f.type \in CLIENT_TYPES
  /\ f.type \in DOMAIN Required => Required[f.type] \subseteq f.given

=============================================================================
