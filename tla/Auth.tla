-------------------------------- MODULE Auth --------------------------------
(***************************************************************************)
(* HTTP basic authentication, as the registry and the reverse proxy use    *)
(* it.  A text is a sequence of tokens.  An Authorization header is {}     *)
(* when it is missing, otherwise {[scheme, data]}, where data is the text  *)
(* that its base64 encodes; whatever is no base64 or no UTF-8 has a scheme *)
(* that is not "basic".  Credentials are {} or {[username, password]}.     *)
(***************************************************************************)
EXTENDS Naturals, Sequences, FiniteSetsExt

Colons(text) == {i \in DOMAIN text : text[i] = ":"}

(* The user is what precedes the first colon; a password may contain more. *)
BasicAuthResponse(data) ==
    LET end == IF Colons(data) = {} THEN Len(data) + 1 ELSE Min(Colons(data))
    IN  [username |-> SubSeq(data, 1, end - 1),
         password |-> SubSeq(data, end + 1, Len(data))]

(* UnverifiedCredentials::from_request_parts.                              *)
UnverifiedCredentials(header) ==
    {BasicAuthResponse(h.data) : h \in {g \in header : g.scheme = "basic"}}

(* check_credentials of a master key, {} when it is locked: any user.      *)
MasterKeyChecks(key, creds) == \E c \in creds : c.password \in key

(* check_credentials of an access map, a set of credentials.               *)
AccessChecks(map, creds) == creds \cap map # {}

(* Mutant of AsSecretString: the key is taken for locked.                  *)
AsSecretStringLocked(key) == <<>>

(* MasterKey::as_secret_string, the password that podman logs in with.     *)
AsSecretString(key) == IF key = {} THEN <<>> ELSE CHOOSE k \in key : TRUE

(* The header that a client makes of a user name and a password.           *)
BasicHeader(username, password) ==
    {[scheme |-> "basic", data |-> username \o <<":">> \o password]}

=============================================================================
