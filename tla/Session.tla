------------------------------ MODULE Session ------------------------------
(***************************************************************************)
(* What a connection to the chat server amounts to, without keys, bytes    *)
(* and processes: the user is registered once, under a prefix of the name  *)
(* at worst, and only a user who is registered under the whole name has    *)
(* requests handled, one after the other, none of them twice.  Handshake   *)
(* is shown to implement this specification.                               *)
(***************************************************************************)
EXTENDS Naturals

CONSTANT NameLength   \* parts of the name

VARIABLES
  registered,   \* parts of the name under which the user is registered, 0 if not
  requests,     \* requests that the client has sent
  handled,      \* requests that the server has handled
  over          \* the server has closed the connection

sessionVars == <<registered, requests, handled, over>>

SessionInit == registered = 0 /\ requests = 0 /\ handled = 0 /\ over = FALSE

Register(n) ==
  /\ ~over /\ registered = 0
  /\ registered' = n
  /\ UNCHANGED <<requests, handled, over>>

Request ==
  /\ requests' = requests + 1
  /\ UNCHANGED <<registered, handled, over>>

Handle ==
  /\ ~over /\ registered = NameLength
  /\ handled < requests
  /\ handled' = handled + 1
  /\ UNCHANGED <<registered, requests, over>>

End ==
  /\ over' = TRUE
  /\ UNCHANGED <<registered, requests, handled>>

SessionNext == (\E n \in 1..NameLength : Register(n)) \/ Request \/ Handle \/ End

SessionSpec == SessionInit /\ [][SessionNext]_sessionVars
============================================================================
