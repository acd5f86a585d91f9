---------------------------- MODULE ChatService ----------------------------
(***************************************************************************)
(* What the chat server promises its users, without threads, locks,        *)
(* sockets or broadcasts: a name is held by at most one connection, a      *)
(* group never changes once it exists, and every frame a connection        *)
(* receives was caused by one request of a connection that is on line,     *)
(* carries that connection's name, is addressed to the receiver, and       *)
(* comes after everything the same sender caused before.  ChatServer, the  *)
(* model of server/server.py, is shown to implement this specification.    *)
(*                                                                         *)
(* Nothing here promises delivery: the server drops a frame for a user who *)
(* is not connected.                                                       *)
(***************************************************************************)
EXTENDS Naturals, Sequences

CONSTANTS
  Conns,        \* accepted TCP connections
  Users,        \* names a user may log in with
  Groups,       \* names a group may have
  NoConn,       \* nobody holds the name
  NoUser        \* no name

VARIABLES
  clients,      \* [Users -> Conns \cup {NoConn}]: who holds each name
  username,     \* [Conns -> Users \cup {NoUser}]: the name each connection gave
  groups,       \* [Groups -> SUBSET Users]: members, {} before the group exists
  log           \* [Conns -> Seq(frames)]: what each connection was sent

serviceVars == <<clients, username, groups, log>>

OnLine(c) == \E u \in Users : clients[u] = c

(* Every earlier frame that c caused in d's log has a smaller number.      *)
InOrder(c, d, n) == \A i \in DOMAIN log[d] : log[d][i].origin = c => log[d][i].seq < n

(* A frame of type "message" goes to the user it names; one about a group  *)
(* goes from a member to another member; a reply goes back to its cause,   *)
(* and only one connection is ever told that it created a given group.     *)
Addressed(f, d) ==
  \/ /\ f.type = "message"
     /\ f.to = username[d]
  \/ /\ f.type \in {"group_message", "group_invite"}
     /\ {f.from, username[d]} \subseteq groups[f.to]
     /\ f.from # username[d]
  \/ /\ f.type = "group_created"
     /\ d = f.origin
     /\ f.from \in groups[f.to]
     /\ \A e \in Conns : \A i \in DOMAIN log[e] :
          log[e][i].type = "group_created" => log[e][i].to # f.to
  \/ /\ f.type = "error"
     /\ d = f.origin

---------------------------------------------------------------------------

ServiceInit ==
  /\ clients = [u \in Users |-> NoConn]
  /\ username = [c \in Conns |-> NoUser]
  /\ groups = [g \in Groups |-> {}]
  /\ log = [c \in Conns |-> <<>>]

Join(c, u) ==
  /\ username[c] = NoUser
  /\ clients[u] = NoConn
  /\ clients' = [clients EXCEPT ![u] = c]
  /\ username' = [username EXCEPT ![c] = u]
  /\ UNCHANGED <<groups, log>>

(* A connection that gives a name in use, or no usable name, is told so at *)
(* most once and never holds a name.                                       *)
Refuse(c, u) ==
  /\ username[c] = NoUser
  /\ u # NoUser => clients[u] # NoConn
  /\ username' = [username EXCEPT ![c] = u]
  /\ \/ UNCHANGED log
     \/ log' = [log EXCEPT ![c] =
          Append(@, [type |-> "error", from |-> u, to |-> NoUser, origin |-> c, seq |-> 0])]
  /\ UNCHANGED <<clients, groups>>

Leave(c) ==
  /\ OnLine(c)
  /\ clients' = [u \in Users |-> IF clients[u] = c THEN NoConn ELSE clients[u]]
  /\ UNCHANGED <<username, groups, log>>

CreateRoom(c, g, members) ==
  /\ OnLine(c)
  /\ groups[g] = {}
  /\ groups' = [groups EXCEPT ![g] = members \cup {username[c]}]
  /\ UNCHANGED <<clients, username, log>>

(* Connection d receives the frame f that request number f.seq of          *)
(* connection f.origin caused.                                             *)
Deliver(d, f) ==
  /\ f.from \in Users
  /\ clients[f.from] = f.origin
  /\ InOrder(f.origin, d, f.seq)
  /\ Addressed(f, d)
  /\ log' = [log EXCEPT ![d] = Append(@, f)]
  /\ UNCHANGED <<clients, username, groups>>

(* Deliver is enabled for at most one new frame: the last of the new log.  *)
DeliverSome ==
  \E d \in Conns :
    /\ log'[d] # <<>>
    /\ Deliver(d, log'[d][Len(log'[d])])

ServiceNext ==
  \/ \E c \in Conns, u \in Users \cup {NoUser} : Refuse(c, u)
  \/ \E c \in Conns, u \in Users : Join(c, u)
  \/ \E c \in Conns : Leave(c)
  \/ \E c \in Conns, g \in Groups, members \in SUBSET Users : CreateRoom(c, g, members)
  \/ DeliverSome

ServiceSpec == ServiceInit /\ [][ServiceNext]_serviceVars
============================================================================
