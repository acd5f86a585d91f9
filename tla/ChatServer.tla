----------------------------- MODULE ChatServer -----------------------------
(***************************************************************************)
(* server/server.py: the Python chat server.                               *)
(*                                                                         *)
(* The main thread accepts connections and starts one handler thread for   *)
(* each (main, handle_client).  The threads share two dictionaries,        *)
(* clients and groups, under state_lock; everything they send is sent      *)
(* outside the lock, to connections they looked up before.  A step is one  *)
(* critical section of state_lock, one unlocked read of a dictionary, or   *)
(* one send_payload, each with the thread-local work around it.            *)
(*                                                                         *)
(* A connection is used once: reconnecting is another element of Conns.    *)
(* Its AES key stands for the connection, since the pair is stored and     *)
(* used together.  The contents of a request are chosen when the handler   *)
(* reads it.  How bytes make up a frame is not modelled, nor is a send     *)
(* that blocks: send_payload returns or raises.                            *)
(* (It raises for a connection that has ended.  A key that a user has      *)
(* chosen of a length that AES does not know would make it raise, too; all *)
(* keys are assumed to be legal.)                                          *)
(***************************************************************************)
EXTENDS Naturals, Sequences

LOCAL INSTANCE Functions

CONSTANTS
  Conns,        \* accepted TCP connections
  Users,        \* safe user names (validation.is_safe_username), in sort order
  Groups,       \* safe group names (validation.is_safe_group_name)
  NoConn,       \* "not in the dictionary"
  NoUser,       \* username = None, or a name that is empty or not safe
  MaxRequests   \* bound: requests all handlers together read

ASSUME UsersAreSorted == Users \subseteq Nat
ASSUME NoUserIsNoName == NoUser \notin Users
ASSUME NoConnIsNoConnection == NoConn \notin Conns

VARIABLES
  clients,      \* the dictionary clients: [Users -> Conns \cup {NoConn}]
  groups,       \* the dictionary groups: [Groups -> SUBSET Users], {} if absent
  link,         \* each connection at the user's end
  pc,           \* where each handler thread is
  username,     \* handler's local username
  seq,          \* how many requests the handler has read
  job,          \* what the handler is sending, and to whom
  log,          \* every frame written to a connection, user lists apart
  known,        \* names in the user lists written to a connection so far
  owed          \* ghost: connections the handler's loop ought to reach and has not,
                \*   of users who have been connected ever since it began

vars == <<clients, groups, link, pc, username, seq, job, log, known, owed>>

---------------------------------------------------------------------------
(* Program locations of handle_client.                                     *)

InBroadcast == {"greeting", "announcing", "departing"}

(* Between "clients[username] = ..." and the finally block.                *)
Registered == {"greet", "greeting", "announce", "announcing", "serve", "fanout", "send", "reply"}

Locations == Registered \cup {"idle", "login", "leave", "depart", "departing", "closed"}

NoFrame == [type |-> "none", from |-> NoUser, to |-> NoUser, origin |-> NoConn, seq |-> 0]

FrameTypes == {"none", "message", "group_message", "group_invite", "group_created", "error"}

Frames == [type : FrameTypes, from : Users \cup {NoUser}, to : Users \cup Groups \cup {NoUser},
           origin : Conns \cup {NoConn}, seq : Nat]

(* The frame being passed on or the names of a user list, the members the  *)
(* for loop has still to visit, and connections looked up for sending.     *)
Jobs == [frame : Frames, names : SUBSET Users, todo : SUBSET Users, conns : SUBSET Conns]
NoJob == [frame |-> NoFrame, names |-> {}, todo |-> {}, conns |-> {}]

OnlineNames == {u \in Users : clients[u] # NoConn}
OnlineConns == {clients[u] : u \in OnlineNames}

(* A user who is logged in and whose end of the connection is open.        *)
Connected(d) == link[d] = "open" /\ pc[d] \in Registered

(* A frame written to d now reaches the user.                              *)
Writable(d) == link[d] = "open" /\ pc[d] # "closed"

(* members = sorted(...); for member in members                            *)
First(u, S) == u \in S /\ \A v \in S : u <= v

(* Fault: the new user is greeted but never announced.                     *)
AfterBroadcastUnannounced(loc) == IF loc = "departing" THEN "closed" ELSE "serve"

(* After the greeting the handler announces the new user, after the        *)
(* announcement it serves, after the last broadcast the thread ends.       *)
AfterBroadcast(loc) ==
  IF loc = "greeting" THEN "announce" ELSE IF loc = "announcing" THEN "serve" ELSE "closed"

Goto(c, loc) == pc' = [pc EXCEPT ![c] = loc]

SetJob(c, j) == job' = [job EXCEPT ![c] = j]

Frame(c, type, to, n) ==
  [type |-> type, from |-> username[c], to |-> to, origin |-> c, seq |-> n]

(* A reply to the handler's own connection: its control flow is the same   *)
(* whether the write succeeds, is lost or raises.                          *)
Reply(c, f) ==
  log' = IF link[c] = "open" THEN [log EXCEPT ![c] = Append(@, f)] ELSE log

---------------------------------------------------------------------------

Init ==
  /\ clients = [u \in Users |-> NoConn]
  /\ groups = [g \in Groups |-> {}]
  /\ link = [c \in Conns |-> "none"]
  /\ pc = [c \in Conns |-> "idle"]
  /\ username = [c \in Conns |-> NoUser]
  /\ seq = [c \in Conns |-> 0]
  /\ job = [c \in Conns |-> NoJob]
  /\ log = [c \in Conns |-> <<>>]
  /\ known = [c \in Conns |-> {}]
  /\ owed = [c \in Conns |-> {}]

(* The main thread accepts a connection, sends the public key and starts   *)
(* the handler thread.                                                     *)
Accept(c) ==
  /\ pc[c] = "idle"
  /\ Goto(c, "login")
  /\ link' = [link EXCEPT ![c] = "open"]
  /\ UNCHANGED <<clients, groups, username, seq, job, log, known, owed>>

(* The user's end closes, at any moment before the server's does; from now *)
(* on no loop owes this user anything.                                     *)
PeerCloses(c) ==
  /\ link[c] = "open"
  /\ pc[c] # "closed"
  /\ link' = [link EXCEPT ![c] = "gone"]
  /\ owed' = [d \in Conns |-> owed[d] \ {c}]
  /\ UNCHANGED <<clients, groups, pc, username, seq, job, log, known>>

---------------------------------------------------------------------------
(* Login: session key, then username, then the dictionary.                 *)

(* The connection ends or the key does not decrypt: an exception, or the   *)
(* return for an empty name.                                               *)
HandshakeFails(c) ==
  /\ pc[c] = "login"
  /\ Goto(c, "leave")
  /\ UNCHANGED <<clients, groups, link, username, seq, job, log, known, owed>>

(* The name is not safe: an error reply, then return.                      *)
RejectName(c) ==
  /\ pc[c] = "login"
  /\ Goto(c, "leave")
  /\ Reply(c, Frame(c, "error", NoUser, 0))
  /\ UNCHANGED <<clients, groups, link, username, seq, job, known, owed>>

(* The name is in use: an error reply under the lock, then return.         *)
RejectDuplicate(c, u) ==
  /\ pc[c] = "login"
  /\ clients[u] # NoConn
  /\ username' = [username EXCEPT ![c] = u]
  /\ Goto(c, "leave")
  /\ Reply(c, [Frame(c, "error", NoUser, 0) EXCEPT !.from = u])
  /\ UNCHANGED <<clients, groups, link, seq, job, known, owed>>

Register(c, u) ==
  /\ pc[c] = "login"
  /\ clients[u] = NoConn
  /\ clients' = [clients EXCEPT ![u] = c]
  /\ username' = [username EXCEPT ![c] = u]
  /\ Goto(c, "greet")
  /\ UNCHANGED <<groups, link, seq, job, log, known, owed>>

---------------------------------------------------------------------------
(* User lists.                                                             *)

(* The handler has still to send names to the connections conns; with      *)
(* nobody left it goes on at once.                                         *)
SendListTo(c, loc, names, conns) ==
  /\ Goto(c, IF conns = {} THEN AfterBroadcast(loc) ELSE loc)
  /\ SetJob(c, IF conns = {} THEN NoJob ELSE [NoJob EXCEPT !.names = names, !.conns = conns])

(* Fault: the greeting lists the other users only.                         *)
OtherNames(c) == OnlineNames \ {username[c]}

(* list(clients.keys())                                                    *)
GreetingNames(c) == OnlineNames

(* The first list, to the new user alone, is copied without the lock and   *)
(* sent in a later step.                                                   *)
Greet(c) ==
  /\ pc[c] = "greet"
  /\ SendListTo(c, "greeting", GreetingNames(c), {c})
  /\ UNCHANGED <<clients, groups, link, username, seq, log, known, owed>>

(* broadcast_user_list copies names and connections in one critical section. *)
Snapshot(c) ==
  /\ pc[c] \in {"announce", "depart"}
  /\ SendListTo(c, IF pc[c] = "announce" THEN "announcing" ELSE "departing",
                OnlineNames, OnlineConns)
  /\ owed' = [owed EXCEPT ![c] = {d \in OnlineConns : Connected(d)}]
  /\ UNCHANGED <<clients, groups, link, username, seq, log, known>>

(* Fault: the first write that fails ends the broadcast.                   *)
RestUnlessFailed(c, d) == IF Writable(d) THEN job[c].conns \ {d} ELSE {}

(* The connections left after d: a write that raises is printed, continue. *)
Rest(c, d) == job[c].conns \ {d}

SendList(c, d) ==
  /\ pc[c] \in InBroadcast
  /\ d \in job[c].conns
  /\ SendListTo(c, pc[c], job[c].names, Rest(c, d))
  /\ IF Writable(d)
       THEN /\ known' = [known EXCEPT ![d] = @ \cup job[c].names]
            /\ owed' = [owed EXCEPT ![c] = @ \ {d}]
       ELSE UNCHANGED <<known, owed>>
  /\ UNCHANGED <<clients, groups, link, username, seq, log>>

---------------------------------------------------------------------------
(* Requests.  The handler reads a frame, decrypts and parses it.           *)

(* Fault: the sender a payload names is believed.                          *)
BelieveSender(c, claimed) == claimed

(* payload["from"] = username: whatever sender the client claimed.         *)
BindSender(c, claimed) == username[c]

Requests == FoldFunction(LAMBDA m, n : m + n, 0, seq)

ReadRequest(c) ==
  /\ pc[c] = "serve"
  /\ Requests < MaxRequests
  /\ seq' = [seq EXCEPT ![c] = @ + 1]
  /\ UNCHANGED <<clients, link, username, log, known>>

(* The handler starts to pass frame f on to the given members.             *)
StartFanOut(c, f, members) ==
  /\ ReadRequest(c)
  /\ Goto(c, "fanout")
  /\ SetJob(c, [NoJob EXCEPT !.frame = f, !.todo = members])
  /\ owed' = [owed EXCEPT ![c] =
       {d \in OnlineConns : /\ Connected(d)
                            /\ username[d] \in members
                            /\ d = c => f.type = "message"}]

(* A parsed request that validation, a size limit or a blocked file name   *)
(* rejects: an error reply, continue.                                      *)
RejectRequest(c) ==
  /\ ReadRequest(c)
  /\ Goto(c, "reply")
  /\ SetJob(c, [NoJob EXCEPT !.frame = Frame(c, "error", NoUser, seq[c] + 1)])
  /\ owed' = [owed EXCEPT ![c] = {}]
  /\ UNCHANGED groups

(* A frame that does not decrypt or parse, has no known type, or lacks a   *)
(* file: an exception that is printed, or no case of the match.            *)
IgnoreRequest(c) ==
  /\ ReadRequest(c)
  /\ owed' = [owed EXCEPT ![c] = {}]
  /\ UNCHANGED <<groups, pc, job>>

(* Fault: the members are not validated, any string becomes one.           *)
UncheckedMembers(c, members) == members \cup {username[c], NoUser}

(* sorted(set(members + [username]))                                       *)
MembersOf(c, members) == members \cup {username[c]}

(* create_group.  The test and the insertion are one critical section.     *)
CreateGroup(c, g, members) ==
  /\ groups[g] = {}
  /\ groups' = [groups EXCEPT ![g] = MembersOf(c, members)]
  /\ StartFanOut(c, Frame(c, "group_invite", g, seq[c] + 1), MembersOf(c, members))

GroupExists(c, g) == groups[g] # {} /\ RejectRequest(c)

(* group_message, and a file sent to a group.  The member list is read     *)
(* once, under the lock.                                                   *)
GroupMessage(c, g, claimed) ==
  /\ username[c] \in groups[g]
  /\ StartFanOut(c, [Frame(c, "group_message", g, seq[c] + 1)
                       EXCEPT !.from = BindSender(c, claimed)], groups[g])
  /\ UNCHANGED groups

NotMember(c, g) == username[c] \notin groups[g] /\ RejectRequest(c)

(* message, and a file sent to a user: forward_payload to one name.        *)
DirectMessage(c, u, claimed) ==
  /\ StartFanOut(c, [Frame(c, "message", u, seq[c] + 1)
                       EXCEPT !.from = BindSender(c, claimed)], {u})
  /\ UNCHANGED groups

---------------------------------------------------------------------------
(* Passing a frame on.                                                     *)

(* One turn of the loop up to the lookup of the member's connection, a     *)
(* critical section of its own.  A group's sender is skipped, and so is a  *)
(* member who is not on line.                                              *)
Lookup(c, m) ==
  /\ pc[c] = "fanout"
  /\ First(m, job[c].todo)
  /\ LET skip == clients[m] = NoConn \/ (m = username[c] /\ job[c].frame.type # "message")
     IN  /\ SetJob(c, [job[c] EXCEPT !.todo = job[c].todo \ {m},
                                     !.conns = IF skip THEN {} ELSE {clients[m]}])
         /\ Goto(c, IF skip THEN "fanout" ELSE "send")
  /\ UNCHANGED <<clients, groups, link, username, seq, log, known, owed>>

(* send_payload outside the lock, to a connection that may have ended      *)
(* since: the write arrives ...                                            *)
SendArrives(c, d) ==
  /\ pc[c] = "send"
  /\ d \in job[c].conns
  /\ Writable(d)
  /\ log' = [log EXCEPT ![d] = Append(@, job[c].frame)]
  /\ owed' = [owed EXCEPT ![c] = @ \ {d}]
  /\ SetJob(c, [job[c] EXCEPT !.conns = {}])
  /\ Goto(c, "fanout")
  /\ UNCHANGED <<clients, groups, link, username, seq, known>>

(* ... or the kernel takes it although the user's end has closed ...       *)
SendLost(c, d) ==
  /\ pc[c] = "send"
  /\ d \in job[c].conns
  /\ link[d] = "gone"
  /\ pc[d] # "closed"
  /\ SetJob(c, [job[c] EXCEPT !.conns = {}])
  /\ Goto(c, "fanout")
  /\ UNCHANGED <<clients, groups, link, username, seq, log, known, owed>>

(* ... or it raises, and the exception handler, which is outside the loop  *)
(* over the members, goes on with the next request.                        *)
SendRaises(c, d) ==
  /\ pc[c] = "send"
  /\ d \in job[c].conns
  /\ ~Writable(d)
  /\ SetJob(c, NoJob)
  /\ Goto(c, "serve")
  /\ UNCHANGED <<clients, groups, link, username, seq, log, known, owed>>

(* After the last member, create_group acknowledges; the others are done.  *)
FanOutDone(c) ==
  /\ pc[c] = "fanout"
  /\ job[c].todo = {}
  /\ IF job[c].frame.type = "group_invite"
       THEN /\ SetJob(c, [NoJob EXCEPT !.frame = [job[c].frame EXCEPT !.type = "group_created"]])
            /\ Goto(c, "reply")
       ELSE /\ SetJob(c, NoJob)
            /\ Goto(c, "serve")
  /\ UNCHANGED <<clients, groups, link, username, seq, log, known, owed>>

SendReply(c) ==
  /\ pc[c] = "reply"
  /\ Reply(c, job[c].frame)
  /\ SetJob(c, NoJob)
  /\ Goto(c, "serve")
  /\ UNCHANGED <<clients, groups, link, username, seq, known, owed>>

---------------------------------------------------------------------------
(* The end of a handler.                                                   *)

(* The stream ends, or a frame is too long or cut short.                   *)
LeaveLoop(c) ==
  /\ pc[c] = "serve"
  /\ Goto(c, "leave")
  /\ owed' = [d \in Conns |-> IF d = c THEN {} ELSE owed[d] \ {c}]
  /\ UNCHANGED <<clients, groups, link, username, seq, job, log, known>>

(* Fault: the finally block looks at the name and not at the connection.   *)
NameIsInUse(c) == username[c] \in Users /\ clients[username[c]] # NoConn

(* Fault: it compares the stored pair, which is never the connection.      *)
PairIsConn(c) == FALSE

(* "username in clients and clients[username][0] is conn"                  *)
HoldsName(c) == username[c] \in Users /\ clients[username[c]] = c

(* The finally block: the name is freed if this connection holds it; the   *)
(* broadcast and conn.close() follow.                                      *)
Deregister(c) ==
  /\ pc[c] = "leave"
  /\ clients' = IF HoldsName(c) THEN [clients EXCEPT ![username[c]] = NoConn] ELSE clients
  /\ Goto(c, "depart")
  /\ UNCHANGED <<groups, link, username, seq, job, log, known, owed>>

---------------------------------------------------------------------------

Login(c) ==
  \/ HandshakeFails(c)
  \/ RejectName(c)
  \/ \E u \in Users : RejectDuplicate(c, u) \/ Register(c, u)

Broadcast(c) ==
  \/ Greet(c)
  \/ Snapshot(c)
  \/ \E d \in Conns : SendList(c, d)

Request(c) ==
  \/ RejectRequest(c)
  \/ IgnoreRequest(c)
  \/ \E g \in Groups : GroupExists(c, g) \/ NotMember(c, g)
  \/ \E g \in Groups, members \in SUBSET Users : CreateGroup(c, g, members)
  \/ \E g \in Groups, claimed \in Users : GroupMessage(c, g, claimed)
  \/ \E u, claimed \in Users : DirectMessage(c, u, claimed)

FanOut(c) ==
  \/ \E m \in Users : Lookup(c, m)
  \/ \E d \in Conns : SendArrives(c, d) \/ SendLost(c, d) \/ SendRaises(c, d)
  \/ FanOutDone(c)
  \/ SendReply(c)

Next ==
  \E c \in Conns :
    \/ Accept(c) \/ PeerCloses(c)
    \/ Login(c) \/ Broadcast(c) \/ Request(c) \/ FanOut(c)
    \/ LeaveLoop(c) \/ Deregister(c)

Spec == Init /\ [][Next]_vars

(* The steps a handler takes without waiting for its user.  Weak fairness  *)
(* says that the thread is scheduled and that send_payload comes back: it  *)
(* is justified while every connected client goes on reading.              *)
Progress(c) ==
  \/ Broadcast(c)
  \/ FanOut(c)
  \/ Deregister(c)
  \/ link[c] = "gone" /\ (HandshakeFails(c) \/ LeaveLoop(c))

FairSpec == Spec /\ \A c \in Conns : WF_vars(Progress(c))

---------------------------------------------------------------------------
(* Properties.                                                             *)

(* Types of the dictionaries, of every handler's locals and of what was    *)
(* written to the connections (server.py:23-24, 84-122).                   *)
TypeOK ==
  /\ clients \in [Users -> Conns \cup {NoConn}]
  /\ groups \in [Groups -> SUBSET Users]
  /\ link \in [Conns -> {"none", "open", "gone"}]
  /\ pc \in [Conns -> Locations]
  /\ username \in [Conns -> Users \cup {NoUser}]
  /\ seq \in [Conns -> Nat]
  /\ job \in [Conns -> Jobs]
  /\ log \in [Conns -> Seq(Frames)]
  /\ known \in [Conns -> SUBSET Users]
  /\ owed \in [Conns -> SUBSET Conns]

(* The dictionary and the threads agree: an entry belongs to a connection  *)
(* that gave that name and whose handler has not yet reached its finally   *)
(* block's deletion, and every handler that serves its user holds its      *)
(* name.  So a rejected second login, or the end of an old connection,     *)
(* never evicts the holder of the name (server.py:102-106, 264-266).       *)
OneHolderPerName ==
  /\ \A u \in Users : clients[u] # NoConn =>
       /\ username[clients[u]] = u
       /\ pc[clients[u]] \in Registered \cup {"leave"}
  /\ \A c \in Conns : pc[c] \in Registered =>
       username[c] \in Users /\ clients[username[c]] = c

(* No user is sent a list that leaves that user out: broadcast_user_list   *)
(* copies names and connections in one critical section, the greeting      *)
(* copies the names after the registration, and a connection never changes *)
(* its name (server.py:63-70, 106-114).                                    *)
SelfListed ==
  \A c, d \in Conns :
    pc[c] \in InBroadcast /\ d \in job[c].conns => username[d] \in job[c].names

(* A loop over connections or members that was not ended by an exception   *)
(* has reached everybody it ought to: whoever was registered under a       *)
(* member's name, or on line at the snapshot of a broadcast, and has been  *)
(* connected ever since (server.py:68-73, 159-170, 198-203, 247-252).      *)
FanOutReachesAll ==
  [][\A c \in Conns :
       /\ pc[c] \in InBroadcast \cup {"fanout"}
       /\ pc'[c] \notin InBroadcast \cup {"fanout", "send"}
       => owed'[c] = {}]_vars

(* docs/ARCHITECTURE.md, High-Level Flow, step 5: "The server forwards     *)
(* user, group, and file payloads to connected clients."  When a handler   *)
(* is done with such a payload, no user it was meant for and who has been  *)
(* connected throughout is left out (server.py:198-203, 217, 247-258).     *)
ForwardsToConnectedClients ==
  [][\A c \in Conns :
       /\ pc[c] \in {"fanout", "send"}
       /\ pc'[c] = "serve"
       /\ job[c].frame.type \in {"message", "group_message"}
       => owed'[c] = {}]_vars

(* The name of a user whose connection has ended becomes free again, so    *)
(* that the user can log in again (server.py:263-268).                     *)
NamesReleased ==
  \A c \in Conns : link[c] = "gone" ~> \A u \in Users : clients[u] # c

(* Two users who stay connected learn of each other: each receives some    *)
(* user list that contains the other, in whichever order they logged in    *)
(* and however their broadcasts interleave (server.py:108-117; what        *)
(* tests/test_runtime_integration.py:85 waits for).                        *)
PresenceReaches ==
  \A c, d \in Conns :
    Connected(c) /\ Connected(d) ~>
      ~Connected(c) \/ ~Connected(d) \/ username[c] \in known[d]

(* The server implements the service specification.  User lists are not    *)
(* part of it: the steps of a broadcast are stuttering steps.              *)
Service == INSTANCE ChatService WITH
  Conns <- Conns, Users <- Users, Groups <- Groups, NoConn <- NoConn, NoUser <- NoUser,
  clients <- clients, username <- username, groups <- groups, log <- log
ImplementsService == Service!ServiceSpec
============================================================================
