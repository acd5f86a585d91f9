-------------------------- MODULE ChatServerProofs --------------------------
(***************************************************************************)
(* Theorems about ChatServer, for any sets of connections, users and       *)
(* groups and any number of requests.                                      *)
(***************************************************************************)
EXTENDS ChatServer, TLAPS

USE DEF Locations, Registered, InBroadcast, SetJob

(* Every frame a handler builds is a frame.                                *)
LEMMA FrameType ==
  ASSUME TypeOK, NEW c \in Conns, NEW type \in FrameTypes,
         NEW to \in Users \cup Groups \cup {NoUser}, NEW n \in Nat
  PROVE  Frame(c, type, to, n) \in Frames
  BY DEF TypeOK, Frame, Frames

LEMMA NoJobType == NoJob \in Jobs
  BY DEF NoJob, Jobs, NoFrame, Frames, FrameTypes

(* A reply keeps the log a function to sequences of frames.                *)
LEMMA ReplyType ==
  ASSUME TypeOK, NEW c \in Conns, NEW f \in Frames, Reply(c, f)
  PROVE  log' \in [Conns -> Seq(Frames)]
  BY DEF TypeOK, Reply

LEMMA GotoType ==
  ASSUME TypeOK, NEW c \in Conns, NEW loc \in Locations, Goto(c, loc)
  PROVE  pc' \in [Conns -> Locations]
  BY DEF TypeOK, Goto

(* What a step of a broadcast does to the handler's locals.                *)
LEMMA SendListToType ==
  ASSUME TypeOK, NEW c \in Conns, NEW loc \in InBroadcast,
         NEW names \in SUBSET Users, NEW conns \in SUBSET Conns,
         SendListTo(c, loc, names, conns)
  PROVE  /\ pc' \in [Conns -> Locations]
         /\ job' \in [Conns -> Jobs]
  <1>1. AfterBroadcast(loc) \in Locations
    BY DEF AfterBroadcast
  <1>2. [NoJob EXCEPT !.names = names, !.conns = conns] \in Jobs
    BY NoJobType DEF Jobs
  <1> QED
    BY <1>1, <1>2, NoJobType DEF SendListTo, Goto, TypeOK

LEMMA StartFanOutType ==
  ASSUME TypeOK, NEW c \in Conns, NEW f \in Frames, NEW members \in SUBSET Users,
         StartFanOut(c, f, members)
  PROVE  /\ pc' \in [Conns -> Locations]
         /\ seq' \in [Conns -> Nat]
         /\ job' \in [Conns -> Jobs]
         /\ owed' \in [Conns -> SUBSET Conns]
         /\ UNCHANGED <<clients, link, username, log, known>>
  <1>1. [NoJob EXCEPT !.frame = f, !.todo = members] \in Jobs
    BY NoJobType DEF Jobs
  <1>2. OnlineConns \subseteq Conns
    BY DEF OnlineConns, OnlineNames, TypeOK
  <1> QED
    BY <1>1, <1>2 DEF StartFanOut, ReadRequest, Goto, TypeOK

LEMMA RejectRequestType ==
  ASSUME TypeOK, NEW c \in Conns, RejectRequest(c)
  PROVE  TypeOK'
  <1>1. Frame(c, "error", NoUser, seq[c] + 1) \in Frames
    BY DEF TypeOK, Frame, Frames, FrameTypes
  <1>2. [NoJob EXCEPT !.frame = Frame(c, "error", NoUser, seq[c] + 1)] \in Jobs
    BY <1>1, NoJobType DEF Jobs
  <1> QED
    BY <1>2 DEF RejectRequest, ReadRequest, Goto, TypeOK

LEMMA JobFieldTypes ==
  ASSUME NEW j \in Jobs, NEW todo \in SUBSET Users, NEW conns \in SUBSET Conns
  PROVE  /\ [j EXCEPT !.conns = conns] \in Jobs
         /\ [j EXCEPT !.todo = todo, !.conns = conns] \in Jobs
  BY DEF Jobs

LEMMA LookupType ==
  ASSUME TypeOK, NEW c \in Conns, NEW m \in Users, Lookup(c, m)
  PROVE  TypeOK'
  <1> DEFINE skip == clients[m] = NoConn \/ (m = username[c] /\ job[c].frame.type # "message")
             next == [job[c] EXCEPT !.todo = @ \ {m}, !.conns = IF skip THEN {} ELSE {clients[m]}]
  <1>1. job[c] \in Jobs
    BY DEF TypeOK
  <1>2. job[c].todo \ {m} \in SUBSET Users
    BY <1>1 DEF Jobs
  <1>3. (IF skip THEN {} ELSE {clients[m]}) \in SUBSET Conns
    BY DEF TypeOK
  <1>4. next \in Jobs
    BY <1>1, <1>2, <1>3, JobFieldTypes
  <1>5. job' = [job EXCEPT ![c] = next]
    BY DEF Lookup
  <1>6. pc' \in [Conns -> Locations]
    BY DEF Lookup, Goto, TypeOK
  <1> QED
    BY <1>4, <1>5, <1>6 DEF Lookup, TypeOK

LEMMA FanOutType ==
  ASSUME TypeOK, NEW c \in Conns, FanOut(c)
  PROVE  TypeOK'
  <1>1. job[c] \in Jobs /\ job[c].frame \in Frames
    BY DEF TypeOK, Jobs
  <1>2. CASE \E m \in Users : Lookup(c, m)
    BY <1>2, LookupType
  <1>3. ASSUME NEW d \in Conns, SendArrives(c, d)
        PROVE  TypeOK'
    <2>1. [job[c] EXCEPT !.conns = {}] \in Jobs
      BY <1>1, JobFieldTypes
    <2>2. log' \in [Conns -> Seq(Frames)]
      BY <1>1, <1>3 DEF SendArrives, TypeOK
    <2> QED
      BY <2>1, <2>2, <1>3 DEF SendArrives, Goto, TypeOK
  <1>4. ASSUME NEW d \in Conns, SendLost(c, d) \/ SendRaises(c, d)
        PROVE  TypeOK'
    <2>1. [job[c] EXCEPT !.conns = {}] \in Jobs
      BY <1>1, JobFieldTypes
    <2>2. CASE SendLost(c, d)
      BY <2>1, <2>2 DEF SendLost, Goto, TypeOK
    <2>3. CASE SendRaises(c, d)
      BY <2>3, NoJobType DEF SendRaises, Goto, TypeOK
    <2> QED
      BY <1>4, <2>2, <2>3
  <1>5. CASE FanOutDone(c)
    <2>1. [job[c].frame EXCEPT !.type = "group_created"] \in Frames
      BY <1>1 DEF Frames, FrameTypes
    <2>2. [NoJob EXCEPT !.frame = [job[c].frame EXCEPT !.type = "group_created"]] \in Jobs
      BY <2>1, NoJobType DEF Jobs
    <2>3. pc' \in [Conns -> Locations]
      <3>1. Goto(c, "reply") \/ Goto(c, "serve")
        BY <1>5 DEF FanOutDone
      <3> QED
        BY <3>1, GotoType
    <2>4. job' \in [Conns -> Jobs]
      BY <2>2, <1>5, NoJobType DEF FanOutDone, TypeOK
    <2> QED
      BY <2>3, <2>4, <1>5 DEF FanOutDone, TypeOK
  <1>6. CASE SendReply(c)
    <2>1. log' \in [Conns -> Seq(Frames)]
      BY <1>1, <1>6, ReplyType DEF SendReply
    <2> QED
      BY <2>1, <1>6, NoJobType DEF SendReply, Goto, TypeOK
  <1> QED
    BY <1>2, <1>3, <1>4, <1>5, <1>6 DEF FanOut

(* A handler that reads requests has a name: create_group adds no other    *)
(* than a user to a group.                                                 *)
LEMMA RequestType ==
  ASSUME TypeOK, OneHolderPerName, NEW c \in Conns, Request(c)
  PROVE  TypeOK'
  <1>1. username[c] \in Users \cup {NoUser} /\ seq[c] + 1 \in Nat
    BY DEF TypeOK
  <1>2. CASE IgnoreRequest(c)
    BY <1>2 DEF IgnoreRequest, ReadRequest, TypeOK
  <1>3. CASE RejectRequest(c) \/ \E g \in Groups : GroupExists(c, g) \/ NotMember(c, g)
    BY <1>3, RejectRequestType DEF GroupExists, NotMember
  <1>4. ASSUME NEW g \in Groups, NEW members \in SUBSET Users, CreateGroup(c, g, members)
        PROVE  TypeOK'
    <2>0. username[c] \in Users
      BY <1>4 DEF CreateGroup, StartFanOut, ReadRequest, OneHolderPerName
    <2>1. Frame(c, "group_invite", g, seq[c] + 1) \in Frames
      BY <1>1 DEF Frame, Frames, FrameTypes
    <2>2. MembersOf(c, members) \in SUBSET Users
      BY <2>0 DEF MembersOf
    <2> QED
      BY <1>4, <2>1, <2>2, StartFanOutType DEF CreateGroup, TypeOK
  <1>5. ASSUME NEW g \in Groups, NEW claimed \in Users, GroupMessage(c, g, claimed)
        PROVE  TypeOK'
    <2>1. [Frame(c, "group_message", g, seq[c] + 1)
             EXCEPT !.from = BindSender(c, claimed)] \in Frames
      BY <1>1 DEF Frame, Frames, FrameTypes, BindSender
    <2>2. groups[g] \in SUBSET Users
      BY DEF TypeOK
    <2> QED
      BY <1>5, <2>1, <2>2, StartFanOutType DEF GroupMessage, TypeOK
  <1>6. ASSUME NEW u \in Users, NEW claimed \in Users, DirectMessage(c, u, claimed)
        PROVE  TypeOK'
    <2>1. [Frame(c, "message", u, seq[c] + 1)
             EXCEPT !.from = BindSender(c, claimed)] \in Frames
      BY <1>1 DEF Frame, Frames, FrameTypes, BindSender
    <2> QED
      BY <1>6, <2>1, StartFanOutType DEF DirectMessage, TypeOK
  <1> QED
    BY <1>2, <1>3, <1>4, <1>5, <1>6 DEF Request

LEMMA LoginType ==
  ASSUME TypeOK, NEW c \in Conns, Login(c)
  PROVE  TypeOK'
  <1>1. Frame(c, "error", NoUser, 0) \in Frames
    BY DEF TypeOK, Frame, Frames, FrameTypes
  <1>2. CASE HandshakeFails(c)
    BY <1>2 DEF HandshakeFails, Goto, TypeOK
  <1>3. CASE RejectName(c)
    <2>1. log' \in [Conns -> Seq(Frames)]
      BY <1>1, <1>3, ReplyType DEF RejectName
    <2> QED
      BY <2>1, <1>3 DEF RejectName, Goto, TypeOK
  <1>4. ASSUME NEW u \in Users, RejectDuplicate(c, u)
        PROVE  TypeOK'
    <2>1. [Frame(c, "error", NoUser, 0) EXCEPT !.from = u] \in Frames
      BY <1>1 DEF Frames
    <2>2. log' \in [Conns -> Seq(Frames)]
      BY <2>1, <1>4, ReplyType DEF RejectDuplicate
    <2> QED
      BY <2>2, <1>4 DEF RejectDuplicate, Goto, TypeOK
  <1>5. ASSUME NEW u \in Users, Register(c, u)
        PROVE  TypeOK'
    BY <1>5 DEF Register, Goto, TypeOK
  <1> QED
    BY <1>2, <1>3, <1>4, <1>5 DEF Login

LEMMA BroadcastType ==
  ASSUME TypeOK, NEW c \in Conns, Broadcast(c)
  PROVE  TypeOK'
  <1>1. OnlineNames \in SUBSET Users /\ OnlineConns \in SUBSET Conns
    BY DEF OnlineConns, OnlineNames, TypeOK
  <1>2. CASE Greet(c)
    <2>1. pc' \in [Conns -> Locations] /\ job' \in [Conns -> Jobs]
      BY <1>1, <1>2, SendListToType DEF Greet, GreetingNames
    <2> QED
      BY <2>1, <1>2 DEF Greet, TypeOK
  <1>3. CASE Snapshot(c)
    <2>1. pc' \in [Conns -> Locations] /\ job' \in [Conns -> Jobs]
      BY <1>1, <1>3, SendListToType DEF Snapshot
    <2> QED
      BY <2>1, <1>1, <1>3 DEF Snapshot, TypeOK
  <1>4. ASSUME NEW d \in Conns, SendList(c, d)
        PROVE  TypeOK'
    <2>1. job[c].names \in SUBSET Users /\ Rest(c, d) \in SUBSET Conns
      BY DEF TypeOK, Jobs, Rest
    <2>2. pc' \in [Conns -> Locations] /\ job' \in [Conns -> Jobs]
      BY <2>1, <1>4, SendListToType DEF SendList
    <2>3. known' \in [Conns -> SUBSET Users] /\ owed' \in [Conns -> SUBSET Conns]
      <3>1. CASE Writable(d)
        <4>1. /\ known' = [known EXCEPT ![d] = known[d] \cup job[c].names]
              /\ owed' = [owed EXCEPT ![c] = owed[c] \ {d}]
          BY <1>4, <3>1 DEF SendList
        <4>2. known[d] \cup job[c].names \in SUBSET Users /\ owed[c] \ {d} \in SUBSET Conns
          BY <2>1 DEF TypeOK
        <4> QED
          BY <4>1, <4>2 DEF TypeOK
      <3>2. CASE ~Writable(d)
        BY <3>2, <1>4 DEF SendList, TypeOK
      <3> QED
        BY <3>1, <3>2
    <2> QED
      BY <2>2, <2>3, <1>4 DEF SendList, TypeOK
  <1> QED
    BY <1>2, <1>3, <1>4 DEF Broadcast

LEMMA TypeStep ==
  ASSUME TypeOK, OneHolderPerName, [Next]_vars
  PROVE  TypeOK'
  <1>1. CASE UNCHANGED vars
    BY <1>1 DEF vars, TypeOK
  <1>2. ASSUME NEW c \in Conns, Accept(c) \/ PeerCloses(c) \/ LeaveLoop(c) \/ Deregister(c)
        PROVE  TypeOK'
    <2>1. CASE Accept(c)
      BY <2>1 DEF Accept, Goto, TypeOK
    <2>2. CASE PeerCloses(c)
      BY <2>2 DEF PeerCloses, TypeOK
    <2>3. CASE LeaveLoop(c)
      BY <2>3 DEF LeaveLoop, Goto, TypeOK
    <2>4. CASE Deregister(c)
      BY <2>4 DEF Deregister, Goto, TypeOK
    <2> QED
      BY <1>2, <2>1, <2>2, <2>3, <2>4
  <1> QED
    BY <1>1, <1>2, LoginType, BroadcastType, RequestType, FanOutType DEF Next

---------------------------------------------------------------------------
(* One holder per name.                                                    *)

(* A handler moves on while clients and username stay as they are.  What   *)
(* matters is that it only leaves the registered locations through         *)
(* "leave", and only comes to them from one another.                       *)
Keeps(c, loc) ==
  /\ pc' = [pc EXCEPT ![c] = loc]
  /\ UNCHANGED <<clients, username>>
  /\ pc[c] \in Registered => loc \in Registered \cup {"leave"}
  /\ pc[c] \notin Registered => pc[c] # "leave" /\ loc \notin Registered

LEMMA KeepsHolders ==
  ASSUME TypeOK, OneHolderPerName, NEW c \in Conns, NEW loc \in Locations, Keeps(c, loc)
  PROVE  OneHolderPerName'
  BY DEF TypeOK, OneHolderPerName, Keeps

LEMMA BroadcastHolders ==
  ASSUME TypeOK, OneHolderPerName, NEW c \in Conns, Broadcast(c)
  PROVE  OneHolderPerName'
  <1>1. CASE Greet(c)
    <2>1. Keeps(c, "greeting")
      BY <1>1 DEF Greet, SendListTo, Goto, Keeps
    <2> QED
      BY <2>1, KeepsHolders
  <1>2. CASE Snapshot(c)
    <2>1. CASE pc[c] = "announce"
      <3>1. Keeps(c, "announcing") \/ Keeps(c, "serve")
        BY <1>2, <2>1 DEF Snapshot, SendListTo, AfterBroadcast, Goto, Keeps
      <3> QED
        BY <3>1, KeepsHolders
    <2>2. CASE pc[c] = "depart"
      <3>1. Keeps(c, "departing") \/ Keeps(c, "closed")
        BY <1>2, <2>2 DEF Snapshot, SendListTo, AfterBroadcast, Goto, Keeps
      <3> QED
        BY <3>1, KeepsHolders
    <2> QED
      BY <1>2, <2>1, <2>2 DEF Snapshot
  <1>3. ASSUME NEW d \in Conns, SendList(c, d)
        PROVE  OneHolderPerName'
    <2>1. \/ Keeps(c, pc[c])
          \/ Keeps(c, AfterBroadcast(pc[c]))
      BY <1>3 DEF SendList, SendListTo, AfterBroadcast, Goto, Keeps
    <2>2. pc[c] \in Locations /\ AfterBroadcast(pc[c]) \in Locations
      BY DEF TypeOK, AfterBroadcast
    <2> QED
      BY <2>1, <2>2, KeepsHolders
  <1> QED
    BY <1>1, <1>2, <1>3 DEF Broadcast

LEMMA ServeHolders ==
  ASSUME TypeOK, OneHolderPerName, NEW c \in Conns,
         Request(c) \/ FanOut(c) \/ LeaveLoop(c)
  PROVE  OneHolderPerName'
  <1>1. \E loc \in Registered \cup {"leave"} : pc' = [pc EXCEPT ![c] = loc]
    <2>1. CASE IgnoreRequest(c)
      BY <2>1 DEF IgnoreRequest, ReadRequest, TypeOK
    <2>2. CASE Request(c) /\ ~IgnoreRequest(c)
      BY <2>2 DEF Request, RejectRequest, GroupExists, NotMember, CreateGroup,
                  GroupMessage, DirectMessage, StartFanOut, Goto
    <2>3. CASE FanOut(c)
      BY <2>3 DEF FanOut, Lookup, SendArrives, SendLost, SendRaises, FanOutDone, SendReply, Goto
    <2>4. CASE LeaveLoop(c)
      BY <2>4 DEF LeaveLoop, Goto
    <2> QED
      BY <2>1, <2>2, <2>3, <2>4
  <1>2. pc[c] \in Registered /\ UNCHANGED <<clients, username>>
    <2>1. CASE Request(c)
      BY <2>1 DEF Request, IgnoreRequest, RejectRequest, GroupExists, NotMember, CreateGroup,
                  GroupMessage, DirectMessage, StartFanOut, ReadRequest
    <2>2. CASE FanOut(c)
      BY <2>2 DEF FanOut, Lookup, SendArrives, SendLost, SendRaises, FanOutDone, SendReply
    <2>3. CASE LeaveLoop(c)
      BY <2>3 DEF LeaveLoop
    <2> QED
      BY <2>1, <2>2, <2>3
  <1> QED
    BY <1>1, <1>2, KeepsHolders DEF Keeps

LEMMA HolderStep ==
  ASSUME TypeOK, OneHolderPerName, [Next]_vars
  PROVE  OneHolderPerName'
  <1>1. CASE UNCHANGED vars
    BY <1>1 DEF vars, OneHolderPerName
  <1>2. ASSUME NEW c \in Conns, Accept(c) \/ PeerCloses(c)
        PROVE  OneHolderPerName'
    <2>1. CASE Accept(c)
      BY <2>1, KeepsHolders DEF Accept, Goto, Keeps
    <2>2. CASE PeerCloses(c)
      BY <2>2 DEF PeerCloses, OneHolderPerName
    <2> QED
      BY <1>2, <2>1, <2>2
  <1>3. ASSUME NEW c \in Conns, Login(c)
        PROVE  OneHolderPerName'
    <2>1. CASE HandshakeFails(c) \/ RejectName(c)
      <3>1. /\ pc[c] = "login"
            /\ pc' = [pc EXCEPT ![c] = "leave"]
            /\ UNCHANGED <<clients, username>>
        BY <2>1 DEF HandshakeFails, RejectName, Goto
      <3> QED
        BY <3>1 DEF TypeOK, OneHolderPerName
    <2>2. ASSUME NEW u \in Users, RejectDuplicate(c, u)
          PROVE  OneHolderPerName'
      BY <2>2 DEF RejectDuplicate, Goto, TypeOK, OneHolderPerName
    <2>3. ASSUME NEW u \in Users, Register(c, u)
          PROVE  OneHolderPerName'
      BY <2>3, NoConnIsNoConnection DEF Register, Goto, TypeOK, OneHolderPerName
    <2> QED
      BY <1>3, <2>1, <2>2, <2>3 DEF Login
  <1>4. ASSUME NEW c \in Conns, Deregister(c)
        PROVE  OneHolderPerName'
    <2>1. CASE HoldsName(c)
      BY <1>4, <2>1, NoConnIsNoConnection DEF Deregister, HoldsName, Goto, TypeOK, OneHolderPerName
    <2>2. CASE ~HoldsName(c)
      BY <1>4, <2>2, NoConnIsNoConnection DEF Deregister, HoldsName, Goto, TypeOK, OneHolderPerName
    <2> QED
      BY <2>1, <2>2
  <1> QED
    BY <1>1, <1>2, <1>3, <1>4, BroadcastHolders, ServeHolders DEF Next

---------------------------------------------------------------------------
(* User lists contain their receiver.                                      *)

(* SelfListed is not inductive: it has to say too that nobody is on a      *)
(* sending list before having given a name, since the name given later     *)
(* need not be on the list of names.                                       *)
ListsFit ==
  \A c, d \in Conns :
    pc[c] \in InBroadcast /\ d \in job[c].conns =>
      username[d] \in job[c].names /\ pc[d] \notin {"idle", "login"}

(* A step of handler c that starts or continues no broadcast and does not  *)
(* change the name of anybody who had one.                                 *)
LEMMA KeepsLists ==
  ASSUME TypeOK, ListsFit, NEW c \in Conns,
         NEW loc \in Locations \ (InBroadcast \cup {"idle"}), pc' = [pc EXCEPT ![c] = loc],
         loc = "login" => pc[c] = "idle",
         \A d \in Conns \ {c} : job'[d] = job[d],
         \A d \in Conns : pc[d] \notin {"idle", "login"} => username'[d] = username[d]
  PROVE  ListsFit'
  BY DEF TypeOK, ListsFit

LEMMA BroadcastLists ==
  ASSUME TypeOK, OneHolderPerName, ListsFit, NEW c \in Conns, Broadcast(c)
  PROVE  ListsFit'
  <1>1. ASSUME NEW loc \in InBroadcast, NEW names \in SUBSET Users, NEW conns \in SUBSET Conns,
               SendListTo(c, loc, names, conns), username' = username,
               pc[c] \notin {"idle", "login"},
               \A d \in conns : username[d] \in names /\ pc[d] \notin {"idle", "login"}
        PROVE  ListsFit'
    <2>1. CASE conns = {}
      <3>1. /\ pc' = [pc EXCEPT ![c] = AfterBroadcast(loc)]
            /\ job' = [job EXCEPT ![c] = NoJob]
        BY <1>1, <2>1 DEF SendListTo, Goto
      <3>2. AfterBroadcast(loc) \in Locations \ (InBroadcast \cup {"idle", "login"})
        BY DEF AfterBroadcast
      <3> QED
        BY <1>1, <3>1, <3>2, KeepsLists DEF TypeOK
    <2>2. CASE conns # {}
      <3>1. /\ pc' = [pc EXCEPT ![c] = loc]
            /\ job' = [job EXCEPT ![c] = [NoJob EXCEPT !.names = names, !.conns = conns]]
        BY <1>1, <2>2 DEF SendListTo, Goto
      <3>2. job'[c].names = names /\ job'[c].conns = conns
        BY <3>1 DEF TypeOK, NoJob
      <3>3. \A d \in Conns \ {c} : job'[d] = job[d] /\ pc'[d] = pc[d]
        BY <3>1 DEF TypeOK
      <3>4. pc'[c] = loc
        BY <3>1 DEF TypeOK
      <3> QED
        BY <1>1, <3>2, <3>3, <3>4 DEF ListsFit
    <2> QED
      BY <2>1, <2>2
  <1>2. CASE Greet(c)
    <2>1. username[c] \in OnlineNames
      BY <1>2, NoConnIsNoConnection DEF Greet, OneHolderPerName, OnlineNames
    <2> QED
      BY <1>1, <1>2, <2>1 DEF Greet, GreetingNames, OnlineNames
  <1>3. CASE Snapshot(c)
    <2>1. ASSUME NEW d \in OnlineConns
          PROVE  d \in Conns /\ username[d] \in OnlineNames /\ pc[d] \notin {"idle", "login"}
      <3>1. PICK u \in Users : clients[u] # NoConn /\ d = clients[u]
        BY <2>1 DEF OnlineConns, OnlineNames
      <3>2. d \in Conns /\ username[d] = u /\ pc[d] \in Registered \cup {"leave"}
        BY <3>1 DEF OneHolderPerName, TypeOK
      <3> QED
        BY <3>1, <3>2 DEF OnlineNames
    <2>2. OnlineNames \in SUBSET Users /\ OnlineConns \in SUBSET Conns
      BY <2>1 DEF OnlineNames
    <2> QED
      BY <1>1, <1>3, <2>1, <2>2 DEF Snapshot
  <1>4. ASSUME NEW d \in Conns, SendList(c, d)
        PROVE  ListsFit'
    <2>1. job[c].names \in SUBSET Users /\ Rest(c, d) \in SUBSET Conns
      BY DEF TypeOK, Jobs, Rest
    <2>2. \A e \in Rest(c, d) : username[e] \in job[c].names /\ pc[e] \notin {"idle", "login"}
      BY <1>4, <2>1 DEF SendList, ListsFit, Rest
    <2> QED
      BY <1>1, <1>4, <2>1, <2>2 DEF SendList
  <1> QED
    BY <1>2, <1>3, <1>4 DEF Broadcast

LEMMA ListStep ==
  ASSUME TypeOK, OneHolderPerName, ListsFit, [Next]_vars
  PROVE  ListsFit'
  <1>1. CASE UNCHANGED vars
    BY <1>1 DEF vars, ListsFit
  <1>2. ASSUME NEW c \in Conns, PeerCloses(c)
        PROVE  ListsFit'
    BY <1>2 DEF PeerCloses, ListsFit
  <1>3. ASSUME NEW c \in Conns,
               Accept(c) \/ Login(c) \/ Request(c) \/ FanOut(c) \/ LeaveLoop(c) \/ Deregister(c)
        PROVE  ListsFit'
    <2>1. /\ \E loc \in Locations \ (InBroadcast \cup {"idle"}) :
               pc' = [pc EXCEPT ![c] = loc] /\ (loc = "login" => pc[c] = "idle")
          /\ \A d \in Conns \ {c} : job'[d] = job[d]
          /\ \A d \in Conns : pc[d] \notin {"idle", "login"} => username'[d] = username[d]
      <3>1. CASE Accept(c)
        BY <3>1 DEF Accept, Goto, TypeOK
      <3>2. CASE Login(c)
        <4>1. /\ pc[c] = "login"
              /\ Goto(c, "leave") \/ Goto(c, "greet")
              /\ UNCHANGED job
              /\ UNCHANGED username \/ \E u \in Users : username' = [username EXCEPT ![c] = u]
          BY <3>2 DEF Login, HandshakeFails, RejectName, RejectDuplicate, Register
        <4> QED
          BY <4>1 DEF Goto, TypeOK
      <3>3. CASE IgnoreRequest(c)
        BY <3>3 DEF IgnoreRequest, ReadRequest, TypeOK
      <3>4. CASE Request(c) /\ ~IgnoreRequest(c)
        <4>1. /\ Goto(c, "fanout") \/ Goto(c, "reply")
              /\ \E j : SetJob(c, j)
              /\ UNCHANGED username
          BY <3>4 DEF Request, RejectRequest, GroupExists, NotMember, CreateGroup,
                      GroupMessage, DirectMessage, StartFanOut, ReadRequest
        <4> QED
          BY <4>1 DEF Goto, TypeOK
      <3>5. CASE FanOut(c)
        <4>1. /\ \E loc \in {"fanout", "send", "serve", "reply"} : Goto(c, loc)
              /\ \E j : SetJob(c, j)
              /\ UNCHANGED username
          BY <3>5 DEF FanOut, Lookup, SendArrives, SendLost, SendRaises, FanOutDone, SendReply
        <4> QED
          BY <4>1 DEF Goto, TypeOK
      <3>6. CASE LeaveLoop(c) \/ Deregister(c)
        BY <3>6 DEF LeaveLoop, Deregister, Goto, TypeOK
      <3> QED
        BY <1>3, <3>1, <3>2, <3>3, <3>4, <3>5, <3>6
    <2> QED
      BY <2>1, KeepsLists
  <1> QED
    BY <1>1, <1>2, <1>3, BroadcastLists DEF Next

---------------------------------------------------------------------------
(* Loops reach whom they owe.                                              *)

(* FanOutReachesAll is not inductive: it has to say where the connections  *)
(* that a loop still owes are to be found.  They are connected; a          *)
(* broadcast has them among the connections it has still to visit, a loop  *)
(* over members has their users among the members, or the one connection   *)
(* in its hands; and the greeting, which visits its own user only, owes    *)
(* nothing.                                                                *)
Debts(c) ==
  /\ \A d \in owed[c] : Connected(d)
  /\ pc[c] \in {"idle", "login", "greet", "greeting"} => owed[c] = {}
  /\ pc[c] \in {"announcing", "departing"} => owed[c] \subseteq job[c].conns
  /\ pc[c] \in {"fanout", "send"} =>
       \A d \in owed[c] :
         \/ /\ username[d] \in job[c].todo
            /\ d = c => job[c].frame.type = "message"
         \/ pc[c] = "send" /\ d \in job[c].conns
  /\ pc[c] = "send" => \E d \in Conns : job[c].conns = {d}

DebtsFound == \A c \in Conns : Debts(c)

(* A step of handler e that nobody else is affected by: whoever is         *)
(* connected stays so, under the same name.                                *)
Alone(e) ==
  /\ \A c \in Conns \ {e} :
       /\ pc'[c] = pc[c] /\ job'[c] = job[c] /\ owed'[c] = owed[c]
       /\ username'[c] = username[c] /\ link'[c] = link[c]
  /\ Connected(e) => Connected(e)' /\ username'[e] = username[e]

LEMMA AloneDebts ==
  ASSUME TypeOK, DebtsFound, NEW e \in Conns, Alone(e), Debts(e)'
  PROVE  DebtsFound'
  <1> SUFFICES ASSUME NEW c \in Conns, c # e PROVE Debts(c)'
    BY DEF DebtsFound
  <1>1. \A d \in Conns : Connected(d) => Connected(d)' /\ username'[d] = username[d]
    BY DEF Alone, Connected
  <1>2. owed[c] \subseteq Conns
    BY DEF TypeOK
  <1>3. pc'[c] = pc[c] /\ job'[c] = job[c] /\ owed'[c] = owed[c]
    BY DEF Alone
  <1> QED
    BY <1>1, <1>2, <1>3 DEF DebtsFound, Debts

(* Two steps end a user's claims.                                          *)
LEMMA EndingDebts ==
  ASSUME TypeOK, DebtsFound, NEW e \in Conns, PeerCloses(e) \/ LeaveLoop(e)
  PROVE  DebtsFound'
  <1> SUFFICES ASSUME NEW c \in Conns PROVE Debts(c)'
    BY DEF DebtsFound
  <1>1. /\ owed'[c] \subseteq owed[c] \ {e}
        /\ UNCHANGED <<username, job>>
        /\ \A d \in Conns \ {e} : pc'[d] = pc[d] /\ link'[d] = link[d]
    BY DEF PeerCloses, LeaveLoop, Goto, TypeOK
  <1>2. \A d \in owed'[c] : Connected(d)'
    BY <1>1 DEF Connected, DebtsFound, Debts, TypeOK
  <1>3. CASE PeerCloses(e)
    <2>1. pc'[c] = pc[c]
      BY <1>3 DEF PeerCloses
    <2> QED
      BY <1>1, <1>2, <2>1 DEF DebtsFound, Debts
  <1>4. CASE LeaveLoop(e) /\ c # e
    <2>1. pc'[c] = pc[c]
      BY <1>1, <1>4
    <2> QED
      BY <1>1, <1>2, <2>1 DEF DebtsFound, Debts
  <1>5. CASE LeaveLoop(e) /\ c = e
    BY <1>1, <1>2, <1>5 DEF LeaveLoop, Goto, TypeOK, Debts
  <1> QED
    BY <1>3, <1>4, <1>5

LEMMA LoginDebts ==
  ASSUME TypeOK, DebtsFound, NEW e \in Conns, Accept(e) \/ Login(e) \/ Deregister(e)
  PROVE  DebtsFound'
  <1>1. /\ pc[e] \in {"idle", "login", "leave"}
        /\ UNCHANGED <<job, owed>>
        /\ \/ pc[e] = "idle" /\ Goto(e, "login")
           \/ pc[e] = "login" /\ (Goto(e, "leave") \/ Goto(e, "greet"))
           \/ pc[e] = "leave" /\ Goto(e, "depart")
        /\ \/ UNCHANGED username
           \/ \E u \in Users : username' = [username EXCEPT ![e] = u]
        /\ \/ UNCHANGED link
           \/ link' = [link EXCEPT ![e] = "open"]
    BY DEF Accept, Login, HandshakeFails, RejectName, RejectDuplicate, Register, Deregister
  <1>2. Alone(e)
    BY <1>1 DEF Alone, Connected, Goto, TypeOK
  <1>3. \A d \in owed[e] : d # e /\ Connected(d)'
    BY <1>1, <1>2 DEF Alone, Connected, DebtsFound, Debts, TypeOK
  <1>4. Debts(e)'
    BY <1>1, <1>3 DEF DebtsFound, Debts, Goto, TypeOK
  <1> QED
    BY <1>2, <1>4, AloneDebts

LEMMA BroadcastDebts ==
  ASSUME TypeOK, DebtsFound, NEW e \in Conns, Broadcast(e)
  PROVE  DebtsFound'
  <1>1. /\ UNCHANGED <<username, link>>
        /\ \A c \in Conns \ {e} : pc'[c] = pc[c] /\ job'[c] = job[c] /\ owed'[c] = owed[c]
        /\ pc[e] \in Registered => pc'[e] \in Registered
    <2>1. CASE Greet(e)
      BY <2>1 DEF Greet, SendListTo, AfterBroadcast, Goto, TypeOK
    <2>2. CASE Snapshot(e)
      BY <2>2 DEF Snapshot, SendListTo, AfterBroadcast, Goto, TypeOK
    <2>3. ASSUME NEW d \in Conns, SendList(e, d)
          PROVE  /\ UNCHANGED <<username, link>>
                 /\ \A c \in Conns \ {e} :
                      pc'[c] = pc[c] /\ job'[c] = job[c] /\ owed'[c] = owed[c]
                 /\ pc[e] \in Registered => pc'[e] \in Registered
      <3>1. \A c \in Conns \ {e} : owed'[c] = owed[c]
        BY <2>3 DEF SendList, TypeOK
      <3>2. \A c \in Conns \ {e} : pc'[c] = pc[c] /\ job'[c] = job[c]
        BY <2>3 DEF SendList, SendListTo, Goto, TypeOK
      <3>3. pc[e] \in Registered => pc'[e] \in Registered
        BY <2>3 DEF SendList, SendListTo, AfterBroadcast, Goto, TypeOK
      <3> QED
        BY <2>3, <3>1, <3>2, <3>3 DEF SendList
    <2> QED
      BY <2>1, <2>2, <2>3 DEF Broadcast
  <1>2. Alone(e)
    BY <1>1 DEF Alone, Connected
  <1>3. \A d \in Conns : Connected(d) => Connected(d)'
    BY <1>1 DEF Connected
  <1>4. CASE Greet(e)
    <2>1. owed'[e] = {} /\ pc'[e] = "greeting"
      BY <1>4 DEF Greet, SendListTo, Goto, TypeOK, DebtsFound, Debts
    <2> QED
      BY <1>2, <2>1, AloneDebts DEF Debts
  <1>5. CASE Snapshot(e)
    <2>1. OnlineConns \subseteq Conns
      BY DEF OnlineConns, OnlineNames, TypeOK
    <2>2. /\ owed'[e] = {d \in OnlineConns : Connected(d)}
          /\ pc'[e] \in {"announcing", "departing", "serve", "closed"}
          /\ pc'[e] \in {"announcing", "departing"} => job'[e].conns = OnlineConns
      BY <1>5 DEF Snapshot, SendListTo, AfterBroadcast, Goto, TypeOK, NoJob
    <2> QED
      BY <1>2, <1>3, <2>1, <2>2, AloneDebts DEF Debts
  <1>6. ASSUME NEW d \in Conns, SendList(e, d)
        PROVE  DebtsFound'
    <2>1. owed[e] \subseteq Conns /\ owed'[e] \subseteq owed[e]
      BY <1>6 DEF SendList, TypeOK
    <2>2. /\ pc'[e] \in {pc[e], "announce", "serve", "closed"}
          /\ pc'[e] = pc[e] => job'[e].conns = job[e].conns \ {d}
      BY <1>6 DEF SendList, SendListTo, AfterBroadcast, Goto, TypeOK, NoJob, Rest
    <2>3. pc[e] \in InBroadcast
      BY <1>6 DEF SendList
    <2>4. d \notin owed'[e]
      <3>1. CASE Writable(d)
        BY <1>6, <3>1 DEF SendList, TypeOK
      <3>2. CASE ~Writable(d)
        <4>1. d \notin owed[e]
          BY <3>2 DEF Writable, Connected, DebtsFound, Debts
        <4> QED
          BY <2>1, <4>1
      <3> QED
        BY <3>1, <3>2
    <2>5. Debts(e)'
      BY <1>3, <2>1, <2>2, <2>3, <2>4 DEF DebtsFound, Debts
    <2> QED
      BY <1>2, <2>5, AloneDebts
  <1> QED
    BY <1>4, <1>5, <1>6 DEF Broadcast

(* A loop over members begins.                                             *)
LEMMA StartDebts ==
  ASSUME TypeOK, DebtsFound, NEW e \in Conns, NEW f, NEW members, StartFanOut(e, f, members)
  PROVE  DebtsFound'
  <1>1. /\ UNCHANGED <<username, link>>
        /\ pc[e] = "serve" /\ pc'[e] = "fanout"
        /\ \A c \in Conns \ {e} : pc'[c] = pc[c] /\ job'[c] = job[c] /\ owed'[c] = owed[c]
        /\ job'[e].todo = members /\ job'[e].frame = f
    BY DEF StartFanOut, ReadRequest, Goto, TypeOK, NoJob
  <1>2. /\ owed'[e] \subseteq Conns
        /\ \A d \in owed'[e] :
             Connected(d) /\ username[d] \in members /\ (d = e => f.type = "message")
    BY DEF StartFanOut, OnlineConns, OnlineNames, TypeOK
  <1>3. Alone(e)
    BY <1>1 DEF Alone, Connected
  <1>4. \A d \in owed'[e] : Connected(d)'
    BY <1>1, <1>2 DEF Connected
  <1>5. Debts(e)'
    BY <1>1, <1>2, <1>4 DEF Debts
  <1> QED
    BY <1>3, <1>5, AloneDebts

LEMMA RequestDebts ==
  ASSUME TypeOK, DebtsFound, NEW e \in Conns, Request(e)
  PROVE  DebtsFound'
  <1>1. CASE RejectRequest(e) \/ IgnoreRequest(e)
    <2>1. /\ UNCHANGED <<username, link>>
          /\ pc[e] = "serve" /\ pc'[e] \in {"serve", "reply"}
          /\ \A c \in Conns \ {e} : pc'[c] = pc[c] /\ job'[c] = job[c] /\ owed'[c] = owed[c]
          /\ owed'[e] = {}
      BY <1>1 DEF RejectRequest, IgnoreRequest, ReadRequest, Goto, TypeOK
    <2>2. Alone(e)
      BY <2>1 DEF Alone, Connected
    <2>3. Debts(e)'
      BY <2>1 DEF Debts
    <2> QED
      BY <2>2, <2>3, AloneDebts
  <1>2. CASE \E f, members : StartFanOut(e, f, members)
    BY <1>2, StartDebts
  <1> QED
    BY <1>1, <1>2 DEF Request, GroupExists, NotMember, CreateGroup, GroupMessage, DirectMessage

LEMMA FanOutDebts ==
  ASSUME TypeOK, OneHolderPerName, DebtsFound, NEW e \in Conns, FanOut(e)
  PROVE  DebtsFound'
  <1>1. /\ UNCHANGED <<username, link, clients>>
        /\ \A c \in Conns \ {e} : pc'[c] = pc[c] /\ job'[c] = job[c] /\ owed'[c] = owed[c]
        /\ pc[e] \in {"fanout", "send", "reply"}
        /\ pc'[e] \in {"fanout", "send", "reply", "serve"}
        /\ owed'[e] \subseteq owed[e]
    <2>1. CASE \E m \in Users : Lookup(e, m)
      BY <2>1 DEF Lookup, Goto, TypeOK
    <2>2. CASE \E d \in Conns : SendArrives(e, d)
      BY <2>2 DEF SendArrives, Goto, TypeOK
    <2>3. CASE \E d \in Conns : SendLost(e, d) \/ SendRaises(e, d)
      BY <2>3 DEF SendLost, SendRaises, Goto, TypeOK
    <2>4. CASE FanOutDone(e) \/ SendReply(e)
      BY <2>4 DEF FanOutDone, SendReply, Goto, TypeOK
    <2> QED
      BY <2>1, <2>2, <2>3, <2>4 DEF FanOut
  <1>2. Alone(e)
    BY <1>1 DEF Alone, Connected
  <1>3. owed[e] \subseteq Conns /\ \A d \in owed'[e] : Connected(d) /\ Connected(d)'
    BY <1>1 DEF Connected, DebtsFound, Debts, TypeOK
  <1> SUFFICES Debts(e)'
    BY <1>2, AloneDebts
  <1>4. CASE pc'[e] \in {"serve", "reply"}
    BY <1>3, <1>4 DEF Debts
  <1>5. ASSUME NEW m \in Users, Lookup(e, m)
        PROVE  Debts(e)'
    <2> DEFINE skip == clients[m] = NoConn \/ (m = username[e] /\ job[e].frame.type # "message")
    <2>1. /\ pc[e] = "fanout" /\ m \in job[e].todo /\ owed' = owed
          /\ pc'[e] = IF skip THEN "fanout" ELSE "send"
          /\ job'[e] = [job[e] EXCEPT !.todo = job[e].todo \ {m},
                                      !.conns = IF skip THEN {} ELSE {clients[m]}]
      BY <1>5 DEF Lookup, First, Goto, TypeOK
    <2>2. job[e] \in Jobs
      BY DEF TypeOK
    <2>3. /\ job'[e].todo = job[e].todo \ {m} /\ job'[e].frame = job[e].frame
          /\ ~skip => job'[e].conns = {clients[m]}
      BY <2>1, <2>2 DEF Jobs
    <2>4. ASSUME NEW d \in owed[e]
          PROVE  \/ /\ username[d] \in job'[e].todo
                    /\ d = e => job'[e].frame.type = "message"
                 \/ pc'[e] = "send" /\ d \in job'[e].conns
      <3>1. /\ d \in Conns /\ Connected(d) /\ username[d] \in job[e].todo
            /\ d = e => job[e].frame.type = "message"
        BY <2>1 DEF DebtsFound, Debts, TypeOK
      <3>2. CASE username[d] = m
        <4>1. clients[m] = d /\ d # NoConn
          BY <3>1, <3>2, NoConnIsNoConnection DEF Connected, OneHolderPerName
        <4>2. m = username[e] => d = e
          BY <1>1, <2>1, <4>1 DEF OneHolderPerName
        <4>3. ~skip
          BY <3>1, <4>1, <4>2
        <4> QED
          BY <2>1, <2>3, <4>1, <4>3
      <3>3. CASE username[d] # m
        BY <2>3, <3>1, <3>3
      <3> QED
        BY <3>2, <3>3
    <2>5. pc'[e] = "send" => \E d \in Conns : job'[e].conns = {d}
      BY <2>1, <2>3 DEF TypeOK
    <2> QED
      BY <1>1, <1>3, <2>1, <2>4, <2>5 DEF Debts
  <1>6. ASSUME NEW d \in Conns, SendArrives(e, d) \/ SendLost(e, d)
        PROVE  Debts(e)'
    <2>1. job[e] \in Jobs
      BY DEF TypeOK
    <2>2. /\ pc[e] = "send" /\ pc'[e] = "fanout" /\ d \in job[e].conns
          /\ job'[e] = [job[e] EXCEPT !.conns = {}]
      BY <1>6 DEF SendArrives, SendLost, Goto, TypeOK
    <2>3. job'[e].todo = job[e].todo /\ job'[e].frame = job[e].frame
      BY <2>1, <2>2 DEF Jobs
    <2>4. d \notin owed'[e]
      <3>1. CASE SendArrives(e, d)
        BY <3>1 DEF SendArrives, TypeOK
      <3>2. CASE SendLost(e, d)
        BY <1>3, <3>2 DEF SendLost, Connected
      <3> QED
        BY <1>6, <3>1, <3>2
    <2>5. job[e].conns = {d}
      BY <2>2 DEF DebtsFound, Debts
    <2> QED
      BY <1>1, <1>3, <2>2, <2>3, <2>4, <2>5 DEF DebtsFound, Debts
  <1>7. CASE \E d \in Conns : SendRaises(e, d)
    BY <1>4, <1>7 DEF SendRaises, Goto, TypeOK
  <1>8. CASE FanOutDone(e) \/ SendReply(e)
    BY <1>4, <1>8 DEF FanOutDone, SendReply, Goto, TypeOK
  <1> QED
    BY <1>5, <1>6, <1>7, <1>8 DEF FanOut

LEMMA DebtStep ==
  ASSUME TypeOK, OneHolderPerName, DebtsFound, [Next]_vars
  PROVE  DebtsFound'
  <1>1. CASE UNCHANGED vars
    BY <1>1 DEF vars, DebtsFound, Debts, Connected
  <1> QED
    BY <1>1, EndingDebts, LoginDebts, BroadcastDebts, RequestDebts, FanOutDebts DEF Next

(* A loop that ends, other than by an exception, owes nothing any more.    *)
LEMMA LoopEnds ==
  ASSUME TypeOK, DebtsFound, DebtsFound', [Next]_vars, NEW c \in Conns,
         pc[c] \in InBroadcast \cup {"fanout"},
         pc'[c] \notin InBroadcast \cup {"fanout", "send"}
  PROVE  owed'[c] = {}
  <1>1. \/ \E d \in Conns : SendList(c, d)
        \/ FanOutDone(c)
    <2>1. PICK e \in Conns :
            \/ Accept(e) \/ PeerCloses(e)
            \/ Login(e) \/ Broadcast(e) \/ Request(e) \/ FanOut(e)
            \/ LeaveLoop(e) \/ Deregister(e)
      BY DEF Next, vars
    <2>2. CASE Accept(e) \/ PeerCloses(e) \/ LeaveLoop(e) \/ Deregister(e)
      BY <2>2 DEF Accept, PeerCloses, LeaveLoop, Deregister, Goto, TypeOK
    <2>3. CASE Login(e)
      BY <2>3 DEF Login, HandshakeFails, RejectName, RejectDuplicate, Register, Goto, TypeOK
    <2>4. CASE Request(e)
      BY <2>4 DEF Request, RejectRequest, IgnoreRequest, GroupExists, NotMember, CreateGroup,
                  GroupMessage, DirectMessage, StartFanOut, ReadRequest, Goto, TypeOK
    <2>5. CASE Broadcast(e)
      BY <2>5 DEF Broadcast, Greet, Snapshot, SendList, SendListTo, Goto, TypeOK
    <2>6. CASE FanOut(e)
      BY <2>6 DEF FanOut, Lookup, SendArrives, SendLost, SendRaises, FanOutDone, SendReply,
                  Goto, TypeOK
    <2> QED
      BY <2>1, <2>2, <2>3, <2>4, <2>5, <2>6
  <1>2. ASSUME NEW d \in Conns, SendList(c, d)
        PROVE  owed'[c] = {}
    <2>1. job[c].conns \subseteq {d}
      BY <1>2 DEF SendList, SendListTo, Goto, Rest, TypeOK
    <2>2. owed[c] \subseteq {d}
      BY <1>2, <2>1 DEF SendList, DebtsFound, Debts
    <2>3. CASE Writable(d)
      BY <1>2, <2>2, <2>3 DEF SendList, TypeOK
    <2>4. CASE ~Writable(d)
      BY <1>2, <2>2, <2>4 DEF SendList, Writable, Connected, DebtsFound, Debts
    <2> QED
      BY <2>3, <2>4
  <1>3. CASE FanOutDone(c)
    BY <1>3 DEF FanOutDone, DebtsFound, Debts
  <1> QED
    BY <1>1, <1>2, <1>3

---------------------------------------------------------------------------
(* The invariant and what follows from it.                                 *)

IInv == TypeOK /\ OneHolderPerName /\ ListsFit /\ DebtsFound

LEMMA IInvInit == Init => IInv
  BY NoJobType, NoConnIsNoConnection
     DEF Init, IInv, TypeOK, OneHolderPerName, ListsFit, DebtsFound, Debts

(* Every reachable state of the server satisfies all four conjuncts.      *)
THEOREM Invariance == Spec => []IInv
  <1>1. IInv /\ [Next]_vars => IInv'
    BY TypeStep, HolderStep, ListStep, DebtStep DEF IInv
  <1> QED
    BY IInvInit, <1>1, PTL DEF Spec

(* The types of the dictionaries and of the handlers' locals.              *)
THEOREM TypeCorrect == Spec => []TypeOK
  <1>1. IInv => TypeOK
    BY DEF IInv
  <1> QED
    BY Invariance, <1>1, PTL

(* A name belongs to one connection, the one that registered it, from the  *)
(* registration to the deletion in its handler's finally block.            *)
THEOREM NamesHeld == Spec => []OneHolderPerName
  <1>1. IInv => OneHolderPerName
    BY DEF IInv
  <1> QED
    BY Invariance, <1>1, PTL

(* A user list is never sent to a user it leaves out.                      *)
THEOREM ListsIncludeReceiver == Spec => []SelfListed
  <1>1. IInv => SelfListed
    BY DEF IInv, ListsFit, SelfListed
  <1> QED
    BY Invariance, <1>1, PTL

(* A loop over members or connections that is not ended by an exception    *)
(* has reached everybody who was a receiver when it began and has been     *)
(* connected ever since.                                                   *)
THEOREM LoopsReachAll == Spec => FanOutReachesAll
  <1> DEFINE Reached ==
        \A c \in Conns :
          /\ pc[c] \in InBroadcast \cup {"fanout"}
          /\ pc'[c] \notin InBroadcast \cup {"fanout", "send"}
          => owed'[c] = {}
  <1>1. IInv /\ IInv' /\ [Next]_vars => [Reached]_vars
    BY LoopEnds DEF IInv
  <1> QED
    BY Invariance, <1>1, PTL DEF Spec, FanOutReachesAll

============================================================================
