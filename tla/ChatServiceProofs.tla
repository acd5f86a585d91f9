-------------------------- MODULE ChatServiceProofs --------------------------
(***************************************************************************)
(* ChatServer implements ChatService, for any sets of connections, users   *)
(* and groups and any number of requests.                                  *)
(*                                                                         *)
(* A registration, a refused login, the deletion in the finally block, the *)
(* insertion of a group and every frame that reaches an open connection    *)
(* are steps of the service; everything else stutters.  That a write is a  *)
(* step of the service needs to be known of a handler long after it left   *)
(* the lock: five facts about its job, about the connection it looked up   *)
(* and about what it has written already.                                  *)
(***************************************************************************)
EXTENDS ChatServerProofs

USE DEF Locations, Registered, InBroadcast, SetJob

(* Before the handler has a name for its user.                             *)
Unnamed == {"idle", "login"}

(* ... nobody writes to the connection.                                    *)
Named == \A c \in Conns : pc[c] \in Unnamed => username[c] = NoUser /\ log[c] = <<>>

GroupTypes == {"group_message", "group_invite"}

(* What a handler passes on is its own latest request, under its own name, *)
(* and the members it has still to visit are those the request names.      *)
JobFits(c) ==
  /\ pc[c] \in {"fanout", "send", "reply"} =>
       /\ job[c].frame.from = username[c]
       /\ job[c].frame.origin = c
       /\ job[c].frame.seq = seq[c]
  /\ pc[c] \in {"fanout", "send"} =>
       \/ job[c].frame.type = "message" /\ job[c].todo \subseteq {job[c].frame.to}
       \/ /\ job[c].frame.type \in GroupTypes
          /\ job[c].frame.to \in Groups
          /\ username[c] \in groups[job[c].frame.to]
          /\ job[c].todo \subseteq groups[job[c].frame.to]
  /\ pc[c] = "reply" =>
       \/ job[c].frame.type = "error"
       \/ /\ job[c].frame.type = "group_created"
          /\ job[c].frame.to \in Groups
          /\ username[c] \in groups[job[c].frame.to]
JobsFit == \A c \in Conns : JobFits(c)

(* A connection looked up for sending is, then and later, one whose user   *)
(* the frame is meant for.                                                 *)
Target(c, d) ==
  /\ pc[d] \notin Unnamed
  /\ username[d] \notin job[c].todo
  /\ IF job[c].frame.type = "message"
       THEN username[d] = job[c].frame.to
       ELSE username[d] \in groups[job[c].frame.to] /\ username[d] # username[c]
Targets == \A c \in Conns : pc[c] = "send" => \A d \in job[c].conns : Target(c, d)

(* The handler c will not write to d again what it is passing on.          *)
Passed(c, d) ==
  /\ pc[c] \in {"fanout", "send"} =>
       /\ username[d] \notin job[c].todo
       /\ job[c].frame.type = "group_invite" => d # c
  /\ pc[c] = "send" => d \notin job[c].conns
  /\ pc[c] = "reply" => d # c
Numbered ==
  \A c, d \in Conns : \A i \in DOMAIN log[d] :
    log[d][i].origin = c =>
      /\ log[d][i].seq <= seq[c]
      /\ log[d][i].seq = seq[c] => Passed(c, d)

(* The handler c has created g and has not told its user so yet.           *)
Claims(c, g) ==
  \/ pc[c] \in {"fanout", "send"} /\ job[c].frame.type = "group_invite" /\ job[c].frame.to = g
  \/ pc[c] = "reply" /\ job[c].frame.type = "group_created" /\ job[c].frame.to = g
Told(g) ==
  \E d \in Conns : \E i \in DOMAIN log[d] : log[d][i].type = "group_created" /\ log[d][i].to = g
Created ==
  \A g \in Groups :
    /\ Told(g) => groups[g] # {}
    /\ \A c \in Conns : Claims(c, g) =>
         /\ groups[g] # {}
         /\ ~Told(g)
         /\ \A d \in Conns : Claims(d, g) => d = c

SInv == IInv /\ Named /\ JobsFit /\ Targets /\ Numbered /\ Created

----------------------------------------------------------------------------
(* What a step of the handler e does, and what it leaves alone.            *)

Step(e) ==
  \/ Accept(e) \/ PeerCloses(e)
  \/ Login(e) \/ Broadcast(e) \/ Request(e) \/ FanOut(e)
  \/ LeaveLoop(e) \/ Deregister(e)

(* Threads keep their locals to themselves.                                *)
LEMMA OthersWait ==
  ASSUME TypeOK, NEW e \in Conns, Step(e)
  PROVE  \A c \in Conns \ {e} : pc'[c] = pc[c] /\ job'[c] = job[c] /\ seq'[c] = seq[c]
  <1>1. CASE Accept(e) \/ PeerCloses(e) \/ LeaveLoop(e) \/ Deregister(e)
    BY <1>1 DEF Accept, PeerCloses, LeaveLoop, Deregister, Goto, TypeOK
  <1>2. CASE Login(e)
    BY <1>2 DEF Login, HandshakeFails, RejectName, RejectDuplicate, Register, Goto, TypeOK
  <1>3. CASE Broadcast(e)
    BY <1>3 DEF Broadcast, Greet, Snapshot, SendList, SendListTo, Goto, TypeOK
  <1>4. CASE Request(e)
    BY <1>4 DEF Request, RejectRequest, IgnoreRequest, GroupExists, NotMember, CreateGroup,
                GroupMessage, DirectMessage, StartFanOut, ReadRequest, Goto, TypeOK
  <1>5. CASE FanOut(e)
    BY <1>5 DEF FanOut, Lookup, SendArrives, SendLost, SendRaises, FanOutDone, SendReply,
                Goto, TypeOK
  <1> QED
    BY <1>1, <1>2, <1>3, <1>4, <1>5 DEF Step

(* A connection keeps the name it has given.                               *)
LEMMA NamesStay ==
  ASSUME TypeOK, NEW e \in Conns, Step(e)
  PROVE  \A d \in Conns : pc[d] \notin Unnamed =>
           username'[d] = username[d] /\ pc'[d] \notin Unnamed
  <1>1. CASE Accept(e) \/ PeerCloses(e) \/ LeaveLoop(e) \/ Deregister(e)
    BY <1>1 DEF Accept, PeerCloses, LeaveLoop, Deregister, Goto, TypeOK, Unnamed
  <1>2. CASE Login(e)
    BY <1>2 DEF Login, HandshakeFails, RejectName, RejectDuplicate, Register, Goto, TypeOK, Unnamed
  <1>3. CASE Broadcast(e)
    BY <1>3 DEF Broadcast, Greet, Snapshot, SendList, SendListTo, AfterBroadcast, Goto, TypeOK,
                Unnamed
  <1>4. CASE Request(e)
    BY <1>4 DEF Request, RejectRequest, IgnoreRequest, GroupExists, NotMember, CreateGroup,
                GroupMessage, DirectMessage, StartFanOut, ReadRequest, Goto, TypeOK, Unnamed
  <1>5. CASE FanOut(e)
    BY <1>5 DEF FanOut, Lookup, SendArrives, SendLost, SendRaises, FanOutDone, SendReply,
                Goto, TypeOK, Unnamed
  <1> QED
    BY <1>1, <1>2, <1>3, <1>4, <1>5 DEF Step

(* Groups change only by being created.                                    *)
LEMMA GroupsStep ==
  ASSUME TypeOK, NEW e \in Conns, Step(e)
  PROVE  \/ groups' = groups
         \/ \E g \in Groups, members \in SUBSET Users : CreateGroup(e, g, members)
  <1>1. CASE Request(e)
    BY <1>1 DEF Request, RejectRequest, IgnoreRequest, GroupExists, NotMember,
                GroupMessage, DirectMessage
  <1>2. CASE ~Request(e)
    BY <1>2 DEF Step, Accept, PeerCloses, LeaveLoop, Deregister,
                Login, HandshakeFails, RejectName, RejectDuplicate, Register,
                Broadcast, Greet, Snapshot, SendList,
                FanOut, Lookup, SendArrives, SendLost, SendRaises, FanOutDone, SendReply
  <1> QED
    BY <1>1, <1>2

LEMMA GroupsStay ==
  ASSUME TypeOK, NEW e \in Conns, Step(e)
  PROVE  \A g \in Groups : groups[g] # {} => groups'[g] = groups[g]
  BY GroupsStep DEF CreateGroup, TypeOK

(* A write to one connection.                                              *)
Writes(d, f) == log' = [log EXCEPT ![d] = Append(@, f)]

LEMMA Written ==
  ASSUME TypeOK, NEW d \in Conns, NEW f \in Frames, Writes(d, f)
  PROVE  /\ log'[d] # <<>>
         /\ log'[d][Len(log'[d])] = f
         /\ \A x \in Conns : \A i \in DOMAIN log'[x] :
              \/ i \in DOMAIN log[x] /\ log'[x][i] = log[x][i]
              \/ x = d /\ log'[x][i] = f
  <1>1. log[d] \in Seq(Frames) /\ log'[d] = Append(log[d], f)
    BY DEF TypeOK, Writes
  <1>2. \A x \in Conns \ {d} : log'[x] = log[x]
    BY DEF TypeOK, Writes
  <1>3. /\ Len(log'[d]) = Len(log[d]) + 1
        /\ log'[d] \in Seq(Frames)
        /\ DOMAIN log'[d] = 1..(Len(log[d]) + 1)
        /\ DOMAIN log[d] = 1..Len(log[d])
        /\ Len(log[d]) \in Nat
    BY <1>1
  <1>4. \A i \in DOMAIN log[d] : log'[d][i] = log[d][i]
    BY <1>1
  <1>5. log'[d][Len(log[d]) + 1] = f
    BY <1>1
  <1> QED
    BY <1>2, <1>3, <1>4, <1>5

(* Who writes what, to whom, and where this leaves the handler.            *)
Passes(e, d, f) ==
  /\ pc[e] = "send"
  /\ d \in job[e].conns
  /\ f = job[e].frame
  /\ pc'[e] = "fanout"
  /\ job'[e] = [job[e] EXCEPT !.conns = {}]
Replies(e, d, f) ==
  /\ pc[e] = "reply"
  /\ d = e
  /\ f = job[e].frame
  /\ pc'[e] = "serve"
Rejects(e, d, f) ==
  /\ pc[e] = "login"
  /\ d = e
  /\ f.type = "error" /\ f.origin = e /\ f.seq = 0
  /\ pc'[e] = "leave"

LEMMA WhatIsWritten ==
  ASSUME TypeOK, NEW e \in Conns, Step(e)
  PROVE  \/ log' = log
         \/ /\ seq'[e] = seq[e]
            /\ UNCHANGED groups
            /\ \E d \in Conns, f \in Frames :
                 /\ Writes(d, f)
                 /\ Passes(e, d, f) \/ Replies(e, d, f) \/ Rejects(e, d, f)
  <1>1. job[e] \in Jobs /\ job[e].frame \in Frames
    BY DEF TypeOK, Jobs
  <1>2. CASE Login(e)
    <2>1. CASE HandshakeFails(e) \/ \E u \in Users : Register(e, u)
      BY <2>1 DEF HandshakeFails, Register
    <2>2. CASE RejectName(e)
      <3> DEFINE f == Frame(e, "error", NoUser, 0)
      <3>1. f \in Frames
        BY FrameType DEF FrameTypes
      <3>2. f.type = "error" /\ f.origin = e /\ f.seq = 0
        BY DEF Frame
      <3>3. log' = log \/ Writes(e, f)
        BY <2>2 DEF RejectName, Reply, Writes
      <3>4. Rejects(e, e, f) /\ seq'[e] = seq[e] /\ UNCHANGED groups
        BY <2>2, <3>2 DEF RejectName, Rejects, Goto, TypeOK
      <3> HIDE DEF f
      <3> QED
        BY <3>1, <3>3, <3>4
    <2>3. ASSUME NEW u \in Users, RejectDuplicate(e, u)
          PROVE  \/ log' = log
                 \/ /\ seq'[e] = seq[e]
                    /\ UNCHANGED groups
                    /\ \E d \in Conns, f \in Frames : Writes(d, f) /\ Rejects(e, d, f)
      <3> DEFINE f == [Frame(e, "error", NoUser, 0) EXCEPT !.from = u]
      <3>1. f \in Frames
        BY DEF Frame, Frames, FrameTypes
      <3>2. f.type = "error" /\ f.origin = e /\ f.seq = 0
        BY DEF Frame
      <3>3. log' = log \/ Writes(e, f)
        BY <2>3 DEF RejectDuplicate, Reply, Writes
      <3>4. Rejects(e, e, f) /\ seq'[e] = seq[e] /\ UNCHANGED groups
        BY <2>3, <3>2 DEF RejectDuplicate, Rejects, Goto, TypeOK
      <3> HIDE DEF f
      <3> QED
        BY <3>1, <3>3, <3>4
    <2> QED
      BY <1>2, <2>1, <2>2, <2>3 DEF Login
  <1>3. CASE FanOut(e)
    <2>1. ASSUME NEW d \in Conns, SendArrives(e, d)
          PROVE  /\ seq'[e] = seq[e]
                 /\ UNCHANGED groups
                 /\ Writes(d, job[e].frame) /\ Passes(e, d, job[e].frame)
      BY <2>1 DEF SendArrives, Writes, Passes, Goto, TypeOK
    <2>2. CASE SendReply(e)
      <3>1. log' = log \/ Writes(e, job[e].frame)
        BY <2>2 DEF SendReply, Reply, Writes
      <3>2. Replies(e, e, job[e].frame) /\ seq'[e] = seq[e] /\ UNCHANGED groups
        BY <2>2 DEF SendReply, Replies, Goto, TypeOK
      <3> QED
        BY <1>1, <3>1, <3>2
    <2>3. CASE \/ \E m \in Users : Lookup(e, m)
               \/ \E d \in Conns : SendLost(e, d) \/ SendRaises(e, d)
               \/ FanOutDone(e)
      BY <2>3 DEF Lookup, SendLost, SendRaises, FanOutDone
    <2> QED
      BY <1>1, <1>3, <2>1, <2>2, <2>3 DEF FanOut
  <1>4. CASE Accept(e) \/ PeerCloses(e) \/ LeaveLoop(e) \/ Deregister(e)
    BY <1>4 DEF Accept, PeerCloses, LeaveLoop, Deregister
  <1>5. CASE Broadcast(e)
    BY <1>5 DEF Broadcast, Greet, Snapshot, SendList
  <1>6. CASE Request(e)
    BY <1>6 DEF Request, RejectRequest, IgnoreRequest, GroupExists, NotMember, CreateGroup,
                GroupMessage, DirectMessage, StartFanOut, ReadRequest
  <1> QED
    BY <1>2, <1>3, <1>4, <1>5, <1>6 DEF Step

----------------------------------------------------------------------------
(* The five facts, one by one.                                             *)

LEMMA NamedStep ==
  ASSUME TypeOK, Named, Targets, NEW e \in Conns, Step(e)
  PROVE  Named'
  <1> SUFFICES ASSUME NEW c \in Conns, pc'[c] \in Unnamed
               PROVE  username'[c] = NoUser /\ log'[c] = <<>>
    BY DEF Named
  <1>1. pc[c] \in Unnamed
    BY NamesStay
  <1>2. username[c] = NoUser /\ log[c] = <<>>
    BY <1>1 DEF Named
  <1>3. username'[c] = username[c]
    <2>1. CASE Login(e)
      BY <2>1 DEF Login, HandshakeFails, RejectName, RejectDuplicate, Register, Goto, TypeOK, Unnamed
    <2>2. CASE ~Login(e)
      BY <2>2 DEF Step, Accept, PeerCloses, LeaveLoop, Deregister, Broadcast, Greet, Snapshot,
                  SendList, Request, RejectRequest, IgnoreRequest, GroupExists, NotMember,
                  CreateGroup, GroupMessage, DirectMessage, StartFanOut, ReadRequest, FanOut,
                  Lookup, SendArrives, SendLost, SendRaises, FanOutDone, SendReply
    <2> QED
      BY <2>1, <2>2
  <1>4. log'[c] = log[c]
    <2>1. ASSUME NEW d \in Conns, NEW f \in Frames, Writes(d, f),
                 Passes(e, d, f) \/ Replies(e, d, f) \/ Rejects(e, d, f)
          PROVE  c # d
      BY <1>1, <2>1 DEF Passes, Replies, Rejects, Targets, Target, Unnamed
    <2>2. ASSUME NEW d \in Conns, NEW f \in Frames, Writes(d, f), c # d
          PROVE  log'[c] = log[c]
      BY <2>2 DEF Writes, TypeOK
    <2> QED
      BY <2>1, <2>2, WhatIsWritten
  <1> QED
    BY <1>2, <1>3, <1>4

(* A handler that passes nothing on.                                       *)
Quiet(c) == pc[c] \notin {"fanout", "send", "reply"}

LEMMA QuietSteps ==
  ASSUME TypeOK, NEW e \in Conns, Step(e), ~PeerCloses(e), ~Request(e), ~FanOut(e)
  PROVE  Quiet(e)' /\ seq' = seq
  <1>1. CASE Accept(e) \/ LeaveLoop(e) \/ Deregister(e)
    BY <1>1 DEF Accept, LeaveLoop, Deregister, Goto, TypeOK, Quiet
  <1>2. CASE Login(e)
    BY <1>2 DEF Login, HandshakeFails, RejectName, RejectDuplicate, Register, Goto, TypeOK, Quiet
  <1>3. CASE Broadcast(e)
    BY <1>3 DEF Broadcast, Greet, Snapshot, SendList, SendListTo, AfterBroadcast, Goto, TypeOK,
                Quiet
  <1> QED
    BY <1>1, <1>2, <1>3 DEF Step

(* A handler that has just read a request.                                 *)
LEMMA RequestRead ==
  ASSUME TypeOK, OneHolderPerName, NEW e \in Conns, Request(e)
  PROVE  /\ seq' = [seq EXCEPT ![e] = @ + 1]
         /\ username' = username
         /\ pc[e] = "serve"
         /\ pc'[e] \in {"serve", "fanout", "reply"}
         /\ pc'[e] = "reply" => job'[e].frame.type = "error"
         /\ pc'[e] = "fanout" /\ job'[e].frame.type = "group_invite" =>
              \E members \in SUBSET Users : CreateGroup(e, job'[e].frame.to, members)
         /\ JobFits(e)'
  <1> USE DEF Request, ReadRequest, Goto, TypeOK, Frame, NoJob, JobFits
  <1>1. username[e] \in Users \/ pc[e] # "serve"
    BY DEF OneHolderPerName
  <1>2. CASE RejectRequest(e) \/ \E g \in Groups : GroupExists(e, g) \/ NotMember(e, g)
    BY <1>2 DEF RejectRequest, GroupExists, NotMember
  <1>3. CASE IgnoreRequest(e)
    BY <1>3 DEF IgnoreRequest
  <1>4. ASSUME NEW g \in Groups, NEW members \in SUBSET Users, CreateGroup(e, g, members)
        PROVE  /\ seq' = [seq EXCEPT ![e] = @ + 1]
               /\ username' = username
               /\ pc[e] = "serve" /\ pc'[e] = "fanout"
               /\ job'[e].frame.to = g
               /\ JobFits(e)'
    BY <1>1, <1>4 DEF CreateGroup, StartFanOut, MembersOf, GroupTypes
  <1>5. ASSUME NEW g \in Groups, NEW claimed \in Users, GroupMessage(e, g, claimed)
        PROVE  /\ seq' = [seq EXCEPT ![e] = @ + 1]
               /\ username' = username
               /\ pc[e] = "serve" /\ pc'[e] = "fanout"
               /\ job'[e].frame.type = "group_message"
               /\ JobFits(e)'
    BY <1>1, <1>5 DEF GroupMessage, StartFanOut, BindSender, GroupTypes
  <1>6. ASSUME NEW u \in Users, NEW claimed \in Users, DirectMessage(e, u, claimed)
        PROVE  /\ seq' = [seq EXCEPT ![e] = @ + 1]
               /\ username' = username
               /\ pc[e] = "serve" /\ pc'[e] = "fanout"
               /\ job'[e].frame.type = "message"
               /\ JobFits(e)'
    BY <1>1, <1>6 DEF DirectMessage, StartFanOut, BindSender
  <1> HIDE DEF ReadRequest, Goto, TypeOK, Frame, NoJob, JobFits
  <1> QED
    BY <1>2, <1>3, <1>4, <1>5, <1>6

LEMMA JobStep ==
  ASSUME TypeOK, OneHolderPerName, Named, JobsFit, NEW e \in Conns, Step(e)
  PROVE  JobsFit'
  <1> SUFFICES ASSUME NEW c \in Conns PROVE JobFits(c)'
    BY DEF JobsFit
  <1>1. CASE c # e
    <2>1. pc'[c] = pc[c] /\ job'[c] = job[c] /\ seq'[c] = seq[c]
      BY <1>1, OthersWait
    <2>2. CASE Quiet(c)
      BY <2>1, <2>2 DEF Quiet, JobFits
    <2>3. CASE ~Quiet(c)
      <3>1. username'[c] = username[c]
        BY <2>3, NamesStay DEF Quiet, Unnamed
      <3> QED
        BY <2>1, <3>1, GroupsStay DEF JobsFit, JobFits
    <2> QED
      BY <2>2, <2>3
  <1>2. CASE c = e /\ Request(e)
    BY <1>2, RequestRead
  <1>3. CASE c = e /\ FanOut(e)
    <2> USE <1>3 DEF JobsFit, JobFits, Goto, TypeOK
    <2>1. ASSUME NEW m \in Users, Lookup(e, m)
          PROVE  JobFits(c)'
      BY <2>1 DEF Lookup, Jobs
    <2>2. ASSUME NEW d \in Conns, SendArrives(e, d) \/ SendLost(e, d) \/ SendRaises(e, d)
          PROVE  JobFits(c)'
      <3>1. CASE SendArrives(e, d)
        BY <3>1 DEF SendArrives, Jobs
      <3>2. CASE SendLost(e, d)
        BY <3>2 DEF SendLost, Jobs
      <3>3. CASE SendRaises(e, d)
        BY <3>3 DEF SendRaises
      <3> QED
        BY <2>2, <3>1, <3>2, <3>3
    <2>3. CASE FanOutDone(e)
      <3>1. job[e].frame \in Frames
        BY DEF Jobs
      <3>2. CASE job[e].frame.type = "group_invite"
        <4>1. /\ pc' = [pc EXCEPT ![e] = "reply"]
              /\ job'[e].frame = [job[e].frame EXCEPT !.type = "group_created"]
              /\ UNCHANGED <<username, seq, groups>>
          BY <2>3, <3>2 DEF FanOutDone, NoJob
        <4>2. job[e].frame.to \in Groups /\ username[e] \in groups[job[e].frame.to]
          BY <2>3, <3>2 DEF FanOutDone
        <4> QED
          BY <3>1, <3>2, <4>1, <4>2, <2>3 DEF FanOutDone, Frames
      <3>3. CASE job[e].frame.type # "group_invite"
        BY <2>3, <3>3 DEF FanOutDone
      <3> QED
        BY <3>2, <3>3
    <2>4. CASE SendReply(e)
      BY <2>4 DEF SendReply
    <2> QED
      BY <2>1, <2>2, <2>3, <2>4 DEF FanOut
  <1>4. CASE PeerCloses(e)
    BY <1>4 DEF PeerCloses, JobsFit, JobFits
  <1>5. CASE c = e /\ ~PeerCloses(e) /\ ~Request(e) /\ ~FanOut(e)
    BY <1>5, QuietSteps DEF Quiet, JobFits
  <1> QED
    BY <1>1, <1>2, <1>3, <1>4, <1>5

LEMMA TargetStep ==
  ASSUME TypeOK, OneHolderPerName, JobsFit, Targets, NEW e \in Conns, Step(e)
  PROVE  Targets'
  <1> SUFFICES ASSUME NEW c \in Conns, pc'[c] = "send", NEW d \in Conns, d \in job'[c].conns
               PROVE  Target(c, d)'
    <2>1. job' \in [Conns -> Jobs]
      BY TypeStep DEF Step, TypeOK, Next
    <2> QED
      BY <2>1 DEF Targets, Jobs
  <1>1. CASE c # e
    <2>1. pc'[c] = pc[c] /\ job'[c] = job[c]
      BY <1>1, OthersWait
    <2>2. Target(c, d)
      BY <2>1 DEF Targets
    <2>3. username'[c] = username[c] /\ username'[d] = username[d] /\ pc'[d] \notin Unnamed
      BY <2>1, <2>2, NamesStay DEF Target, Unnamed
    <2>4. \/ job[c].frame.type = "message"
          \/ groups'[job[c].frame.to] = groups[job[c].frame.to]
      BY <2>1, GroupsStay DEF JobsFit, JobFits
    <2> QED
      BY <2>1, <2>2, <2>3, <2>4 DEF Target
  <1>2. CASE PeerCloses(e)
    BY <1>2 DEF PeerCloses, Targets, Target
  <1>3. CASE c = e /\ ~PeerCloses(e)
    <2>1. FanOut(e)
      BY <1>3, QuietSteps, RequestRead DEF Quiet
    <2>2. PICK m \in Users : Lookup(e, m)
      BY <1>3, <2>1 DEF FanOut, SendArrives, SendLost, SendRaises, FanOutDone, SendReply,
                        Goto, TypeOK
    <2>3. /\ clients[m] # NoConn /\ d = clients[m]
          /\ m \in job[c].todo
          /\ job'[c].frame = job[c].frame /\ job'[c].todo = job[c].todo \ {m}
          /\ m # username[c] \/ job[c].frame.type = "message"
          /\ pc[c] = "fanout"
      BY <1>3, <2>2 DEF Lookup, First, Goto, TypeOK, Jobs
    <2>4. username[d] = m /\ pc[d] \notin Unnamed
      BY <2>3 DEF OneHolderPerName, Unnamed
    <2>5. username' = username /\ groups' = groups
      BY <2>2 DEF Lookup
    <2>6. pc'[d] \notin Unnamed
      BY <2>4, NamesStay
    <2> QED
      BY <2>3, <2>4, <2>5, <2>6 DEF Target, JobsFit, JobFits, GroupTypes
  <1> QED
    BY <1>1, <1>2, <1>3

(* Where a frame of the new log comes from.                                *)
Old(d, i) == i \in DOMAIN log[d] /\ log'[d][i] = log[d][i]
Fresh(e, d, f) ==
  /\ seq'[e] = seq[e]
  /\ UNCHANGED groups
  /\ Passes(e, d, f) \/ Replies(e, d, f) \/ Rejects(e, d, f)

LEMMA OldOrFresh ==
  ASSUME TypeOK, NEW e \in Conns, Step(e), NEW d \in Conns, NEW i \in DOMAIN log'[d]
  PROVE  Old(d, i) \/ Fresh(e, d, log'[d][i])
  <1>1. CASE log' = log
    BY <1>1 DEF Old
  <1>2. ASSUME NEW x \in Conns, NEW f \in Frames, Writes(x, f), Fresh(e, x, f)
        PROVE  Old(d, i) \/ Fresh(e, d, log'[d][i])
    BY <1>2, Written DEF Old
  <1> QED
    BY <1>1, <1>2, WhatIsWritten DEF Fresh

LEMMA PassedStep ==
  ASSUME TypeOK, OneHolderPerName, NEW e \in Conns, FanOut(e),
         NEW d \in Conns, Passed(e, d), username'[d] = username[d]
  PROVE  Passed(e, d)' /\ seq' = seq
  <1>1. job[e] \in Jobs
    BY DEF TypeOK
  <1>2. ASSUME NEW m \in Users, Lookup(e, m)
        PROVE  Passed(e, d)' /\ seq' = seq
    <2>1. /\ pc[e] = "fanout"
          /\ m \in job[e].todo
          /\ job'[e].todo = job[e].todo \ {m}
          /\ job'[e].frame = job[e].frame
          /\ job'[e].conns \subseteq {clients[m]} \ {NoConn}
          /\ pc'[e] \in {"fanout", "send"}
          /\ seq' = seq
      BY <1>1, <1>2 DEF Lookup, First, Goto, TypeOK, Jobs
    <2>2. clients[m] # NoConn => username[clients[m]] = m
      BY DEF OneHolderPerName
    <2>3. username[d] \notin job[e].todo
      BY <2>1 DEF Passed
    <2> QED
      BY <2>1, <2>2, <2>3 DEF Passed
  <1>3. ASSUME NEW x \in Conns, SendArrives(e, x) \/ SendLost(e, x)
        PROVE  Passed(e, d)' /\ seq' = seq
    <2>1. /\ pc[e] = "send" /\ pc'[e] = "fanout"
          /\ job'[e] = [job[e] EXCEPT !.conns = {}]
          /\ seq' = seq
      BY <1>3 DEF SendArrives, SendLost, Goto, TypeOK
    <2>2. job'[e].todo = job[e].todo /\ job'[e].frame = job[e].frame
      BY <1>1, <2>1 DEF Jobs
    <2> QED
      BY <2>1, <2>2 DEF Passed
  <1>4. ASSUME NEW x \in Conns, SendRaises(e, x)
        PROVE  Passed(e, d)' /\ seq' = seq
    BY <1>4 DEF SendRaises, Goto, TypeOK, Passed
  <1>5. CASE FanOutDone(e)
    BY <1>5 DEF FanOutDone, Goto, TypeOK, Passed
  <1>6. CASE SendReply(e)
    BY <1>6 DEF SendReply, Goto, TypeOK, Passed
  <1> QED
    BY <1>2, <1>3, <1>4, <1>5, <1>6 DEF FanOut

LEMMA NumberStep ==
  ASSUME TypeOK, TypeOK', OneHolderPerName, Named, JobsFit, Targets, Numbered,
         NEW e \in Conns, Step(e)
  PROVE  Numbered'
  <1> SUFFICES ASSUME NEW c \in Conns, NEW d \in Conns, NEW i \in DOMAIN log'[d],
                      log'[d][i].origin = c
               PROVE  /\ log'[d][i].seq <= seq'[c]
                      /\ log'[d][i].seq = seq'[c] => Passed(c, d)'
    BY DEF Numbered
  <1>1. CASE Old(d, i)
    <2>1. /\ log'[d][i] = log[d][i]
          /\ log[d][i].seq <= seq[c]
          /\ log[d][i].seq = seq[c] => Passed(c, d)
      BY <1>1 DEF Old, Numbered
    <2>2. username'[d] = username[d]
      BY <1>1, NamesStay DEF Old, Named
    <2>3. CASE c # e \/ PeerCloses(e)
      <3>1. pc'[c] = pc[c] /\ job'[c] = job[c] /\ seq'[c] = seq[c]
        BY <2>3, OthersWait DEF PeerCloses
      <3> QED
        BY <2>1, <2>2, <3>1 DEF Passed
    <2>4. CASE c = e /\ Request(e)
      <3>1. log[d][i].seq \in Nat /\ seq[c] \in Nat /\ seq'[c] = seq[c] + 1
        <4>1. log[d] \in Seq(Frames) /\ i \in DOMAIN log[d]
          BY <1>1 DEF Old, TypeOK
        <4>2. log[d][i] \in Frames
          BY <4>1
        <4>3. seq' = [seq EXCEPT ![e] = @ + 1]
          BY <2>4, RequestRead
        <4> QED
          BY <2>4, <4>2, <4>3 DEF Frames, TypeOK
      <3> QED
        BY <2>1, <3>1
    <2>5. CASE c = e /\ FanOut(e)
      <3>1. seq' = seq
        BY <2>5 DEF FanOut, Lookup, SendArrives, SendLost, SendRaises, FanOutDone, SendReply
      <3> QED
        BY <2>1, <2>2, <2>5, <3>1, PassedStep
    <2>6. CASE c = e /\ ~PeerCloses(e) /\ ~Request(e) /\ ~FanOut(e)
      BY <2>1, <2>6, QuietSteps DEF Quiet, Passed
    <2> QED
      BY <2>3, <2>4, <2>5, <2>6
  <1>2. CASE Fresh(e, d, log'[d][i])
    <2>1. CASE Passes(e, d, log'[d][i])
      <3>1. /\ log'[d][i].origin = e /\ log'[d][i].seq = seq[e]
            /\ Target(e, d)
        BY <2>1 DEF Passes, JobsFit, JobFits, Targets
      <3>2. c = e /\ seq'[c] = seq[c] /\ seq[c] \in Nat
        BY <1>2, <3>1 DEF Fresh, TypeOK
      <3>3. username'[d] = username[d]
        BY <3>1, NamesStay DEF Target
      <3>4. /\ pc'[e] = "fanout"
            /\ job'[e].todo = job[e].todo
            /\ job'[e].frame = job[e].frame
        BY <2>1 DEF Passes, TypeOK, Jobs
      <3>5. job[e].frame.type = "group_invite" => d # e
        BY <3>1 DEF Target
      <3> QED
        BY <3>1, <3>2, <3>3, <3>4, <3>5 DEF Passed, Target
    <2>2. CASE Replies(e, d, log'[d][i])
      <3>1. log'[d][i].origin = e /\ log'[d][i].seq = seq[e] /\ pc'[e] = "serve"
        BY <2>2 DEF Replies, JobsFit, JobFits
      <3> QED
        BY <1>2, <3>1 DEF Fresh, TypeOK, Passed
    <2>3. CASE Rejects(e, d, log'[d][i])
      BY <1>2, <2>3 DEF Fresh, Rejects, TypeOK, Passed
    <2> QED
      BY <1>2, <2>1, <2>2, <2>3 DEF Fresh
  <1> QED
    BY <1>1, <1>2, OldOrFresh

(* A handler comes to claim a group by creating it.                        *)
LEMMA ClaimStep ==
  ASSUME TypeOK, OneHolderPerName, NEW e \in Conns, Step(e),
         NEW c \in Conns, NEW g \in Groups, Claims(c, g)'
  PROVE  \/ Claims(c, g)
         \/ c = e /\ \E members \in SUBSET Users : CreateGroup(e, g, members)
  <1>1. CASE c # e \/ PeerCloses(e)
    <2>1. pc'[c] = pc[c] /\ job'[c] = job[c]
      BY <1>1, OthersWait DEF PeerCloses
    <2> QED
      BY <2>1 DEF Claims
  <1>2. CASE c = e /\ Request(e)
    BY <1>2, RequestRead DEF Claims
  <1>3. CASE c = e /\ FanOut(e)
    <2>1. job[e] \in Jobs /\ job[e].frame \in Frames
      BY DEF TypeOK, Jobs
    <2> USE <1>3 DEF Claims, Goto, TypeOK
    <2>2. ASSUME NEW m \in Users, Lookup(e, m)
          PROVE  Claims(c, g)
      BY <2>1, <2>2 DEF Lookup, Jobs
    <2>3. ASSUME NEW d \in Conns, SendArrives(e, d)
          PROVE  Claims(c, g)
      BY <2>1, <2>3 DEF SendArrives, Jobs
    <2>4. ASSUME NEW d \in Conns, SendLost(e, d)
          PROVE  Claims(c, g)
      BY <2>1, <2>4 DEF SendLost, Jobs
    <2>5. ASSUME NEW d \in Conns, SendRaises(e, d)
          PROVE  FALSE
      BY <2>5 DEF SendRaises
    <2>6. CASE FanOutDone(e)
      BY <2>1, <2>6 DEF FanOutDone, Frames, NoJob
    <2>7. CASE SendReply(e)
      BY <2>7 DEF SendReply
    <2> QED
      BY <2>2, <2>3, <2>4, <2>5, <2>6, <2>7 DEF FanOut
  <1>4. CASE c = e /\ ~PeerCloses(e) /\ ~Request(e) /\ ~FanOut(e)
    BY <1>4, QuietSteps DEF Quiet, Claims
  <1> QED
    BY <1>1, <1>2, <1>3, <1>4

(* A group is told of when the handler that claims it replies.             *)
LEMMA ToldStep ==
  ASSUME TypeOK, JobsFit, NEW e \in Conns, Step(e), NEW g \in Groups, Told(g)', ~Told(g)
  PROVE  /\ Claims(e, g) /\ ~Claims(e, g)'
         /\ UNCHANGED groups
  <1> PICK d \in Conns : \E i \in DOMAIN log'[d] :
          log'[d][i].type = "group_created" /\ log'[d][i].to = g
    BY DEF Told
  <1>1. PICK i \in DOMAIN log'[d] : log'[d][i].type = "group_created" /\ log'[d][i].to = g
    OBVIOUS
  <1>2. ~Old(d, i)
    BY <1>1 DEF Old, Told
  <1>3. Fresh(e, d, log'[d][i])
    BY <1>2, OldOrFresh
  <1>4. Replies(e, d, log'[d][i])
    BY <1>1, <1>3 DEF Fresh, Passes, Rejects, JobsFit, JobFits, GroupTypes
  <1> QED
    BY <1>1, <1>3, <1>4 DEF Fresh, Replies, Claims

LEMMA CreatedStep ==
  ASSUME TypeOK, OneHolderPerName, JobsFit, Created, NEW e \in Conns, Step(e)
  PROVE  Created'
  <1> SUFFICES ASSUME NEW g \in Groups
               PROVE  /\ Told(g)' => groups'[g] # {}
                      /\ \A c \in Conns : Claims(c, g)' =>
                           /\ groups'[g] # {}
                           /\ ~Told(g)'
                           /\ \A d \in Conns : Claims(d, g)' => d = c
    BY DEF Created
  <1>1. CASE \E members \in SUBSET Users : CreateGroup(e, g, members)
    <2>1. groups[g] = {} /\ groups'[g] # {} /\ log' = log
      BY <1>1 DEF CreateGroup, MembersOf, StartFanOut, ReadRequest, TypeOK
    <2>2. ~Told(g) /\ \A c \in Conns : ~Claims(c, g)
      BY <2>1 DEF Created
    <2>3. ~Told(g)'
      BY <2>1, <2>2 DEF Told
    <2>4. \A c \in Conns : Claims(c, g)' => c = e
      BY <2>2, ClaimStep
    <2> QED
      BY <2>1, <2>3, <2>4
  <1>2. CASE ~ \E members \in SUBSET Users : CreateGroup(e, g, members)
    <2>1. \A c \in Conns : Claims(c, g)' => Claims(c, g)
      BY <1>2, ClaimStep
    <2>2. CASE Told(g)' => Told(g)
      BY <2>1, <2>2, GroupsStay DEF Created
    <2>3. CASE Told(g)' /\ ~Told(g)
      BY <2>1, <2>3, ToldStep DEF Created
    <2> QED
      BY <2>2, <2>3
  <1> QED
    BY <1>1, <1>2

----------------------------------------------------------------------------
(* Every reachable state of the server satisfies them all.                 *)

THEOREM ServiceInvariance == Spec => []SInv
  <1>1. Init => SInv
    <2>1. ASSUME Init
          PROVE  Named /\ JobsFit /\ Targets /\ Numbered /\ Created
      <3>1. Named /\ JobsFit /\ Targets
        BY <2>1 DEF Init, Named, JobsFit, JobFits, Targets
      <3>2. Numbered /\ Created
        BY <2>1 DEF Init, Numbered, Created, Claims, Told
      <3> QED
        BY <3>1, <3>2
    <2> QED
      BY <2>1, IInvInit DEF SInv
  <1>2. SInv /\ [Next]_vars => SInv'
    <2> SUFFICES ASSUME SInv, [Next]_vars
                 PROVE  SInv'
      OBVIOUS
    <2>1. IInv'
      BY TypeStep, HolderStep, ListStep, DebtStep DEF SInv, IInv
    <2>2. CASE Next
      <3>1. PICK e \in Conns : Step(e)
        BY <2>2 DEF Next, Step
      <3> QED
        BY <2>1, <3>1, NamedStep, JobStep, TargetStep, NumberStep, CreatedStep DEF SInv, IInv
    <2>3. CASE UNCHANGED vars
      <3>1. Named' /\ JobsFit' /\ Targets'
        BY <2>3 DEF vars, SInv, Named, JobsFit, JobFits, Targets, Target
      <3>2. Numbered' /\ Created'
        BY <2>3 DEF vars, SInv, Numbered, Passed, Created, Claims, Told
      <3> QED
        BY <2>1, <3>1, <3>2 DEF SInv
    <2> QED
      BY <2>2, <2>3
  <1> QED
    BY <1>1, <1>2, PTL DEF Spec

----------------------------------------------------------------------------
(* The refinement.                                                         *)

(* What the handler writes to d is, for the service, a delivery.           *)
LEMMA PassingDelivers ==
  ASSUME SInv, SInv', NEW e \in Conns, Step(e), UNCHANGED <<clients, username, groups>>,
         NEW d \in Conns, NEW f \in Frames, Writes(d, f), Passes(e, d, f) \/ Replies(e, d, f)
  PROVE  Service!Deliver(d, f)
  <1> USE DEF SInv, IInv
  <1>1. pc[e] \in {"send", "reply"} /\ f = job[e].frame
    BY DEF Passes, Replies
  <1>2. /\ f.from = username[e] /\ f.origin = e /\ f.seq = seq[e]
        /\ username[e] \in Users /\ clients[username[e]] = e
    BY <1>1 DEF JobsFit, JobFits, OneHolderPerName
  <1>3. ~Passed(e, d)
    BY DEF Passes, Replies, Passed
  <1>4. Service!InOrder(f.origin, d, f.seq)
    <2> SUFFICES ASSUME NEW i \in DOMAIN log[d], log[d][i].origin = e
                 PROVE  log[d][i].seq < seq[e]
      BY <1>2 DEF Service!InOrder
    <2>1. log[d][i].seq <= seq[e] /\ log[d][i].seq # seq[e]
      BY <1>3 DEF Numbered
    <2>2. log[d] \in Seq(Frames) /\ seq[e] \in Nat
      BY DEF TypeOK
    <2>3. log[d][i].seq \in Nat
      <3>1. log[d][i] \in Frames
        BY <2>2
      <3> QED
        BY <3>1 DEF Frames
    <2> QED
      BY <2>1, <2>2, <2>3
  <1>5. Service!Addressed(f, d)
    <2>1. CASE Passes(e, d, f)
      <3>1. Target(e, d)
        BY <2>1 DEF Passes, Targets
      <3>2. \/ f.type = "message"
            \/ f.type \in GroupTypes /\ username[e] \in groups[f.to]
        BY <1>1, <2>1 DEF Passes, JobsFit, JobFits
      <3> QED
        BY <1>1, <1>2, <3>1, <3>2 DEF Target, GroupTypes, Service!Addressed
    <2>2. CASE Replies(e, d, f)
      <3>1. CASE f.type = "error"
        BY <1>2, <2>2, <3>1 DEF Replies, Service!Addressed
      <3>2. CASE f.type # "error"
        <4>1. f.type = "group_created" /\ f.to \in Groups /\ username[e] \in groups[f.to]
          BY <2>2, <3>2 DEF Replies, JobsFit, JobFits
        <4>2. Claims(e, f.to)
          BY <2>2, <4>1 DEF Replies, Claims
        <4>3. ~Told(f.to)
          BY <4>1, <4>2 DEF Created
        <4> QED
          BY <1>2, <2>2, <4>1, <4>3 DEF Replies, Told, Service!Addressed
      <3> QED
        BY <3>1, <3>2
    <2> QED
      BY <2>1, <2>2
  <1> QED
    BY <1>2, <1>4, <1>5 DEF Service!Deliver, Writes

LEMMA WriteRefines ==
  ASSUME SInv, SInv', NEW e \in Conns, FanOut(e)
  PROVE  Service!DeliverSome \/ UNCHANGED Service!serviceVars
  <1>1. Step(e) /\ UNCHANGED <<clients, username, groups>>
    BY DEF Step, FanOut, Lookup, SendArrives, SendLost, SendRaises, FanOutDone, SendReply
  <1>2. ASSUME NEW d \in Conns, NEW f \in Frames, Writes(d, f),
               Passes(e, d, f) \/ Replies(e, d, f)
        PROVE  Service!DeliverSome
    <2>1. Service!Deliver(d, f)
      BY <1>1, <1>2, PassingDelivers
    <2>2. log'[d] # <<>> /\ log'[d][Len(log'[d])] = f
      BY <1>2, Written DEF SInv, IInv
    <2> QED
      BY <2>1, <2>2 DEF Service!DeliverSome
  <1>3. pc[e] # "login"
    BY DEF FanOut, Lookup, SendArrives, SendLost, SendRaises, FanOutDone, SendReply
  <1> QED
    BY <1>1, <1>2, <1>3, WhatIsWritten DEF SInv, IInv, Rejects, Service!serviceVars

LEMMA LoginRefines ==
  ASSUME SInv, NEW e \in Conns, Login(e)
  PROVE  Service!ServiceNext \/ UNCHANGED Service!serviceVars
  <1>1. pc[e] = "login" /\ username[e] = NoUser
    BY DEF Login, HandshakeFails, RejectName, RejectDuplicate, Register, SInv, Named, Unnamed
  <1>2. CASE HandshakeFails(e)
    BY <1>2 DEF HandshakeFails, Service!serviceVars
  <1>3. CASE RejectName(e)
    <2>1. username' = [username EXCEPT ![e] = NoUser]
      BY <1>1, <1>3 DEF RejectName, SInv, IInv, TypeOK
    <2>2. Service!Refuse(e, NoUser)
      BY <1>1, <1>3, <2>1 DEF RejectName, Reply, Frame, Service!Refuse
    <2> QED
      BY <2>2 DEF Service!ServiceNext
  <1>4. ASSUME NEW u \in Users, RejectDuplicate(e, u)
        PROVE  Service!ServiceNext
    <2>1. [Frame(e, "error", NoUser, 0) EXCEPT !.from = u] =
            [type |-> "error", from |-> u, to |-> NoUser, origin |-> e, seq |-> 0]
      BY DEF Frame
    <2>2. Service!Refuse(e, u)
      BY <1>1, <1>4, <2>1 DEF RejectDuplicate, Reply, Service!Refuse
    <2> QED
      BY <2>2 DEF Service!ServiceNext
  <1>5. ASSUME NEW u \in Users, Register(e, u)
        PROVE  Service!ServiceNext
    <2>1. Service!Join(e, u)
      BY <1>1, <1>5 DEF Register, Service!Join
    <2> QED
      BY <2>1 DEF Service!ServiceNext
  <1> QED
    BY <1>2, <1>3, <1>4, <1>5 DEF Login

LEMMA EndRefines ==
  ASSUME SInv, NEW e \in Conns, Deregister(e)
  PROVE  Service!ServiceNext \/ UNCHANGED Service!serviceVars
  <1> USE DEF SInv, IInv, TypeOK
  <1>1. CASE HoldsName(e)
    <2>1. \A u \in Users : clients[u] = e => u = username[e]
      BY NoConnIsNoConnection DEF OneHolderPerName
    <2>2. clients' = [u \in Users |-> IF clients[u] = e THEN NoConn ELSE clients[u]]
      BY <1>1, <2>1 DEF Deregister, HoldsName
    <2>3. Service!Leave(e)
      BY <1>1, <2>2 DEF Deregister, HoldsName, Service!Leave, Service!OnLine
    <2> QED
      BY <2>3 DEF Service!ServiceNext
  <1>2. CASE ~HoldsName(e)
    BY <1>2 DEF Deregister, Service!serviceVars
  <1> QED
    BY <1>1, <1>2

LEMMA RequestRefines ==
  ASSUME SInv, NEW e \in Conns, Request(e)
  PROVE  Service!ServiceNext \/ UNCHANGED Service!serviceVars
  <1>1. UNCHANGED <<clients, username, log>>
    BY DEF Request, RejectRequest, IgnoreRequest, GroupExists, NotMember, CreateGroup,
           GroupMessage, DirectMessage, StartFanOut, ReadRequest
  <1>2. ASSUME NEW g \in Groups, NEW members \in SUBSET Users, CreateGroup(e, g, members)
        PROVE  Service!ServiceNext
    <2>1. pc[e] = "serve"
      BY <1>2 DEF CreateGroup, StartFanOut, ReadRequest
    <2>2. Service!OnLine(e)
      BY <2>1 DEF Service!OnLine, SInv, IInv, OneHolderPerName
    <2>3. Service!CreateRoom(e, g, members)
      BY <1>1, <1>2, <2>2 DEF CreateGroup, MembersOf, Service!CreateRoom
    <2> QED
      BY <2>3 DEF Service!ServiceNext
  <1>3. CASE groups' = groups
    BY <1>1, <1>3 DEF Service!serviceVars
  <1> QED
    BY <1>2, <1>3, GroupsStep DEF Step, SInv, IInv

(* The server implements the service: nothing it does to the dictionaries, *)
(* and no frame a user receives, is outside what the service promises      *)
(* (handle_client, forward_payload).                                       *)
THEOREM Refinement == Spec => ImplementsService
  <1>1. Init => Service!ServiceInit
    BY DEF Init, Service!ServiceInit
  <1>2. SInv /\ SInv' /\ [Next]_vars => [Service!ServiceNext]_(Service!serviceVars)
    <2> SUFFICES ASSUME SInv, SInv', [Next]_vars
                 PROVE  Service!ServiceNext \/ UNCHANGED Service!serviceVars
      OBVIOUS
    <2>1. CASE UNCHANGED vars
      BY <2>1 DEF vars, Service!serviceVars
    <2>2. ASSUME NEW e \in Conns, Step(e)
          PROVE  Service!ServiceNext \/ UNCHANGED Service!serviceVars
      <3>1. CASE Accept(e) \/ PeerCloses(e) \/ LeaveLoop(e) \/ Broadcast(e)
        BY <3>1 DEF Accept, PeerCloses, LeaveLoop, Broadcast, Greet, Snapshot, SendList,
                    Service!serviceVars
      <3>2. CASE FanOut(e)
        BY <3>2, WriteRefines DEF Service!ServiceNext
      <3> QED
        BY <2>2, <3>1, <3>2, LoginRefines, EndRefines, RequestRefines DEF Step
    <2> QED
      BY <2>1, <2>2 DEF Next, Step
  <1> QED
    BY <1>1, <1>2, ServiceInvariance, PTL DEF Spec, ImplementsService, Service!ServiceSpec

============================================================================
