-------------------------- MODULE ChatClientProofs --------------------------
(***************************************************************************)
(* Theorems about ChatClient, for texts and files of any sizes.            *)
(***************************************************************************)
EXTENDS ChatClient, SequenceTheorems, FiniteSetTheorems, TLAPS

(* What a client sends fits into a frame, whatever the text or the file    *)
(* (check_message_size, check_file_size, MAX_FRAME_SIZE).                  *)
THEOREM AcceptedRequestsFit ==
  ASSUME NEW r \in TextRequests \cup FileRequests, ClientAccepts(r)
  PROVE  FrameSize(r) <= MAX_FRAME_SIZE
  <1> USE EnvelopeIsSmall, EscapingNeverShortens, FilesHaveSizes
          DEF TextRequests, FileRequests, ClientAccepts, FrameSize, IsText, MAX_FRAME_SIZE, Encrypted
  <1>1. CASE r \in TextRequests
    BY <1>1 DEF check_message_size, MAX_MESSAGE_SIZE
  <1>2. CASE r \in FileRequests
    <2>1. r.what.bytes \in Nat /\ r.what.bytes <= 5 * 1024 * 1024
      BY <1>2 DEF check_file_size, MAX_FILE_SIZE
    <2>2. Base64(r.what.bytes) <= 4 * ((5 * 1024 * 1024 + 2) \div 3)
      BY <2>1 DEF Base64
    <2>3. Base64(r.what.bytes) \in Nat
      BY <2>1 DEF Base64
    <2> QED
      BY <1>2, <2>2, <2>3
  <1> QED
    BY <1>1, <1>2

LEMMA RequestSizes ==
  ASSUME NEW r \in TextRequests \cup FileRequests
  PROVE  FrameSize(r) \in Nat
  <1> USE EnvelopeIsSmall, EscapingNeverShortens, FilesHaveSizes
          DEF TextRequests, FileRequests, FrameSize, IsText, Encrypted
  <1>1. CASE r \in TextRequests
    BY <1>1
  <1>2. CASE r \in FileRequests
    <2>1. r.what.bytes \in Nat /\ Base64(r.what.bytes) \in Nat
      BY <1>2 DEF Base64
    <2> QED
      BY <1>2, <2>1
  <1> QED
    BY <1>1, <1>2

(* Replies and lists fit, too.                                             *)
LEMMA OtherSizes ==
  /\ Encrypted(Envelope) \in Nat /\ Encrypted(Envelope) <= MAX_FRAME_SIZE
  /\ \A k \in Nat : k <= 200 * 1000 => ListSize(k) \in Nat /\ ListSize(k) <= MAX_FRAME_SIZE
  BY EnvelopeIsSmall DEF Encrypted, ListSize, MAX_FRAME_SIZE

LEMMA ListLengths ==
  ASSUME NEW users \in SUBSET Users
  PROVE  Cardinality(users) + 1 \in Nat /\ Cardinality(users) + 1 <= 200 * 1000
  <1>1. IsFiniteSet(Users) /\ Cardinality(Users) < 200 * 1000
    BY ListsAreShort
  <1>2. IsFiniteSet(users) /\ Cardinality(users) <= Cardinality(Users)
    BY <1>1, FS_Subset
  <1>3. Cardinality(users) \in Nat /\ Cardinality(Users) \in Nat
    BY <1>1, <1>2, FS_CardinalityType
  <1> QED
    BY <1>1, <1>2, <1>3

---------------------------------------------------------------------------
(* Sequences and frames.                                                   *)

LEMMA Appended ==
  ASSUME NEW S, NEW s \in Seq(S), NEW e \in S
  PROVE  /\ Append(s, e) \in Seq(S)
         /\ ToSet(Append(s, e)) = ToSet(s) \cup {e}
         /\ DOMAIN Append(s, e) = DOMAIN s \cup {Len(s) + 1}
         /\ DOMAIN s = 1..Len(s) /\ Len(s) \in Nat
         /\ \A i \in DOMAIN s : Append(s, e)[i] = s[i]
         /\ Append(s, e)[Len(s) + 1] = e
  <1>1. /\ Append(s, e) \in Seq(S)
        /\ DOMAIN Append(s, e) = DOMAIN s \cup {Len(s) + 1}
        /\ DOMAIN s = 1..Len(s) /\ Len(s) \in Nat
        /\ \A i \in DOMAIN s : Append(s, e)[i] = s[i]
        /\ Append(s, e)[Len(s) + 1] = e
    OBVIOUS
  <1>2. ToSet(Append(s, e)) = ToSet(s) \cup {e}
    BY <1>1 DEF ToSet
  <1> QED
    BY <1>1, <1>2

LEMMA Shortened ==
  ASSUME NEW S, NEW s \in Seq(S), s # <<>>
  PROVE  /\ Tail(s) \in Seq(S) /\ Head(s) \in S
         /\ ToSet(s) = {Head(s)} \cup ToSet(Tail(s))
         /\ Head(s) = s[1] /\ 1 \in DOMAIN s
         /\ Len(Tail(s)) + 1 = Len(s) /\ Len(s) \in Nat
         /\ \A i \in DOMAIN Tail(s) : i \in Nat /\ i + 1 \in DOMAIN s /\ Tail(s)[i] = s[i + 1]
         /\ \A i \in DOMAIN s : i # 1 => i - 1 \in DOMAIN Tail(s)
  <1>1. /\ Tail(s) \in Seq(S) /\ Head(s) \in S
        /\ Head(s) = s[1] /\ 1 \in DOMAIN s
        /\ Len(Tail(s)) + 1 = Len(s) /\ Len(s) \in Nat
        /\ \A i \in DOMAIN Tail(s) : i \in Nat /\ i + 1 \in DOMAIN s /\ Tail(s)[i] = s[i + 1]
        /\ \A i \in DOMAIN s : i \in Nat /\ (i # 1 => i - 1 \in DOMAIN Tail(s))
    BY HeadTailProperties
  <1>2. \A i \in DOMAIN s : i = 1 \/ s[i] = Tail(s)[i - 1]
    BY <1>1
  <1>3. ToSet(s) = {Head(s)} \cup ToSet(Tail(s))
    BY <1>1, <1>2 DEF ToSet
  <1> QED
    BY <1>1, <1>3

LEMMA FrameKinds ==
  ASSUME NEW f \in Frames
  PROVE  /\ f \in Lists <=> f.type = "user_list"
         /\ f \in Errors <=> f.type = "error"
         /\ f \in Messages <=> f.type \notin {"user_list", "error"}
         /\ f \in Lists => f.users \subseteq Users \cup {Me}
         /\ f.n \in Nat /\ f.n # 0 /\ f.size \in Nat
  BY DEF Frames, Lists, Errors, Messages

(* on_message_received is called for a message with its conversation.      *)
LEMMA ShownInConversation ==
  ASSUME NEW f \in Messages
  PROVE  /\ ChatOf(f) \in Chats
         /\ \A c : InConversation(f, c) <=> c = ChatOf(f)
         /\ ChatOf(f) # Me
         /\ ChatOf(f) \in Groups => f.to = ChatOf(f)
  BY MeIsNobodyElse, UsersAreNoGroups DEF Messages, ChatOf, InConversation, Chats

(* What a client sends, the server does not refuse for its contents.       *)
LEMMA AcceptedByServer ==
  ASSUME NEW r \in TextRequests \cup FileRequests, ClientAccepts(r)
  PROVE  ServerAccepts(r)
  <1> USE EnvelopeIsSmall, EscapingNeverShortens DEF ClientAccepts, ServerAccepts, IsText, IsFile
  <1>1. CASE r \in TextRequests
    BY <1>1 DEF TextRequests, check_message_size, MAX_MESSAGE_SIZE
  <1>2. CASE r \in FileRequests
    BY <1>2 DEF FileRequests
  <1> QED
    BY <1>1, <1>2

---------------------------------------------------------------------------
(* What the environment does, and what taking a frame does.                *)

LEMMA Answers ==
  ASSUME TypeOK, NEW r \in Requests
  PROVE  /\ ErrorReply(r) \in Errors
         /\ ErrorReply(r).n = count + 1 /\ ErrorReply(r).from = r.type
         /\ ErrorReply(r).size <= MAX_FRAME_SIZE
  <1>1. count + 1 \in Nat \ {0}
    BY BoundsAreNumbers DEF TypeOK
  <1>2. r.type \in RequestTypes /\ r.to \in Chats \cup {Me}
    BY DEF Requests, TextRequests, FileRequests, RequestTypes, Chats
  <1> DEFINE size == Encrypted(Envelope)
  <1>3. size \in Nat /\ size <= MAX_FRAME_SIZE
    BY OtherSizes
  <1>4. ErrorReply(r) = [[type |-> "error", from |-> Me, to |-> Me, size |-> size, n |-> count + 1]
                         EXCEPT !.to = r.to, !.from = r.type]
    BY DEF ErrorReply, Frame
  <1> HIDE DEF size
  <1> QED
    BY <1>1, <1>2, <1>3, <1>4 DEF Errors

LEMMA Notices ==
  ASSUME TypeOK, NEW u \in Users \cup {Me}, NEW g \in Groups
  PROVE  /\ Notice(u, g) \in Messages
         /\ Notice(u, g).n = count + 1 /\ Notice(u, g).to = g
         /\ Notice(u, g).size <= MAX_FRAME_SIZE
  <1> DEFINE size == IF u = Me THEN Encrypted(Envelope) ELSE ListSize(Members)
  <1>1. count + 1 \in Nat \ {0}
    BY BoundsAreNumbers DEF TypeOK
  <1>2. size \in Nat /\ size <= MAX_FRAME_SIZE
    BY OtherSizes, ListsAreShort
  <1>3. PICK type \in {"group_created", "group_invite"} :
          Notice(u, g) = [type |-> type, from |-> u, to |-> g, size |-> size, n |-> count + 1]
    BY DEF Notice, Frame
  <1> HIDE DEF size
  <1> QED
    BY <1>1, <1>2, <1>3 DEF Messages

(* A frame that arrives.                                                   *)
Arriving(f) ==
  /\ Arrive(f)
  /\ f \in Frames
  /\ f.n = count + 1
  /\ ~Foreign(f) => f.size <= MAX_FRAME_SIZE
  /\ f \in Messages /\ f.to \in Groups => room'[f.to] = "ours"

(* Members are told of groups that have been created with them.            *)
OwedOurs == \A u \in Users \cup {Me}, g \in Groups : <<u, g>> \in owed => room[g] = "ours"

Remains == <<receiver, main, gui, actions, handled>>

LEMMA OwedMore ==
  ASSUME TypeOK, OwedOurs, NEW u \in Users \cup {Me}, NEW g \in Groups,
         room' = [room EXCEPT ![g] = "ours"], owed' = owed \cup {<<u, g>>}
  PROVE  owed' \subseteq (Users \cup {Me}) \X Groups /\ OwedOurs'
  <1>1. owed \subseteq (Users \cup {Me}) \X Groups /\ <<u, g>> \in (Users \cup {Me}) \X Groups
    BY DEF TypeOK
  <1>2. ASSUME NEW v \in Users \cup {Me}, NEW h \in Groups, <<v, h>> \in owed'
        PROVE  room'[h] = "ours"
    <2>1. <<v, h>> \in owed \/ h = g
      BY <1>2
    <2>2. room \in [Groups -> {"none", "ours", "theirs"}]
      BY DEF TypeOK
    <2> QED
      BY <2>1, <2>2 DEF OwedOurs
  <1> QED
    BY <1>1, <1>2 DEF OwedOurs

LEMMA EnvironmentStep ==
  ASSUME TypeOK, OwedOurs, Environment
  PROVE  /\ UNCHANGED Remains
         /\ UNCHANGED <<inbox, count>> \/ \E f : Arriving(f)
         /\ conn' = "open" => conn = "open"
         /\ room' \in [Groups -> {"none", "ours", "theirs"}]
         /\ \A g \in Groups : room[g] = "ours" => room'[g] = "ours"
         /\ owed' \subseteq (Users \cup {Me}) \X Groups /\ OwedOurs'
         /\ outbox' \in Seq(Requests)
         /\ conn' \in {"open", "cut", "closed"}
  <1>1. count + 1 \in Nat \ {0}
    BY BoundsAreNumbers DEF TypeOK
  <1>2. ASSUME NEW users \in SUBSET Users, UserListArrives(users)
        PROVE  \E f : Arriving(f)
    <2> DEFINE f == [type |-> "user_list", users |-> users \cup {Me}, n |-> count + 1,
                     size |-> ListSize(Cardinality(users) + 1)]
    <2>1. ListSize(Cardinality(users) + 1) \in Nat /\ ListSize(Cardinality(users) + 1) <= MAX_FRAME_SIZE
      BY ListLengths, OtherSizes
    <2>2. f \in Lists
      BY <1>1, <2>1 DEF Lists
    <2>3. f \notin Messages
      BY DEF Messages
    <2> QED
      BY <1>2, <2>1, <2>2, <2>3 DEF UserListArrives, Arriving, Frames
  <1>3. ASSUME NEW u \in Users, NEW r \in TextRequests \cup FileRequests, OtherSends(u, r)
        PROVE  \E f : Arriving(f)
    <2>1. FrameSize(r) \in Nat /\ (u \in Standard => FrameSize(r) <= MAX_FRAME_SIZE)
      BY <1>3, AcceptedRequestsFit, RequestSizes DEF OtherSends
    <2>2. Forwarded(r, u) = [type |-> r.type, from |-> u, to |-> r.to, size |-> FrameSize(r),
                             n |-> count + 1]
      BY DEF Forwarded, Frame
    <2>3. \/ r.type \in {"message", "message_file"} /\ r.to \in Users \cup {Me}
          \/ r.type \in {"group_message", "group_file"} /\ r.to \in Groups
      BY DEF TextRequests, FileRequests
    <2>4. Forwarded(r, u) \in Messages
      BY <1>1, <1>3, <2>1, <2>2, <2>3, MeIsNobodyElse, UsersAreNoGroups DEF OtherSends, Messages
    <2>5. r.to \in Groups => room'[r.to] = "ours"
      BY <1>3, MeIsNobodyElse DEF OtherSends
    <2>6. ~Foreign(Forwarded(r, u)) => u \in Standard
      BY <2>2, <2>4, MeIsNobodyElse DEF Foreign
    <2> HIDE DEF FrameSize
    <2> QED
      BY <1>3, <2>1, <2>2, <2>4, <2>5, <2>6 DEF OtherSends, Arriving, Frames
  <1>4. ASSUME NEW u \in Users \cup {Me}, NEW g \in Groups, Notify(u, g)
        PROVE  UNCHANGED <<inbox, count>> \/ \E f : Arriving(f)
    <2>1. room'[g] = "ours"
      BY <1>4 DEF Notify, OwedOurs
    <2> QED
      BY <1>4, <2>1, Notices DEF Notify, Arriving, Frames
  <1>5. CASE ServerHandles
    <2> DEFINE r == Head(outbox)
    <2>1. r \in Requests /\ Tail(outbox) \in Seq(Requests)
      BY <1>5, Shortened DEF ServerHandles, TypeOK
    <2>2. UNCHANGED <<inbox, count>> \/ Arrive(ErrorReply(r))
      BY <1>5 DEF ServerHandles
    <2>3. r.type = "create_group" => r.to \in Groups
      BY <2>1 DEF Requests, TextRequests, FileRequests
    <2>4. ErrorReply(r) \notin Messages
      BY <2>1, Answers, FrameKinds DEF Errors, Messages
    <2>5. UNCHANGED <<inbox, count>> \/ \E f : Arriving(f)
      <3>1. CASE Arrive(ErrorReply(r))
        <4>1. /\ ErrorReply(r) \in Frames /\ ErrorReply(r).n = count + 1
              /\ ErrorReply(r).size <= MAX_FRAME_SIZE
          BY <2>1, Answers DEF Frames
        <4> QED
          BY <2>4, <3>1, <4>1 DEF Arriving
      <3> QED
        BY <2>2, <3>1
    <2>6. \/ UNCHANGED <<room, owed>>
          \/ /\ r.type = "create_group" /\ room[r.to] = "none"
             /\ room' = [room EXCEPT ![r.to] = "ours"]
             /\ owed' = owed \cup {<<Me, r.to>>}
      BY <1>5 DEF ServerHandles
    <2>7. /\ room' \in [Groups -> {"none", "ours", "theirs"}]
          /\ \A g \in Groups : room[g] = "ours" => room'[g] = "ours"
      BY <2>3, <2>6 DEF TypeOK
    <2>8. /\ owed' \subseteq (Users \cup {Me}) \X Groups
          /\ OwedOurs'
      <3>1. CASE UNCHANGED <<room, owed>>
        BY <3>1 DEF TypeOK, OwedOurs
      <3>2. CASE /\ r.type = "create_group" /\ room' = [room EXCEPT ![r.to] = "ours"]
                 /\ owed' = owed \cup {<<Me, r.to>>}
        BY <2>3, <3>2, OwedMore
      <3> QED
        BY <2>6, <3>1, <3>2
    <2> QED
      BY <1>5, <2>1, <2>5, <2>7, <2>8 DEF ServerHandles, Remains, TypeOK
  <1>6. CASE ServerCloses
    <2>1. <<>> \in Seq(Requests)
      OBVIOUS
    <2> QED
      BY <1>6, <2>1 DEF ServerCloses, Remains, TypeOK, OwedOurs
  <1>7. CASE \E g \in Groups : OtherCreates(g)
    BY <1>7 DEF OtherCreates, Remains, TypeOK, OwedOurs
  <1>8. CASE \E users \in SUBSET Users : UserListArrives(users)
    BY <1>2, <1>8 DEF UserListArrives, Remains, TypeOK, OwedOurs
  <1>9. CASE \E u \in Users, r \in TextRequests \cup FileRequests : OtherSends(u, r)
    BY <1>3, <1>9 DEF OtherSends, Remains, TypeOK, OwedOurs
  <1>10. CASE \E u \in Users, g \in Groups : OtherInvites(u, g)
    <2> PICK u \in Users, g \in Groups : OtherInvites(u, g)
      BY <1>10
    <2>1. /\ room' = [room EXCEPT ![g] = "ours"]
          /\ owed' = owed \cup {<<u, g>>}
      BY DEF OtherInvites
    <2>2. owed' \subseteq (Users \cup {Me}) \X Groups /\ OwedOurs'
      BY <2>1, OwedMore
    <2> QED
      BY <2>1, <2>2 DEF OtherInvites, Remains, TypeOK
  <1>11. CASE \E u \in Users \cup {Me}, g \in Groups : Notify(u, g)
    BY <1>4, <1>11 DEF Notify, Remains, TypeOK, OwedOurs
  <1> QED
    BY <1>5, <1>6, <1>7, <1>8, <1>9, <1>10, <1>11 DEF Environment


---------------------------------------------------------------------------
(* Types and numbers.                                                      *)

(* Frames arrive, and are taken, in the order of their numbers.            *)
Numbered ==
  /\ \A f \in handled : \A i \in DOMAIN inbox : f.n < inbox[i].n
  /\ \A i, j \in DOMAIN inbox : i < j => inbox[i].n < inbox[j].n
  /\ \A f \in Arrived : f.n <= count

LEMMA TakeStep ==
  ASSUME TypeOK, Numbered, NEW f, Take(f)
  PROVE  /\ f \in Frames /\ f \in ToSet(inbox)
         /\ inbox' \in Seq(Frames)
         /\ ToSet(inbox') \subseteq ToSet(inbox)
         /\ handled' = handled \cup {f}
         /\ Arrived' = Arrived
         /\ \A g \in handled : g.n < f.n
         /\ Numbered'
         /\ receiver = Reading /\ main # "exit"
         /\ UNCHANGED <<outbox, room, owed, count, main, user_listbox, active_user, actions>>
  <1>1. /\ f = Head(inbox) /\ inbox' = Tail(inbox) /\ inbox # <<>>
        /\ handled' = handled \cup {f}
        /\ UNCHANGED <<outbox, room, owed, count, main, user_listbox, active_user, actions>>
    BY DEF Take
  <1>2. /\ f \in Frames /\ inbox' \in Seq(Frames)
        /\ ToSet(inbox) = {f} \cup ToSet(inbox')
        /\ f = inbox[1] /\ 1 \in DOMAIN inbox
        /\ \A i \in DOMAIN inbox' : i \in Nat /\ i + 1 \in DOMAIN inbox /\ inbox'[i] = inbox[i + 1]
    BY <1>1, Shortened DEF TypeOK
  <1>3. Arrived' = Arrived
    BY <1>1, <1>2 DEF Arrived
  <1>4. \A i \in DOMAIN inbox' : f.n < inbox'[i].n
    <2> SUFFICES ASSUME NEW i \in DOMAIN inbox' PROVE f.n < inbox'[i].n
      OBVIOUS
    <2>1. DOMAIN inbox' = 1..Len(inbox')
      BY <1>2
    <2> QED
      BY <1>2, <2>1 DEF Numbered
  <1>5. \A i, j \in DOMAIN inbox' : i < j => inbox'[i].n < inbox'[j].n
    BY <1>2 DEF Numbered
  <1>6. \A g \in handled : g.n < f.n /\ \A i \in DOMAIN inbox' : g.n < inbox'[i].n
    BY <1>2 DEF Numbered
  <1>7. \A g \in Arrived' : g.n <= count'
    BY <1>1, <1>3 DEF Numbered
  <1>8. Numbered'
    BY <1>1, <1>4, <1>5, <1>6, <1>7 DEF Numbered
  <1> QED
    BY <1>1, <1>2, <1>3, <1>6, <1>8 DEF Take

LEMMA ArrivalStep ==
  ASSUME TypeOK, Numbered, NEW f, Arriving(f), UNCHANGED Remains
  PROVE  /\ inbox' \in Seq(Frames)
         /\ ToSet(inbox') = ToSet(inbox) \cup {f}
         /\ Arrived' = Arrived \cup {f}
         /\ count' \in 0..MaxFrames
         /\ \A g \in Arrived : g.n < f.n
         /\ Numbered'
  <1>1. /\ inbox' = Append(inbox, f) /\ f \in Frames /\ f.n = count + 1 /\ count' = count + 1
        /\ count < MaxFrames /\ count \in Nat /\ MaxFrames \in Nat
    BY BoundsAreNumbers DEF Arriving, Arrive, TypeOK
  <1>2. /\ inbox' \in Seq(Frames)
        /\ ToSet(inbox') = ToSet(inbox) \cup {f}
        /\ DOMAIN inbox' = DOMAIN inbox \cup {Len(inbox) + 1}
        /\ DOMAIN inbox = 1..Len(inbox) /\ Len(inbox) \in Nat
        /\ \A i \in DOMAIN inbox : inbox'[i] = inbox[i]
        /\ inbox'[Len(inbox) + 1] = f
    BY <1>1, Appended DEF TypeOK
  <1>3. handled' = handled /\ Arrived' = Arrived \cup {f}
    BY <1>2 DEF Arrived, Remains
  <1>4. \A g \in Arrived : g \in Frames /\ g.n \in Nat
    BY FrameKinds DEF Arrived, TypeOK, ToSet
  <1>5. \A g \in Arrived : g.n <= count /\ g.n < f.n /\ g.n <= count'
    BY <1>1, <1>4 DEF Numbered
  <1>6. \A g \in handled' : \A i \in DOMAIN inbox' : g.n < inbox'[i].n
    BY <1>2, <1>3, <1>5 DEF Numbered, Arrived
  <1>7. \A i, j \in DOMAIN inbox' : i < j => inbox'[i].n < inbox'[j].n
    <2> SUFFICES ASSUME NEW i \in DOMAIN inbox', NEW j \in DOMAIN inbox', i < j
                 PROVE  inbox'[i].n < inbox'[j].n
      OBVIOUS
    <2>1. i \in DOMAIN inbox
      BY <1>2
    <2>2. inbox[i] \in Arrived
      BY <2>1 DEF Arrived, ToSet
    <2>3. CASE j \in DOMAIN inbox
      BY <1>2, <2>1, <2>3 DEF Numbered
    <2>4. CASE j = Len(inbox) + 1
      BY <1>2, <1>5, <2>1, <2>2, <2>4
    <2> QED
      BY <1>2, <2>3, <2>4
  <1>8. \A g \in Arrived' : g.n <= count'
    BY <1>1, <1>3, <1>5
  <1>9. Numbered'
    BY <1>6, <1>7, <1>8 DEF Numbered
  <1> QED
    BY <1>1, <1>2, <1>3, <1>5, <1>9

LEMMA NumberStep ==
  ASSUME TypeOK, OwedOurs, Numbered, [Next]_vars
  PROVE  Numbered'
  <1>1. CASE Environment
    <2>1. CASE UNCHANGED <<inbox, count>>
      BY <1>1, <2>1, EnvironmentStep DEF Remains, Numbered, Arrived
    <2> QED
      BY <1>1, <2>1, EnvironmentStep, ArrivalStep
  <1>2. CASE TakeFrame
    BY <1>2, TakeStep DEF TakeFrame, ReceiveList, ReceiveMessage, ReceiveError, GiveUp
  <1>3. CASE ReceiveThread /\ ~TakeFrame
    BY <1>3 DEF ReceiveThread, ClearList, FillList, ListFilled, LookUpChat, InsertChat, StreamEnds,
                server, Numbered, Arrived
  <1>4. CASE MainThread
    BY <1>4 DEF MainThread, Callback, NoteSent, ShowGroup, SwitchUser, Send, Upload, NewGroup,
                RefuseGroup, OnClose, server, Numbered, Arrived
  <1>5. CASE UNCHANGED vars
    BY <1>5 DEF vars, server, Numbered, Arrived
  <1> QED
    BY <1>1, <1>2, <1>3, <1>4, <1>5 DEF Next

(* A history with one more entry.                                          *)
Histories == [Chats \cup {NoChat} -> Seq([by : {"peer", "You", "System"}, n : Nat])]

LEMMA NoteType ==
  ASSUME chat_histories \in Histories, NEW chat \in Chats \cup {NoChat},
         NEW by \in {"peer", "You", "System"}, NEW n \in Nat, Note(chat, Entry(by, n))
  PROVE  chat_histories' \in Histories
  <1>1. Entry(by, n) \in [by : {"peer", "You", "System"}, n : Nat]
    BY DEF Entry
  <1> QED
    BY <1>1 DEF Note, Histories

LEMMA TakeFrameType ==
  ASSUME TypeOK, Numbered, TakeFrame
  PROVE  TypeOK'
  <1> PICK f \in ToSet(inbox) :
         \/ ReceiveList(f) \/ ReceiveMessage(f) \/ ReceiveError(f)
         \/ \E cause \in {"disk", "size"} : GiveUp(f, cause)
    BY DEF TakeFrame
  <1>1. /\ f \in Frames /\ inbox' \in Seq(Frames) /\ handled' = handled \cup {f}
        /\ UNCHANGED <<outbox, room, owed, count, main, user_listbox, active_user, actions>>
    <2>1. Take(f)
      BY DEF ReceiveList, ReceiveMessage, ReceiveError, GiveUp
    <2> QED
      BY <2>1, TakeStep
  <1>2. CASE ReceiveList(f)
    <2>1. f.users \subseteq Users \cup {Me}
      BY <1>1, <1>2, FrameKinds DEF ReceiveList
    <2>2. receiver' \in ReceiverStates
      BY <1>2, <2>1 DEF ReceiveList, Receiver, ReceiverStates
    <2> QED
      BY <1>1, <1>2, <2>1, <2>2 DEF ReceiveList, TypeOK
  <1>3. CASE ReceiveMessage(f)
    <2>1. ChatOf(f) \in Chats /\ FiledUnder(f) \in Chats \cup {NoChat} /\ f.n \in Nat
      BY <1>1, <1>3, FrameKinds, ShownInConversation DEF ReceiveMessage, FiledUnder, TypeOK
    <2>2. receiver' \in ReceiverStates
      BY <1>3, <2>1 DEF ReceiveMessage, Receiver, Reading, ReceiverStates
    <2>3. chat_histories' \in Histories
      BY <1>3, <2>1, NoteType DEF ReceiveMessage, TypeOK, Histories
    <2> QED
      BY <1>1, <1>3, <2>2, <2>3 DEF ReceiveMessage, TypeOK, Histories
  <1>4. CASE ReceiveError(f)
    BY <1>1, <1>4 DEF ReceiveError, Receiver, ReceiverStates, TypeOK
  <1>5. CASE \E cause \in {"disk", "size"} : GiveUp(f, cause)
    BY <1>1, <1>5 DEF GiveUp, Receiver, ReceiverStates, TypeOK
  <1> QED
    BY <1>2, <1>3, <1>4, <1>5

LEMMA ReceiveThreadType ==
  ASSUME TypeOK, Numbered, ReceiveThread
  PROVE  TypeOK'
  <1> USE DEF server, gui, Receiver, ReceiverStates
  <1>1. CASE TakeFrame
    BY <1>1, TakeFrameType
  <1>2. CASE ClearList
    <2>1. OthersKnown \subseteq Users
      BY DEF OthersKnown, TypeOK
    <2>2. receiver' \in ReceiverStates
      BY <1>2, <2>1 DEF ClearList, TypeOK
    <2> QED
      BY <1>2, <2>2 DEF ClearList, Emptied, TypeOK
  <1>3. ASSUME NEW u \in Users \cup {Me}, FillList(u)
        PROVE  TypeOK'
    <2>1. u \in Users /\ receiver \in [pc : {"fill"}, users : SUBSET (Users \cup {Me}), todo : SUBSET Users]
      BY <1>3 DEF FillList, TypeOK
    <2>2. receiver' = [receiver EXCEPT !.todo = @ \ {u}]
      BY <1>3 DEF FillList
    <2>3. receiver' \in ReceiverStates
      BY <2>1, <2>2
    <2>4. user_listbox' \subseteq [name : Chats, status : Statuses]
      BY <1>3, <2>1 DEF FillList, Shown, Statuses, Chats, TypeOK
    <2> QED
      BY <1>3, <2>3, <2>4 DEF FillList, TypeOK
  <1>4. CASE ListFilled \/ StreamEnds
    BY <1>4 DEF ListFilled, StreamEnds, Reading, TypeOK
  <1>5. CASE LookUpChat
    <2>1. receiver \in [pc : {"look", "insert"}, chat : Chats]
      BY <1>5 DEF LookUpChat, TypeOK
    <2>2. receiver' \in ReceiverStates
      BY <1>5, <2>1 DEF LookUpChat, Reading
    <2> QED
      BY <1>5, <2>2 DEF LookUpChat, TypeOK
  <1>6. CASE InsertChat
    <2>1. receiver.chat \in Chats
      BY <1>6 DEF InsertChat, TypeOK
    <2> QED
      BY <1>6, <2>1 DEF InsertChat, WithEntry, Shown, Statuses, Reading, TypeOK
  <1> QED
    BY <1>1, <1>2, <1>3, <1>4, <1>5, <1>6 DEF ReceiveThread

LEMMA MainThreadType ==
  ASSUME TypeOK, MainThread
  PROVE  TypeOK'
  <1> USE DEF server, gui
  <1>1. chat_histories \in Histories /\ active_user \in Chats \cup {NoChat}
    BY DEF TypeOK, Histories
  <1>2. 0 \in Nat /\ actions \in 0..MaxActions /\ MaxActions \in Nat
    BY BoundsAreNumbers DEF TypeOK
  <1>3. SystemNote \/ Note(active_user, Entry("System", 0)) \/ Note(active_user, Entry("You", 0))
          => chat_histories' \in Histories
    BY <1>1, NoteType DEF SystemNote
  <1>4. UserActs => actions' \in 0..MaxActions
    BY <1>2 DEF UserActs
  <1>5. ASSUME NEW r \in Requests, Sent(r) \/ SendFails \/ UNCHANGED outbox
        PROVE  outbox' \in Seq(Requests)
    BY <1>5, Appended DEF Sent, SendFails, TypeOK
  <1>6. CASE NoteSent
    BY <1>3, <1>6 DEF NoteSent, TypeOK, Histories
  <1>7. CASE ShowGroup
    <2>1. user_listbox' \subseteq [name : Chats, status : Statuses] /\ active_user' \in Chats
      BY <1>7 DEF ShowGroup, WithEntry, Shown, Statuses, Chats, TypeOK
    <2> QED
      BY <1>7, <2>1 DEF ShowGroup, TypeOK
  <1>8. CASE \E e \in user_listbox : SwitchUser(e)
    BY <1>4, <1>8 DEF SwitchUser, TypeOK
  <1>9. ASSUME NEW t \in Texts, Send(t)
        PROVE  TypeOK'
    <2> DEFINE r == TextTo(active_user, t)
    <2>1. r \in Requests
      BY <1>1, <1>9 DEF Send, TextTo, Requests, TextRequests, Chats
    <2>2. outbox' \in Seq(Requests)
      BY <1>5, <1>9, <2>1 DEF Send
    <2>3. chat_histories' \in Histories
      BY <1>1, <1>3, <1>9 DEF Send
    <2>4. main' \in {"idle", "sent", "exit"} \cup Groups
      BY <1>9 DEF Send, TypeOK
    <2>5. actions' \in 0..MaxActions
      BY <1>4, <1>9 DEF Send
    <2>6. UNCHANGED <<conn, inbox, room, owed, count, receiver, user_listbox, known_users, active_user,
                      handled>>
      BY <1>9 DEF Send
    <2> QED
      BY <2>2, <2>3, <2>4, <2>5, <2>6 DEF TypeOK, Histories
  <1>10. ASSUME NEW f \in Files, Upload(f)
         PROVE  TypeOK'
    <2> DEFINE r == FileTo(active_user, f)
    <2>1. r \in Requests
      BY <1>1, <1>10 DEF Upload, FileTo, Requests, FileRequests, Chats
    <2>2. outbox' \in Seq(Requests)
      BY <1>5, <1>10, <2>1 DEF Upload
    <2>3. chat_histories' \in Histories
      BY <1>3, <1>10 DEF Upload
    <2>4. actions' \in 0..MaxActions
      BY <1>4, <1>10 DEF Upload
    <2>5. UNCHANGED <<conn, inbox, room, owed, count, receiver, main, user_listbox, known_users,
                      active_user, handled>>
      BY <1>10 DEF Upload
    <2> QED
      BY <2>2, <2>3, <2>4, <2>5 DEF TypeOK, Histories
  <1>11. ASSUME NEW g \in Groups, NewGroup(g)
         PROVE  TypeOK'
    <2>1. GroupCreation(g) \in Requests
      BY DEF GroupCreation, Requests
    <2>2. outbox' \in Seq(Requests)
      BY <1>5, <1>11, <2>1 DEF NewGroup
    <2> QED
      BY <1>4, <1>11, <2>2 DEF NewGroup, TypeOK
  <1>12. CASE RefuseGroup
    BY <1>3, <1>4, <1>12 DEF RefuseGroup, TypeOK, Histories
  <1>13. CASE OnClose
    BY <1>4, <1>13 DEF OnClose, TypeOK
  <1> QED
    BY <1>6, <1>7, <1>8, <1>9, <1>10, <1>11, <1>12, <1>13 DEF MainThread, Callback

LEMMA TypeStep ==
  ASSUME TypeOK, OwedOurs, Numbered, [Next]_vars
  PROVE  TypeOK'
  <1>1. CASE Environment
    <2>1. inbox' \in Seq(Frames) /\ count' \in 0..MaxFrames
      BY <1>1, EnvironmentStep, ArrivalStep DEF TypeOK
    <2> QED
      BY <1>1, <2>1, EnvironmentStep DEF TypeOK, Remains, gui
  <1>2. CASE UNCHANGED vars
    BY <1>2 DEF vars, server, gui, TypeOK
  <1> QED
    BY <1>1, <1>2, ReceiveThreadType, MainThreadType DEF Next

LEMMA OwedStep ==
  ASSUME TypeOK, OwedOurs, [Next]_vars
  PROVE  OwedOurs'
  <1>1. CASE Environment
    BY <1>1, EnvironmentStep
  <1>2. CASE ReceiveThread \/ MainThread \/ UNCHANGED vars
    <2>1. UNCHANGED <<owed, room>>
      BY <1>2 DEF ReceiveThread, TakeFrame, Take, ReceiveList, ReceiveMessage, ReceiveError, GiveUp,
                  ClearList, FillList, ListFilled, LookUpChat, InsertChat, StreamEnds,
                  MainThread, Callback, NoteSent, ShowGroup, SwitchUser, Send, Upload, NewGroup,
                  RefuseGroup, OnClose, server, vars
    <2> QED
      BY <2>1 DEF OwedOurs
  <1> QED
    BY <1>1, <1>2 DEF Next

(* No frame that has arrived is too long, but foreign ones.                *)
LEMMA FitStep ==
  ASSUME TypeOK, OwedOurs, Numbered, FramesFit, [Next]_vars
  PROVE  FramesFit'
  <1>1. CASE Environment
    <2>1. CASE UNCHANGED <<inbox, count>>
      BY <1>1, <2>1, EnvironmentStep DEF Remains, FramesFit, Foreign, Arrived
    <2>2. ASSUME NEW f, Arriving(f)
          PROVE  FramesFit'
      BY <1>1, <2>2, EnvironmentStep, ArrivalStep DEF Arriving, FramesFit, Foreign
    <2> QED
      BY <1>1, <2>1, <2>2, EnvironmentStep
  <1>2. CASE TakeFrame
    BY <1>2, TakeStep DEF TakeFrame, ReceiveList, ReceiveMessage, ReceiveError, GiveUp, FramesFit, Foreign
  <1>3. CASE ReceiveThread /\ ~TakeFrame
    BY <1>3 DEF ReceiveThread, ClearList, FillList, ListFilled, LookUpChat, InsertChat, StreamEnds,
                server, FramesFit, Foreign, Arrived
  <1>4. CASE MainThread
    BY <1>4 DEF MainThread, Callback, NoteSent, ShowGroup, SwitchUser, Send, Upload, NewGroup,
                RefuseGroup, OnClose, server, FramesFit, Foreign, Arrived
  <1>5. CASE UNCHANGED vars
    BY <1>5 DEF vars, server, FramesFit, Foreign, Arrived
  <1> QED
    BY <1>1, <1>2, <1>3, <1>4, <1>5 DEF Next

---------------------------------------------------------------------------
(* Histories.                                                              *)

(* An entry that is not about something received.                          *)
LEMMA OwnEntry ==
  ASSUME NEW h \in Seq([by : {"peer", "You", "System"}, n : Nat]),
         NEW by \in {"You", "System"}, Ordered(h)
  PROVE  /\ Numbers(Append(h, Entry(by, 0))) = Numbers(h)
         /\ Ordered(Append(h, Entry(by, 0)))
  <1> DEFINE e == Entry(by, 0)
  <1>1. e \in [by : {"peer", "You", "System"}, n : Nat] /\ e.n = 0
    BY DEF Entry
  <1> HIDE DEF e
  <1>2. /\ DOMAIN Append(h, e) = DOMAIN h \cup {Len(h) + 1}
        /\ \A i \in DOMAIN h : Append(h, e)[i] = h[i]
        /\ Append(h, e)[Len(h) + 1] = e
    BY <1>1, Appended
  <1>3. Received(Append(h, e)) = Received(h)
    BY <1>1, <1>2 DEF Received
  <1>4. \A i \in Received(h) : Append(h, e)[i] = h[i]
    BY <1>2 DEF Received
  <1>5. Numbers(Append(h, e)) = Numbers(h)
    <2>1. Numbers(Append(h, e)) \subseteq Numbers(h)
      BY <1>3, <1>4 DEF Numbers
    <2>2. Numbers(h) \subseteq Numbers(Append(h, e))
      BY <1>3, <1>4 DEF Numbers
    <2> QED
      BY <2>1, <2>2
  <1>6. Ordered(Append(h, e))
    <2> SUFFICES ASSUME NEW i \in Received(h), NEW j \in Received(h), i < j
                 PROVE  Append(h, e)[i].n < Append(h, e)[j].n
      BY <1>3 DEF Ordered
    <2>1. h[i].n < h[j].n
      BY DEF Ordered
    <2> QED
      BY <1>4, <2>1
  <1> QED
    BY <1>5, <1>6 DEF e

(* An entry for a frame that comes after all others.                       *)
LEMMA ReceivedEntry ==
  ASSUME NEW h \in Seq([by : {"peer", "You", "System"}, n : Nat]),
         NEW by \in {"peer", "System"}, NEW n \in Nat \ {0},
         \A m \in Numbers(h) : m < n, Ordered(h)
  PROVE  /\ Numbers(Append(h, Entry(by, n))) = Numbers(h) \cup {n}
         /\ Ordered(Append(h, Entry(by, n)))
  <1> DEFINE e == Entry(by, n)
             last == Len(h) + 1
  <1>1. e \in [by : {"peer", "You", "System"}, n : Nat] /\ e.n = n
    BY DEF Entry
  <1> HIDE DEF e
  <1>2. /\ DOMAIN Append(h, e) = DOMAIN h \cup {last}
        /\ DOMAIN h = 1..Len(h) /\ Len(h) \in Nat
        /\ \A i \in DOMAIN h : Append(h, e)[i] = h[i]
        /\ Append(h, e)[last] = e
    BY <1>1, Appended
  <1>3. Received(Append(h, e)) = Received(h) \cup {last}
    BY <1>1, <1>2 DEF Received
  <1>4. \A i \in Received(h) : Append(h, e)[i] = h[i] /\ i < last /\ h[i].n < n
    BY <1>2 DEF Received, Numbers
  <1>5. Numbers(Append(h, e)) = Numbers(h) \cup {n}
    <2>1. last \in Received(Append(h, e)) /\ Append(h, e)[last].n = n
      BY <1>1, <1>2, <1>3
    <2>2. \A i \in Received(Append(h, e)) :
            Append(h, e)[i].n = n \/ (i \in Received(h) /\ Append(h, e)[i].n = h[i].n)
      BY <1>3, <1>4, <2>1
    <2>3. \A i \in Received(h) : i \in Received(Append(h, e)) /\ Append(h, e)[i].n = h[i].n
      BY <1>3, <1>4
    <2> QED
      <3>1. Numbers(Append(h, e)) \subseteq Numbers(h) \cup {n}
        BY <2>2 DEF Numbers
      <3>2. Numbers(h) \subseteq Numbers(Append(h, e))
        BY <2>3 DEF Numbers
      <3>3. n \in Numbers(Append(h, e))
        BY <2>1 DEF Numbers
      <3> QED
        BY <3>1, <3>2, <3>3
  <1>6. Ordered(Append(h, e))
    <2> SUFFICES ASSUME NEW i \in Received(Append(h, e)), NEW j \in Received(Append(h, e)), i < j
                 PROVE  Append(h, e)[i].n < Append(h, e)[j].n
      BY DEF Ordered
    <2>1. i \in Received(h)
      BY <1>2, <1>3, <1>4 DEF Received
    <2>2. CASE j = last
      BY <1>1, <1>2, <1>4, <2>1, <2>2
    <2>3. CASE j \in Received(h)
      BY <1>4, <2>1, <2>3 DEF Ordered
    <2> QED
      BY <1>3, <2>2, <2>3
  <1> QED
    BY <1>5, <1>6 DEF e

(* Steps that put nothing received into a history.                         *)
LEMMA KeepsHistories ==
  ASSUME HistoriesComplete, DOMAIN chat_histories' = DOMAIN chat_histories,
         \A c \in DOMAIN chat_histories :
           /\ Numbers(chat_histories'[c]) = Numbers(chat_histories[c])
           /\ Ordered(chat_histories'[c]),
         \A f : f \in handled' /\ Noted(f)' <=> f \in handled /\ Noted(f)
  PROVE  HistoriesComplete'
  <1>1. \A c, f : c \in DOMAIN chat_histories => (Holds(c, f)' <=> Holds(c, f))
    BY DEF Holds
  <1>2. {f \in handled : Noted(f)}' = {f \in handled : Noted(f)}
    OBVIOUS
  <1>3. \A f, c : InConversation(f, c)' <=> InConversation(f, c)
    BY DEF InConversation
  <1>4. ASSUME NEW c \in DOMAIN chat_histories
        PROVE  Numbers(chat_histories'[c]) \subseteq {f.n : f \in {f \in handled : Noted(f)}'}
    BY <1>2 DEF HistoriesComplete
  <1>5. ASSUME NEW f \in handled, Noted(f)
        PROVE  IF InConversation(f, System)
                 THEN \E c \in DOMAIN chat_histories :
                        \A d \in DOMAIN chat_histories : Holds(d, f)' <=> d = c
                 ELSE \A c \in DOMAIN chat_histories : Holds(c, f)' <=> InConversation(f, c)
    BY <1>1, <1>5 DEF HistoriesComplete
  <1> QED
    BY <1>3, <1>4, <1>5 DEF HistoriesComplete

LEMMA OwnNote ==
  ASSUME TypeOK, HistoriesComplete, NEW by \in {"You", "System"},
         Note(active_user, Entry(by, 0)), UNCHANGED <<handled, receiver>>
  PROVE  HistoriesComplete'
  <1>1. \A f : f \in handled' /\ Noted(f)' <=> f \in handled /\ Noted(f)
    BY DEF Noted, Latest, GaveUp, Ended
  <1>2. DOMAIN chat_histories' = DOMAIN chat_histories
    BY DEF Note
  <1> SUFFICES ASSUME NEW c \in DOMAIN chat_histories
               PROVE  /\ Numbers(chat_histories'[c]) = Numbers(chat_histories[c])
                      /\ Ordered(chat_histories'[c])
    BY <1>1, <1>2, KeepsHistories
  <1>3. Ordered(chat_histories[c])
    BY DEF HistoriesComplete
  <1>4. chat_histories[c] \in Seq([by : {"peer", "You", "System"}, n : Nat])
    BY DEF TypeOK
  <1>5. \/ chat_histories'[c] = chat_histories[c]
        \/ chat_histories'[c] = Append(chat_histories[c], Entry(by, 0))
    BY DEF Note
  <1> QED
    BY <1>3, <1>4, <1>5, OwnEntry

(* A frame that is taken is noted, unless the thread gives up on it.       *)
LEMMA NotedStep ==
  ASSUME TypeOK, Numbered, NEW f, Take(f)
  PROVE  /\ \A g \in handled : g # f /\ (Noted(g)' <=> Noted(g))
         /\ Noted(f)' <=> f \in Messages /\ ~GaveUp'
         /\ handled' = handled \cup {f}
  <1>1. handled' = handled \cup {f} /\ (\A g \in handled : g.n < f.n) /\ ~GaveUp
        /\ f \in Frames
    BY TakeStep DEF Reading, GaveUp, Ended
  <1>2. f.n \in Nat /\ \A g \in handled : g.n \in Nat
    BY <1>1, FrameKinds DEF TypeOK
  <1>3. Latest(f)' /\ \A g \in handled : ~Latest(g)' /\ g # f
    BY <1>1, <1>2 DEF Latest
  <1>4. \A g \in handled : Noted(g)' <=> Noted(g)
    BY <1>1, <1>3 DEF Noted
  <1>5. Noted(f)' <=> f \in Messages /\ ~GaveUp'
    BY <1>3 DEF Noted
  <1> QED
    BY <1>1, <1>3, <1>4, <1>5

LEMMA FiledSomewhere ==
  ASSUME TypeOK, NEW f \in Messages
  PROVE  /\ FiledUnder(f) \in Chats \cup {NoChat}
         /\ ~InConversation(f, System) =>
              \A c : InConversation(f, c) <=> c = FiledUnder(f)
  BY ShownInConversation DEF FiledUnder, TypeOK

LEMMA MessageNoted ==
  ASSUME TypeOK, Numbered, HistoriesComplete, NEW f, ReceiveMessage(f)
  PROVE  HistoriesComplete'
  <1> DEFINE k == FiledUnder(f)
             C == Chats \cup {NoChat}
  <1>1. Take(f)
    BY DEF ReceiveMessage
  <1>2. f \in Frames /\ f.n \in Nat \ {0} /\ \A g \in handled : g.n \in Nat /\ g.n < f.n
    BY <1>1, TakeStep, FrameKinds DEF TypeOK
  <1>3. f \in Messages /\ ~GaveUp'
    BY <1>2, FrameKinds DEF ReceiveMessage, Receiver, Reading, GaveUp, Ended
  <1>4. /\ \A g \in handled : Noted(g)' <=> Noted(g)
        /\ Noted(f)' /\ handled' = handled \cup {f}
    BY <1>1, <1>3, NotedStep
  <1>5. k \in C /\ (~InConversation(f, System) => \A c : InConversation(f, c) <=> c = k)
    BY <1>3, FiledSomewhere
  <1> HIDE DEF k
  <1>6. DOMAIN chat_histories = C /\ DOMAIN chat_histories' = C
    BY DEF ReceiveMessage, Note, TypeOK
  <1>7. PICK by \in {"peer", "System"} :
          chat_histories' = [chat_histories EXCEPT ![k] = Append(@, Entry(by, f.n))]
    BY DEF ReceiveMessage, Note, k
  <1>8. \A c \in C : \A m \in Numbers(chat_histories[c]) : m < f.n /\ m # f.n
    <2>1. \A c \in C : Numbers(chat_histories[c]) \subseteq {g.n : g \in {g \in handled : Noted(g)}}
      BY <1>6 DEF HistoriesComplete
    <2> QED
      BY <1>2, <2>1
  <1>9. Numbers(chat_histories'[k]) = Numbers(chat_histories[k]) \cup {f.n}
        /\ Ordered(chat_histories'[k])
    <2>1. chat_histories[k] \in Seq([by : {"peer", "You", "System"}, n : Nat])
      BY <1>5 DEF TypeOK
    <2>2. chat_histories'[k] = Append(chat_histories[k], Entry(by, f.n))
      BY <1>5, <1>6, <1>7
    <2>3. Ordered(chat_histories[k])
      BY <1>5, <1>6 DEF HistoriesComplete
    <2> QED
      BY <1>2, <1>5, <1>8, <2>1, <2>2, <2>3, ReceivedEntry
  <1>10. \A c \in C : c # k =>
           /\ Numbers(chat_histories'[c]) = Numbers(chat_histories[c])
           /\ Ordered(chat_histories'[c])
    BY <1>6, <1>7 DEF HistoriesComplete
  <1>11. \A g \in handled, c \in C : Holds(c, g)' <=> Holds(c, g)
    BY <1>2, <1>9, <1>10 DEF Holds
  <1>12. \A c \in C : Holds(c, f)' <=> c = k
    BY <1>5, <1>8, <1>9, <1>10 DEF Holds
  <1>13. ASSUME NEW c \in C
         PROVE  /\ Numbers(chat_histories'[c]) \subseteq {g.n : g \in {g \in handled' : Noted(g)'}}
                /\ Ordered(chat_histories'[c])
    <2>1. Numbers(chat_histories[c]) \subseteq {g.n : g \in {g \in handled : Noted(g)}}
      BY <1>6 DEF HistoriesComplete
    <2>2. {g \in handled : Noted(g)} \cup {f} \subseteq {g \in handled' : Noted(g)'}
      BY <1>4
    <2>3. Numbers(chat_histories'[c]) \subseteq Numbers(chat_histories[c]) \cup {f.n}
      BY <1>9, <1>10
    <2> QED
      BY <1>9, <1>10, <2>1, <2>2, <2>3
  <1>14. ASSUME NEW g \in handled', Noted(g)'
         PROVE  IF InConversation(g, System)
                  THEN \E c \in C : \A d \in C : Holds(d, g)' <=> d = c
                  ELSE \A c \in C : Holds(c, g)' <=> InConversation(g, c)
    <2>1. CASE g = f
      BY <1>5, <1>12, <2>1
    <2>2. CASE g \in handled
      BY <1>4, <1>6, <1>11, <1>14, <2>2 DEF HistoriesComplete
    <2> QED
      BY <1>4, <2>1, <2>2
  <1>15. \A g, c : InConversation(g, c)' <=> InConversation(g, c)
    BY DEF InConversation
  <1> HIDE DEF C
  <1> QED
    BY <1>6, <1>13, <1>14, <1>15 DEF HistoriesComplete

LEMMA HistoryStep ==
  ASSUME TypeOK, OwedOurs, Numbered, HistoriesComplete, [Next]_vars
  PROVE  HistoriesComplete'
  <1> USE DEF Receiver
  <1>1. CASE UNCHANGED <<chat_histories, handled>> /\ GaveUp' = GaveUp
    <2>1. \A f : f \in handled' /\ Noted(f)' <=> f \in handled /\ Noted(f)
      BY <1>1 DEF Noted, Latest
    <2>2. \A c \in DOMAIN chat_histories : Ordered(chat_histories'[c])
      BY <1>1 DEF HistoriesComplete
    <2> QED
      BY <1>1, <2>1, <2>2, KeepsHistories
  <1>2. CASE TakeFrame
    <2> PICK f \in ToSet(inbox) :
           \/ ReceiveList(f) \/ ReceiveMessage(f) \/ ReceiveError(f)
           \/ \E cause \in {"disk", "size"} : GiveUp(f, cause)
      BY <1>2 DEF TakeFrame
    <2>1. Take(f)
      BY DEF ReceiveList, ReceiveMessage, ReceiveError, GiveUp
    <2>2. CASE ~ReceiveMessage(f)
      <3>1. chat_histories' = chat_histories /\ (GaveUp' \/ f \notin Messages)
        BY <2>1, <2>2, TakeStep, FrameKinds DEF ReceiveList, ReceiveError, GiveUp, GaveUp, Ended
      <3>2. \A g : g \in handled' /\ Noted(g)' <=> g \in handled /\ Noted(g)
        BY <2>1, <3>1, NotedStep
      <3>3. \A c \in DOMAIN chat_histories : Ordered(chat_histories'[c])
        BY <3>1 DEF HistoriesComplete
      <3> QED
        BY <3>1, <3>2, <3>3, KeepsHistories
    <2> QED
      BY <2>2, MessageNoted
  <1>3. CASE ReceiveThread /\ ~TakeFrame
    <2>1. UNCHANGED <<chat_histories, handled>> /\ GaveUp' = GaveUp
      BY <1>3 DEF ReceiveThread, ClearList, FillList, ListFilled, LookUpChat, InsertChat, StreamEnds,
                  server, gui, Reading, GaveUp, Ended, TypeOK, ReceiverStates
    <2> QED
      BY <1>1, <2>1
  <1>4. CASE MainThread
    <2>1. UNCHANGED <<handled, receiver>>
      BY <1>4 DEF MainThread, Callback, NoteSent, ShowGroup, SwitchUser, Send, Upload, NewGroup,
                  RefuseGroup, OnClose
    <2>2. \/ UNCHANGED chat_histories
          \/ \E by \in {"You", "System"} : Note(active_user, Entry(by, 0))
      BY <1>4 DEF MainThread, Callback, NoteSent, ShowGroup, SwitchUser, Send, Upload, NewGroup,
                  RefuseGroup, OnClose, SystemNote, gui
    <2>3. GaveUp' = GaveUp
      BY <2>1 DEF GaveUp, Ended
    <2> QED
      BY <1>1, <2>1, <2>2, <2>3, OwnNote
  <1>5. CASE Environment \/ UNCHANGED vars
    <2>1. UNCHANGED <<chat_histories, handled, receiver>>
      BY <1>5, EnvironmentStep DEF Remains, vars, gui
    <2> QED
      BY <1>1, <2>1 DEF GaveUp, Ended
  <1> QED
    BY <1>2, <1>3, <1>4, <1>5 DEF Next

---------------------------------------------------------------------------
(* The list of users.                                                      *)

Listed(status) == Names({x \in user_listbox : x.status = status})

(* From the last list on: the thread rebuilds the entries from it, then    *)
(* they are those of that list until the next one comes.                   *)
RebuiltFrom(l) ==
  /\ l.users \subseteq known_users
  /\ receiver.pc \in {"clear", "fill"} => receiver.users = l.users
  /\ receiver.pc = "fill" =>
       /\ receiver.todo \subseteq known_users \ {Me}
       /\ Listed("online") = (l.users \ {Me}) \ receiver.todo
       /\ Listed("offline") = (known_users \ (l.users \cup {Me})) \ receiver.todo
  /\ receiver.pc \in {"read", "look", "insert"} =>
       /\ Listed("online") = l.users \ {Me}
       /\ Listed("offline") = known_users \ (l.users \cup {Me})
Rebuilt == \A l \in handled : LastList(l) => RebuiltFrom(l)

(* ... and what has come since then can be selected, or will be when the   *)
(* thread has inserted the chat.                                           *)
SelectableAgain(f) ==
  /\ receiver.pc \notin {"clear", "fill"}
  /\ \/ InConversation(f, System)
     \/ \E c \in Names(user_listbox) : InConversation(f, c)
     \/ receiver.pc \in {"look", "insert"} /\ InConversation(f, receiver.chat)
SinceLists(f) == \A l \in handled \cap Lists : l.n < f.n
Selectable ==
  \A f \in handled \cap Messages : SinceLists(f) /\ ~Ended => SelectableAgain(f)

LEMMA NamesOfMore ==
  ASSUME NEW S, NEW e
  PROVE  Names(S \cup {e}) = Names(S) \cup {e.name}
  BY DEF Names

LEMMA ListedMore ==
  ASSUME NEW name, NEW status, user_listbox' = user_listbox \cup {Shown(name, status)}, NEW other
  PROVE  Listed(other)' = IF other = status THEN Listed(other) \cup {name} ELSE Listed(other)
  <1> DEFINE e == Shown(name, status)
  <1>1. e.name = name /\ e.status = status
    BY DEF Shown
  <1> HIDE DEF e
  <1>2. user_listbox' = user_listbox \cup {e}
    BY DEF e
  <1>3. CASE other = status
    <2>1. {x \in user_listbox' : x.status = other} = {x \in user_listbox : x.status = other} \cup {e}
      BY <1>1, <1>2, <1>3
    <2> QED
      BY <1>1, <1>3, <2>1, NamesOfMore DEF Listed
  <1>4. CASE other # status
    <2>1. {x \in user_listbox' : x.status = other} = {x \in user_listbox : x.status = other}
      BY <1>1, <1>2, <1>4
    <2> QED
      BY <1>4, <2>1 DEF Listed
  <1> QED
    BY <1>3, <1>4

LEMMA NamesStay ==
  ASSUME user_listbox \subseteq user_listbox'
  PROVE  Names(user_listbox) \subseteq Names(user_listbox')
  BY DEF Names

(* Steps that neither take a frame nor rebuild the list.                   *)
LEMMA KeepsRebuilt ==
  ASSUME Rebuilt, UNCHANGED <<handled, known_users>>,
         \/ UNCHANGED receiver
         \/ receiver.pc \in {"read", "look", "insert"} /\ receiver'.pc \notin {"clear", "fill"},
         \/ UNCHANGED user_listbox
         \/ \E c : user_listbox' = user_listbox \cup {Shown(c, "plain")}
  PROVE  Rebuilt'
  <1>1. \A status \in {"online", "offline"} : Listed(status)' = Listed(status)
    <2>1. CASE UNCHANGED user_listbox
      BY <2>1 DEF Listed
    <2>2. CASE \E c : user_listbox' = user_listbox \cup {Shown(c, "plain")}
      BY <2>2, ListedMore
    <2> QED
      BY <2>1, <2>2
  <1>2. \A l \in handled : LastList(l)' <=> LastList(l)
    BY DEF LastList
  <1> QED
    BY <1>1, <1>2 DEF Rebuilt, RebuiltFrom

LEMMA KeepsSelectable ==
  ASSUME Selectable, UNCHANGED handled, user_listbox \subseteq user_listbox',
         Ended => Ended',
         receiver'.pc \in {"clear", "fill"} => receiver.pc \in {"clear", "fill"},
         receiver.pc \in {"look", "insert"} =>
           \/ receiver'.pc \in {"look", "insert"} /\ receiver'.chat = receiver.chat
           \/ receiver.chat \in Names(user_listbox')
           \/ Ended'
  PROVE  Selectable'
  <1> SUFFICES ASSUME NEW f \in handled \cap Messages, SinceLists(f), ~Ended'
               PROVE  SelectableAgain(f)'
    BY DEF Selectable, SinceLists
  <1>1. SelectableAgain(f)
    BY DEF Selectable
  <1>2. Names(user_listbox) \subseteq Names(user_listbox')
    BY NamesStay
  <1> QED
    BY <1>1, <1>2 DEF SelectableAgain, InConversation

LEMMA TakeRebuilt ==
  ASSUME TypeOK, Numbered, FramesFit, Rebuilt, Selectable, TakeFrame
  PROVE  Rebuilt' /\ Selectable'
  <1> PICK f \in ToSet(inbox) :
         \/ ReceiveList(f) \/ ReceiveMessage(f) \/ ReceiveError(f)
         \/ \E cause \in {"disk", "size"} : GiveUp(f, cause)
    BY DEF TakeFrame
  <1>1. Take(f)
    BY DEF ReceiveList, ReceiveMessage, ReceiveError, GiveUp
  <1>2. /\ f \in Frames /\ f.n \in Nat
        /\ handled' = handled \cup {f} /\ user_listbox' = user_listbox
        /\ receiver.pc = "read"
    BY <1>1, TakeStep, FrameKinds DEF Reading
  <1>3. \A g \in handled : g.n \in Nat /\ g.n < f.n
    BY <1>1, TakeStep, FrameKinds DEF TypeOK
  <1>4. CASE f \in Lists
    <2>1. ReceiveList(f)
      <3>1. f.type = "user_list" /\ f.size <= MAX_FRAME_SIZE /\ f.size \in Nat /\ MAX_FRAME_SIZE \in Nat
        BY <1>2, <1>4, FrameKinds DEF FramesFit, Foreign, Arrived, MAX_FRAME_SIZE
      <3>2. ~IsFile(f) /\ ~(f.size > MAX_FRAME_SIZE)
        BY <3>1 DEF IsFile
      <3> QED
        BY <3>1, <3>2 DEF ReceiveMessage, ReceiveError, GiveUp
    <2>2. \A l \in handled' : LastList(l)' => l = f
      BY <1>2, <1>3, <1>4 DEF LastList
    <2>3. \A g \in handled' \cap Messages : ~SinceLists(g)'
      BY <1>2, <1>3, <1>4, FrameKinds DEF SinceLists
    <2>4. /\ f.users \subseteq known_users'
          /\ receiver'.pc = "clear" /\ receiver'.users = f.users
      BY <2>1 DEF ReceiveList, Receiver
    <2>6. Rebuilt'
      BY <2>2, <2>4 DEF Rebuilt, RebuiltFrom
    <2> QED
      BY <2>3, <2>6 DEF Selectable
  <1>5. CASE f \notin Lists
    <2>1. ~ReceiveList(f)
      BY <1>2, <1>5, FrameKinds DEF ReceiveList
    <2>2. known_users' = known_users
      BY <2>1 DEF ReceiveMessage, ReceiveError, GiveUp
    <2>3. \A l \in handled' : LastList(l)' => l \in handled /\ LastList(l)
      BY <1>2, <1>5 DEF LastList
    <2>4. \/ Ended'
          \/ /\ ReceiveMessage(f)
             /\ \/ receiver'.pc = "look" /\ receiver'.chat = ChatOf(f)
                \/ receiver'.pc = "read" /\ ChatOf(f) = System
      BY <2>1 DEF ReceiveMessage, ReceiveError, GiveUp, Receiver, Reading, Ended
    <2>5. Listed("online")' = Listed("online") /\ Listed("offline")' = Listed("offline")
      BY <1>2 DEF Listed
    <2>6. Rebuilt'
      BY <1>2, <2>2, <2>3, <2>4, <2>5 DEF Rebuilt, RebuiltFrom, Ended
    <2>7. Selectable'
      <3> SUFFICES ASSUME NEW g \in handled' \cap Messages, SinceLists(g)', ~Ended'
                   PROVE  SelectableAgain(g)'
        BY DEF Selectable
      <3>1. CASE g = f
        BY <2>4, <3>1, ShownInConversation DEF SelectableAgain
      <3>2. CASE g \in handled
        <4>1. SinceLists(g) /\ ~Ended
          BY <1>2, <3>2 DEF SinceLists, Ended
        <4>2. SelectableAgain(g)
          BY <3>2, <4>1 DEF Selectable
        <4> QED
          BY <1>2, <2>4, <4>2 DEF SelectableAgain, InConversation
      <3> QED
        BY <1>2, <3>1, <3>2
    <2> QED
      BY <2>6, <2>7
  <1> QED
    BY <1>4, <1>5

LEMMA RebuildStep ==
  ASSUME TypeOK, Rebuilt, Selectable,
         ClearList \/ ListFilled \/ \E u \in Users \cup {Me} : FillList(u)
  PROVE  Rebuilt' /\ Selectable'
  <1> USE DEF server, gui, Receiver
  <1>1. receiver.pc \in {"clear", "fill"} /\ UNCHANGED <<handled, known_users>>
    BY DEF ClearList, ListFilled, FillList
  <1>2. Selectable'
    <2>1. \A f \in handled \cap Messages : ~SinceLists(f)
      BY <1>1 DEF Selectable, SelectableAgain, Ended
    <2> QED
      BY <1>1, <2>1 DEF Selectable, SinceLists
  <1> SUFFICES ASSUME NEW l \in handled, LastList(l), RebuiltFrom(l)
               PROVE  RebuiltFrom(l)'
    BY <1>1, <1>2 DEF Rebuilt, LastList
  <1>3. l.users \subseteq known_users /\ receiver.users = l.users
    BY <1>1 DEF RebuiltFrom
  <1>4. CASE ClearList
    <2>1. /\ receiver' = [pc |-> "fill", users |-> l.users, todo |-> known_users \ {Me}]
          /\ user_listbox' = {}
      BY <1>3, <1>4 DEF ClearList, OthersKnown, Emptied
    <2>2. Listed("online")' = {} /\ Listed("offline")' = {}
      BY <2>1 DEF Listed, Names
    <2> QED
      BY <1>1, <1>3, <2>1, <2>2 DEF RebuiltFrom
  <1>5. ASSUME NEW u \in Users \cup {Me}, FillList(u)
        PROVE  RebuiltFrom(l)'
    <2>1. /\ receiver \in [pc : {"fill"}, users : SUBSET (Users \cup {Me}), todo : SUBSET Users]
          /\ receiver' = [receiver EXCEPT !.todo = @ \ {u}]
          /\ u \in receiver.todo
          /\ user_listbox' = user_listbox \cup
               {Shown(u, IF u \in receiver.users THEN "online" ELSE "offline")}
      BY <1>5 DEF FillList, TypeOK, ReceiverStates
    <2>2. /\ receiver'.pc = "fill" /\ receiver'.users = l.users
          /\ receiver'.todo = receiver.todo \ {u}
      BY <1>3, <2>1
    <2>3. /\ u \in known_users \ {Me}
          /\ receiver.todo \subseteq known_users \ {Me}
          /\ Listed("online") = (l.users \ {Me}) \ receiver.todo
          /\ Listed("offline") = (known_users \ (l.users \cup {Me})) \ receiver.todo
      BY <2>1 DEF RebuiltFrom
    <2>4. CASE u \in l.users
      <3>1. Listed("online")' = Listed("online") \cup {u} /\ Listed("offline")' = Listed("offline")
        BY <1>3, <2>1, <2>4, ListedMore
      <3> QED
        BY <1>1, <1>3, <2>1, <2>2, <2>3, <2>4, <3>1 DEF RebuiltFrom
    <2>5. CASE u \notin l.users
      <3>1. Listed("online")' = Listed("online") /\ Listed("offline")' = Listed("offline") \cup {u}
        BY <1>3, <2>1, <2>5, ListedMore
      <3> QED
        BY <1>1, <1>3, <2>1, <2>2, <2>3, <2>5, <3>1 DEF RebuiltFrom
    <2> QED
      BY <2>4, <2>5
  <1>6. CASE ListFilled
    <2>1. receiver.pc = "fill" /\ receiver.todo = {} /\ receiver'.pc = "read"
          /\ UNCHANGED user_listbox
      BY <1>6 DEF ListFilled, Reading
    <2>2. Listed("online")' = Listed("online") /\ Listed("offline")' = Listed("offline")
      BY <2>1 DEF Listed
    <2> QED
      BY <1>1, <1>3, <2>1, <2>2 DEF RebuiltFrom
  <1> QED
    BY <1>4, <1>5, <1>6

LEMMA ListStep ==
  ASSUME TypeOK, OwedOurs, Numbered, FramesFit, Rebuilt, Selectable, [Next]_vars
  PROVE  Rebuilt' /\ Selectable'
  <1> USE DEF server, gui, Receiver, Reading, Ended
  <1>1. CASE TakeFrame
    BY <1>1, TakeRebuilt
  <1>2. CASE ClearList \/ ListFilled \/ \E u \in Users \cup {Me} : FillList(u)
    BY <1>2, RebuildStep
  <1>3. CASE LookUpChat
    <2>1. receiver \in [pc : {"look", "insert"}, chat : Chats] /\ receiver.pc = "look"
      BY <1>3 DEF LookUpChat, TypeOK, ReceiverStates
    <2>2. receiver.chat \in Existing \cup {Me} => receiver.chat \in Names(user_listbox)
      BY <2>1, MeIsNobodyElse DEF Existing, Names, Chats
    <2>3. \/ receiver'.pc = "insert" /\ receiver'.chat = receiver.chat
          \/ receiver'.pc = "read" /\ receiver.chat \in Names(user_listbox)
      BY <1>3, <2>1, <2>2 DEF LookUpChat
    <2>4. UNCHANGED <<handled, known_users, user_listbox>>
      BY <1>3 DEF LookUpChat
    <2> QED
      BY <2>1, <2>3, <2>4, KeepsRebuilt, KeepsSelectable
  <1>4. CASE InsertChat
    <2>1. /\ receiver.pc = "insert" /\ receiver'.pc = "read"
          /\ user_listbox' = user_listbox \cup {Shown(receiver.chat, "plain")}
          /\ UNCHANGED <<handled, known_users>>
      BY <1>4 DEF InsertChat, WithEntry
    <2>2. receiver.chat \in Names(user_listbox')
      <3> DEFINE e == Shown(receiver.chat, "plain")
      <3>1. e.name = receiver.chat
        BY DEF Shown
      <3> HIDE DEF e
      <3>2. user_listbox' = user_listbox \cup {e}
        BY <2>1 DEF e
      <3> QED
        BY <3>1, <3>2, NamesOfMore
    <2> QED
      BY <2>1, <2>2, KeepsRebuilt, KeepsSelectable
  <1>5. CASE StreamEnds
    <2>1. /\ receiver.pc = "read" /\ receiver'.pc = "ended"
          /\ UNCHANGED <<handled, known_users, user_listbox>>
      BY <1>5 DEF StreamEnds
    <2> QED
      BY <2>1, KeepsRebuilt, KeepsSelectable
  <1>6. CASE Environment \/ MainThread \/ UNCHANGED vars
    <2>1. /\ UNCHANGED <<handled, known_users, receiver>>
          /\ \/ UNCHANGED user_listbox
             \/ user_listbox' = user_listbox \cup {Shown(main, "plain")}
      BY <1>6, EnvironmentStep
         DEF Remains, vars, MainThread, Callback, NoteSent, ShowGroup, WithEntry, SwitchUser, Send,
             Upload, NewGroup, RefuseGroup, OnClose
    <2> QED
      BY <2>1, KeepsRebuilt, KeepsSelectable
  <1> QED
    BY <1>1, <1>2, <1>3, <1>4, <1>5, <1>6 DEF Next, ReceiveThread

---------------------------------------------------------------------------
(* Groups.                                                                 *)

(* An error has been sent, or the group is this user's by the time the     *)
(* server handles the request at position k of the outbox.                 *)
Failed == Arrived \cap Errors # {}
OursBefore(g, k) ==
  \/ room[g] = "ours"
  \/ Failed
  \/ \E j \in DOMAIN outbox : j < k /\ outbox[j] = GroupCreation(g)

(* The places in which the client can find a group to write to.            *)
Used(g) ==
  \/ main = g
  \/ active_user = g
  \/ g \in Names(user_listbox)
  \/ receiver.pc \in {"look", "insert"} /\ receiver.chat = g
  \/ \E f \in ToSet(inbox) \cap Messages : f.to = g

GroupsOurs == conn = "open" => \A g \in Groups : Used(g) => OursBefore(g, Len(outbox) + 1)

(* Unless it asks for a group, a request that is sent is not refused if    *)
(* nothing has been before.                                                *)
Accepted(k) ==
  outbox[k].type # "create_group" =>
    /\ ServerAccepts(outbox[k])
    /\ outbox[k].to \in Groups => OursBefore(outbox[k].to, k)
OutboxAccepted == conn = "open" => \A k \in DOMAIN outbox : Accepted(k)


(* The same after a step.                                                  *)
OursThen(g, k) ==
  \/ room'[g] = "ours"
  \/ Failed'
  \/ \E j \in DOMAIN outbox' : j < k /\ outbox'[j] = GroupCreation(g)

(* Steps that send nothing.                                                *)
LEMMA KeepsGroups ==
  ASSUME GroupsOurs, OutboxAccepted,
         conn' = "open" => conn = "open" /\ UNCHANGED outbox,
         \A g \in Groups : room[g] = "ours" => room'[g] = "ours",
         Failed => Failed',
         conn' = "open" => \A g \in Groups : Used(g)' => Used(g) \/ room'[g] = "ours"
  PROVE  GroupsOurs' /\ OutboxAccepted'
  <1> SUFFICES ASSUME conn' = "open"
               PROVE  GroupsOurs' /\ OutboxAccepted'
    BY DEF GroupsOurs, OutboxAccepted
  <1>1. conn = "open" /\ outbox' = outbox
    OBVIOUS
  <1>2. ASSUME NEW g \in Groups, NEW k, OursBefore(g, k)
        PROVE  OursThen(g, k)
    BY <1>1, <1>2 DEF OursBefore, OursThen
  <1>3. \A g \in Groups : Used(g)' => OursThen(g, Len(outbox') + 1)
    <2> SUFFICES ASSUME NEW g \in Groups, Used(g)'
                 PROVE  OursThen(g, Len(outbox') + 1)
      OBVIOUS
    <2>1. CASE Used(g)
      <3>1. OursBefore(g, Len(outbox) + 1)
        BY <1>1, <2>1 DEF GroupsOurs
      <3> QED
        BY <1>1, <1>2, <3>1
    <2>2. CASE room'[g] = "ours"
      BY <2>2 DEF OursThen
    <2> QED
      BY <2>1, <2>2
  <1>4. \A k \in DOMAIN outbox : outbox[k].type # "create_group" =>
          /\ ServerAccepts(outbox[k])
          /\ outbox[k].to \in Groups => OursThen(outbox[k].to, k)
    BY <1>1, <1>2 DEF OutboxAccepted, Accepted
  <1>5. GroupsOurs'
    BY <1>3 DEF GroupsOurs, OursBefore, OursThen
  <1>6. OutboxAccepted'
    BY <1>1, <1>4 DEF OutboxAccepted, Accepted, OursBefore, OursThen, ServerAccepts, IsFile
  <1> QED
    BY <1>5, <1>6

(* A request that is sent.                                                 *)
LEMMA SendsGroups ==
  ASSUME TypeOK, GroupsOurs, OutboxAccepted,
         conn = "open", UNCHANGED <<conn, room>>, Failed => Failed',
         NEW r \in Requests, outbox' = Append(outbox, r),
         r.type # "create_group" => ServerAccepts(r) /\ (r.to \in Groups => Used(r.to)),
         \A g \in Groups : Used(g)' => Used(g) \/ r = GroupCreation(g)
  PROVE  GroupsOurs' /\ OutboxAccepted'
  <1>1. /\ DOMAIN outbox' = DOMAIN outbox \cup {Len(outbox) + 1}
        /\ DOMAIN outbox = 1..Len(outbox) /\ Len(outbox) \in Nat
        /\ \A i \in DOMAIN outbox : outbox'[i] = outbox[i]
        /\ outbox'[Len(outbox) + 1] = r
        /\ Len(outbox') = Len(outbox) + 1
    BY Appended DEF TypeOK
  <1>2. ASSUME NEW g \in Groups, NEW k, OursBefore(g, k)
        PROVE  OursThen(g, k)
    BY <1>1, <1>2 DEF OursBefore, OursThen
  <1>3. ASSUME NEW g \in Groups, OursBefore(g, Len(outbox) + 1) \/ r = GroupCreation(g)
        PROVE  OursThen(g, Len(outbox') + 1)
    <2>1. CASE OursBefore(g, Len(outbox) + 1)
      BY <1>1, <2>1 DEF OursBefore, OursThen
    <2>2. CASE r = GroupCreation(g)
      BY <1>1, <2>2 DEF OursThen
    <2> QED
      BY <1>3, <2>1, <2>2
  <1>4. \A g \in Groups : Used(g)' => OursThen(g, Len(outbox') + 1)
    BY <1>3 DEF GroupsOurs
  <1>5. \A k \in DOMAIN outbox' : outbox'[k].type # "create_group" =>
          /\ ServerAccepts(outbox'[k])
          /\ outbox'[k].to \in Groups => OursThen(outbox'[k].to, k)
    <2> SUFFICES ASSUME NEW k \in DOMAIN outbox', outbox'[k].type # "create_group"
                 PROVE  /\ ServerAccepts(outbox'[k])
                        /\ outbox'[k].to \in Groups => OursThen(outbox'[k].to, k)
      OBVIOUS
    <2>1. CASE k \in DOMAIN outbox
      <3>1. Accepted(k) /\ outbox'[k] = outbox[k]
        BY <1>1, <2>1 DEF OutboxAccepted
      <3> QED
        BY <1>2, <3>1 DEF Accepted
    <2>2. CASE k = Len(outbox) + 1
      <3>1. outbox'[k] = r
        BY <1>1, <2>2
      <3>2. r.to \in Groups => OursBefore(r.to, Len(outbox) + 1)
        BY <3>1 DEF GroupsOurs
      <3> QED
        BY <1>2, <2>2, <3>1, <3>2
    <2> QED
      BY <1>1, <2>1, <2>2
  <1>6. GroupsOurs'
    BY <1>4 DEF GroupsOurs, OursBefore, OursThen
  <1>7. OutboxAccepted'
    BY <1>5 DEF OutboxAccepted, Accepted, OursBefore, OursThen, ServerAccepts, IsFile
  <1> QED
    BY <1>6, <1>7

(* The server handles a request: it creates the group, or answers.         *)
LEMMA HandledHead ==
  ASSUME TypeOK, ServerHandles
  PROVE  LET r == Head(outbox)
         IN  /\ r \in Requests /\ outbox' = Tail(outbox) /\ conn = "open" /\ conn' = conn
             /\ \A g \in Groups : room[g] = "ours" => room'[g] = "ours"
             /\ r.type = "create_group" =>
                  room'[r.to] = "ours" \/ inbox' = Append(inbox, ErrorReply(r))
  <1> DEFINE r == Head(outbox)
  <1>1. r \in Requests
    BY Shortened DEF ServerHandles, TypeOK
  <1>2. r.type = "create_group" => r.to \in Groups
    BY <1>1 DEF Requests, TextRequests, FileRequests
  <1> HIDE DEF r
  <1>3. /\ outbox' = Tail(outbox) /\ conn = "open" /\ conn' = conn
        /\ \/ /\ r.type = "create_group" /\ room[r.to] = "none"
              /\ room' = [room EXCEPT ![r.to] = "ours"]
           \/ room' = room
        /\ r.type = "create_group" =>
             \/ room' = [room EXCEPT ![r.to] = "ours"]
             \/ inbox' = Append(inbox, ErrorReply(r))
    BY DEF ServerHandles, Arrive, r
  <1>4. \A g \in Groups : room[g] = "ours" => room'[g] = "ours"
    BY <1>2, <1>3 DEF TypeOK
  <1>5. r.type = "create_group" => room'[r.to] = "ours" \/ inbox' = Append(inbox, ErrorReply(r))
    BY <1>2, <1>3 DEF TypeOK
  <1> QED
    BY <1>1, <1>3, <1>4, <1>5 DEF r

LEMMA HandledGroups ==
  ASSUME TypeOK, GroupsOurs, OutboxAccepted, ServerHandles, Failed => Failed',
         \A g \in Groups : Used(g)' => Used(g) \/ room'[g] = "ours"
  PROVE  GroupsOurs' /\ OutboxAccepted'
  <1> DEFINE r == Head(outbox)
  <1>1. /\ outbox' = Tail(outbox) /\ r = outbox[1] /\ 1 \in DOMAIN outbox
        /\ Len(outbox') + 1 = Len(outbox) /\ Len(outbox) \in Nat
        /\ \A i \in DOMAIN outbox' : i \in Nat /\ i + 1 \in DOMAIN outbox /\ outbox'[i] = outbox[i + 1]
        /\ \A i \in DOMAIN outbox : i # 1 => i - 1 \in DOMAIN outbox'
    BY Shortened DEF ServerHandles, TypeOK
  <1>2. /\ r \in Requests /\ conn = "open"
        /\ \A g \in Groups : room[g] = "ours" => room'[g] = "ours"
        /\ r.type = "create_group" =>
             room'[r.to] = "ours" \/ inbox' = Append(inbox, ErrorReply(r))
    BY HandledHead
  <1> HIDE DEF r
  <1>3. inbox' = Append(inbox, ErrorReply(r)) => Failed'
    <2>1. ErrorReply(r) \in Frames \cap Errors /\ inbox \in Seq(Frames) /\ handled' = handled
      BY <1>2, Answers DEF ServerHandles, TypeOK, Frames
    <2>2. ToSet(Append(inbox, ErrorReply(r))) = ToSet(inbox) \cup {ErrorReply(r)}
      BY <2>1, Appended
    <2> QED
      BY <2>1, <2>2 DEF Failed, Arrived
  <1>4. ASSUME NEW g \in Groups, NEW k \in Nat, OursBefore(g, k + 1)
        PROVE  OursThen(g, k)
    <2>1. CASE room[g] = "ours" \/ Failed
      BY <1>2, <2>1 DEF OursThen
    <2>2. ASSUME NEW j \in DOMAIN outbox, j < k + 1, outbox[j] = GroupCreation(g)
          PROVE  OursThen(g, k)
      <3>1. CASE j = 1
        BY <1>1, <1>2, <1>3, <2>2, <3>1 DEF OursThen, GroupCreation
      <3>2. CASE j # 1
        <4>1. j - 1 \in DOMAIN outbox'
          BY <1>1, <3>2
        <4>2. j \in Nat /\ (j - 1) + 1 = j /\ j - 1 < k
          BY <1>1, <2>2
        <4>3. outbox'[j - 1] = GroupCreation(g)
          BY <1>1, <2>2, <4>1, <4>2
        <4> QED
          BY <4>1, <4>2, <4>3 DEF OursThen
      <3> QED
        BY <3>1, <3>2
    <2> QED
      BY <1>4, <2>1, <2>2 DEF OursBefore
  <1>5. \A g \in Groups : Used(g)' => OursThen(g, Len(outbox') + 1)
    <2> SUFFICES ASSUME NEW g \in Groups, Used(g)'
                 PROVE  OursThen(g, Len(outbox') + 1)
      OBVIOUS
    <2>1. CASE Used(g)
      <3>1. OursBefore(g, Len(outbox) + 1)
        BY <1>2, <2>1 DEF GroupsOurs
      <3>2. OursThen(g, Len(outbox))
        BY <1>1, <1>4, <3>1
      <3> QED
        BY <1>1, <3>2
    <2>2. CASE room'[g] = "ours"
      BY <2>2 DEF OursThen
    <2> QED
      BY <2>1, <2>2
  <1>6. \A k \in DOMAIN outbox' : outbox'[k].type # "create_group" =>
          /\ ServerAccepts(outbox'[k])
          /\ outbox'[k].to \in Groups => OursThen(outbox'[k].to, k)
    <2> SUFFICES ASSUME NEW k \in DOMAIN outbox', outbox'[k].type # "create_group"
                 PROVE  /\ ServerAccepts(outbox'[k])
                        /\ outbox'[k].to \in Groups => OursThen(outbox'[k].to, k)
      OBVIOUS
    <2>1. k \in Nat /\ k + 1 \in DOMAIN outbox /\ outbox'[k] = outbox[k + 1]
      BY <1>1
    <2>2. Accepted(k + 1)
      BY <1>2, <2>1 DEF OutboxAccepted
    <2> QED
      BY <1>4, <2>1, <2>2 DEF Accepted
  <1>7. GroupsOurs'
    BY <1>5 DEF GroupsOurs, OursBefore, OursThen
  <1>8. OutboxAccepted'
    BY <1>6 DEF OutboxAccepted, Accepted, OursBefore, OursThen, ServerAccepts, IsFile
  <1> QED
    BY <1>7, <1>8

(* Nothing that has arrived is forgotten.                                  *)
LEMMA ArrivedGrows ==
  ASSUME TypeOK, OwedOurs, Numbered, [Next]_vars
  PROVE  Arrived \subseteq Arrived' /\ (Failed => Failed')
  <1>1. Arrived \subseteq Arrived'
    <2>1. CASE Environment
      <3>1. CASE UNCHANGED <<inbox, count>>
        BY <2>1, <3>1, EnvironmentStep DEF Remains, Arrived
      <3> QED
        BY <2>1, <3>1, EnvironmentStep, ArrivalStep
    <2>2. CASE TakeFrame
      BY <2>2, TakeStep DEF TakeFrame, ReceiveList, ReceiveMessage, ReceiveError, GiveUp
    <2>3. CASE (ReceiveThread /\ ~TakeFrame) \/ MainThread \/ UNCHANGED vars
      BY <2>3 DEF ReceiveThread, ClearList, FillList, ListFilled, LookUpChat, InsertChat, StreamEnds,
                  MainThread, Callback, NoteSent, ShowGroup, SwitchUser, Send, Upload, NewGroup,
                  RefuseGroup, OnClose, server, vars, Arrived
    <2> QED
      BY <2>1, <2>2, <2>3 DEF Next
  <1> QED
    BY <1>1 DEF Failed

(* The first error is for a group.                                         *)
LEMMA FirstError ==
  ASSUME TypeOK, OutboxAccepted, ~Failed, ServerHandles,
         inbox' = Append(inbox, ErrorReply(Head(outbox)))
  PROVE  Head(outbox).type = "create_group"
  <1> DEFINE r == Head(outbox)
  <1>1. r \in Requests /\ r = outbox[1] /\ 1 \in DOMAIN outbox /\ conn = "open"
        /\ \A j \in DOMAIN outbox : ~(j < 1)
    BY Shortened DEF ServerHandles, TypeOK
  <1>2. Accepted(1)
    BY <1>1 DEF OutboxAccepted
  <1> SUFFICES ASSUME r.type # "create_group" PROVE FALSE
    OBVIOUS
  <1>3. ServerAccepts(r) /\ (r.to \in Groups => room[r.to] = "ours")
    BY <1>1, <1>2 DEF Accepted, OursBefore
  <1>4. UNCHANGED inbox
    BY <1>3 DEF ServerHandles
  <1>5. Len(Append(inbox, ErrorReply(r))) = Len(inbox) + 1 /\ Len(inbox) \in Nat
    BY <1>1, Answers DEF TypeOK, Frames
  <1> QED
    BY <1>4, <1>5

LEMMA EnvironmentGroups ==
  ASSUME TypeOK, OwedOurs, Numbered, GroupsOurs, OutboxAccepted, Environment
  PROVE  GroupsOurs' /\ OutboxAccepted'
  <1>1. Failed => Failed'
    BY ArrivedGrows DEF Next
  <1>2. /\ UNCHANGED Remains
        /\ UNCHANGED <<inbox, count>> \/ \E f : Arriving(f)
        /\ conn' = "open" => conn = "open"
        /\ \A g \in Groups : room[g] = "ours" => room'[g] = "ours"
    BY EnvironmentStep
  <1>3. UNCHANGED <<main, active_user, user_listbox, receiver>>
    BY <1>2 DEF Remains, gui
  <1>4. \A f \in ToSet(inbox') \cap Messages :
          f \in ToSet(inbox) \/ (f.to \in Groups => room'[f.to] = "ours")
    <2>1. CASE UNCHANGED <<inbox, count>>
      BY <2>1
    <2>2. ASSUME NEW f, Arriving(f)
          PROVE  \A h \in ToSet(inbox') \cap Messages :
                   h \in ToSet(inbox) \/ (h.to \in Groups => room'[h.to] = "ours")
      <3>1. ToSet(inbox') = ToSet(inbox) \cup {f}
        BY <1>2, <2>2, ArrivalStep
      <3> QED
        BY <2>2, <3>1 DEF Arriving
    <2> QED
      BY <1>2, <2>1, <2>2
  <1>5. \A g \in Groups : Used(g)' => Used(g) \/ room'[g] = "ours"
    BY <1>3, <1>4 DEF Used
  <1>6. CASE ServerHandles
    BY <1>1, <1>5, <1>6, HandledGroups
  <1>7. CASE ~ServerHandles
    <2>1. conn' = "open" => UNCHANGED outbox
      BY <1>7 DEF Environment, UserListArrives, OtherSends, OtherInvites, OtherCreates, Notify,
                  ServerCloses
    <2> QED
      BY <1>1, <1>2, <1>5, <2>1, KeepsGroups
  <1> QED
    BY <1>6, <1>7

LEMMA ReceiverGroups ==
  ASSUME TypeOK, OwedOurs, Numbered, GroupsOurs, OutboxAccepted, ReceiveThread
  PROVE  GroupsOurs' /\ OutboxAccepted'
  <1> USE DEF server, gui, Receiver, Reading
  <1>1. Failed => Failed'
    BY ArrivedGrows DEF Next
  <1>2. UNCHANGED <<room, outbox, main, active_user>> /\ (conn' = "open" => conn = "open")
    BY DEF ReceiveThread, TakeFrame, Take, ReceiveList, ReceiveMessage, ReceiveError, GiveUp,
           ClearList, FillList, ListFilled, LookUpChat, InsertChat, StreamEnds
  <1> SUFFICES ASSUME NEW g \in Groups, Used(g)', conn' = "open"
               PROVE  Used(g)
    BY <1>1, <1>2, KeepsGroups
  <1> DEFINE listed == g \in Names(user_listbox)
             noting == receiver.pc \in {"look", "insert"} /\ receiver.chat = g
             coming == \E f \in ToSet(inbox) \cap Messages : f.to = g
  <1>3. main = g \/ active_user = g \/ listed' \/ noting' \/ coming'
    BY <1>2 DEF Used
  <1> SUFFICES ASSUME listed' \/ noting' \/ coming'
               PROVE  listed \/ noting \/ coming
    BY <1>3 DEF Used
  <1>4. CASE TakeFrame
    <2> PICK f \in ToSet(inbox) :
           \/ ReceiveList(f) \/ ReceiveMessage(f) \/ ReceiveError(f)
           \/ \E cause \in {"disk", "size"} : GiveUp(f, cause)
      BY <1>4 DEF TakeFrame
    <2>1. Take(f)
      BY DEF ReceiveList, ReceiveMessage, ReceiveError, GiveUp
    <2>2. /\ f \in Frames /\ ToSet(inbox') \subseteq ToSet(inbox) /\ UNCHANGED user_listbox
      BY <2>1, TakeStep
    <2>3. noting' => f \in Messages /\ f.to = g
      <3>1. noting' => ReceiveMessage(f) /\ ChatOf(f) = g
        BY DEF ReceiveList, ReceiveMessage, ReceiveError, GiveUp
      <3>2. ReceiveMessage(f) => f \in Messages
        BY <2>2, FrameKinds DEF ReceiveMessage
      <3> QED
        BY <3>1, <3>2, ShownInConversation
    <2> QED
      BY <2>2, <2>3
  <1>5. CASE ClearList
    BY <1>5 DEF ClearList, Emptied, Names
  <1>6. ASSUME NEW u \in Users \cup {Me}, FillList(u)
        PROVE  listed \/ noting \/ coming
    <2> DEFINE e == Shown(u, IF u \in receiver.users THEN "online" ELSE "offline")
    <2>1. e.name # g
      BY MeIsNobodyElse, UsersAreNoGroups DEF Shown
    <2>2. user_listbox' = user_listbox \cup {e} /\ UNCHANGED inbox
      BY <1>6 DEF FillList
    <2>3. receiver \in [pc : {"fill"}, users : SUBSET (Users \cup {Me}), todo : SUBSET Users]
      BY <1>6 DEF FillList, TypeOK, ReceiverStates
    <2>4. receiver'.pc = "fill"
      BY <1>6, <2>3 DEF FillList
    <2> HIDE DEF e
    <2>5. listed' => listed
      BY <2>1, <2>2, NamesOfMore
    <2> QED
      BY <2>2, <2>4, <2>5
  <1>7. CASE ListFilled \/ StreamEnds
    BY <1>7 DEF ListFilled, StreamEnds
  <1>8. CASE LookUpChat
    <2>1. receiver \in [pc : {"look", "insert"}, chat : Chats] /\ receiver.pc = "look"
      BY <1>8 DEF LookUpChat, TypeOK, ReceiverStates
    <2>2. receiver'.pc = "insert" => receiver'.chat = receiver.chat
      BY <1>8, <2>1 DEF LookUpChat
    <2>3. noting' => noting
      BY <1>8, <2>1, <2>2 DEF LookUpChat
    <2> QED
      BY <1>8, <2>3 DEF LookUpChat
  <1>9. CASE InsertChat
    <2> DEFINE e == Shown(receiver.chat, "plain")
    <2>1. e.name = receiver.chat
      BY DEF Shown
    <2>2. /\ user_listbox' = user_listbox \cup {e} /\ UNCHANGED inbox
          /\ receiver.pc = "insert" /\ receiver'.pc = "read"
      BY <1>9 DEF InsertChat, WithEntry
    <2> HIDE DEF e
    <2>3. listed' => listed \/ noting
      BY <2>1, <2>2, NamesOfMore
    <2> QED
      BY <2>2, <2>3
  <1> QED
    BY <1>4, <1>5, <1>6, <1>7, <1>8, <1>9 DEF ReceiveThread

LEMMA MainGroups ==
  ASSUME TypeOK, OwedOurs, Numbered, GroupsOurs, OutboxAccepted, MainThread
  PROVE  GroupsOurs' /\ OutboxAccepted'
  <1> USE DEF server, gui
  <1>1. Failed => Failed'
    BY ArrivedGrows DEF Next
  <1>2. UNCHANGED <<inbox, room, receiver>>
    BY DEF MainThread, Callback, NoteSent, ShowGroup, SwitchUser, Send, Upload, NewGroup,
           RefuseGroup, OnClose
  <1>3. ASSUME UNCHANGED <<conn, outbox>>, \A g \in Groups : Used(g)' => Used(g)
        PROVE  GroupsOurs' /\ OutboxAccepted'
    BY <1>1, <1>2, <1>3, KeepsGroups
  <1>4. ASSUME NEW r \in TextRequests \cup FileRequests, r.to = active_user,
               ClientAccepts(r), Sent(r), UNCHANGED <<conn, user_listbox, active_user>>,
               main' \notin Groups \/ UNCHANGED main
        PROVE  GroupsOurs' /\ OutboxAccepted'
    <2>1. \A g \in Groups : Used(g)' => Used(g)
      BY <1>2, <1>4 DEF Used
    <2>2. r \in Requests /\ ServerAccepts(r) /\ (r.to \in Groups => Used(r.to))
      BY <1>4, AcceptedByServer DEF Requests, Used
    <2> QED
      BY <1>1, <1>2, <1>3, <1>4, <2>1, <2>2, SendsGroups DEF Sent
  <1>5. CASE NoteSent
    <2>1. UNCHANGED <<conn, outbox, user_listbox, active_user>> /\ main' \notin Groups
      BY <1>5, PlacesAreNoGroups DEF NoteSent
    <2> QED
      BY <1>2, <1>3, <2>1 DEF Used
  <1>6. CASE ShowGroup
    <2>1. /\ UNCHANGED <<conn, outbox>> /\ main' \notin Groups
          /\ active_user' = main
          /\ UNCHANGED user_listbox \/ user_listbox' = user_listbox \cup {Shown(main, "plain")}
      BY <1>6, PlacesAreNoGroups DEF ShowGroup, WithEntry
    <2>2. Names(user_listbox') \subseteq Names(user_listbox) \cup {main}
      <3> DEFINE e == Shown(main, "plain")
      <3>1. e.name = main
        BY DEF Shown
      <3> HIDE DEF e
      <3>2. UNCHANGED user_listbox \/ user_listbox' = user_listbox \cup {e}
        BY <2>1 DEF e
      <3> QED
        BY <3>1, <3>2, NamesOfMore
    <2>3. \A g \in Groups : Used(g)' => Used(g)
      BY <1>2, <2>1, <2>2 DEF Used
    <2> QED
      BY <1>3, <2>1, <2>3
  <1>7. ASSUME NEW e \in user_listbox, SwitchUser(e)
        PROVE  GroupsOurs' /\ OutboxAccepted'
    <2>1. /\ UNCHANGED <<conn, outbox, main, user_listbox>>
          /\ active_user' \in Names(user_listbox)
      BY <1>7 DEF SwitchUser, UserActs, Names
    <2> QED
      BY <1>2, <1>3, <2>1 DEF Used
  <1>8. ASSUME NEW t \in Texts, Send(t)
        PROVE  GroupsOurs' /\ OutboxAccepted'
    <2> DEFINE r == TextTo(active_user, t)
    <2>1. r \in TextRequests /\ r.to = active_user
      BY <1>8 DEF Send, TextTo, TextRequests, Chats, TypeOK
    <2> HIDE DEF r
    <2>2. /\ UNCHANGED <<conn, user_listbox, active_user>>
          /\ main' \notin Groups \/ UNCHANGED main
          /\ UNCHANGED outbox \/ (ClientAccepts(r) /\ Sent(r))
      BY <1>8, PlacesAreNoGroups DEF Send, SendFails, r
    <2>3. CASE UNCHANGED outbox
      BY <1>2, <1>3, <2>2, <2>3 DEF Used
    <2> QED
      BY <1>4, <2>1, <2>2, <2>3
  <1>9. ASSUME NEW f \in Files, Upload(f)
        PROVE  GroupsOurs' /\ OutboxAccepted'
    <2> DEFINE r == FileTo(active_user, f)
    <2>1. r \in FileRequests /\ r.to = active_user
      BY <1>9 DEF Upload, FileTo, FileRequests, Chats, TypeOK
    <2> HIDE DEF r
    <2>2. /\ UNCHANGED <<conn, user_listbox, active_user, main>>
          /\ UNCHANGED outbox \/ (ClientAccepts(r) /\ Sent(r))
      BY <1>9 DEF Upload, SendFails, r
    <2>3. CASE UNCHANGED outbox
      BY <1>2, <1>3, <2>2, <2>3 DEF Used
    <2> QED
      BY <1>4, <2>1, <2>2, <2>3
  <1>10. ASSUME NEW g \in Groups, NewGroup(g)
         PROVE  GroupsOurs' /\ OutboxAccepted'
    <2> DEFINE r == GroupCreation(g)
    <2>1. r \in Requests /\ r.type = "create_group"
      BY DEF GroupCreation, Requests
    <2> HIDE DEF r
    <2>2. /\ UNCHANGED <<conn, user_listbox, active_user>>
          /\ main' = g \/ UNCHANGED main
          /\ \/ Sent(r) /\ main' = g
             \/ SendFails /\ UNCHANGED main
      BY <1>10 DEF NewGroup, r
    <2>3. CASE conn = "open"
      <3>1. outbox' = Append(outbox, r)
        BY <2>2, <2>3 DEF Sent, SendFails
      <3>2. \A h \in Groups : Used(h)' => Used(h) \/ r = GroupCreation(h)
        BY <1>2, <2>2 DEF Used, r
      <3> QED
        BY <1>1, <1>2, <2>1, <2>2, <2>3, <3>1, <3>2, SendsGroups
    <2>4. CASE conn # "open"
      BY <2>2, <2>4 DEF GroupsOurs, OutboxAccepted
    <2> QED
      BY <2>3, <2>4
  <1>11. CASE RefuseGroup
    BY <1>2, <1>3, <1>11 DEF RefuseGroup, Used
  <1>12. CASE OnClose
    BY <1>12 DEF OnClose, GroupsOurs, OutboxAccepted
  <1> QED
    BY <1>5, <1>6, <1>7, <1>8, <1>9, <1>10, <1>11, <1>12 DEF MainThread, Callback

LEMMA GroupStep ==
  ASSUME TypeOK, OwedOurs, Numbered, GroupsOurs, OutboxAccepted, [Next]_vars
  PROVE  GroupsOurs' /\ OutboxAccepted'
  <1>1. CASE UNCHANGED vars
    <2>1. UNCHANGED <<conn, outbox, room, main, active_user, user_listbox, receiver, inbox, handled>>
      BY <1>1 DEF vars, server, gui
    <2>2. \A g \in Groups : Used(g)' => Used(g)
      BY <2>1 DEF Used
    <2>3. Failed => Failed'
      BY <2>1 DEF Failed, Arrived
    <2> QED
      BY <2>1, <2>2, <2>3, KeepsGroups
  <1> QED
    BY <1>1, EnvironmentGroups, ReceiverGroups, MainGroups DEF Next

(* A frame that is sent while no error has been is no error, or is one for *)
(* a group.                                                                *)
LEMMA SentError ==
  ASSUME TypeOK, OwedOurs, OutboxAccepted, Environment, ~Failed, NEW f \in Errors, Arriving(f)
  PROVE  f.from = "create_group"
  <1>1. f \in Frames /\ f.type = "error" /\ inbox \in Seq(Frames) /\ inbox' = Append(inbox, f)
    BY FrameKinds DEF Arriving, Arrive, TypeOK
  <1>2. inbox' # inbox
    <2>1. Len(inbox') = Len(inbox) + 1 /\ Len(inbox) \in Nat
      BY <1>1
    <2> QED
      BY <2>1
  <1>3. ASSUME NEW e, inbox' = Append(inbox, e)
        PROVE  e = f
    <2>1. Append(inbox, e)[Len(inbox) + 1] = e /\ Append(inbox, f)[Len(inbox) + 1] = f
      BY <1>1
    <2> QED
      BY <1>1, <1>3, <2>1
  <1>4. ServerHandles
    <2>1. ~UNCHANGED inbox
      BY <1>2
    <2>2. ASSUME NEW users, UserListArrives(users)
          PROVE  FALSE
      BY <1>1, <1>3, <2>2 DEF UserListArrives, Arrive
    <2>3. ASSUME NEW u, NEW r \in TextRequests \cup FileRequests, OtherSends(u, r)
          PROVE  FALSE
      <3>1. Forwarded(r, u) = f
        BY <1>3, <2>3 DEF OtherSends, Arrive
      <3>2. Forwarded(r, u).type = r.type
        BY DEF Forwarded, Frame
      <3> QED
        BY <1>1, <3>1, <3>2 DEF TextRequests, FileRequests
    <2>4. ASSUME NEW u, NEW g, Notify(u, g)
          PROVE  FALSE
      BY <1>1, <1>2, <1>3, <2>4 DEF Notify, Arrive, Notice, Frame
    <2> QED
      BY <2>1, <2>2, <2>3, <2>4 DEF Environment, OtherInvites, OtherCreates, ServerCloses
  <1> DEFINE r == Head(outbox)
  <1>5. r \in Requests
    BY <1>4, HandledHead
  <1>6. inbox' = Append(inbox, ErrorReply(r))
    BY <1>2, <1>4 DEF ServerHandles, Arrive
  <1>7. f = ErrorReply(r)
    BY <1>3, <1>6
  <1> QED
    BY <1>1, <1>4, <1>5, <1>7, Answers, FirstError

LEMMA RefusedStep ==
  ASSUME TypeOK, OwedOurs, Numbered, OutboxAccepted, RefusedForGroupsOnly, [Next]_vars
  PROVE  RefusedForGroupsOnly'
  <1>1. CASE Arrived' = Arrived
    BY <1>1 DEF RefusedForGroupsOnly
  <1>2. ASSUME Environment, NEW f, Arriving(f)
        PROVE  RefusedForGroupsOnly'
    <2>1. Arrived' = Arrived \cup {f} /\ \A g \in Arrived : g.n < f.n
      BY <1>2, EnvironmentStep, ArrivalStep
    <2>2. f.n \in Nat /\ \A g \in Arrived : g.n \in Nat
      BY <1>2, FrameKinds DEF Arriving, Arrived, TypeOK, ToSet
    <2>3. CASE f \notin Errors
      BY <2>1, <2>3 DEF RefusedForGroupsOnly
    <2>4. CASE f \in Errors /\ Failed
      BY <2>1, <2>2, <2>4 DEF RefusedForGroupsOnly, Failed
    <2>5. CASE f \in Errors /\ ~Failed
      <3>1. f.from = "create_group"
        BY <1>2, <2>5, SentError
      <3> QED
        BY <2>1, <2>5, <3>1 DEF RefusedForGroupsOnly, Failed
    <2> QED
      BY <2>3, <2>4, <2>5
  <1>3. CASE Environment
    BY <1>1, <1>2, <1>3, EnvironmentStep DEF Remains, Arrived
  <1>4. CASE TakeFrame
    BY <1>1, <1>4, TakeStep DEF TakeFrame, ReceiveList, ReceiveMessage, ReceiveError, GiveUp
  <1>5. CASE (ReceiveThread /\ ~TakeFrame) \/ MainThread \/ UNCHANGED vars
    <2>1. Arrived' = Arrived
      BY <1>5 DEF ReceiveThread, ClearList, FillList, ListFilled, LookUpChat, InsertChat, StreamEnds,
                  MainThread, Callback, NoteSent, ShowGroup, SwitchUser, Send, Upload, NewGroup,
                  RefuseGroup, OnClose, server, vars, Arrived
    <2> QED
      BY <1>1, <2>1
  <1> QED
    BY <1>3, <1>4, <1>5 DEF Next

---------------------------------------------------------------------------

(* The inductive invariant.                                                *)
IInv ==
  /\ TypeOK
  /\ OwedOurs
  /\ Numbered
  /\ FramesFit
  /\ HistoriesComplete
  /\ Rebuilt
  /\ Selectable
  /\ GroupsOurs
  /\ OutboxAccepted
  /\ RefusedForGroupsOnly

LEMMA Initially ==
  ASSUME Init
  PROVE  IInv
  <1> USE DEF Init, Reading
  <1>1. TypeOK
    BY BoundsAreNumbers DEF TypeOK, ReceiverStates
  <1>2. Arrived = {}
    BY DEF Arrived, ToSet
  <1>3. Numbered /\ FramesFit /\ RefusedForGroupsOnly
    BY <1>2 DEF Numbered, FramesFit, RefusedForGroupsOnly
  <1>4. HistoriesComplete
    <2>1. \A c \in DOMAIN chat_histories : chat_histories[c] = <<>>
      OBVIOUS
    <2>2. Received(<<>>) = {}
      BY DEF Received
    <2>3. Numbers(<<>>) = {} /\ Ordered(<<>>)
      BY <2>2 DEF Numbers, Ordered
    <2> QED
      BY <2>1, <2>3 DEF HistoriesComplete
  <1>5. Rebuilt /\ Selectable
    BY DEF Rebuilt, Selectable
  <1>6. GroupsOurs
    BY PlacesAreNoGroups, NoChatIsNoChat DEF GroupsOurs, Used, Names, ToSet
  <1>7. OutboxAccepted /\ OwedOurs
    BY DEF OutboxAccepted, OwedOurs
  <1> QED
    BY <1>1, <1>3, <1>4, <1>5, <1>6, <1>7 DEF IInv

(* What the receive thread and the callbacks share stays consistent with   *)
(* what arrived, and the requests on their way with the server's groups.   *)
THEOREM Invariance == Spec => []IInv
  <1>1. IInv /\ [Next]_vars => IInv'
    BY TypeStep, OwedStep, NumberStep, FitStep, HistoryStep, ListStep, GroupStep, RefusedStep DEF IInv
  <1> QED
    BY <1>1, Initially, PTL DEF Spec

(* Types of all variables of the client, its threads and its connection.   *)
THEOREM TypeCorrect == Spec => []TypeOK
  BY Invariance, PTL DEF IInv

(* Nothing but what other software sends is too long for receive_loop:     *)
(* what check_message_size and check_file_size let pass, lists and replies *)
(* fit into MAX_FRAME_SIZE, encoded.                                       *)
THEOREM NoFrameTooLong == Spec => []FramesFit
  BY Invariance, PTL DEF IInv

(* Whatever is sent, selected or created in between, on_message_received   *)
(* has put all that arrived into its conversation's history, in order, and *)
(* what a user called "System" wrote directly into one history.            *)
THEOREM HistoryKept == Spec => []HistoriesComplete
  BY Invariance, PTL DEF IInv

(* update_user_list leaves the last list's users in user_listbox, though   *)
(* callbacks run, and insert groups, between its calls.                    *)
THEOREM UsersListed == Spec => []UsersShown
  <1>1. IInv => UsersShown
    BY DEF IInv, UsersShown, Rebuilt, RebuiltFrom, Listed, Resting, Reading
  <1> QED
    BY <1>1, Invariance, PTL

(* After on_message_received, a conversation can be selected until the     *)
(* next list comes, unless it is with a user called "System".              *)
THEOREM ConversationsSelectable == Spec => []ChatsSelectable
  <1>1. IInv => ChatsSelectable
    BY DEF IInv, ChatsSelectable, Selectable, SelectableAgain, SinceLists, Resting, Reading, Ended
  <1> QED
    BY <1>1, Invariance, PTL

(* Only create_group is refused before the connection ends: send_message,  *)
(* send_file and what the window offers ask for nothing else the server    *)
(* refuses.                                                                *)
THEOREM RefusedForTakenGroups == Spec => []RefusedForGroupsOnly
  BY Invariance, PTL DEF IInv

=============================================================================
