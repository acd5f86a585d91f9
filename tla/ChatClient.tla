----------------------------- MODULE ChatClient -----------------------------
(***************************************************************************)
(* client/client.py and client/chat_gui.py: one user's chat client, from   *)
(* start_receiving to the end of the program, for a user who was logged in *)
(* (what the server answers to a name it refuses is not in the model).     *)
(*                                                                         *)
(* Two threads.  The main thread runs the callbacks of the window; the     *)
(* receive thread runs receive_loop and calls into the GUI.  A widget may  *)
(* be used by the receive thread too, but its call is then executed by the *)
(* main thread, between two callbacks; everything else the threads share   *)
(* without a lock.  A step is one widget call of the receive thread, one   *)
(* update of shared data, or one sendall, with the local work around it.   *)
(*                                                                         *)
(* The server and the other users' clients are the environment: the server *)
(* checks and forwards as server.py does (ChatServer has the details); a   *)
(* client of another make may leave out the checks of this one.  Contents  *)
(* are sizes, in bytes and with the limits of common/encryption.py.  A     *)
(* chat is the key of chat_histories: a user, or "#" and a group.  How     *)
(* histories are drawn is not modelled (nor is "sender", which is only     *)
(* drawn), nor are entries that are merely duplicated, nor where received  *)
(* files are saved.                                                        *)
(***************************************************************************)
EXTENDS Naturals, Sequences, FiniteSets, SequencesExt

CONSTANTS
  Me,           \* this user
  Users,        \* other users
  System,       \* the name "System", which one of them may have
  Standard,     \* those who use this client
  Groups,       \* groups; their chats are "#" and the name
  NoChat,       \* active_user = None
  Texts,        \* messages: their size in UTF-8, and escaped as in JSON
  Files,        \* files: their size, and what kind of name they have
  Envelope,     \* size of the JSON around the contents (at most)
  Members,      \* members of a group (at most)
  MaxFrames,    \* bound: frames that arrive
  MaxActions    \* bound: what the user does

ASSUME MeIsNobodyElse == Me \notin Users \cup Groups
ASSUME UsersAreNoGroups == Users \cap Groups = {}
ASSUME NoChatIsNoChat == NoChat \notin Users \cup Groups
ASSUME SystemIsNoGroup == System \notin Groups \cup {NoChat}
ASSUME StandardAreUsers == Standard \subseteq Users
(* 36 bytes hold a name in a list, and a frame more than 200000 of them.   *)
ASSUME ListsAreShort ==
  /\ IsFiniteSet(Users) /\ Cardinality(Users) < 200 * 1000
  /\ Members \in Nat /\ Members <= 200 * 1000
(* The main thread's place is the group that new_group is about to show, or a word. *)
ASSUME PlacesAreNoGroups == Groups \cap {"idle", "sent", "exit"} = {}
ASSUME EscapingNeverShortens ==
  Texts \subseteq [utf8 : Nat, json : Nat] /\ \A t \in Texts : t.utf8 <= t.json
ASSUME FilesHaveSizes == Files \subseteq [bytes : Nat, name : {"safe", "refused"}]
(* Names have at most 48 bytes each, a file name that is sent at most 120. *)
ASSUME EnvelopeIsSmall == Envelope \in 0..1000
ASSUME BoundsAreNumbers == MaxFrames \in Nat /\ MaxActions \in Nat

VARIABLES
  conn,             \* "open", "cut" at the server's end, or "closed"
  inbox,            \* frames on their way to the receive thread
  outbox,           \* requests on their way to the server
  room,             \* what each group of the server is to this user
  owed,             \* groups of which handlers have yet to tell it, by creator
  receiver,         \* the receive thread
  main,             \* the main thread
  user_listbox,     \* entries of the list, as names with a status
  known_users,
  chat_histories,
  active_user,
  count,            \* frames so far
  actions,          \* user's actions so far
  handled           \* ghost: the set of frames the receive thread has taken

server == <<inbox, outbox, room, owed, count>>
gui == <<user_listbox, known_users, chat_histories, active_user>>
vars == <<conn, server, receiver, main, gui, actions, handled>>

---------------------------------------------------------------------------
(* Sizes (common/encryption.py).                                           *)

(* Fault: the limit forgets what base64 adds.                              *)
FrameLimitOfBytes == 6 * 1024 * 1024

MAX_MESSAGE_SIZE == 64 * 1024
MAX_FILE_SIZE == 5 * 1024 * 1024
MAX_FRAME_SIZE == 8 * 1024 * 1024

(* b64encode                                                               *)
Base64(n) == 4 * ((n + 2) \div 3)

(* encrypt_message: nonce and tag.                                         *)
Encrypted(n) == 12 + n + 16

(* What check_message_size measures: the client the JSON of the whole      *)
(* payload, the server the contents.                                       *)
check_message_size(n) == n <= MAX_MESSAGE_SIZE

(* Nothing, or base64 of at most five megabytes.                           *)
check_file_size(n) == n # 0 /\ n <= MAX_FILE_SIZE

---------------------------------------------------------------------------
(* Requests and frames.                                                    *)

Chats == Users \cup Groups

IsText(r) == r.type \in {"message", "group_message"}
IsFile(r) == r.type \in {"message_file", "group_file"}

TextRequests == [type : {"message"}, to : Users \cup {Me}, what : Texts]
                \cup [type : {"group_message"}, to : Groups, what : Texts]
FileRequests == [type : {"message_file"}, to : Users \cup {Me}, what : Files]
                \cup [type : {"group_file"}, to : Groups, what : Files]

TextTo(chat, t) ==
  [type |-> IF chat \in Groups THEN "group_message" ELSE "message", to |-> chat, what |-> t]
FileTo(chat, f) ==
  [type |-> IF chat \in Groups THEN "group_file" ELSE "message_file", to |-> chat, what |-> f]
GroupCreation(g) == [type |-> "create_group", to |-> g]

(* Fault: the client leaves it to the server to refuse a file.             *)
SendsAnything(r) == IsText(r) => check_message_size(Envelope + r.what.json)

(* send_message, send_group_message, send_file, send_group_file: what a    *)
(* client sends.  (Names come from the list and are safe.)                 *)
ClientAccepts(r) ==
  IF IsText(r) THEN check_message_size(Envelope + r.what.json)
  ELSE r.what.name = "safe" /\ check_file_size(r.what.bytes)

(* What the server does not answer with an error, as to contents.  It has  *)
(* no limit for group messages but that of frames.                         *)
ServerAccepts(r) ==
  /\ r.type = "message" => check_message_size(r.what.utf8)
  /\ IsFile(r) => r.what.name = "safe" /\ check_file_size(r.what.bytes)

(* The frame for a request, and the one the server makes of it: the same   *)
(* fields.                                                                 *)
FrameSize(r) ==
  Encrypted(Envelope + (IF IsText(r) THEN r.what.json ELSE Base64(r.what.bytes)))

(* As other software may send it: JSON need not escape.                    *)
SentSize(r) ==
  Encrypted(Envelope + (IF IsText(r) THEN r.what.utf8 ELSE Base64(r.what.bytes)))

(* A frame with a number of names.                                         *)
ListSize(names) == Encrypted(Envelope + 36 * names)

Frame(type, from, to, size) ==
  [type |-> type, from |-> from, to |-> to, size |-> size, n |-> count + 1]
Forwarded(r, from) == Frame(r.type, from, r.to, FrameSize(r))
ErrorReply(r) ==
  [Frame("error", Me, Me, Encrypted(Envelope)) EXCEPT !.to = r.to, !.from = r.type]
Notice(u, g) == IF u = Me THEN Frame("group_created", Me, g, Encrypted(Envelope))
                          ELSE Frame("group_invite", u, g, ListSize(Members))

(* Fault: a file to a group is filed under its sender.                     *)
ChatOfSender(f) == IF f.to = Me \/ IsFile(f) THEN f.from ELSE f.to

(* What on_message_received is called with.                                *)
ChatOf(f) == IF f.type \in {"message", "message_file"} THEN f.from ELSE f.to

(* Fault: it looks at the sender, which notices and files give as "System". *)
FiledBySender(f) ==
  IF IsFile(f) \/ f.type \in {"group_invite", "group_created"} \/ f.from = System
    THEN active_user ELSE ChatOf(f)

(* The history in which it puts a frame: from a user called "System" as    *)
(* well as from the client itself, the one that the window shows.          *)
FiledUnder(f) == IF ChatOf(f) = System THEN active_user ELSE ChatOf(f)

Entry(by, n) == [by |-> by, n |-> n]

(* chat_histories.setdefault(chat, []).append(...)                         *)
Note(chat, entry) == chat_histories' = [chat_histories EXCEPT ![chat] = Append(@, entry)]

(* on_message_received("System", ...) in the main thread.                  *)
SystemNote == Note(active_user, Entry("System", 0))

Shown(chat, status) == [name |-> chat, status |-> status]

Reading == [pc |-> "read"]

Init ==
  /\ conn = "open"
  /\ inbox = <<>> /\ outbox = <<>>
  /\ room = [g \in Groups |-> "none"] /\ owed = {}
  /\ receiver = Reading
  /\ main = "idle"
  /\ user_listbox = {} /\ known_users = {}
  /\ chat_histories = [c \in Chats \cup {NoChat} |-> <<>>]
  /\ active_user = NoChat
  /\ count = 0 /\ actions = 0
  /\ handled = {}

---------------------------------------------------------------------------
(* The server.                                                             *)

Arrive(frame) ==
  /\ conn = "open"
  /\ count < MaxFrames
  /\ count' = count + 1
  /\ inbox' = Append(inbox, frame)

(* A broadcast: every list holds its receiver.                             *)
UserListArrives(users) ==
  /\ Arrive([type |-> "user_list", users |-> users \cup {Me}, n |-> count + 1,
             size |-> ListSize(Cardinality(users) + 1)])
  /\ UNCHANGED <<conn, outbox, room, owed, receiver, main, gui, actions, handled>>

(* Another client's message or file: what the server can read as a frame,  *)
(* and does not answer with an error.                                      *)
OtherSends(u, r) ==
  /\ r.to = Me \/ (r.to \in Groups /\ room[r.to] = "ours")
  /\ IF u \in Standard THEN ClientAccepts(r) ELSE SentSize(r) <= MAX_FRAME_SIZE
  /\ ServerAccepts(r)
  /\ Arrive(Forwarded(r, u))
  /\ UNCHANGED <<conn, outbox, room, owed, receiver, main, gui, actions, handled>>

(* Another client creates a group, with this user or without.              *)
OtherInvites(u, g) ==
  /\ room[g] = "none"
  /\ room' = [room EXCEPT ![g] = "ours"]
  /\ owed' = owed \cup {<<u, g>>}
  /\ UNCHANGED <<conn, inbox, outbox, count, receiver, main, gui, actions, handled>>

OtherCreates(g) ==
  /\ room[g] = "none"
  /\ room' = [room EXCEPT ![g] = "theirs"]
  /\ UNCHANGED <<conn, inbox, outbox, owed, count, receiver, main, gui, actions, handled>>

(* The handler of its creator sends the invitation or the acknowledgement, *)
(* or leaves it out since it could not send an invitation before.          *)
Notify(u, g) ==
  /\ <<u, g>> \in owed
  /\ owed' = owed \ {<<u, g>>}
  /\ Arrive(Notice(u, g)) \/ UNCHANGED <<inbox, count>>
  /\ UNCHANGED <<conn, outbox, room, receiver, main, gui, actions, handled>>

(* The server handles this client's next request when it has done with the *)
(* one before: it creates the group, refuses the request or forwards it.   *)
ServerHandles ==
  /\ conn = "open"
  /\ \A g \in Groups : <<Me, g>> \notin owed
  /\ outbox # <<>>
  /\ outbox' = Tail(outbox)
  /\ LET r == Head(outbox)
         created == r.type = "create_group" /\ room[r.to] = "none"
         refused == \/ r.type = "create_group" /\ ~created
                    \/ r.type # "create_group" /\ r.to \in Groups /\ room[r.to] # "ours"
                    \/ ~ServerAccepts(r)
     IN  /\ room' = IF created THEN [room EXCEPT ![r.to] = "ours"] ELSE room
         /\ owed' = IF created THEN owed \cup {<<Me, r.to>>} ELSE owed
         /\ IF refused THEN Arrive(ErrorReply(r)) ELSE UNCHANGED <<inbox, count>>
  /\ UNCHANGED <<conn, receiver, main, gui, actions, handled>>

(* The server, or the connection, ends.                                    *)
ServerCloses ==
  /\ conn = "open"
  /\ conn' = "cut"
  /\ outbox' = <<>> /\ owed' = {}
  /\ UNCHANGED <<inbox, room, count, receiver, main, gui, actions, handled>>

---------------------------------------------------------------------------
(* The receive thread.                                                     *)

Receiver(r) == receiver' = r

(* header = conn_file.read(4), data = conn_file.read(msg_len)              *)
Take(f) ==
  /\ main # "exit"
  /\ receiver = Reading
  /\ inbox # <<>>
  /\ f = Head(inbox)
  /\ inbox' = Tail(inbox)
  /\ handled' = handled \cup {f}
  /\ UNCHANGED <<outbox, room, owed, count, main, user_listbox, active_user, actions>>

(* update_user_list: known_users.update(online_users) ...                  *)
ReceiveList(f) ==
  /\ f.type = "user_list"
  /\ Take(f)
  /\ known_users' = known_users \cup f.users
  /\ Receiver([pc |-> "clear", users |-> f.users])
  /\ UNCHANGED <<conn, chat_histories>>

(* Fault: the user's own name is not left out.                             *)
AllKnown == known_users

(* The users that the list shows.                                          *)
OthersKnown == known_users \ {Me}

(* Fault: the list is not emptied first.                                   *)
Everything == user_listbox

(* user_listbox.delete(0, END): the groups go, too.                        *)
Emptied == {}

ClearList ==
  /\ receiver.pc = "clear" /\ main = "idle"
  /\ user_listbox' = Emptied
  /\ Receiver([pc |-> "fill", users |-> receiver.users, todo |-> OthersKnown])
  /\ UNCHANGED <<conn, server, main, known_users, chat_histories, active_user, actions, handled>>

(* ... and inserts one by one.                                             *)
FillList(u) ==
  /\ receiver.pc = "fill" /\ main = "idle"
  /\ u \in receiver.todo
  /\ user_listbox' =
       user_listbox \cup {Shown(u, IF u \in receiver.users THEN "online" ELSE "offline")}
  /\ Receiver([receiver EXCEPT !.todo = @ \ {u}])
  /\ UNCHANGED <<conn, server, main, known_users, chat_histories, active_user, actions, handled>>

ListFilled ==
  /\ main # "exit"
  /\ receiver.pc = "fill" /\ receiver.todo = {}
  /\ Receiver(Reading)
  /\ UNCHANGED <<conn, server, main, gui, actions, handled>>

(* A message, a notice about a group, or a file that is saved:             *)
(* on_message_received notes it, and if it is from "System" does no more,  *)
ReceiveMessage(f) ==
  /\ f.type \notin {"user_list", "error"}
  /\ f.size <= MAX_FRAME_SIZE
  /\ Take(f)
  /\ Note(FiledUnder(f), Entry(IF ChatOf(f) = System THEN "System" ELSE "peer", f.n))
  /\ Receiver(IF ChatOf(f) = System THEN Reading ELSE [pc |-> "look", chat |-> ChatOf(f)])
  /\ UNCHANGED <<conn, known_users>>

(* or reads the list, where format_username takes off " (online)" only ...  *)
Existing == {e.name : e \in {x \in user_listbox : x.status # "offline"}}

LookUpChat ==
  /\ receiver.pc = "look" /\ main = "idle"
  /\ Receiver(IF receiver.chat \in Existing \cup {Me} THEN Reading
              ELSE [receiver EXCEPT !.pc = "insert"])
  /\ UNCHANGED <<conn, server, main, gui, actions, handled>>

(* Fault: the new entry replaces the list.                                 *)
OnlyEntry(chat) == {Shown(chat, "plain")}

(* ... and inserts the chat if it was not there.                           *)
WithEntry(chat) == user_listbox \cup {Shown(chat, "plain")}

InsertChat ==
  /\ receiver.pc = "insert" /\ main = "idle"
  /\ user_listbox' = WithEntry(receiver.chat)
  /\ Receiver(Reading)
  /\ UNCHANGED <<conn, server, main, known_users, chat_histories, active_user, actions, handled>>

(* An error reply: the client closes its connection.                       *)
ReceiveError(f) ==
  /\ f.type = "error"
  /\ Take(f)
  /\ conn' = "closed"
  /\ Receiver([pc |-> "ended", cause |-> "error"])
  /\ UNCHANGED <<known_users, chat_histories>>

(* A file that cannot be saved, or a frame that is too long, ends the      *)
(* thread and leaves the connection open.                                  *)
GiveUp(f, cause) ==
  /\ \/ cause = "disk" /\ IsFile(f)
     \/ cause = "size" /\ f.size > MAX_FRAME_SIZE
  /\ Take(f)
  /\ Receiver([pc |-> "ended", cause |-> cause])
  /\ UNCHANGED <<conn, known_users, chat_histories>>

(* "Server closed the connection", "Incomplete message received" or an     *)
(* OSError.                                                                *)
StreamEnds ==
  /\ main # "exit"
  /\ receiver = Reading
  /\ conn = "cut"
  /\ Receiver([pc |-> "ended", cause |-> "cut"])
  /\ UNCHANGED <<conn, server, main, gui, actions, handled>>

---------------------------------------------------------------------------
(* The main thread: the user's actions.                                    *)

UserActs ==
  /\ main = "idle"
  /\ actions < MaxActions
  /\ actions' = actions + 1

(* sendall: on a connection that is cut, what is sent may be lost without  *)
(* an error, or fail; on a closed one it fails.                            *)
Sent(r) ==
  \/ conn = "open" /\ outbox' = Append(outbox, r)
  \/ conn = "cut" /\ UNCHANGED outbox
SendFails == conn \in {"cut", "closed"} /\ UNCHANGED outbox

(* switch_user, with the name in front of the status.                      *)
SwitchUser(e) ==
  /\ UserActs
  /\ active_user' = e.name
  /\ UNCHANGED <<conn, server, receiver, main, user_listbox, known_users, chat_histories, handled>>

(* send, up to the return of send_message or send_group_message.  An error *)
(* of the connection ends the callback and nothing is noted.               *)
Send(t) ==
  /\ active_user # NoChat
  /\ UserActs
  /\ LET r == TextTo(active_user, t)
     IN  \/ ~ClientAccepts(r) /\ SystemNote /\ UNCHANGED <<outbox, main>>
         \/ ClientAccepts(r) /\ Sent(r) /\ main' = "sent" /\ UNCHANGED chat_histories
         \/ ClientAccepts(r) /\ SendFails /\ UNCHANGED <<main, chat_histories>>
  /\ UNCHANGED <<conn, inbox, room, owed, count, receiver, user_listbox, known_users, active_user, handled>>

(* Its rest: a reply may have been received since.                         *)
NoteSent ==
  /\ main = "sent"
  /\ main' = "idle"
  /\ Note(active_user, Entry("You", 0))
  /\ UNCHANGED <<conn, server, receiver, user_listbox, known_users, active_user, actions, handled>>

(* upload: whatever comes of it is noted, the exceptions, too.             *)
Upload(f) ==
  /\ active_user # NoChat
  /\ UserActs
  /\ LET r == FileTo(active_user, f)
     IN  IF ClientAccepts(r) THEN Sent(r) \/ SendFails ELSE UNCHANGED outbox
  /\ SystemNote
  /\ UNCHANGED <<conn, inbox, room, owed, count, receiver, main, user_listbox, known_users,
                 active_user, handled>>

(* new_group, up to the return of create_group, with safe names ...        *)
NewGroup(g) ==
  /\ UserActs
  /\ \/ Sent(GroupCreation(g)) /\ main' = g
     \/ SendFails /\ UNCHANGED main
  /\ UNCHANGED <<conn, inbox, room, owed, count, receiver, gui, handled>>

(* Fault: it waits until the server has created the group.                 *)
ShowCreatedGroup ==
  /\ main \in Groups
  /\ \E f \in handled : f.type \in {"group_created", "error"}
  /\ main' = "idle"
  /\ user_listbox' = WithEntry(main)
  /\ active_user' = main
  /\ UNCHANGED <<conn, server, receiver, known_users, chat_histories, actions, handled>>

(* ... and its rest, before any answer; or with a name that is not safe,   *)
(* noted by create_group and by new_group.                                 *)
ShowGroup ==
  /\ main \in Groups
  /\ main' = "idle"
  /\ user_listbox' = IF main \in Existing THEN user_listbox ELSE WithEntry(main)
  /\ active_user' = main
  /\ UNCHANGED <<conn, server, receiver, known_users, chat_histories, actions, handled>>

RefuseGroup ==
  /\ UserActs
  /\ Note(active_user, Entry("System", 0))
  /\ UNCHANGED <<conn, server, receiver, main, user_listbox, known_users, active_user, handled>>

(* on_close: the process ends with its threads.                            *)
OnClose ==
  /\ UserActs
  /\ main' = "exit"
  /\ conn' = "closed"
  /\ UNCHANGED <<server, receiver, gui, handled>>

---------------------------------------------------------------------------

Environment ==
  \/ \E users \in SUBSET Users : UserListArrives(users)
  \/ \E u \in Users, r \in TextRequests \cup FileRequests : OtherSends(u, r)
  \/ \E u \in Users, g \in Groups : OtherInvites(u, g)
  \/ \E g \in Groups : OtherCreates(g)
  \/ \E u \in Users \cup {Me}, g \in Groups : Notify(u, g)
  \/ ServerHandles
  \/ ServerCloses

TakeFrame == \E f \in ToSet(inbox) :
  \/ ReceiveList(f)
  \/ ReceiveMessage(f)
  \/ ReceiveError(f)
  \/ \E cause \in {"disk", "size"} : GiveUp(f, cause)

ReceiveThread ==
  \/ TakeFrame
  \/ ClearList
  \/ \E u \in Users \cup {Me} : FillList(u)
  \/ ListFilled
  \/ LookUpChat
  \/ InsertChat
  \/ StreamEnds

Callback == NoteSent \/ ShowGroup

MainThread ==
  \/ Callback
  \/ \E e \in user_listbox : SwitchUser(e)
  \/ \E t \in Texts : Send(t)
  \/ \E f \in Files : Upload(f)
  \/ \E g \in Groups : NewGroup(g)
  \/ RefuseGroup
  \/ OnClose

Next == Environment \/ ReceiveThread \/ MainThread

Spec == Init /\ [][Next]_vars

(* Both threads run; a callback that has sent returns to the window.       *)
FairSpec == Spec /\ WF_vars(ReceiveThread) /\ WF_vars(Callback)

---------------------------------------------------------------------------
(* Properties.                                                             *)

Names(entries) == {e.name : e \in entries}
Statuses == {"online", "offline", "plain"}
Resting == receiver = Reading

Requests == TextRequests \cup FileRequests \cup [type : {"create_group"}, to : Groups]
RequestTypes == {"message", "group_message", "message_file", "group_file", "create_group"}

Lists == [type : {"user_list"}, users : SUBSET (Users \cup {Me}), n : Nat \ {0}, size : Nat]
Errors == [type : {"error"}, from : RequestTypes, to : Chats \cup {Me}, n : Nat \ {0}, size : Nat]
Messages ==
  [type : {"message", "message_file"}, from : Users, to : {Me}, n : Nat \ {0}, size : Nat]
  \cup [type : {"group_message", "group_file", "group_invite", "group_created"},
        from : Users \cup {Me}, to : Groups, n : Nat \ {0}, size : Nat]
Frames == Lists \cup Errors \cup Messages

ReceiverStates ==
  [pc : {"read"}]
  \cup [pc : {"clear"}, users : SUBSET (Users \cup {Me})]
  \cup [pc : {"fill"}, users : SUBSET (Users \cup {Me}), todo : SUBSET Users]
  \cup [pc : {"look", "insert"}, chat : Chats]
  \cup [pc : {"ended"}, cause : {"error", "disk", "size", "cut"}]
Ended == receiver.pc = "ended"
GaveUp == Ended /\ receiver.cause \in {"disk", "size"}

(* Everything has its type.                                                *)
TypeOK ==
  /\ conn \in {"open", "cut", "closed"}
  /\ inbox \in Seq(Frames) /\ outbox \in Seq(Requests)
  /\ room \in [Groups -> {"none", "ours", "theirs"}]
  /\ owed \subseteq (Users \cup {Me}) \X Groups
  /\ receiver \in ReceiverStates
  /\ main \in {"idle", "sent", "exit"} \cup Groups
  /\ user_listbox \subseteq [name : Chats, status : Statuses]
  /\ known_users \subseteq Users \cup {Me}
  /\ chat_histories \in
       [Chats \cup {NoChat} -> Seq([by : {"peer", "You", "System"}, n : Nat])]
  /\ active_user \in Chats \cup {NoChat}
  /\ count \in 0..MaxFrames /\ actions \in 0..MaxActions
  /\ handled \subseteq Frames

(* Frames have the numbers in whose order they arrive.                     *)
Arrived == handled \cup ToSet(inbox)
Latest(f) == \A g \in handled : g.n <= f.n

(* The conversation that a frame belongs to.                               *)
InConversation(f, c) == c = (IF f.to = Me THEN f.from ELSE f.to)

(* The frames that on_message_received was called for: all but the one the *)
(* receive thread gave up on.                                              *)
Noted(f) == f \in Messages /\ ~(GaveUp /\ Latest(f))

(* The entries of a history that were received.                            *)
Received(history) == {i \in DOMAIN history : history[i].n # 0}
Numbers(history) == {history[i].n : i \in Received(history)}
Ordered(history) == \A i, j \in Received(history) : i < j => history[i].n < history[j].n
Holds(c, f) == f.n \in Numbers(chat_histories[c])

(* A conversation's history holds what was received in it, all of it, and  *)
(* in the order in which it arrived, whatever is sent in between: messages *)
(* by their chat, and files by their target.  Only what comes directly     *)
(* from a user called "System" is in another one, but in exactly one       *)
(* (on_message_received, client.py's receive_loop).                        *)
HistoriesComplete ==
  /\ \A c \in DOMAIN chat_histories :
       /\ Numbers(chat_histories[c]) \subseteq {f.n : f \in {f \in handled : Noted(f)}}
       /\ Ordered(chat_histories[c])
  /\ \A f \in handled : Noted(f) =>
       IF InConversation(f, System)
         THEN \E c \in DOMAIN chat_histories :
                \A d \in DOMAIN chat_histories : Holds(d, f) <=> d = c
         ELSE \A c \in DOMAIN chat_histories : Holds(c, f) <=> InConversation(f, c)

(* The last user list that was taken.                                      *)
LastList(l) == l \in handled \cap Lists /\ \A m \in handled \cap Lists : m.n <= l.n

(* When the receive thread has done with a frame, the list shows the users *)
(* of the last list that arrived, and no others, as online, and all others *)
(* it has ever seen as offline (update_user_list), whatever the user did   *)
(* while it was rebuilt.                                                   *)
UsersShown ==
  \A l \in handled : Resting /\ LastList(l) =>
    LET listed(status) == Names({x \in user_listbox : x.status = status})
    IN  /\ listed("online") = l.users \ {Me}
        /\ listed("offline") = known_users \ (l.users \cup {Me})

(* ... and every conversation that something arrived in since then can be  *)
(* selected (on_message_received, update_user_list), but that with a user  *)
(* called "System".  Before that is another matter: every list removes the *)
(* groups.                                                                 *)
ChatsSelectable ==
  \A f \in handled \cap Messages :
    /\ Resting /\ (\A l \in handled \cap Lists : l.n < f.n)
    /\ ~InConversation(f, System)
    => \E c \in Names(user_listbox) : InConversation(f, c)

(* What another make of client has sent.  The server has no limit for what *)
(* it forwards, and encodes it again, which may make it longer.            *)
Foreign(f) == f \in Messages /\ f.from \notin Standard \cup {Me}

(* The client gives up no other frame for its length: what clients of this *)
(* make send, lists and replies fit, when the server has encoded them      *)
(* (MAX_FRAME_SIZE "allows a 5MB file after base64 and JSON wrapping").    *)
FramesFit == \A f \in Arrived : ~Foreign(f) => f.size <= MAX_FRAME_SIZE

(* An error reply costs the client its connection.  The first one is for a *)
(* group that exists already: no text or file that the client lets pass,   *)
(* and no chat that the window offers, is refused before.                  *)
RefusedForGroupsOnly ==
  \A f \in Arrived \cap Errors :
    (\A g \in Arrived \cap Errors : f.n <= g.n) => f.from = "create_group"

(* Every frame that arrives is handled, unless the receive thread or the   *)
(* program ends: the threads do not wait for each other forever.           *)
FramesHandled == inbox # <<>> ~> (inbox = <<>> \/ Ended \/ main = "exit")

=============================================================================
