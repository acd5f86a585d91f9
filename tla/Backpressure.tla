---------------------------- MODULE Backpressure ----------------------------
(***************************************************************************)
(* Files on their way: sendall blocks when the buffers of a connection are *)
(* full (client.py, send_encrypted; server.py, send_payload), and a thread *)
(* that is blocked does nothing else.                                      *)
(*                                                                         *)
(* Each client uploads files to one other client.  A file is one frame, a  *)
(* number of parts, more than a connection's buffers may hold.  A client's *)
(* main thread writes it; the server's handler of that client reads all of *)
(* it, then writes it to the receiver's connection and reads on only when  *)
(* that is done; the receiver's receive thread reads all of it and calls   *)
(* the GUI, whose widgets are used by the main thread alone: if there is a *)
(* window, the call returns when the main thread is not in a callback.     *)
(*                                                                         *)
(* The handlers of other clients write small frames to the same            *)
(* connections: user lists, texts and invitations.  One is a single part.  *)
(***************************************************************************)
EXTENDS Naturals, Sequences, FiniteSetsExt, SequencesExt

CONSTANTS
  Clients,
  Windows,      \* those that may have a window (ChatGUI); others use ChatClient alone
  Small,        \* what a small frame consists of
  To,           \* to whom each client uploads
  Parts,        \* of a frame
  Capacity,     \* parts between a sendall and its reader
  MaxFiles,     \* bound: files that each client uploads
  MaxSmall      \* bound: small frames to each client

ASSUME EachHasOneReceiver == To \in [Clients -> Clients]
ASSUME SizesArePositive == Parts \in Nat \ {0} /\ Capacity \in Nat \ {0}
ASSUME FramesAreBounded == MaxFiles \in [Clients -> Nat] /\ MaxSmall \in [Clients -> Nat]
ASSUME WindowsAreClients == Windows \subseteq Clients
ASSUME SmallIsNoClient == Small \notin Clients

VARIABLES
  window,       \* clients with a window
  smalls,       \* small frames to each client so far
  started,      \* files of each client so far
  arrived,      \* and how many of them were shown to their receiver
  unsent,       \* what the main thread has yet to write
  up,           \* parts written and not yet read by the handler
  got,          \* parts of a frame that the handler has read
  owing,        \* parts that it has yet to write to the receiver
  down,         \* parts written to each client and not yet read: whose they are
  frame,        \* parts that the receive thread has read, and whose they are
  receiver      \* the receive thread

client == <<started, unsent>>
handler == <<got, owing>>
receiving == <<frame, receiver, arrived>>
vars == <<window, smalls, client, up, handler, down, receiving>>

Init ==
  /\ window \in SUBSET Windows
  /\ started = [c \in Clients |-> 0] /\ arrived = started /\ smalls = started
  /\ unsent = started /\ up = started /\ got = started /\ owing = started
  /\ down = [c \in Clients |-> <<>>] /\ frame = down
  /\ receiver = [c \in Clients |-> "reading"]

(* Fault: nobody looks at what the buffers hold.                           *)
Whatever(used) == Parts

(* What a sendall can write before it blocks again.                        *)
Room(used) == Capacity - used

(* send_file: the callback writes until all is written.                    *)
Upload(c) ==
  /\ unsent[c] = 0
  /\ started[c] < MaxFiles[c]
  /\ started' = [started EXCEPT ![c] = @ + 1]
  /\ unsent' = [unsent EXCEPT ![c] = Parts]
  /\ UNCHANGED <<window, smalls, up, handler, down, receiving>>

SendAll(c) ==
  LET n == Min({unsent[c], Room(up[c])})
  IN  /\ n > 0
      /\ unsent' = [unsent EXCEPT ![c] = @ - n]
      /\ up' = [up EXCEPT ![c] = @ + n]
      /\ UNCHANGED <<window, smalls, started, handler, down, receiving>>

(* Fault: the handler waits until the whole frame is there.                *)
ReadWhole(c) ==
  /\ owing[c] = 0
  /\ up[c] >= Parts
  /\ up' = [up EXCEPT ![c] = @ - Parts]
  /\ owing' = [owing EXCEPT ![c] = Parts]
  /\ UNCHANGED <<window, smalls, client, got, down, receiving>>

(* read_frame, then handle_client's checks, which take no time.            *)
ReadFrame(c) ==
  /\ owing[c] = 0
  /\ up[c] > 0
  /\ up' = [up EXCEPT ![c] = @ - 1]
  /\ LET complete == got[c] + 1 = Parts
     IN  /\ got' = [got EXCEPT ![c] = IF complete THEN 0 ELSE @ + 1]
         /\ owing' = [owing EXCEPT ![c] = IF complete THEN Parts ELSE 0]
  /\ UNCHANGED <<window, smalls, client, down, receiving>>

(* Fault: send instead of sendall; what it does not take is lost.          *)
ForwardOnce(c) ==
  LET n == Min({owing[c], Room(Len(down[To[c]]))})
  IN  /\ n > 0
      /\ owing' = [owing EXCEPT ![c] = 0]
      /\ down' = [down EXCEPT ![To[c]] = @ \o [i \in 1..n |-> c]]
      /\ UNCHANGED <<window, smalls, client, up, got, receiving>>

(* send_payload to the receiver, outside any lock: another handler may     *)
(* write to the same connection whenever this one blocks.                  *)
Forward(c) ==
  LET n == Min({owing[c], Room(Len(down[To[c]]))})
  IN  /\ n > 0
      /\ owing' = [owing EXCEPT ![c] = @ - n]
      /\ down' = [down EXCEPT ![To[c]] = @ \o [i \in 1..n |-> c]]
      /\ UNCHANGED <<window, smalls, client, up, got, receiving>>

(* send_payload of a user list, a text or an invitation, by the handler of *)
(* a client that is not among those that upload.                           *)
SendSmall(d) ==
  /\ smalls[d] < MaxSmall[d]
  /\ Room(Len(down[d])) > 0
  /\ smalls' = [smalls EXCEPT ![d] = @ + 1]
  /\ down' = [down EXCEPT ![d] = Append(@, Small)]
  /\ UNCHANGED <<window, client, up, handler, receiving>>

Whole(parts) == \A p \in ToSet(parts) : p = Head(parts)

(* The length is in the first part.                                        *)
FrameLength(parts) == IF Head(parts) = Small THEN 1 ELSE Parts

(* receive_loop reads a frame.  One that is not whole cannot be decrypted, *)
(* and what follows is taken for a length, which is then too large: the    *)
(* thread ends and the connection stays open.                              *)
Receive(d) ==
  /\ receiver[d] = "reading"
  /\ down[d] # <<>>
  /\ down' = [down EXCEPT ![d] = Tail(@)]
  /\ frame' = [frame EXCEPT ![d] = Append(@, Head(down[d]))]
  /\ receiver' = [receiver EXCEPT ![d] =
       IF Len(frame'[d]) < FrameLength(frame'[d]) THEN "reading"
       ELSE IF Whole(frame'[d]) THEN "showing" ELSE "ended"]
  /\ UNCHANGED <<window, smalls, client, up, handler, arrived>>

(* on_message_received uses the list, then receive_loop goes on.           *)
Show(d) ==
  /\ receiver[d] = "showing"
  /\ d \in window => unsent[d] = 0
  /\ receiver' = [receiver EXCEPT ![d] = "reading"]
  /\ frame' = [frame EXCEPT ![d] = <<>>]
  /\ arrived' = [c \in Clients |->
       IF c = Head(frame[d]) THEN arrived[c] + 1 ELSE arrived[c]]
  /\ UNCHANGED <<window, smalls, client, up, handler, down>>

Next == \E c \in Clients :
  \/ Upload(c) \/ SendAll(c)
  \/ ReadFrame(c) \/ Forward(c) \/ SendSmall(c)
  \/ Receive(c) \/ Show(c)

Spec == Init /\ [][Next]_vars

(* Every thread runs whenever it is not blocked.  Nobody has to upload,    *)
(* nor to cause a small frame.                                             *)
FairSpec ==
  /\ Spec
  /\ \A c \in Clients : /\ WF_vars(SendAll(c))
                        /\ WF_vars(ReadFrame(c) \/ Forward(c))
                        /\ WF_vars(Receive(c) \/ Show(c))

---------------------------------------------------------------------------
(* Properties.                                                             *)

(* Everything has its type, and no buffer and no frame holds more than it  *)
(* can.                                                                    *)
TypeOK ==
  /\ window \subseteq Windows
  /\ smalls \in [Clients -> Nat]
  /\ started \in [Clients -> Nat] /\ arrived \in [Clients -> Nat]
  /\ unsent \in [Clients -> 0..Parts] /\ owing \in [Clients -> 0..Parts]
  /\ up \in [Clients -> 0..Capacity]
  /\ got \in [Clients -> 0..(Parts - 1)]
  /\ down \in [Clients -> Seq(Clients \cup {Small})]
  /\ frame \in [Clients -> Seq(Clients \cup {Small})]
  /\ \A c \in Clients : Len(down[c]) <= Capacity /\ Len(frame[c]) <= Parts
  /\ receiver \in [Clients -> {"reading", "showing", "ended"}]

(* Parts of c's files in a sequence of parts.                              *)
PartsOf(c, parts) == Cardinality({i \in DOMAIN parts : parts[i] = c})

(* Every part of every file that was begun is in one place: with the       *)
(* sender, in a buffer, with the handler, with the receive thread, or      *)
(* shown.  Nothing is lost or doubled where a thread blocks and goes on,   *)
(* nor where other frames cut in (sendall, read_frame, send_payload,       *)
(* receive_loop).                                                          *)
NothingLost ==
  \A c \in Clients :
    Parts * started[c] =
      unsent[c] + up[c] + got[c] + owing[c]
        + PartsOf(c, down[To[c]]) + PartsOf(c, frame[To[c]]) + Parts * arrived[c]

(* docs/ARCHITECTURE.md:63: "The server forwards user, group, and file     *)
(* payloads to connected clients."  All files that are uploaded arrive in  *)
(* the end, though every thread on their way blocks when a buffer is full, *)
(* also where two clients send files to each other (upload,                *)
(* on_message_received, forward_payload).                                  *)
FilesArrive == <>[](arrived = started)

(* docs/ARCHITECTURE.md:63: "The server forwards user, group, and file     *)
(* payloads to connected clients."  What a client reads as a frame then is *)
(* one: its parts come from one handler (send_payload).                    *)
FramesWhole == \A c \in Clients : Whole(frame[c])

=============================================================================
