----------------------------- MODULE Handshake -----------------------------
(***************************************************************************)
(* The key files and the start of the chat server (server.py, main and     *)
(* generate_keys), and one client's handshake with it (client.py, connect; *)
(* server.py, handle_client up to its first requests).                     *)
(*                                                                         *)
(* generate_keys runs in the server that starts and, at any time, in a     *)
(* process of the operator (--gen-keys); each may be stopped between two   *)
(* steps.  A file is absent, empty, or holds its half of a numbered pair.  *)
(*                                                                         *)
(* What the client sends is a stream of parts: those of the encrypted key, *)
(* of the name, and of its frames, a header and a body each.  TCP keeps    *)
(* their order and delivers them when it likes: a read returns what has    *)
(* arrived, up to what was asked for.  Cryptography is ideal: what was     *)
(* encrypted for one pair is refused by another.                           *)
(***************************************************************************)
EXTENDS Naturals

CONSTANTS
  Absent, Empty,    \* what a key file may be, other than half of a pair
  KeyLength,        \* parts of the 256 bytes of the encrypted AES key
  NameLength,       \* parts of the name
  MaxRequests,      \* bound: requests that the client sends
  MaxPairs          \* bound: pairs that are ever generated

ASSUME PartsAreNumbers == KeyLength \in Nat \ {0} /\ NameLength \in Nat \ {0}
ASSUME BoundsAreNumbers == MaxRequests \in Nat /\ MaxPairs \in Nat \ {0}
ASSUME FilesDiffer == Absent # Empty /\ {Absent, Empty} \cap Nat = {}

VARIABLES
  priv, pub,    \* the two files
  pairs,        \* pairs generated so far
  gen,          \* generate_keys in each process: next step (0 if not running), pair
  server,       \* the main thread
  own, public,  \* its private_key and public_key
  client,       \* connect, and after it
  used,         \* the public key that the client received
  sent,         \* parts that have arrived at the server
  handler,      \* handle_client
  read,         \* parts that it has read
  registered,   \* parts in the name it registered, 0 for none
  handled,      \* requests it has handled
  disturbed     \* ghost: a generation was stopped half-way, or overlapped
                \*   another or a start

files == <<priv, pub, pairs, gen, disturbed>>
process == <<server, own, public>>
session == <<handler, read, registered, handled>>
connection == <<client, used, sent>>
vars == <<files, process, session, connection>>

Pairs == 1..MaxPairs
Contents == Pairs \cup {Absent, Empty}
Generators == {"server", "operator"}
NoGeneration == [step |-> 0, pair |-> 0]
Starting == {"generate", "load", "listen"}

Init ==
  /\ priv \in {Absent, 1} /\ pub \in {Absent, 1}
  /\ pairs = 1
  /\ gen = [p \in Generators |-> NoGeneration]
  /\ server = "off" /\ own = Absent /\ public = Absent
  /\ client = "off" /\ used = Absent /\ sent = 0
  /\ handler = "none" /\ read = 0 /\ registered = 0 /\ handled = 0
  /\ disturbed = FALSE

---------------------------------------------------------------------------
(* generate_keys.                                                          *)

Generating(p) == gen[p].step # 0

(* rsa.generate_private_key                                                *)
Generate(p) ==
  /\ ~Generating(p)
  /\ pairs < MaxPairs
  /\ pairs' = pairs + 1
  /\ gen' = [gen EXCEPT ![p] = [step |-> 1, pair |-> pairs + 1]]
  /\ UNCHANGED <<priv, pub>>


(* open, write, open, write                                                *)
LastStep == 4

(* open(..., "wb") empties a file, close writes it.                        *)
WriteKey(p) ==
  LET at == gen[p].step
  IN  /\ at # 0
      /\ priv' = IF at = 1 THEN Empty ELSE IF at = 2 THEN gen[p].pair ELSE priv
      /\ pub' = IF at = 3 THEN Empty ELSE IF at = 4 THEN gen[p].pair ELSE pub
      /\ gen' = [gen EXCEPT ![p] =
                  IF at = LastStep THEN NoGeneration ELSE [step |-> at + 1, pair |-> gen[p].pair]]
      /\ UNCHANGED pairs

OperatorGenerates ==
  /\ Generate("operator")
  /\ disturbed' = (disturbed \/ server \in Starting)
  /\ UNCHANGED <<process, session, connection>>

OperatorWrites ==
  /\ WriteKey("operator")
  /\ UNCHANGED <<disturbed, process, session, connection>>

OperatorStops ==
  /\ Generating("operator")
  /\ gen' = [gen EXCEPT !["operator"] = NoGeneration]
  /\ disturbed' = TRUE
  /\ UNCHANGED <<priv, pub, pairs, process, session, connection>>

---------------------------------------------------------------------------
(* main.                                                                   *)

(* Fault: one file is enough.                                              *)
BothMissing == priv = Absent /\ pub = Absent

MissingKeys == priv = Absent \/ pub = Absent

Start ==
  /\ server = "off"
  /\ IF MissingKeys
       THEN server' = "generate" /\ Generate("server")
       ELSE server' = "load" /\ UNCHANGED <<priv, pub, pairs, gen>>
  /\ disturbed' = (disturbed \/ Generating("operator"))
  /\ UNCHANGED <<own, public, session, connection>>

ServerWrites ==
  /\ server = "generate"
  /\ WriteKey("server")
  /\ server' = IF gen["server"].step = LastStep THEN "load" ELSE server
  /\ UNCHANGED <<disturbed, own, public, session, connection>>

(* load_pem_private_key fails if there is nothing in the file.             *)
LoadPrivate ==
  /\ server = "load"
  /\ own' = priv
  /\ server' = IF priv \in Pairs THEN "listen" ELSE "failed"
  /\ UNCHANGED <<files, public, session, connection>>

(* After listen; an empty file is read like any other.                     *)
ReadPublic ==
  /\ server = "listen"
  /\ public' = pub
  /\ server' = IF pub = Absent THEN "failed" ELSE "serve"
  /\ UNCHANGED <<files, own, session, connection>>

(* How a handler ends: its loop or a check, or the process.                *)
Closed == {"eof", "decrypt", "badname", "frame"}
Over == handler \in Closed \cup {"lost"}

(* The process ends, and every connection with it.                         *)
ServerEnds ==
  /\ server' = "off"
  /\ own' = Absent /\ public' = Absent
  /\ handler' = IF client = "off" THEN handler ELSE "lost"
  /\ gen' = [gen EXCEPT !["server"] = NoGeneration]
  /\ UNCHANGED <<priv, pub, pairs, read, registered, handled, connection>>

(* It is killed, or cannot bind, listen or accept: nothing catches that.   *)
Crash ==
  /\ server # "off"
  /\ ServerEnds
  /\ disturbed' = (disturbed \/ Generating("server"))

(* accept, and the public key is sent: to a client that has gone, too, if  *)
(* nothing has told the server so yet ...                                  *)
Accept ==
  /\ server = "serve"
  /\ client \in {"connecting", "gone"} /\ handler = "none"
  /\ handler' = "key"
  /\ UNCHANGED <<files, process, read, registered, handled, connection>>

(* ... or else sendall raises, and nothing catches it.                     *)
AcceptFails ==
  /\ server = "serve"
  /\ client = "gone" /\ handler = "none"
  /\ ServerEnds
  /\ UNCHANGED disturbed

---------------------------------------------------------------------------
(* connect.                                                                *)

(* The listening socket takes connections before main accepts them.        *)
Connect ==
  /\ client = "off"
  /\ server \in {"listen", "serve"}
  /\ client' = "connecting"
  /\ UNCHANGED <<files, process, session, used, sent>>

(* recv(4096) returns the key, or a part of it, which is no key.           *)
ReceiveKey ==
  /\ client = "connecting" /\ handler = "key"
  /\ \/ public \in Pairs /\ used' = public /\ client' = "sending"
     \/ client' = "gone" /\ UNCHANGED used
  /\ UNCHANGED <<files, process, session, sent>>

Leave ==
  /\ client \in {"connecting", "sending"}
  /\ client' = "gone"
  /\ UNCHANGED <<files, process, session, used, sent>>

HeaderAt(n) == KeyLength + NameLength + 2 * n + 1
Length == KeyLength + NameLength + 2 * MaxRequests

(* The next part of the key, the name, or a frame arrives.                 *)
Send ==
  /\ client = "sending"
  /\ sent < Length
  /\ sent' = sent + 1
  /\ UNCHANGED <<files, process, session, client, used>>

---------------------------------------------------------------------------
(* handle_client.                                                          *)

Handler(next) ==
  /\ handler' = next
  /\ UNCHANGED <<files, process, connection>>

DecryptKey == IF own = used THEN "login" ELSE "decrypt"

(* Fault: one recv is enough.                                              *)
ReceiveKeyOnce(n) ==
  /\ handler = "key"
  /\ read < n /\ n <= KeyLength /\ n <= sent
  /\ read' = n
  /\ Handler(IF n = KeyLength THEN DecryptKey ELSE "decrypt")
  /\ UNCHANGED <<registered, handled>>

(* recv_exact_socket: up to n, as often as it takes; then the key is       *)
(* decrypted.                                                              *)
ReceiveAESKey(n) ==
  /\ handler = "key"
  /\ read < n /\ n <= KeyLength /\ n <= sent
  /\ read' = n
  /\ Handler(IF n = KeyLength THEN DecryptKey ELSE handler)
  /\ UNCHANGED <<registered, handled>>

(* Fault: any name will do.                                                *)
AnyName(n) == TRUE

(* is_safe_username: a frame begins with a zero byte.                      *)
SafeName(n) == n <= KeyLength + NameLength

(* recv(1024): whatever has arrived, up to n.                              *)
ReceiveName(n) ==
  /\ handler = "login"
  /\ read < n /\ n <= sent
  /\ read' = n
  /\ IF SafeName(n)
       THEN registered' = n - KeyLength /\ Handler("serve")
       ELSE UNCHANGED registered /\ Handler("badname")
  /\ UNCHANGED handled

(* Fault: what is too long is skipped.                                     *)
SkipsLongFrames == handler

(* read_frame: letters make a length far above MAX_FRAME_SIZE.             *)
LongFrame == "frame"

ReadFrame ==
  /\ handler = "serve"
  /\ read < sent
  /\ IF read + 1 > KeyLength + NameLength
       THEN /\ read + 2 <= sent
            /\ read' = read + 2
            /\ handled' = handled + 1
            /\ Handler(handler)
       ELSE /\ read' = read + 1
            /\ UNCHANGED handled
            /\ Handler(LongFrame)
  /\ UNCHANGED registered

(* The end of the stream, or a reset that loses what was not read yet.     *)
EndOfStream ==
  /\ client = "gone"
  /\ handler \in {"key", "login", "serve"}
  /\ Handler("eof")
  /\ UNCHANGED <<read, registered, handled>>

---------------------------------------------------------------------------

Handle ==
  \/ \E n \in 1..KeyLength : ReceiveAESKey(n)
  \/ \E n \in 1..Length : ReceiveName(n)
  \/ ReadFrame
  \/ EndOfStream

Next ==
  \/ OperatorGenerates \/ OperatorWrites \/ OperatorStops
  \/ Start \/ ServerWrites \/ LoadPrivate \/ ReadPublic \/ Crash
  \/ Accept \/ AcceptFails
  \/ Connect \/ ReceiveKey \/ Leave \/ Send
  \/ Handle

Spec == Init /\ [][Next]_vars

(* Handlers run, and what a client has sent arrives.                       *)
FairSpec == Spec /\ WF_vars(Handle) /\ WF_vars(Send)

---------------------------------------------------------------------------
(* Properties.                                                             *)

(* Everything has its type.                                                *)
TypeOK ==
  /\ priv \in Contents /\ pub \in Contents
  /\ own \in Contents /\ public \in Contents /\ used \in Contents
  /\ pairs \in Pairs
  /\ gen \in [Generators -> [step : 0..4, pair : 0..MaxPairs]]
  /\ server \in Starting \cup {"off", "serve", "failed"}
  /\ client \in {"off", "connecting", "sending", "gone"}
  /\ handler \in Closed \cup {"none", "key", "login", "serve", "lost"}
  /\ read \in 0..sent /\ sent \in 0..Length
  /\ registered \in 0..NameLength /\ handled \in 0..MaxRequests
  /\ disturbed \in BOOLEAN

(* Whatever key files it finds, one of them, both or none (main), the      *)
(* server starts, and with the halves of one pair, unless the generation   *)
(* of a pair was once stopped half-way, or overlapped a start or another.  *)
StartsWithPair ==
  ~disturbed => /\ server # "failed"
                /\ server = "serve" => own \in Pairs /\ public = own

(* A client whose key came from the running server is not refused for it,  *)
(* in however many pieces it arrives (recv_exact_socket), and its name is  *)
(* not refused unless its first frame was read with it (recv(1024)).       *)
RefusedForCause ==
  /\ handler = "decrypt" => own # used
  /\ handler = "badname" => read >= HeaderAt(0)

(* The server is a session as Session says: a name that arrived in pieces  *)
(* registers a prefix, and then no request is handled, since the rest of   *)
(* it is read as the length of a frame (handle_client, read_frame).        *)
Sessions == INSTANCE Session WITH
  registered <- registered,
  requests <- IF sent < KeyLength + NameLength THEN 0
              ELSE (sent - KeyLength - NameLength) \div 2,
  handled <- handled,
  over <- Over
ImplementsSession == Sessions!SessionSpec

(* A client that has the right key is logged in sooner or later, unless it *)
(* leaves, the process ends, or its name and first frame are read at once. *)
LogsIn ==
  (client = "sending" /\ handler = "key" /\ own = used)
    ~> (registered # 0 \/ client = "gone" \/ handler \in {"badname", "lost"})

=============================================================================
