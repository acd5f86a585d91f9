-------------------------- MODULE HandshakeProofs --------------------------
(***************************************************************************)
(* Theorems about Handshake, for keys, names and frames in any number of   *)
(* parts, and any number of pairs and requests.                            *)
(***************************************************************************)
EXTENDS Handshake, TLAPS

USE PartsAreNumbers, BoundsAreNumbers, FilesDiffer

(* How far the handler has read, by its location: never past the key, then *)
(* over a prefix of the name, then over whole frames, but only if all of   *)
(* the name was read before.                                               *)
Stream ==
  /\ client = "off" => handler = "none"
  /\ server # "serve" => handler \in {"none", "lost"}
  /\ handler \in {"none", "key", "login"} => registered = 0 /\ handled = 0
  /\ handler \in {"none", "key"} => read <= KeyLength
  /\ handler = "login" => read = KeyLength
  /\ handler = "serve" => /\ registered \in 1..NameLength
                          /\ read = KeyLength + registered + 2 * handled
                          /\ handled # 0 => registered = NameLength

(* Who may generate, and what the files hold in between, as long as nothing *)
(* was disturbed.                                                          *)
Alone(p) == \A q \in Generators : Generating(q) => q = p
PairOrMissing == MissingKeys \/ (priv = pub /\ priv \in Pairs)

Files ==
  /\ Generating("server") <=> server = "generate"
  /\ \A p \in Generators : gen[p].step > 0 => gen[p].pair \in Pairs
  /\ ~disturbed =>
       /\ server \in Starting => ~Generating("operator")
       /\ \A p \in Generators :
            Generating(p) => Alone(p) /\ (gen[p].step >= 3 => priv = gen[p].pair)
       /\ (\A p \in Generators : ~Generating(p)) => PairOrMissing
       /\ server \in {"load", "listen"} => ~MissingKeys
       /\ server = "listen" => own = priv
       /\ server = "serve" => own \in Pairs /\ public = own
       /\ server # "failed"

IInv == TypeOK /\ Stream /\ Files /\ RefusedForCause

USE DEF Pairs, Contents, Generators, Starting, Closed

LEMMA InitInv == Init => IInv
  <1> SUFFICES ASSUME Init PROVE IInv
    OBVIOUS
  <1> USE DEF Init
  <1>1. gen \in [Generators -> [step : 0..4, pair : 0..MaxPairs]]
    BY DEF NoGeneration
  <1>2. 0 \in 0..Length /\ 1 \in Pairs
    BY DEF Length
  <1>3. TypeOK
    <2>1. disturbed \in BOOLEAN
      OBVIOUS
    <2>2. handler \in Closed \cup {"none", "key", "login", "serve", "lost"}
      OBVIOUS
    <2>3. server \in Starting \cup {"off", "serve", "failed"}
      OBVIOUS
    <2>4. priv \in Contents /\ pub \in Contents
      BY <1>2
    <2>5. own \in Contents /\ public \in Contents /\ used \in Contents
      BY <1>2
    <2>6. read \in 0..sent /\ sent \in 0..Length
      BY <1>2
    <2>7. registered \in 0..NameLength /\ handled \in 0..MaxRequests
      BY <1>2
    <2> QED
      BY <1>1, <1>2, <2>1, <2>2, <2>3, <2>4, <2>5, <2>6, <2>7 DEF TypeOK
  <1>4. \A p \in Generators : ~Generating(p) /\ gen[p].step = 0
    BY DEF Generating, NoGeneration
  <1>5. PairOrMissing
    BY DEF PairOrMissing, MissingKeys
  <1>6. Files
    BY <1>4, <1>5 DEF Files
  <1> QED
    BY <1>3, <1>6 DEF IInv, Stream, RefusedForCause

---------------------------------------------------------------------------
(* Types.                                                                  *)

(* A generation keeps the types of the files.                              *)
LEMMA GenerationType ==
  ASSUME TypeOK, Files, NEW p \in Generators, Generate(p) \/ WriteKey(p)
  PROVE  /\ priv' \in Contents /\ pub' \in Contents
         /\ pairs' \in Pairs
         /\ gen' \in [Generators -> [step : 0..4, pair : 0..MaxPairs]]
  <1>1. CASE Generate(p)
    BY <1>1 DEF TypeOK, Generate
  <1>2. CASE WriteKey(p)
    <2>1. gen[p].step \in 1..4 /\ gen[p].pair \in Pairs
      BY <1>2 DEF TypeOK, Files, WriteKey
    <2>2. gen' \in [Generators -> [step : 0..4, pair : 0..MaxPairs]]
      BY <1>2, <2>1 DEF TypeOK, WriteKey, NoGeneration, LastStep
    <2> QED
      BY <1>2, <2>1, <2>2 DEF TypeOK, WriteKey
  <1> QED
    BY <1>1, <1>2

LEMMA ServerEndsType ==
  ASSUME TypeOK, Stream, ServerEnds, disturbed' \in BOOLEAN
  PROVE  TypeOK'
  <1>1. gen' \in [Generators -> [step : 0..4, pair : 0..MaxPairs]]
    BY DEF TypeOK, ServerEnds, NoGeneration
  <1>2. handler' \in Closed \cup {"none", "key", "login", "serve", "lost"}
    BY DEF TypeOK, ServerEnds
  <1>3. own' \in Contents /\ public' \in Contents /\ server' = "off"
    BY DEF ServerEnds
  <1>4. UNCHANGED <<priv, pub, pairs, read, registered, handled, connection>>
    BY DEF ServerEnds
  <1> QED
    BY <1>1, <1>2, <1>3, <1>4 DEF TypeOK, connection, Length

LEMMA TypeStep == TypeOK /\ Stream /\ Files /\ [Next]_vars => TypeOK'
  <1> SUFFICES ASSUME TypeOK, Stream, Files, [Next]_vars PROVE TypeOK'
    OBVIOUS
  <1> USE DEF process, session, connection, files
  <1>1. CASE OperatorGenerates \/ OperatorWrites
    <2>1. disturbed' \in BOOLEAN
      BY <1>1 DEF OperatorGenerates, OperatorWrites, TypeOK
    <2>2. Generate("operator") \/ WriteKey("operator")
      BY <1>1 DEF OperatorGenerates, OperatorWrites
    <2>3. UNCHANGED <<process, session, connection>>
      BY <1>1 DEF OperatorGenerates, OperatorWrites
    <2> QED
      BY <2>1, <2>2, <2>3, GenerationType DEF TypeOK, Length
  <1>2. CASE OperatorStops
    BY <1>2 DEF OperatorStops, TypeOK, NoGeneration, Length
  <1>3. CASE Start
    BY <1>3, GenerationType DEF Start, TypeOK, Length
  <1>4. CASE ServerWrites
    BY <1>4, GenerationType DEF ServerWrites, TypeOK, Length
  <1>5. CASE LoadPrivate \/ ReadPublic
    BY <1>5 DEF LoadPrivate, ReadPublic, TypeOK, Length
  <1>6. CASE Crash \/ AcceptFails
    BY <1>6, ServerEndsType DEF Crash, AcceptFails, TypeOK
  <1>7. CASE Accept \/ Connect \/ ReceiveKey \/ Leave \/ Send
    BY <1>7 DEF Accept, Connect, ReceiveKey, Leave, Send, TypeOK, Length
  <1>8. CASE Handle
    <2>1. CASE \E n \in 1..KeyLength : ReceiveAESKey(n)
      BY <2>1 DEF ReceiveAESKey, Handler, DecryptKey, TypeOK, Length
    <2>2. CASE \E n \in 1..Length : ReceiveName(n)
      BY <2>2 DEF ReceiveName, Handler, SafeName, TypeOK, Stream, Length
    <2>3. CASE ReadFrame
      BY <2>3 DEF ReadFrame, Handler, LongFrame, TypeOK, Stream, Length
    <2>4. CASE EndOfStream
      BY <2>4 DEF EndOfStream, Handler, TypeOK, Length
    <2> QED
      BY <1>8, <2>1, <2>2, <2>3, <2>4 DEF Handle
  <1>9. CASE UNCHANGED vars
    BY <1>9 DEF vars, TypeOK, Length
  <1> QED
    BY <1>1, <1>2, <1>3, <1>4, <1>5, <1>6, <1>7, <1>8, <1>9 DEF Next

---------------------------------------------------------------------------
(* The handler's reads.                                                    *)

LEMMA StreamStep ==
  TypeOK /\ Stream /\ RefusedForCause /\ [Next]_vars => Stream' /\ RefusedForCause'
  <1> SUFFICES ASSUME TypeOK, Stream, RefusedForCause, [Next]_vars
               PROVE  Stream' /\ RefusedForCause'
    OBVIOUS
  <1> USE DEF process, session, connection, files, Stream, RefusedForCause, HeaderAt
  <1>1. CASE OperatorGenerates \/ OperatorWrites \/ OperatorStops
    BY <1>1 DEF OperatorGenerates, OperatorWrites, OperatorStops
  <1>2. CASE Start \/ ServerWrites \/ LoadPrivate \/ ReadPublic
    BY <1>2 DEF Start, ServerWrites, LoadPrivate, ReadPublic
  <1>3. CASE Crash \/ AcceptFails
    BY <1>3 DEF Crash, AcceptFails, ServerEnds, TypeOK
  <1>4. CASE Accept \/ Connect \/ ReceiveKey \/ Leave \/ Send
    BY <1>4 DEF Accept, Connect, ReceiveKey, Leave, Send, TypeOK
  <1>5. CASE Handle
    <2>1. CASE \E n \in 1..KeyLength : ReceiveAESKey(n)
      BY <2>1 DEF ReceiveAESKey, Handler, DecryptKey, TypeOK, Length
    <2>2. CASE \E n \in 1..Length : ReceiveName(n)
      BY <2>2 DEF ReceiveName, Handler, SafeName, TypeOK, Length
    <2>3. CASE ReadFrame
      BY <2>3 DEF ReadFrame, Handler, LongFrame, TypeOK, Length
    <2>4. CASE EndOfStream
      BY <2>4 DEF EndOfStream, Handler, TypeOK
    <2> QED
      BY <1>5, <2>1, <2>2, <2>3, <2>4 DEF Handle
  <1>6. CASE UNCHANGED vars
    BY <1>6 DEF vars
  <1> QED
    BY <1>1, <1>2, <1>3, <1>4, <1>5, <1>6 DEF Next

---------------------------------------------------------------------------
(* The key files.                                                          *)

LEMMA FilesStep == TypeOK /\ Files /\ [Next]_vars => Files'
  <1> SUFFICES ASSUME TypeOK, Files, [Next]_vars PROVE Files'
    OBVIOUS
  <1> USE DEF process, session, connection, files, Files, Generating, Alone, PairOrMissing,
              MissingKeys, NoGeneration, TypeOK
  <1>1. CASE OperatorGenerates
    <2>1. /\ gen'["operator"] = [step |-> 1, pair |-> pairs + 1]
          /\ gen'["server"] = gen["server"]
          /\ pairs + 1 \in Pairs
      BY <1>1 DEF OperatorGenerates, Generate
    <2>2. ~disturbed' => ~disturbed /\ server \notin Starting
      BY <1>1 DEF OperatorGenerates
    <2> QED
      BY <1>1, <2>1, <2>2 DEF OperatorGenerates, Generate
  <1>2. CASE OperatorWrites
    BY <1>2 DEF OperatorWrites, WriteKey, LastStep
  <1>3. CASE OperatorStops
    BY <1>3 DEF OperatorStops
  <1>4. CASE Start
    <2>1. CASE MissingKeys
      <3>1. /\ gen'["server"] = [step |-> 1, pair |-> pairs + 1]
            /\ gen'["operator"] = gen["operator"]
            /\ pairs + 1 \in Pairs
        BY <1>4, <2>1 DEF Start, Generate
      <3>2. server' = "generate" /\ UNCHANGED <<priv, pub, own, public>>
        BY <1>4, <2>1 DEF Start, Generate
      <3>3. ~disturbed' => ~disturbed /\ gen["operator"].step = 0
        BY <1>4 DEF Start
      <3> QED
        BY <3>1, <3>2, <3>3
    <2>2. CASE ~MissingKeys
      BY <1>4, <2>2 DEF Start
    <2> QED
      BY <2>1, <2>2
  <1>5. CASE ServerWrites
    BY <1>5 DEF ServerWrites, WriteKey, LastStep
  <1>6. CASE LoadPrivate \/ ReadPublic
    BY <1>6 DEF LoadPrivate, ReadPublic
  <1>7. CASE Crash \/ AcceptFails
    <2>1. /\ gen'["server"].step = 0
          /\ gen'["operator"] = gen["operator"]
          /\ server' = "off"
          /\ UNCHANGED <<priv, pub>>
      BY <1>7 DEF Crash, AcceptFails, ServerEnds
    <2>2. ~disturbed' => ~disturbed /\ gen["server"].step = 0
      BY <1>7 DEF Crash, AcceptFails
    <2> QED
      BY <2>1, <2>2
  <1>8. CASE Accept \/ Connect \/ ReceiveKey \/ Leave \/ Send
    BY <1>8 DEF Accept, Connect, ReceiveKey, Leave, Send
  <1>9. CASE Handle
    BY <1>9 DEF Handle, ReceiveAESKey, ReceiveName, ReadFrame, EndOfStream, Handler
  <1>10. CASE UNCHANGED vars
    BY <1>10 DEF vars
  <1> QED
    BY <1>1, <1>2, <1>3, <1>4, <1>5, <1>6, <1>7, <1>8, <1>9, <1>10 DEF Next

---------------------------------------------------------------------------

LEMMA Inductive == Spec => []IInv
  <1>1. IInv /\ [Next]_vars => IInv'
    BY TypeStep, StreamStep, FilesStep DEF IInv
  <1> QED
    BY InitInv, <1>1, PTL DEF Spec

(* Everything keeps its type (main, connect, handle_client).               *)
THEOREM TypeCorrect == Spec => []TypeOK
  BY Inductive, PTL DEF IInv

(* A start or a generation that nothing disturbs leaves the server with    *)
(* the halves of one pair (main, generate_keys).                           *)
THEOREM PairServed == Spec => []StartsWithPair
  <1>1. IInv => StartsWithPair
    BY DEF IInv, Files, StartsWithPair
  <1> QED
    BY Inductive, <1>1, PTL

(* Nobody is refused for a key that is right (recv_exact_socket).          *)
THEOREM RefusalsJustified == Spec => []RefusedForCause
  BY Inductive, PTL DEF IInv

---------------------------------------------------------------------------
(* The refinement.                                                         *)

Requests(n) == IF n < KeyLength + NameLength THEN 0 ELSE (n - KeyLength - NameLength) \div 2

(* The next part completes a request, or it does not.                      *)
LEMMA OneRequestAtATime ==
  ASSUME NEW n \in Nat
  PROVE  /\ Requests(n + 1) = Requests(n) \/ Requests(n + 1) = Requests(n) + 1
         /\ \A h \in Nat : KeyLength + NameLength + 2 * h + 2 <= n => h < Requests(n)
  BY DEF Requests

(* What a connection's handler does to the session.                        *)
LEMMA StepRefines ==
  ASSUME IInv, IInv', [Next]_vars
  PROVE  [Sessions!SessionNext]_(Sessions!sessionVars)
  <1> USE DEF process, session, connection, files, Over, Sessions!sessionVars, Sessions!SessionNext
  <1> USE DEF IInv
  <1>1. CASE OperatorGenerates \/ OperatorWrites \/ OperatorStops
    BY <1>1 DEF OperatorGenerates, OperatorWrites, OperatorStops
  <1>2. CASE Start \/ ServerWrites \/ LoadPrivate \/ ReadPublic
    BY <1>2 DEF Start, ServerWrites, LoadPrivate, ReadPublic
  <1>3. CASE Crash \/ AcceptFails
    <2>1. ServerEnds
      BY <1>3 DEF Crash, AcceptFails
    <2>2. CASE client = "off"
      BY <2>1, <2>2 DEF ServerEnds
    <2>3. CASE client # "off"
      BY <2>1, <2>3 DEF ServerEnds, Sessions!End
    <2> QED
      BY <2>2, <2>3
  <1>4. CASE Accept \/ Connect \/ ReceiveKey \/ Leave
    BY <1>4 DEF Accept, Connect, ReceiveKey, Leave
  <1>5. CASE Send
    <2>1. sent \in Nat /\ sent' = sent + 1 /\ UNCHANGED <<registered, handled, handler>>
      BY <1>5 DEF Send, TypeOK, Length
    <2>2. Requests(sent') = Requests(sent) \/ Requests(sent') = Requests(sent) + 1
      BY <2>1, OneRequestAtATime
    <2> QED
      BY <2>1, <2>2 DEF Sessions!Request, Requests
  <1>6. CASE Handle
    <2>1. CASE \E n \in 1..KeyLength : ReceiveAESKey(n)
      BY <2>1 DEF ReceiveAESKey, Handler, DecryptKey, Sessions!End
    <2>2. CASE \E n \in 1..Length : ReceiveName(n)
      <3>1. PICK n \in 1..Length : ReceiveName(n)
        BY <2>2
      <3>2. CASE SafeName(n)
        <4>1. n - KeyLength \in 1..NameLength
          BY <3>1, <3>2 DEF ReceiveName, SafeName, Stream, TypeOK, Length
        <4> QED
          BY <3>1, <3>2, <4>1 DEF ReceiveName, Handler, Stream, Sessions!Register
      <3>3. CASE ~SafeName(n)
        BY <3>1, <3>3 DEF ReceiveName, Handler, Sessions!End
      <3> QED
        BY <3>2, <3>3
    <2>3. CASE ReadFrame
      <3>1. CASE read + 1 > KeyLength + NameLength
        <4>1. /\ registered = NameLength
              /\ read = KeyLength + NameLength + 2 * handled
              /\ handled \in Nat /\ sent \in Nat
          BY <2>3, <3>1 DEF ReadFrame, Stream, TypeOK, Length
        <4>2. handled < Requests(sent)
          BY <2>3, <3>1, <4>1, OneRequestAtATime DEF ReadFrame
        <4> QED
          BY <2>3, <3>1, <4>1, <4>2 DEF ReadFrame, Handler, Sessions!Handle, Requests
      <3>2. CASE ~(read + 1 > KeyLength + NameLength)
        BY <2>3, <3>2 DEF ReadFrame, Handler, LongFrame, Sessions!End
      <3> QED
        BY <3>1, <3>2
    <2>4. CASE EndOfStream
      BY <2>4 DEF EndOfStream, Handler, Sessions!End
    <2> QED
      BY <1>6, <2>1, <2>2, <2>3, <2>4 DEF Handle
  <1>7. CASE UNCHANGED vars
    BY <1>7 DEF vars
  <1> QED
    BY <1>1, <1>2, <1>3, <1>4, <1>5, <1>6, <1>7 DEF Next

(* The handshake implements Session: no request is handled unless the user *)
(* is registered under the whole name (handle_client, read_frame).         *)
THEOREM Refinement == Spec => ImplementsSession
  <1>1. Init => Sessions!SessionInit
    BY DEF Init, Sessions!SessionInit, Over
  <1> QED
    BY <1>1, Inductive, StepRefines, PTL DEF Spec, ImplementsSession, Sessions!SessionSpec
=============================================================================
