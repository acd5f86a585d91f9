-------------------------- MODULE BackpressureProofs --------------------------
(***************************************************************************)
(* Theorems about Backpressure, for frames and buffers of any sizes, any   *)
(* clients and any number of files.                                        *)
(***************************************************************************)
EXTENDS Backpressure, FiniteSetTheorems, SequenceTheorems, TLAPS

LEMMA MinOfTwo ==
  ASSUME NEW m \in Nat, NEW n \in Nat
  PROVE  Min({m, n}) \in Nat /\ Min({m, n}) <= m /\ Min({m, n}) <= n
  <1>1. \E x \in {m, n} : \A y \in {m, n} : x <= y
    OBVIOUS
  <1>2. Min({m, n}) \in {m, n} /\ \A y \in {m, n} : Min({m, n}) <= y
    BY <1>1 DEF Min
  <1> QED
    BY <1>2

(***************************************************************************)
(* How many parts of c's files a sequence holds.                           *)
(***************************************************************************)
Places(c, s) == {i \in DOMAIN s : s[i] = c}

LEMMA CountIsFinite ==
  ASSUME NEW S, NEW s \in Seq(S), NEW c
  PROVE  /\ IsFiniteSet(Places(c, s)) /\ PartsOf(c, s) = Cardinality(Places(c, s))
         /\ PartsOf(c, s) \in Nat
  <1>1. PartsOf(c, s) = Cardinality(Places(c, s))
    BY DEF PartsOf, Places
  <1>2. Len(s) \in Nat /\ DOMAIN s = 1..Len(s)
    OBVIOUS
  <1>3. IsFiniteSet(1..Len(s))
    BY <1>2, FS_Interval
  <1>4. Places(c, s) \in SUBSET (1..Len(s))
    BY <1>2 DEF Places
  <1>5. IsFiniteSet(Places(c, s))
    BY <1>3, <1>4, FS_Subset
  <1> QED
    BY <1>1, <1>5, FS_CardinalityType

LEMMA CountOfNothing ==
  ASSUME NEW c
  PROVE  PartsOf(c, <<>>) = 0
  <1>1. {i \in DOMAIN <<>> : <<>>[i] = c} = {}
    OBVIOUS
  <1> QED
    BY <1>1, FS_EmptySet DEF PartsOf

LEMMA CountAppend ==
  ASSUME NEW S, NEW s \in Seq(S), NEW x \in S, NEW c
  PROVE  PartsOf(c, Append(s, x)) = PartsOf(c, s) + (IF x = c THEN 1 ELSE 0)
  <1> DEFINE t == Append(s, x)
  <1>1. /\ t \in Seq(S) /\ Len(s) \in Nat /\ Len(t) = Len(s) + 1
        /\ DOMAIN s = 1..Len(s) /\ DOMAIN t = 1..(Len(s) + 1)
        /\ t[Len(s) + 1] = x /\ \A i \in 1..Len(s) : t[i] = s[i]
    BY AppendProperties
  <1> HIDE DEF t
  <1>2. Len(s) + 1 \notin Places(c, s)
    BY <1>1 DEF Places
  <1>3. CASE x = c
    <2>1. Places(c, t) = Places(c, s) \cup {Len(s) + 1}
      BY <1>1, <1>3 DEF Places
    <2>2. Cardinality(Places(c, t)) = Cardinality(Places(c, s)) + 1
      BY <1>2, <2>1, CountIsFinite, FS_AddElement
    <2> QED
      BY <1>1, <1>3, <2>2, CountIsFinite DEF t
  <1>4. CASE x # c
    <2>1. Places(c, t) = Places(c, s)
      BY <1>1, <1>4 DEF Places
    <2>2. PartsOf(c, t) = PartsOf(c, s) /\ PartsOf(c, s) \in Nat
      BY <1>1, <2>1, CountIsFinite
    <2> QED
      BY <1>4, <2>2 DEF t
  <1> QED
    BY <1>3, <1>4

LEMMA CountConcat ==
  ASSUME NEW S, NEW s \in Seq(S), NEW b \in S, NEW r \in Seq({b}), NEW c
  PROVE  PartsOf(c, s \o r) = PartsOf(c, s) + (IF b = c THEN Len(r) ELSE 0)
  <1> DEFINE t == s \o r
             n == Len(r)
             later == (Len(s) + 1)..(Len(s) + n)
  <1>1. r \in Seq(S) /\ n \in Nat /\ Len(s) \in Nat /\ \A i \in 1..n : r[i] = b
    OBVIOUS
  <1>2. t \in Seq(S) /\ Len(t) = Len(s) + n
    BY <1>1, ConcatProperties
  <1>3. /\ DOMAIN t = 1..(Len(s) + n) /\ DOMAIN s = 1..Len(s)
        /\ \A i \in 1..Len(s) : t[i] = s[i]
    BY <1>1, <1>2, ConcatProperties
  <1>4. \A i \in later : t[i] = b
    BY <1>1, <1>2, ConcatProperties
  <1> HIDE DEF n, t
  <1>5. CASE b = c
    <2>1. Places(c, t) = Places(c, s) \cup later
      BY <1>1, <1>3, <1>4, <1>5 DEF Places
    <2>2. Places(c, s) \cap later = {}
      BY <1>1, <1>3 DEF Places
    <2>3. IsFiniteSet(later) /\ Cardinality(later) = n
      <3> DEFINE first == Len(s) + 1
                 last == Len(s) + n
      <3>1. first \in Int /\ last \in Int /\ last - first + 1 = n /\ (first > last => n = 0)
        BY <1>1
      <3> HIDE DEF first, last
      <3>2. IsFiniteSet(first..last) /\ Cardinality(first..last) = n
        BY <3>1, FS_Interval
      <3> QED
        BY <3>2 DEF first, last
    <2>4. Cardinality(Places(c, t)) = Cardinality(Places(c, s)) + n
      <3> HIDE DEF later
      <3>1. Cardinality(Places(c, t))
              = Cardinality(Places(c, s)) + n - Cardinality({})
        <4>1. IsFiniteSet(Places(c, s))
          BY CountIsFinite
        <4>2. Cardinality(Places(c, s) \cup later)
                = Cardinality(Places(c, s)) + Cardinality(later)
                    - Cardinality(Places(c, s) \cap later)
          BY <2>3, <4>1, FS_Union
        <4> QED
          BY <2>1, <2>2, <2>3, <4>2
      <3>2. Cardinality(Places(c, s)) \in Nat
        BY CountIsFinite, FS_CardinalityType
      <3> QED
        BY <1>1, <3>1, <3>2, FS_EmptySet
    <2> QED
      BY <1>2, <1>5, <2>4, CountIsFinite DEF n, t
  <1>6. CASE b # c
    <2>1. Places(c, t) = Places(c, s)
      BY <1>1, <1>3, <1>4, <1>6 DEF Places
    <2>2. PartsOf(c, t) = PartsOf(c, s) /\ PartsOf(c, s) \in Nat
      BY <1>2, <2>1, CountIsFinite
    <2> QED
      BY <1>6, <2>2 DEF t
  <1> QED
    BY <1>5, <1>6

LEMMA CountTail ==
  ASSUME NEW S, NEW s \in Seq(S), s # <<>>, NEW c
  PROVE  PartsOf(c, s) = PartsOf(c, Tail(s)) + (IF Head(s) = c THEN 1 ELSE 0)
  <1> DEFINE t == Tail(s)
             rest == Places(c, s) \ {1}
             F == [i \in Places(c, t) |-> i + 1]
  <1>1. /\ t \in Seq(S) /\ Len(s) \in Nat /\ Len(s) >= 1 /\ Len(t) = Len(s) - 1
        /\ DOMAIN s = 1..Len(s) /\ DOMAIN t = 1..(Len(s) - 1)
        /\ Head(s) = s[1] /\ \A i \in 1..(Len(s) - 1) : t[i] = s[i + 1]
    OBVIOUS
  <1> HIDE DEF t
  <1>2. F \in Bijection(Places(c, t), rest)
    <2>1. F \in [Places(c, t) -> rest]
      BY <1>1 DEF Places
    <2>2. \A i, j \in Places(c, t) : F[i] = F[j] => i = j
      BY <1>1 DEF Places
    <2>3. \A j \in rest : \E i \in Places(c, t) : F[i] = j
      <3> SUFFICES ASSUME NEW j \in rest PROVE j - 1 \in Places(c, t) /\ F[j - 1] = j
        OBVIOUS
      <3>1. j \in 2..Len(s) /\ s[j] = c
        BY <1>1 DEF Places
      <3>2. j - 1 \in 1..(Len(s) - 1) /\ t[j - 1] = s[j]
        BY <1>1, <3>1
      <3>3. j - 1 \in Places(c, t)
        BY <1>1, <3>1, <3>2 DEF Places
      <3> QED
        BY <3>1, <3>3
    <2> HIDE DEF F, rest
    <2> QED
      BY <2>1, <2>2, <2>3 DEF Bijection, Injection, IsInjective, Surjection
  <1>3. Cardinality(rest) = PartsOf(c, t) /\ PartsOf(c, t) \in Nat
    <2>1. ExistsBijection(Places(c, t), rest)
      BY <1>2 DEF ExistsBijection
    <2> QED
      BY <1>1, <2>1, CountIsFinite, FS_Bijection
  <1>4. Cardinality(rest) = IF Head(s) = c THEN PartsOf(c, s) - 1 ELSE PartsOf(c, s)
    <2>1. 1 \in Places(c, s) <=> Head(s) = c
      BY <1>1 DEF Places
    <2> QED
      BY <2>1, CountIsFinite, FS_RemoveElement
  <1>5. PartsOf(c, s) \in Nat
    BY CountIsFinite
  <1> QED
    BY <1>3, <1>4, <1>5 DEF t

LEMMA CountWhole ==
  ASSUME NEW S, NEW s \in Seq(S), s # <<>>, Whole(s), NEW c
  PROVE  PartsOf(c, s) = IF Head(s) = c THEN Len(s) ELSE 0
  <1>1. /\ Len(s) \in Nat /\ DOMAIN s = 1..Len(s)
        /\ \A i \in 1..Len(s) : s[i] = Head(s)
    BY DEF Whole, ToSet
  <1>2. CASE Head(s) = c
    <2>1. Places(c, s) = 1..Len(s)
      BY <1>1, <1>2 DEF Places
    <2>2. Cardinality(1..Len(s)) = Len(s)
      BY <1>1, FS_Interval
    <2> QED
      BY <1>2, <2>1, <2>2, CountIsFinite
  <1>3. CASE Head(s) # c
    <2>1. Places(c, s) = {}
      BY <1>1, <1>3 DEF Places
    <2> QED
      BY <1>3, <2>1, CountIsFinite, FS_EmptySet
  <1> QED
    BY <1>2, <1>3

LEMMA OneMore ==
  ASSUME NEW n \in Nat
  PROVE  Parts * (n + 1) = Parts * n + Parts /\ Parts * n \in Nat
  BY SizesArePositive

(* A receive thread reads on while the frame is not complete, and shows it *)
(* when it is.                                                             *)
Complete ==
  \A d \in Clients :
    /\ receiver[d] = "reading" =>
         frame[d] = <<>> \/ Len(frame[d]) < FrameLength(frame[d])
    /\ receiver[d] = "showing" =>
         /\ frame[d] # <<>> /\ Len(frame[d]) = FrameLength(frame[d])
         /\ Whole(frame[d])

(* What is on its way to d, or read by it, was uploaded to d, or is small. *)
Meant(d) == {c \in Clients : To[c] = d} \cup {Small}
Addressed ==
  \A d \in Clients : down[d] \in Seq(Meant(d)) /\ frame[d] \in Seq(Meant(d))

(* The inductive invariant.                                                *)
IInv == TypeOK /\ Complete /\ Addressed /\ NothingLost

LEMMA InitIInv == Init => IInv
  <1> SUFFICES ASSUME Init PROVE IInv
    OBVIOUS
  <1>1. TypeOK
    BY SizesArePositive DEF Init, TypeOK
  <1>2. Complete /\ Addressed
    BY SizesArePositive DEF Init, Complete, Addressed
  <1>3. NothingLost
    BY CountOfNothing, EachHasOneReceiver, SizesArePositive DEF Init, NothingLost
  <1> QED
    BY <1>1, <1>2, <1>3 DEF IInv

(* What the counts are of.                                                 *)
LEMMA Counted ==
  ASSUME TypeOK, NEW c \in Clients, NEW d \in Clients
  PROVE  PartsOf(c, down[d]) \in Nat /\ PartsOf(c, frame[d]) \in Nat
  BY CountIsFinite DEF TypeOK

(* The sender's half: main thread and handler.                             *)
Rest == <<window, smalls, arrived, down, frame, receiver>>

LEMMA SenderStep ==
  ASSUME IInv, NEW c \in Clients, Upload(c) \/ SendAll(c) \/ ReadFrame(c)
  PROVE  IInv'
  <1> DEFINE Sum == unsent[c] + up[c] + got[c] + owing[c]
  <1>1. UNCHANGED Rest
    BY DEF Upload, SendAll, ReadFrame, handler, receiving, Rest
  <1>2. /\ started \in [Clients -> Nat] /\ unsent \in [Clients -> 0..Parts]
        /\ owing \in [Clients -> 0..Parts]
        /\ up \in [Clients -> 0..Capacity] /\ got \in [Clients -> 0..(Parts - 1)]
        /\ Parts \in Nat /\ Parts >= 1 /\ Capacity \in Nat
    BY SizesArePositive DEF IInv, TypeOK
  <1>3. /\ started' \in [Clients -> Nat]
        /\ unsent' \in [Clients -> 0..Parts] /\ owing' \in [Clients -> 0..Parts]
        /\ up' \in [Clients -> 0..Capacity]
        /\ got' \in [Clients -> 0..(Parts - 1)]
        /\ \A b \in Clients \ {c} :
             /\ started'[b] = started[b] /\ unsent'[b] = unsent[b]
             /\ owing'[b] = owing[b] /\ up'[b] = up[b] /\ got'[b] = got[b]
        /\ \/ started'[c] = started[c] /\ Sum' = Sum
           \/ started'[c] = started[c] + 1 /\ Sum' = Sum + Parts
    <2>1. CASE Upload(c)
      BY <1>2, <2>1 DEF Upload, handler
    <2>2. CASE SendAll(c)
      <3> DEFINE n == Min({unsent[c], Room(up[c])})
      <3>1. unsent[c] \in Nat /\ Room(up[c]) \in Nat
        BY <1>2 DEF Room
      <3>2. n \in Nat /\ n <= unsent[c] /\ n <= Capacity - up[c]
        BY <3>1, MinOfTwo DEF Room
      <3>3. /\ unsent' = [unsent EXCEPT ![c] = @ - n]
            /\ up' = [up EXCEPT ![c] = @ + n]
            /\ UNCHANGED <<started, got, owing>>
        BY <2>2 DEF SendAll, handler
      <3> HIDE DEF n
      <3> QED
        BY <1>2, <3>2, <3>3
    <2>3. CASE ReadFrame(c)
      <3>1. /\ up[c] > 0 /\ owing[c] = 0
            /\ up' = [up EXCEPT ![c] = @ - 1]
            /\ UNCHANGED <<started, unsent>>
        BY <2>3 DEF ReadFrame, client
      <3> DEFINE complete == got[c] + 1 = Parts
                 g == IF complete THEN 0 ELSE got[c] + 1
                 w == IF complete THEN Parts ELSE 0
      <3>2. got' = [got EXCEPT ![c] = g] /\ owing' = [owing EXCEPT ![c] = w]
        BY <2>3 DEF ReadFrame
      <3>3. g \in 0..(Parts - 1) /\ w \in 0..Parts /\ g + w = got[c] + 1
        BY <1>2
      <3> HIDE DEF g, w
      <3> QED
        BY <1>2, <3>1, <3>2, <3>3
    <2> QED
      BY <2>1, <2>2, <2>3
  <1>4. TypeOK' /\ Complete' /\ Addressed'
    BY <1>1, <1>3 DEF Rest, IInv, TypeOK, Complete, Addressed
  <1>5. NothingLost'
    <2> SUFFICES ASSUME NEW b \in Clients
                 PROVE  (Parts * started[b] = unsent[b] + up[b] + got[b] + owing[b]
                          + PartsOf(b, down[To[b]]) + PartsOf(b, frame[To[b]])
                          + Parts * arrived[b])'
      BY DEF NothingLost
    <2> DEFINE p == PartsOf(b, down[To[b]])
               q == PartsOf(b, frame[To[b]])
    <2>1. /\ UNCHANGED <<p, q, arrived>>
          /\ p \in Nat /\ q \in Nat /\ Parts * arrived[b] \in Nat
      BY <1>1, Counted, OneMore, EachHasOneReceiver DEF Rest, IInv, TypeOK
    <2>2. Parts * started[b] = unsent[b] + up[b] + got[b] + owing[b] + p + q
                                 + Parts * arrived[b]
      BY DEF IInv, NothingLost
    <2>3. Parts * (started[b] + 1) = Parts * started[b] + Parts
      BY <1>2, OneMore
    <2> HIDE DEF p, q
    <2>4. CASE b = c
      BY <1>2, <1>3, <2>1, <2>2, <2>3, <2>4 DEF p, q
    <2>5. CASE b # c
      BY <1>2, <1>3, <2>1, <2>2, <2>5 DEF p, q
    <2> QED
      BY <2>4, <2>5
  <1> QED
    BY <1>4, <1>5 DEF IInv

(* What is written to d's connection: parts of b's.                        *)
LEMMA WrittenDown ==
  ASSUME IInv, NEW d \in Clients, NEW b \in Meant(d), NEW parts \in Seq({b}),
         Len(down[d]) + Len(parts) <= Capacity,
         down' = [down EXCEPT ![d] = @ \o parts]
  PROVE  /\ down' \in [Clients -> Seq(Clients \cup {Small})]
         /\ \A e \in Clients : Len(down'[e]) <= Capacity /\ down'[e] \in Seq(Meant(e))
         /\ \A e \in Clients \ {d} : down'[e] = down[e]
         /\ \A c \in Clients :
              PartsOf(c, down'[d])
                = PartsOf(c, down[d]) + (IF b = c THEN Len(parts) ELSE 0)
  <1> DEFINE S == Clients \cup {Small}
  <1>1. parts \in Seq(Meant(d)) /\ parts \in Seq(S) /\ Len(parts) \in Nat /\ b \in S
    BY DEF Meant
  <1>2. down[d] \in Seq(Meant(d)) /\ down[d] \in Seq(S)
    BY DEF IInv, TypeOK, Addressed
  <1>3. down'[d] = down[d] \o parts /\ \A e \in Clients \ {d} : down'[e] = down[e]
    BY DEF IInv, TypeOK
  <1>4. \A c \in Clients :
          PartsOf(c, down'[d]) = PartsOf(c, down[d]) + (IF b = c THEN Len(parts) ELSE 0)
    <2> HIDE DEF S
    <2> TAKE c \in Clients
    <2>1. b \in S /\ down[d] \in Seq(S)
      BY <1>1, <1>2
    <2>2. PartsOf(c, down[d] \o parts)
            = PartsOf(c, down[d]) + (IF b = c THEN Len(parts) ELSE 0)
      BY <2>1, CountConcat, Zenon
    <2> QED
      BY <1>3, <2>2
  <1>5. /\ down[d] \o parts \in Seq(Meant(d)) /\ down[d] \o parts \in Seq(S)
        /\ Len(down[d] \o parts) = Len(down[d]) + Len(parts)
    BY <1>1, <1>2, ConcatProperties
  <1>6. down' \in [Clients -> Seq(S)]
    BY <1>5 DEF IInv, TypeOK
  <1> QED
    BY <1>3, <1>4, <1>5, <1>6 DEF IInv, TypeOK, Addressed

LEMMA ForwardStep ==
  ASSUME IInv, NEW c \in Clients, Forward(c)
  PROVE  IInv'
  <1> DEFINE d == To[c]
             n == Min({owing[c], Room(Len(down[d]))})
             parts == [i \in 1..n |-> c]
  <1>1. d \in Clients /\ c \in Meant(d)
    BY EachHasOneReceiver DEF Meant
  <1>2. n \in Nat /\ n <= owing[c] /\ Len(down[d]) + n <= Capacity
    <2>1. owing[c] \in Nat /\ Len(down[d]) \in Nat /\ Len(down[d]) <= Capacity
      BY <1>1 DEF IInv, TypeOK
    <2> QED
      BY <2>1, MinOfTwo, SizesArePositive DEF Room
  <1>3. /\ owing' = [owing EXCEPT ![c] = @ - n]
        /\ down' = [down EXCEPT ![d] = @ \o parts]
        /\ UNCHANGED <<window, smalls, started, unsent, up, got,
                       frame, receiver, arrived>>
    BY DEF Forward, client, receiving
  <1> HIDE DEF d, n
  <1>4. parts \in Seq({c}) /\ Len(parts) = n
    BY <1>2
  <1> HIDE DEF parts
  <1>5. /\ down' \in [Clients -> Seq(Clients \cup {Small})]
        /\ \A e \in Clients : Len(down'[e]) <= Capacity /\ down'[e] \in Seq(Meant(e))
        /\ \A e \in Clients \ {d} : down'[e] = down[e]
        /\ \A b \in Clients : PartsOf(b, down'[d])
                                = PartsOf(b, down[d]) + (IF c = b THEN n ELSE 0)
    <2>1. Len(down[d]) + Len(parts) <= Capacity
      BY <1>2, <1>4
    <2>2. /\ down' \in [Clients -> Seq(Clients \cup {Small})]
          /\ \A e \in Clients : Len(down'[e]) <= Capacity /\ down'[e] \in Seq(Meant(e))
          /\ \A e \in Clients \ {d} : down'[e] = down[e]
          /\ \A b \in Clients :
               PartsOf(b, down'[d])
                 = PartsOf(b, down[d]) + (IF c = b THEN Len(parts) ELSE 0)
      BY <1>1, <1>3, <1>4, <2>1, WrittenDown, Zenon
    <2> QED
      BY <1>4, <2>2
  <1>6. owing' \in [Clients -> 0..Parts] /\ owing'[c] = owing[c] - n
    <2>1. owing \in [Clients -> 0..Parts] /\ Parts \in Nat
      BY SizesArePositive DEF IInv, TypeOK
    <2> QED
      BY <1>2, <1>3, <2>1
  <1>7. TypeOK' /\ Complete' /\ Addressed'
    BY <1>3, <1>5, <1>6 DEF IInv, TypeOK, Addressed, Complete
  <1>8. NothingLost'
    <2> SUFFICES ASSUME NEW b \in Clients
                 PROVE  (Parts * started[b] = unsent[b] + up[b] + got[b] + owing[b]
                          + PartsOf(b, down[To[b]]) + PartsOf(b, frame[To[b]])
                          + Parts * arrived[b])'
      BY DEF NothingLost
    <2>1. To[b] \in Clients
      BY EachHasOneReceiver
    <2>2. PartsOf(b, down'[To[b]]) = PartsOf(b, down[To[b]]) + (IF b = c THEN n ELSE 0)
      <3>1. PartsOf(b, down[To[b]]) \in Nat
        BY <2>1, Counted DEF IInv
      <3> QED
        BY <1>5, <2>1, <3>1 DEF d
    <2>3. owing'[b] = owing[b] - (IF b = c THEN n ELSE 0)
      BY <1>3, <1>6 DEF IInv, TypeOK
    <2> DEFINE p == PartsOf(b, down[To[b]])
               q == PartsOf(b, frame[To[b]])
               all == Parts * started[b]
               shown == Parts * arrived[b]
               m == IF b = c THEN n ELSE 0
    <2>4. all = unsent[b] + up[b] + got[b] + owing[b] + p + q + shown
      BY DEF IInv, NothingLost
    <2>5. /\ p \in Nat /\ q \in Nat /\ all \in Nat /\ shown \in Nat /\ m \in Nat
          /\ unsent[b] \in Nat /\ up[b] \in Nat /\ got[b] \in Nat /\ owing[b] \in Nat
      <3>1. p \in Nat /\ q \in Nat
        BY <2>1, Counted DEF IInv
      <3>2. all \in Nat /\ shown \in Nat
        BY OneMore DEF IInv, TypeOK
      <3> QED
        BY <1>2, <3>1, <3>2 DEF IInv, TypeOK
    <2>6. UNCHANGED <<all, shown, q, unsent, up, got>>
      BY <1>3
    <2>7. p' = p + m /\ owing'[b] = owing[b] - m
      BY <2>2, <2>3
    <2> HIDE DEF p, q, all, shown, m
    <2>8. all' = unsent'[b] + up'[b] + got'[b] + owing'[b] + p' + q' + shown'
      BY <2>4, <2>5, <2>6, <2>7
    <2> QED
      BY <2>8 DEF p, q, all, shown
  <1> QED
    BY <1>7, <1>8 DEF IInv

LEMMA SendSmallStep ==
  ASSUME IInv, NEW d \in Clients, SendSmall(d)
  PROVE  IInv'
  <1> DEFINE one == <<Small>>
  <1>1. Small \in Meant(d) /\ \A c \in Clients : c # Small
    BY SmallIsNoClient DEF Meant
  <1>2. /\ smalls' = [smalls EXCEPT ![d] = @ + 1]
        /\ UNCHANGED <<window, started, unsent, up, got, owing,
                       frame, receiver, arrived>>
    BY DEF SendSmall, client, handler, receiving
  <1>3. Len(down[d]) + 1 <= Capacity
    BY SizesArePositive DEF SendSmall, Room, IInv, TypeOK
  <1>4. down' = [down EXCEPT ![d] = @ \o one]
    <2>1. down[d] \in Seq(Clients \cup {Small})
      BY DEF IInv, TypeOK
    <2>2. Append(down[d], Small) = down[d] \o one
      BY <2>1
    <2> HIDE DEF one
    <2> QED
      BY <2>2 DEF SendSmall
  <1>5. /\ down' \in [Clients -> Seq(Clients \cup {Small})]
        /\ \A e \in Clients : Len(down'[e]) <= Capacity /\ down'[e] \in Seq(Meant(e))
        /\ \A e \in Clients \ {d} : down'[e] = down[e]
        /\ \A c \in Clients : PartsOf(c, down'[d]) = PartsOf(c, down[d])
    <2>1. one \in Seq({Small}) /\ Len(one) = 1
      OBVIOUS
    <2> HIDE DEF one
    <2>2. Len(down[d]) + Len(one) <= Capacity
      BY <1>3, <2>1
    <2>3. /\ down' \in [Clients -> Seq(Clients \cup {Small})]
          /\ \A e \in Clients : Len(down'[e]) <= Capacity /\ down'[e] \in Seq(Meant(e))
          /\ \A e \in Clients \ {d} : down'[e] = down[e]
          /\ \A c \in Clients :
               PartsOf(c, down'[d])
                 = PartsOf(c, down[d]) + (IF Small = c THEN Len(one) ELSE 0)
      BY <1>1, <1>4, <2>1, <2>2, WrittenDown, Zenon
    <2>4. ASSUME NEW c \in Clients
          PROVE  PartsOf(c, down'[d]) = PartsOf(c, down[d])
      <3>1. Small # c
        BY <1>1
      <3>2. PartsOf(c, down[d]) \in Nat
        BY Counted DEF IInv
      <3>3. PartsOf(c, down'[d])
              = PartsOf(c, down[d]) + (IF Small = c THEN Len(one) ELSE 0)
        BY <2>3, Zenon
      <3> QED
        BY <3>1, <3>2, <3>3
    <2> QED
      BY <2>3, <2>4, Zenon
  <1>6. TypeOK' /\ Complete' /\ Addressed'
    <2>1. smalls' \in [Clients -> Nat]
      BY <1>2 DEF IInv, TypeOK
    <2> QED
      BY <1>2, <1>5, <2>1 DEF IInv, TypeOK, Addressed, Complete
  <1>7. \A c \in Clients : PartsOf(c, down'[To[c]]) = PartsOf(c, down[To[c]])
    BY <1>5, EachHasOneReceiver
  <1>8. NothingLost'
    BY <1>2, <1>7 DEF IInv, NothingLost
  <1> QED
    BY <1>6, <1>8 DEF IInv

LEMMA ReceiveStep ==
  ASSUME IInv, NEW d \in Clients, Receive(d)
  PROVE  IInv'
  <1> DEFINE S == Clients \cup {Small}
             part == Head(down[d])
             read == Append(frame[d], part)
  <1>1. /\ down[d] \in Seq(Meant(d)) /\ frame[d] \in Seq(Meant(d))
        /\ down[d] # <<>> /\ Meant(d) \subseteq S
        /\ Len(down[d]) <= Capacity
        /\ frame[d] = <<>> \/ Len(frame[d]) < FrameLength(frame[d])
    BY DEF IInv, TypeOK, Addressed, Complete, Meant, Receive
  <1>2. /\ part \in Meant(d)
        /\ Tail(down[d]) \in Seq(Meant(d)) /\ Len(Tail(down[d])) = Len(down[d]) - 1
    BY <1>1, HeadTailProperties
  <1>3. /\ read \in Seq(Meant(d)) /\ read # <<>>
        /\ Len(read) = Len(frame[d]) + 1 /\ Len(frame[d]) \in Nat
        /\ frame[d] # <<>> => Head(read) = Head(frame[d])
    BY <1>1, <1>2, AppendProperties
  <1>4. Len(read) <= FrameLength(read) /\ FrameLength(read) <= Parts
    BY <1>1, <1>3, SizesArePositive DEF FrameLength
  <1>5. /\ down' = [down EXCEPT ![d] = Tail(@)]
        /\ frame' = [frame EXCEPT ![d] = read]
        /\ UNCHANGED <<window, smalls, started, unsent, up, got, owing, arrived>>
    BY DEF Receive, client, handler, IInv, TypeOK
  <1>6. /\ frame'[d] = read /\ down'[d] = Tail(down[d])
        /\ \A c \in Clients \ {d} : frame'[c] = frame[c] /\ down'[c] = down[c]
    BY <1>5 DEF IInv, TypeOK
  <1>7. /\ receiver' \in [Clients -> {"reading", "showing", "ended"}]
        /\ \A c \in Clients \ {d} : receiver'[c] = receiver[c]
        /\ receiver'[d] = "reading" => Len(read) < FrameLength(read)
        /\ receiver'[d] = "showing" => ~(Len(read) < FrameLength(read)) /\ Whole(read)
    BY <1>6 DEF Receive, IInv, TypeOK
  <1> HIDE DEF read, part
  <1>8. TypeOK'
    <2>1. read \in Seq(S) /\ Tail(down[d]) \in Seq(S)
      BY <1>1, <1>2, <1>3
    <2>2. down' \in [Clients -> Seq(S)] /\ frame' \in [Clients -> Seq(S)]
      BY <1>5, <2>1 DEF IInv, TypeOK
    <2>3. Len(down'[d]) <= Capacity /\ Len(frame'[d]) <= Parts
      <3>1. Len(down[d]) \in Nat
        BY <1>1
      <3>2. FrameLength(read) \in Nat
        BY SizesArePositive DEF FrameLength
      <3> QED
        BY <1>1, <1>2, <1>3, <1>4, <1>6, <3>1, <3>2, SizesArePositive
    <2> QED
      BY <1>5, <1>6, <1>7, <2>2, <2>3 DEF IInv, TypeOK
  <1>9. Complete'
    <2>1. Len(read) \in Nat /\ FrameLength(read) \in Nat
      BY <1>3, SizesArePositive DEF FrameLength
    <2>2. receiver'[d] = "showing" => Len(read) = FrameLength(read)
      BY <1>4, <1>7, <2>1
    <2>3. /\ \A c \in Clients : FrameLength(frame[c])' = FrameLength(frame'[c])
          /\ \A c \in Clients : Whole(frame[c])' = Whole(frame'[c])
      BY DEF FrameLength, Whole
    <2> SUFFICES ASSUME NEW c \in Clients
                 PROVE  /\ receiver'[c] = "reading" =>
                             frame'[c] = <<>> \/ Len(frame'[c]) < FrameLength(frame'[c])
                        /\ receiver'[c] = "showing" =>
                             /\ frame'[c] # <<>>
                             /\ Len(frame'[c]) = FrameLength(frame'[c])
                             /\ Whole(frame'[c])
      BY <2>3 DEF Complete
    <2>4. CASE c = d
      BY <1>3, <1>6, <1>7, <2>2, <2>4
    <2>5. CASE c # d
      BY <1>6, <1>7, <2>5 DEF IInv, Complete
    <2> QED
      BY <2>4, <2>5
  <1>10. Addressed'
    BY <1>2, <1>3, <1>6 DEF IInv, Addressed, Meant
  <1>11. \A c \in Clients :
           PartsOf(c, down'[d]) + PartsOf(c, frame'[d])
             = PartsOf(c, down[d]) + PartsOf(c, frame[d])
    <2> TAKE c \in Clients
    <2> DEFINE m == IF part = c THEN 1 ELSE 0
    <2>1. PartsOf(c, read) = PartsOf(c, frame[d]) + m
      BY <1>1, <1>2, CountAppend DEF read
    <2>2. PartsOf(c, down[d]) = PartsOf(c, Tail(down[d])) + m
      BY <1>1, CountTail DEF part
    <2>3. PartsOf(c, Tail(down[d])) \in Nat /\ PartsOf(c, frame[d]) \in Nat
      BY <1>1, <1>2, CountIsFinite
    <2> QED
      BY <1>6, <2>1, <2>2, <2>3
  <1>12. NothingLost'
    <2> SUFFICES ASSUME NEW b \in Clients
                 PROVE  Parts * started[b] = unsent[b] + up[b] + got[b] + owing[b]
                          + PartsOf(b, down'[To[b]]) + PartsOf(b, frame'[To[b]])
                          + Parts * arrived[b]
      BY <1>5 DEF NothingLost, PartsOf
    <2> DEFINE p == PartsOf(b, down[To[b]])
               q == PartsOf(b, frame[To[b]])
               all == Parts * started[b]
               shown == Parts * arrived[b]
    <2>1. To[b] \in Clients
      BY EachHasOneReceiver
    <2>2. all = unsent[b] + up[b] + got[b] + owing[b] + p + q + shown
      BY DEF IInv, NothingLost
    <2>3. PartsOf(b, down'[To[b]]) + PartsOf(b, frame'[To[b]]) = p + q
      BY <1>6, <1>11, <2>1
    <2>4. p \in Nat /\ q \in Nat
      BY <2>1, Counted DEF IInv
    <2>5. PartsOf(b, down'[To[b]]) \in Nat /\ PartsOf(b, frame'[To[b]]) \in Nat
      BY <1>8, <2>1, CountIsFinite DEF TypeOK
    <2>6. all \in Nat /\ shown \in Nat
      BY OneMore DEF IInv, TypeOK
    <2>7. /\ unsent[b] \in Nat /\ up[b] \in Nat /\ got[b] \in Nat /\ owing[b] \in Nat
      BY SizesArePositive DEF IInv, TypeOK
    <2> HIDE DEF p, q, all, shown
    <2>8. all = unsent[b] + up[b] + got[b] + owing[b]
                  + PartsOf(b, down'[To[b]]) + PartsOf(b, frame'[To[b]]) + shown
      BY <2>2, <2>3, <2>4, <2>5, <2>6, <2>7
    <2> QED
      BY <2>8 DEF all, shown
  <1> QED
    BY <1>8, <1>9, <1>10, <1>12 DEF IInv

LEMMA ShowStep ==
  ASSUME IInv, NEW d \in Clients, Show(d)
  PROVE  IInv'
  <1> DEFINE S == Clients \cup {Small}
             h == Head(frame[d])
  <1>1. /\ frame[d] \in Seq(S) /\ frame[d] \in Seq(Meant(d))
        /\ frame[d] # <<>> /\ Whole(frame[d])
        /\ Len(frame[d]) = FrameLength(frame[d])
    BY DEF IInv, TypeOK, Complete, Addressed, Show
  <1>2. h \in Meant(d)
    BY <1>1, HeadTailProperties
  <1>3. /\ frame' = [frame EXCEPT ![d] = <<>>]
        /\ receiver' = [receiver EXCEPT ![d] = "reading"]
        /\ arrived' = [c \in Clients |-> IF c = h THEN arrived[c] + 1 ELSE arrived[c]]
        /\ UNCHANGED <<window, smalls, started, unsent, up, got, owing, down>>
    BY DEF Show, client, handler
  <1>4. /\ frame'[d] = <<>> /\ receiver'[d] = "reading"
        /\ \A c \in Clients \ {d} : frame'[c] = frame[c] /\ receiver'[c] = receiver[c]
    BY <1>3 DEF IInv, TypeOK
  <1>5. \A c \in Clients : PartsOf(c, frame[d]) = IF c = h THEN Parts ELSE 0
    <2> TAKE c \in Clients
    <2>1. PartsOf(c, frame[d]) = IF h = c THEN Len(frame[d]) ELSE 0
      BY <1>1, CountWhole
    <2>2. h = c => FrameLength(frame[d]) = Parts
      BY SmallIsNoClient DEF FrameLength
    <2> QED
      BY <1>1, <2>1, <2>2
  <1> HIDE DEF h
  <1>6. TypeOK'
    <2>1. <<>> \in Seq(S) /\ Len(<<>>) = 0
      OBVIOUS
    <2>2. frame' \in [Clients -> Seq(S)]
      BY <1>3, <2>1 DEF IInv, TypeOK
    <2>3. \A c \in Clients : Len(frame'[c]) <= Parts
      <3> TAKE c \in Clients
      <3>1. Len(frame[c]) <= Parts /\ 0 <= Parts
        BY SizesArePositive DEF IInv, TypeOK
      <3>2. frame'[c] = frame[c] \/ frame'[c] = <<>>
        BY <1>4
      <3> QED
        BY <2>1, <3>1, <3>2, Zenon
    <2>4. receiver' \in [Clients -> {"reading", "showing", "ended"}]
      BY <1>3 DEF IInv, TypeOK
    <2>5. arrived' \in [Clients -> Nat]
      BY <1>3 DEF IInv, TypeOK
    <2> QED
      BY <1>3, <2>2, <2>3, <2>4, <2>5 DEF IInv, TypeOK
  <1>7. Complete' /\ Addressed'
    <2>1. Addressed'
      BY <1>3, <1>4 DEF IInv, Addressed, Meant
    <2>2. Complete'
      <3>1. \A c \in Clients : /\ FrameLength(frame[c])' = FrameLength(frame'[c])
                              /\ Whole(frame[c])' = Whole(frame'[c])
        BY DEF FrameLength, Whole
      <3> QED
        BY <1>4, <3>1 DEF IInv, Complete
    <2> QED
      BY <2>1, <2>2
  <1>8. NothingLost'
    <2> SUFFICES ASSUME NEW b \in Clients
                 PROVE  Parts * started[b] = unsent[b] + up[b] + got[b] + owing[b]
                          + PartsOf(b, down[To[b]]) + PartsOf(b, frame'[To[b]])
                          + Parts * arrived'[b]
      BY <1>3 DEF NothingLost, PartsOf
    <2> DEFINE p == PartsOf(b, down[To[b]])
               q == PartsOf(b, frame[To[b]])
               all == Parts * started[b]
               shown == Parts * arrived[b]
    <2>1. To[b] \in Clients
      BY EachHasOneReceiver
    <2>2. all = unsent[b] + up[b] + got[b] + owing[b] + p + q + shown
      BY DEF IInv, NothingLost
    <2>3. p \in Nat /\ q \in Nat
      BY <2>1, Counted DEF IInv
    <2>4. /\ all \in Nat /\ shown \in Nat
          /\ Parts * (arrived[b] + 1) = shown + Parts
      BY OneMore DEF IInv, TypeOK
    <2>5. /\ unsent[b] \in Nat /\ up[b] \in Nat /\ got[b] \in Nat /\ owing[b] \in Nat
          /\ Parts \in Nat
      BY SizesArePositive DEF IInv, TypeOK
    <2> HIDE DEF p, q, all, shown
    <2>6. CASE b = h
      <3>1. To[b] = d
        BY <1>2, <2>6, SmallIsNoClient DEF Meant
      <3>2. q = Parts /\ PartsOf(b, frame'[To[b]]) = 0
        BY <1>4, <1>5, <2>6, <3>1, CountOfNothing DEF q
      <3>3. Parts * arrived'[b] = shown + Parts
        BY <1>3, <2>4, <2>6
      <3> QED
        BY <2>2, <2>3, <2>4, <2>5, <3>2, <3>3 DEF p, all
    <2>7. CASE b # h
      <3>1. PartsOf(b, frame'[To[b]]) = q
        <4>1. CASE To[b] = d
          BY <1>4, <1>5, <2>7, <4>1, CountOfNothing DEF q
        <4>2. CASE To[b] # d
          BY <1>4, <2>1, <4>2 DEF q
        <4> QED
          BY <4>1, <4>2
      <3>2. arrived'[b] = arrived[b]
        BY <1>3, <2>7
      <3> QED
        BY <2>2, <3>1, <3>2 DEF p, all, shown
    <2> QED
      BY <2>6, <2>7
  <1> QED
    BY <1>6, <1>7, <1>8 DEF IInv

THEOREM Invariance == Spec => []IInv
  <1>1. IInv /\ [Next]_vars => IInv'
    <2> SUFFICES ASSUME IInv, [Next]_vars PROVE IInv'
      OBVIOUS
    <2>1. CASE UNCHANGED vars
      BY <2>1 DEF vars, client, handler, receiving, IInv, TypeOK, Complete, Addressed,
                  FrameLength, Whole, NothingLost, PartsOf
    <2> QED
      BY <2>1, SenderStep, ForwardStep, SendSmallStep, ReceiveStep, ShowStep DEF Next
  <1> QED
    BY InitIInv, <1>1, PTL DEF Spec

(* Buffers and frames never hold more than they can, whatever their sizes  *)
(* (sendall, read_frame, receive_loop).                                    *)
THEOREM TypeCorrect == Spec => []TypeOK
  <1>1. IInv => TypeOK
    BY DEF IInv
  <1> QED
    BY Invariance, <1>1, PTL

(* No part of a file is lost or doubled, for frames and buffers of any     *)
(* sizes, any number of clients and of files, whoever sends to whom, and   *)
(* whatever other frames are written to the same connections: also when    *)
(* everything is blocked, or a receive thread has ended, each part is      *)
(* still somewhere (sendall, read_frame, send_payload, receive_loop).      *)
THEOREM PartsKept == Spec => []NothingLost
  <1>1. IInv => NothingLost
    BY DEF IInv
  <1> QED
    BY Invariance, <1>1, PTL
=============================================================================
