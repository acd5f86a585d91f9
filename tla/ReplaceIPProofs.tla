-------------------------- MODULE ReplaceIPProofs --------------------------
(***************************************************************************)
(* Theorems about ReplaceIP, for any users, texts, number of concurrent    *)
(* handlers, lifetime and number of nonces.                                *)
(***************************************************************************)
EXTENDS ReplaceIP, TLAPS

USE DEF Nonces, Ages, Entries, Signatures, Requests, Idle

(* A pending nonce has been issued, for the user it is stored under, and   *)
(* has not been used; nor has a nonce that is yet to be issued.            *)
StoreUnused ==
  /\ \A u \in UserIDs : globalNonceStore[u] # None =>
       /\ globalNonceStore[u].nonce <= issued
       /\ uses[globalNonceStore[u].nonce] = 0
       /\ issuedFor[globalNonceStore[u].nonce] = u
  /\ \A n \in Nonces : n > issued => uses[n] = 0

(* A handler works on a nonce issued for the user it names, and beyond the *)
(* verification this user has signed it.                                   *)
HandlersOwn ==
  \A h \in Handlers : handler[h].pc # "idle" =>
    /\ handler[h].nonce <= issued
    /\ issuedFor[handler[h].nonce] = handler[h].user
    /\ handler[h].pc # "verify" => Verify(handler[h])

IInv == TypeOK /\ SingleUse /\ StoreUnused /\ HandlersOwn

(* A handler that is not idle holds a request.                             *)
LEMMA AtWork ==
  ASSUME TypeOK, NEW h \in Handlers, handler[h].pc # "idle"
  PROVE  handler[h] \in Requests
  BY DEF TypeOK

LEMMA StoredEntry ==
  ASSUME TypeOK, NEW u \in UserIDs, globalNonceStore[u] # None
  PROVE  globalNonceStore[u] \in Entries
  BY DEF TypeOK

LEMMA OlderEntry ==
  ASSUME NEW e \in Entries
  PROVE  Older(e) \in Entries /\ Older(e).nonce = e.nonce
  BY TimesAreNumbers DEF Older

LEMMA InitIInv == Init => IInv
  <1> SUFFICES ASSUME Init PROVE IInv
    OBVIOUS
  <1>1. TypeOK
    BY TimesAreNumbers DEF Init, TypeOK
  <1>2. SingleUse /\ StoreUnused /\ HandlersOwn
    BY DEF Init, SingleUse, StoreUnused, HandlersOwn
  <1> QED
    BY <1>1, <1>2 DEF IInv

LEMMA ChallengeStep ==
  ASSUME IInv, NEW u \in UserIDs, Challenge(u)
  PROVE  IInv'
  <1> USE TimesAreNumbers DEF Challenge, IInv
  <1>1. TypeOK'
    BY DEF TypeOK
  <1>2. SingleUse'
    BY DEF SingleUse
  <1>3. StoreUnused'
    <2>1. issued \in Nat /\ issued' = issued + 1 /\ issued + 1 \in Nonces
      BY DEF TypeOK
    <2>2. ASSUME NEW v \in UserIDs, globalNonceStore'[v] # None, v # u
          PROVE  /\ globalNonceStore'[v].nonce <= issued'
                 /\ uses'[globalNonceStore'[v].nonce] = 0
                 /\ issuedFor'[globalNonceStore'[v].nonce] = v
      BY <2>1, <2>2, StoredEntry DEF TypeOK, StoreUnused
    <2>3. /\ globalNonceStore'[u].nonce <= issued'
          /\ uses'[globalNonceStore'[u].nonce] = 0
          /\ issuedFor'[globalNonceStore'[u].nonce] = u
      BY <2>1 DEF TypeOK, StoreUnused
    <2> QED
      BY <2>1, <2>2, <2>3 DEF StoreUnused
  <1>4. HandlersOwn'
    <2> SUFFICES ASSUME NEW h \in Handlers, handler[h].pc # "idle"
                 PROVE  /\ handler[h].nonce <= issued'
                        /\ issuedFor'[handler[h].nonce] = handler[h].user
                        /\ handler[h].pc # "verify" => Verify(handler[h])
      BY DEF HandlersOwn, Verify
    <2>1. /\ handler[h].nonce \in Nonces
          /\ handler[h].nonce <= issued
          /\ issuedFor[handler[h].nonce] = handler[h].user
          /\ handler[h].pc # "verify" => Verify(handler[h])
      BY AtWork DEF HandlersOwn
    <2>2. issued \in Nat /\ handler[h].nonce # issued + 1
      BY <2>1 DEF TypeOK
    <2> QED
      BY <2>1, <2>2 DEF TypeOK
  <1> QED
    BY <1>1, <1>2, <1>3, <1>4

LEMMA TakeNonceStep ==
  ASSUME IInv, NEW h \in Handlers, NEW u \in UserIDs, NEW ip \in Texts,
         NEW sig \in Signatures, TakeNonce(h, u, ip, sig)
  PROVE  IInv'
  <1> DEFINE n == globalNonceStore[u].nonce
             req == [pc |-> "verify", user |-> u, ip |-> ip, nonce |-> n, sig |-> sig]
  <1>1. /\ n \in Nonces
        /\ n <= issued
        /\ uses[n] = 0
        /\ issuedFor[n] = u
    BY StoredEntry DEF TakeNonce, IInv, StoreUnused
  <1>2. /\ handler' = [handler EXCEPT ![h] = req]
        /\ uses' = [uses EXCEPT ![n] = uses[n] + 1]
        /\ globalNonceStore' = [globalNonceStore EXCEPT ![u] = None]
        /\ UNCHANGED <<issued, slept, latest_ip, issuedFor>>
    BY DEF TakeNonce, Start, StoreWithout
  <1>3. req \in Requests
    BY <1>1 DEF TakeNonce, ParseIP
  <1>4. TypeOK'
    BY <1>1, <1>2, <1>3 DEF IInv, TypeOK
  <1>5. SingleUse'
    BY <1>1, <1>2 DEF IInv, TypeOK, SingleUse
  <1>6. StoreUnused'
    <2>1. ASSUME NEW v \in UserIDs, globalNonceStore'[v] # None
          PROVE  /\ globalNonceStore'[v].nonce <= issued'
                 /\ uses'[globalNonceStore'[v].nonce] = 0
                 /\ issuedFor'[globalNonceStore'[v].nonce] = v
      <3>1. v # u /\ globalNonceStore'[v] = globalNonceStore[v]
        BY <1>2, <2>1 DEF IInv, TypeOK
      <3>2. /\ globalNonceStore[v].nonce \in Nonces
            /\ globalNonceStore[v].nonce <= issued
            /\ uses[globalNonceStore[v].nonce] = 0
            /\ issuedFor[globalNonceStore[v].nonce] = v
        BY <2>1, <3>1, StoredEntry DEF IInv, StoreUnused
      <3>3. globalNonceStore[v].nonce # n
        BY <1>1, <3>1, <3>2
      <3> QED
        BY <1>2, <3>1, <3>2, <3>3 DEF IInv, TypeOK
    <2>2. \A m \in Nonces : m > issued' => uses'[m] = 0
      BY <1>1, <1>2 DEF IInv, TypeOK, StoreUnused
    <2> QED
      BY <2>1, <2>2 DEF StoreUnused
  <1>7. HandlersOwn'
    BY <1>1, <1>2 DEF IInv, TypeOK, HandlersOwn, Verify
  <1> QED
    BY <1>4, <1>5, <1>6, <1>7 DEF IInv

(* A handler moves on, or ends, and touches nothing but perhaps its row.   *)
LEMMA HandlerMoves ==
  ASSUME IInv, NEW h \in Handlers, handler[h].pc # "idle",
         \/ handler' = [handler EXCEPT ![h] = Idle]
         \/ /\ Verify(handler[h])
            /\ \E loc \in {"select", "update"} :
                 handler' = [handler EXCEPT ![h] = [handler[h] EXCEPT !.pc = loc]],
         UNCHANGED <<globalNonceStore, issued, slept, issuedFor, uses>>
  PROVE  /\ handler' \in [Handlers -> Requests \cup {Idle}]
         /\ SingleUse' /\ StoreUnused' /\ HandlersOwn'
  <1>1. handler[h] \in Requests
    BY AtWork DEF IInv
  <1>2. SingleUse' /\ StoreUnused'
    BY DEF IInv, SingleUse, StoreUnused
  <1>3. CASE handler' = [handler EXCEPT ![h] = Idle]
    BY <1>2, <1>3 DEF IInv, TypeOK, HandlersOwn, Verify
  <1>4. ASSUME NEW loc \in {"select", "update"}, Verify(handler[h]),
               handler' = [handler EXCEPT ![h] = [handler[h] EXCEPT !.pc = loc]]
        PROVE  handler' \in [Handlers -> Requests \cup {Idle}] /\ HandlersOwn'
    <2>1. [handler[h] EXCEPT !.pc = loc] \in Requests
      BY <1>1
    <2> QED
      BY <1>1, <1>4, <2>1 DEF IInv, TypeOK, HandlersOwn, Verify
  <1> QED
    BY <1>2, <1>3, <1>4

LEMMA HandlerStep ==
  ASSUME IInv, NEW h \in Handlers, Handler(h)
  PROVE  IInv'
  <1>1. ASSUME NEW u \in UserIDs, NEW ip \in Texts, NEW sig \in Signatures,
               TakeNonce(h, u, ip, sig)
        PROVE  IInv'
    BY <1>1, TakeNonceStep
  <1>2. CASE VerifySignature(h) \/ SelectOccupied(h) \/ DatabaseError(h)
    <2>1. /\ handler[h].pc # "idle"
          /\ UNCHANGED <<globalNonceStore, issued, slept, latest_ip, issuedFor, uses>>
      BY <1>2 DEF VerifySignature, SelectOccupied, DatabaseError
    <2>2. handler[h].pc = "select" => Verify(handler[h])
      BY DEF IInv, HandlersOwn
    <2>3. \/ handler' = [handler EXCEPT ![h] = Idle]
          \/ /\ Verify(handler[h])
             /\ \E loc \in {"select", "update"} :
                  handler' = [handler EXCEPT ![h] = [handler[h] EXCEPT !.pc = loc]]
      BY <1>2, <2>2 DEF VerifySignature, SelectOccupied, DatabaseError, Goto, Reply, Start
    <2>4. /\ handler' \in [Handlers -> Requests \cup {Idle}]
          /\ SingleUse' /\ StoreUnused' /\ HandlersOwn'
      BY <2>1, <2>3, HandlerMoves
    <2> QED
      BY <2>1, <2>4 DEF IInv, TypeOK
  <1>3. CASE UpdateRow(h)
    <2>1. /\ handler[h].pc # "idle"
          /\ handler' = [handler EXCEPT ![h] = Idle]
          /\ UNCHANGED <<globalNonceStore, issued, slept, issuedFor, uses>>
          /\ latest_ip' = [latest_ip EXCEPT ![handler[h].user] = handler[h].ip]
      BY <1>3 DEF UpdateRow, Reply, Start
    <2>2. /\ handler' \in [Handlers -> Requests \cup {Idle}]
          /\ SingleUse' /\ StoreUnused' /\ HandlersOwn'
      BY <2>1, HandlerMoves
    <2>3. handler[h].user \in UserIDs /\ handler[h].ip \in Texts
      BY <2>1, AtWork, SpellingsAreTexts DEF IInv
    <2>4. TypeOK'
      BY <2>1, <2>2, <2>3 DEF IInv, TypeOK
    <2> QED
      BY <2>2, <2>4 DEF IInv
  <1> QED
    BY <1>1, <1>2, <1>3 DEF Handler

(* The store only loses nonces, or they grow older.                        *)
LEMMA StoreShrinks ==
  ASSUME IInv, globalNonceStore' \in [UserIDs -> Entries \cup {None}],
         \A u \in UserIDs :
           \/ globalNonceStore'[u] = None
           \/ /\ globalNonceStore[u] # None
              /\ globalNonceStore'[u].nonce = globalNonceStore[u].nonce,
         UNCHANGED <<issued, issuedFor, uses>>
  PROVE  SingleUse' /\ StoreUnused'
  BY DEF IInv, SingleUse, StoreUnused

LEMMA OtherSteps ==
  ASSUME IInv,
         \/ \E u \in UserIDs, ip \in Texts : AddUser(u, ip)
         \/ \E lag \in 0..MaxLag : Purge(lag)
         \/ Tick
         \/ Restart
  PROVE  IInv'
  <1>1. ASSUME NEW u \in UserIDs, NEW ip \in Texts, AddUser(u, ip)
        PROVE  IInv'
    <2>1. TypeOK'
      BY <1>1 DEF AddUser, IInv, TypeOK
    <2>2. SingleUse' /\ StoreUnused' /\ HandlersOwn'
      BY <1>1 DEF AddUser, IInv, SingleUse, StoreUnused, HandlersOwn, Verify
    <2> QED
      BY <2>1, <2>2 DEF IInv
  <1>2. ASSUME NEW lag \in 0..MaxLag, Purge(lag)
        PROVE  IInv'
    <2>1. globalNonceStore' \in [UserIDs -> Entries \cup {None}]
      BY <1>2 DEF Purge, IInv, TypeOK
    <2>2. TypeOK' /\ HandlersOwn'
      BY <1>2, <2>1, TimesAreNumbers DEF Purge, IInv, TypeOK, HandlersOwn, Verify
    <2>3. SingleUse' /\ StoreUnused'
      BY <1>2, <2>1, StoreShrinks DEF Purge
    <2> QED
      BY <2>2, <2>3 DEF IInv
  <1>3. CASE Tick
    <2>1. \A u \in UserIDs : globalNonceStore[u] # None =>
            /\ Older(globalNonceStore[u]) \in Entries
            /\ Older(globalNonceStore[u]).nonce = globalNonceStore[u].nonce
      BY StoredEntry, OlderEntry DEF IInv
    <2>2. globalNonceStore' \in [UserIDs -> Entries \cup {None}]
      BY <1>3, <2>1 DEF Tick
    <2>3. slept' \in 0..TTL
      BY <1>3, TimesAreNumbers DEF Tick, IInv, TypeOK
    <2>4. TypeOK' /\ HandlersOwn'
      BY <1>3, <2>2, <2>3 DEF Tick, IInv, TypeOK, HandlersOwn, Verify
    <2>5. SingleUse' /\ StoreUnused'
      BY <1>3, <2>1, <2>2, StoreShrinks DEF Tick
    <2> QED
      BY <2>4, <2>5 DEF IInv
  <1>4. CASE Restart
    <2>1. TypeOK'
      BY <1>4, TimesAreNumbers DEF Restart, IInv, TypeOK
    <2>2. SingleUse' /\ StoreUnused' /\ HandlersOwn'
      BY <1>4 DEF Restart, IInv, SingleUse, StoreUnused, HandlersOwn
    <2> QED
      BY <2>1, <2>2 DEF IInv
  <1> QED
    BY <1>1, <1>2, <1>3, <1>4

LEMMA NextStep == IInv /\ [Next]_vars => IInv'
  <1> SUFFICES ASSUME IInv, [Next]_vars PROVE IInv'
    OBVIOUS
  <1>1. CASE UNCHANGED vars
    BY <1>1 DEF vars, IInv, TypeOK, SingleUse, StoreUnused, HandlersOwn, Verify
  <1>2. CASE Next
    BY <1>2, ChallengeStep, HandlerStep, OtherSteps DEF Next
  <1> QED
    BY <1>1, <1>2

(* The inductive invariant: the store, the handlers and the rows.          *)
THEOREM Invariance == Spec => []IInv
  BY InitIInv, NextStep, PTL DEF Spec

(* Database, store and handlers keep their types, whatever text a request  *)
(* brings as an address and whenever the server restarts.                  *)
THEOREM TypeCorrect == Spec => []TypeOK
  <1>1. IInv => TypeOK
    BY DEF IInv
  <1> QED
    BY Invariance, <1>1, PTL

(* No nonce is taken out of the store twice, restarts included.            *)
THEOREM NonceSingleUse == Spec => []SingleUse
  <1>1. IInv => SingleUse
    BY DEF IInv
  <1> QED
    BY Invariance, <1>1, PTL

(* Only a request with the user's own signature of a nonce issued for that *)
(* user changes the user's row.                                            *)
THEOREM OwnerChanges == Spec => ChangedByOwner
  <1> DEFINE Owned ==
        \A u \in UserIDs :
          latest_ip[u] # None /\ latest_ip'[u] # latest_ip[u] =>
            \E h \in Handlers :
              /\ handler[h].pc = "update"
              /\ handler[h].user = u
              /\ handler[h].sig = [by |-> u, nonce |-> handler[h].nonce]
              /\ issuedFor[handler[h].nonce] = u
              /\ latest_ip'[u] = handler[h].ip
  <1>1. ASSUME IInv, Next, NEW u \in UserIDs, latest_ip[u] # None, latest_ip'[u] # latest_ip[u]
        PROVE  \E h \in Handlers : UpdateRow(h) /\ handler[h].user = u
    <2>1. CASE \E h \in Handlers : UpdateRow(h)
      BY <1>1, <2>1 DEF UpdateRow, IInv, TypeOK
    <2>2. CASE \E v \in UserIDs, ip \in Texts : AddUser(v, ip)
      BY <1>1, <2>2 DEF AddUser, IInv, TypeOK
    <2>3. CASE latest_ip' = latest_ip
      BY <1>1, <2>3
    <2>4. \/ \E h \in Handlers : UpdateRow(h)
          \/ \E v \in UserIDs, ip \in Texts : AddUser(v, ip)
          \/ latest_ip' = latest_ip
      BY <1>1 DEF Next, Challenge, Handler, TakeNonce, VerifySignature, SelectOccupied,
                  DatabaseError, Purge, Tick, Restart
    <2> QED
      BY <2>1, <2>2, <2>3, <2>4
  <1>2. ASSUME IInv, NEW h \in Handlers, UpdateRow(h)
        PROVE  /\ handler[h].pc = "update"
               /\ handler[h].sig = [by |-> handler[h].user, nonce |-> handler[h].nonce]
               /\ issuedFor[handler[h].nonce] = handler[h].user
               /\ latest_ip'[handler[h].user] = handler[h].ip
    <2>1. handler[h].pc = "update" /\ handler[h].user \in UserIDs
      BY <1>2, AtWork DEF UpdateRow, IInv
    <2> QED
      BY <1>2, <2>1 DEF UpdateRow, IInv, TypeOK, HandlersOwn, Verify
  <1>3. IInv /\ [Next]_vars => [Owned]_vars
    BY <1>1, <1>2 DEF vars
  <1> QED
    BY Invariance, <1>3, PTL DEF Spec, ChangedByOwner

(* A purge deletes only what has expired, whenever it has read the clock,  *)
(* and nothing but an answer, a new challenge of the same user or the end  *)
(* of the process takes a pending nonce away.                              *)
THEOREM NoncesKept == Spec => KeptUntilExpired
  <1> DEFINE Kept(u) ==
        \/ globalNonceStore'[u] # None /\ globalNonceStore'[u].nonce = globalNonceStore[u].nonce
        \/ uses'[globalNonceStore[u].nonce] = uses[globalNonceStore[u].nonce] + 1
        \/ Challenge(u)
        \/ Restart
  <1>1. ASSUME IInv, Next, NEW u \in UserIDs,
               globalNonceStore[u] # None, ~Expired(globalNonceStore[u])
        PROVE  Kept(u)
    <2> DEFINE e == globalNonceStore[u]
    <2>1. e \in Entries /\ Older(e) \in Entries /\ Older(e).nonce = e.nonce /\ e # None
      BY <1>1, StoredEntry, OlderEntry DEF IInv
    <2>2. ASSUME NEW v \in UserIDs, Challenge(v) PROVE Kept(u)
      BY <1>1, <2>2 DEF Challenge, IInv, TypeOK
    <2>3. ASSUME NEW h \in Handlers, NEW v \in UserIDs, NEW ip \in Texts,
                 NEW sig \in Signatures, TakeNonce(h, v, ip, sig)
          PROVE  Kept(u)
      <3>1. CASE u = v
        <4>1. uses' = [uses EXCEPT ![e.nonce] = uses[e.nonce] + 1]
          BY <2>3, <3>1 DEF TakeNonce
        <4>2. e.nonce \in Nonces /\ uses \in [Nonces -> Nat]
          BY <1>1, <2>1 DEF IInv, TypeOK
        <4> QED
          BY <4>1, <4>2
      <3>2. CASE u # v
        BY <1>1, <2>3, <3>2 DEF TakeNonce, StoreWithout, IInv, TypeOK
      <3> QED
        BY <3>1, <3>2
    <2>4. ASSUME NEW lag \in 0..MaxLag, Purge(lag) PROVE Kept(u)
      <3>1. ~Stale(e, lag)
        BY <1>1, <2>1, TimesAreNumbers DEF Stale, Expired
      <3>2. globalNonceStore'[u] = e
        BY <2>4, <3>1 DEF Purge
      <3> QED
        BY <2>1, <3>2
    <2>5. CASE Tick
      <3>1. globalNonceStore'[u] = Older(e)
        BY <2>1, <2>5 DEF Tick
      <3>2. Older(e) # None
        BY <2>1, NoneIsNoEntry
      <3> QED
        BY <2>1, <3>1, <3>2
    <2>6. CASE globalNonceStore' = globalNonceStore
      BY <1>1, <2>6
    <2>7. \/ \E v \in UserIDs : Challenge(v)
          \/ \E h \in Handlers, v \in UserIDs, ip \in Texts, sig \in Signatures :
               TakeNonce(h, v, ip, sig)
          \/ \E lag \in 0..MaxLag : Purge(lag)
          \/ Tick
          \/ Restart
          \/ globalNonceStore' = globalNonceStore
      BY <1>1 DEF Next, Handler, VerifySignature, SelectOccupied, UpdateRow, DatabaseError, AddUser
    <2> QED
      BY <2>2, <2>3, <2>4, <2>5, <2>6, <2>7
  <1>2. IInv /\ [Next]_vars => [\A u \in UserIDs :
            globalNonceStore[u] # None /\ ~Expired(globalNonceStore[u]) =>
              \/ globalNonceStore'[u] # None
                 /\ globalNonceStore'[u].nonce = globalNonceStore[u].nonce
              \/ uses'[globalNonceStore[u].nonce] = uses[globalNonceStore[u].nonce] + 1
              \/ Challenge(u)
              \/ Restart]_vars
    BY <1>1
  <1> HIDE DEF Kept
  <1> QED
    BY Invariance, <1>2, PTL DEF Spec, KeptUntilExpired
=============================================================================
