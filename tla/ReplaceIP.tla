----------------------------- MODULE ReplaceIP -----------------------------
(***************************************************************************)
(* server/controlUtils.go, httpHandleReplaceIP: a user proves by signing a *)
(* nonce that it may change the address in its row of user_info_table.     *)
(*                                                                         *)
(* Phase 1 stores a nonce in globalNonceStore, in RAM; phase 2 takes it    *)
(* out again, verifies the signature, looks who has the address, and       *)
(* updates the row.  Each handler runs in a goroutine of its own; between  *)
(* the critical sections of globalNonceStoreMu and the SQL statements,     *)
(* which are no transaction, other handlers, the purge goroutine and       *)
(* gdim's addUser interleave.  A step is one critical section or one       *)
(* statement.                                                              *)
(*                                                                         *)
(* Time is the age of each nonce; it stops counting beyond what any test   *)
(* can tell apart.  A nonce is a number, in the order of issue: rand.Read  *)
(* never repeats one.  A signature is the pair of its signer and what it   *)
(* signs.  A request is answered in the step that ends its handler.        *)
(***************************************************************************)
EXTENDS Naturals

CONSTANTS
  UserIDs,      \* user_id, in requests and rows
  Texts,        \* what a request or gdim may give as an IP address
  Spellings,    \* those of them that net.ParseIP accepts
  Host,         \* [Texts -> addresses]: what each text denotes
  Handlers,     \* phase 2 requests the control server works on at a time
  None,         \* no entry in the map, no row in the table, nobody's signature
  TTL,          \* nonceTTL, in ticks
  MaxLag,       \* bound: ticks the purge waits for the lock after time.Now()
  MaxNonces     \* bound: nonces issued

ASSUME NoneIsNoUser == None \notin UserIDs
ASSUME SpellingsAreTexts == Spellings \subseteq Texts
ASSUME NoneIsNoText == None \notin Texts
ASSUME TimesAreNumbers == TTL \in Nat /\ MaxLag \in Nat /\ MaxNonces \in Nat

VARIABLES
  globalNonceStore,   \* [UserIDs -> [nonce, age] or None]
  issued,             \* how many nonces have been issued
  slept,              \* ticks the purge goroutine has slept, up to TTL
  handler,            \* the phase 2 handlers
  latest_ip,          \* the column of user_info_table, None without a row
  issuedFor,          \* ghost: the user a nonce was issued for
  uses                \* ghost: how often a nonce has been taken out to verify

vars == <<globalNonceStore, issued, slept, handler, latest_ip, issuedFor, uses>>

---------------------------------------------------------------------------

Nonces == 1..MaxNonces
Ages == 0..(TTL + MaxLag + 1)
Entries == [nonce : Nonces, age : Ages]

ASSUME NoneIsNoEntry == None \notin Entries

Signatures == [by : UserIDs \cup {None}, nonce : Nonces]

Idle == [pc |-> "idle"]
Requests == [pc : {"verify", "select", "update"}, user : UserIDs, ip : Spellings,
             nonce : Nonces, sig : Signatures]

Start(h, req) == handler' = [handler EXCEPT ![h] = req]
Goto(h, loc) == Start(h, [handler[h] EXCEPT !.pc = loc])
Reply(h) == Start(h, Idle)

Older(e) == [e EXCEPT !.age = IF e.age \in Ages /\ e.age + 1 \in Ages THEN e.age + 1 ELSE e.age]

(* Fault: any text is taken for an address.                                *)
ParsesAnything(ip) == TRUE

(* net.ParseIP(req.IPAddress) != nil                                       *)
ParseIP(ip) == ip \in Spellings

(* time.Now().After(entry.expiry)                                          *)
Expired(e) == e.age > TTL

(* Fault: the purge deletes what has not expired.                          *)
StaleInverted(e, lag) == e.age <= TTL + lag

(* Fault: the time of the next look at the clock is compared.              *)
StaleSoon(e, lag) == e.age + lag > TTL

(* now.After(entry.expiry), with a now that is lag ticks old.              *)
Stale(e, lag) == e.age > TTL + lag

(* Fault: the nonce is not deleted.                                        *)
StoreKeeping(u) == globalNonceStore

(* delete(globalNonceStore, req.UserID)                                    *)
StoreWithout(u) == [globalNonceStore EXCEPT ![u] = None]

(* Fault: any valid signature of the nonce will do.                        *)
SignedBySomebody(req) == req.sig.nonce = req.nonce /\ req.sig.by \in UserIDs

(* ed25519.Verify(pubKey, entry.val, sig), with the key of the user's row. *)
Verify(req) == req.sig = [by |-> req.user, nonce |-> req.nonce]

(* SELECT user_id ... WHERE latest_ip = $1: the texts are compared.        *)
OccupiedBy(ip) == {u \in UserIDs : latest_ip[u] = ip}

(* latest_ip BYTES NOT NULL UNIQUE: the statement fails otherwise.         *)
Unique(u, ip) == OccupiedBy(ip) \subseteq {u}

---------------------------------------------------------------------------

Init ==
  /\ globalNonceStore = [u \in UserIDs |-> None]
  /\ issued = 0
  /\ slept = 0
  /\ handler = [h \in Handlers |-> Idle]
  /\ latest_ip = [u \in UserIDs |-> None]
  /\ issuedFor = [n \in Nonces |-> None]
  /\ uses = [n \in Nonces |-> 0]

(* Phase 1: the new nonce replaces a pending one.  Nobody checks who asks, *)
(* nor that the user exists.  (A request whose address does not parse is   *)
(* refused in both phases, and changes nothing.)                           *)
Challenge(u) ==
  /\ issued < MaxNonces
  /\ issued' = issued + 1
  /\ globalNonceStore' = [globalNonceStore EXCEPT ![u] = [nonce |-> issued + 1, age |-> 0]]
  /\ issuedFor' = [issuedFor EXCEPT ![issued + 1] = u]
  /\ UNCHANGED <<slept, handler, latest_ip, uses>>

(* Phase 2 with a signature of any nonce issued so far: the pending nonce  *)
(* is taken out before the signature is looked at.  Without a pending      *)
(* nonce, or with an expired one, the request is refused and nothing       *)
(* changes.                                                                *)
TakeNonce(h, u, ip, sig) ==
  /\ handler[h] = Idle
  /\ ParseIP(ip)
  /\ sig.nonce <= issued
  /\ globalNonceStore[u] # None
  /\ ~Expired(globalNonceStore[u])
  /\ LET n == globalNonceStore[u].nonce
     IN  /\ Start(h, [pc |-> "verify", user |-> u, ip |-> ip, nonce |-> n, sig |-> sig])
         /\ uses' = [uses EXCEPT ![n] = @ + 1]
  /\ globalNonceStore' = StoreWithout(u)
  /\ UNCHANGED <<issued, slept, latest_ip, issuedFor>>

(* The signature is verified with the key of the user's row.               *)
VerifySignature(h) ==
  /\ handler[h].pc = "verify"
  /\ IF latest_ip[handler[h].user] # None /\ Verify(handler[h])
       THEN Goto(h, "select")
       ELSE Reply(h)
  /\ UNCHANGED <<globalNonceStore, issued, slept, latest_ip, issuedFor, uses>>

(* Who has the address?                                                    *)
SelectOccupied(h) ==
  /\ handler[h].pc = "select"
  /\ IF OccupiedBy(handler[h].ip) \subseteq {handler[h].user}
       THEN Goto(h, "update")
       ELSE Reply(h)
  /\ UNCHANGED <<globalNonceStore, issued, slept, latest_ip, issuedFor, uses>>

UpdateRow(h) ==
  /\ handler[h].pc = "update"
  /\ Unique(handler[h].user, handler[h].ip)
  /\ latest_ip' = [latest_ip EXCEPT ![handler[h].user] = handler[h].ip]
  /\ Reply(h)
  /\ UNCHANGED <<globalNonceStore, issued, slept, issuedFor, uses>>

(* A statement fails: the constraint, or the database is out of reach.     *)
(* (An UPDATE that the database commits before the connection breaks is    *)
(* UpdateRow; the user is told of an error.)                               *)
DatabaseError(h) ==
  /\ handler[h].pc \in {"verify", "select", "update"}
  /\ Reply(h)
  /\ UNCHANGED <<globalNonceStore, issued, slept, latest_ip, issuedFor, uses>>

---------------------------------------------------------------------------

(* server/addUser.go: INSERT, under the same constraint.  It does not look *)
(* whether the text is an address.                                         *)
AddUser(u, ip) ==
  /\ latest_ip[u] = None
  /\ Unique(u, ip)
  /\ latest_ip' = [latest_ip EXCEPT ![u] = ip]
  /\ UNCHANGED <<globalNonceStore, issued, slept, handler, issuedFor, uses>>

(* The purge goroutine, after time.Sleep(nonceTTL): it reads the clock,    *)
(* then waits for the lock.                                                *)
Purge(lag) ==
  /\ slept = TTL
  /\ slept' = 0
  /\ globalNonceStore' =
       [u \in UserIDs |->
          IF globalNonceStore[u] # None /\ Stale(globalNonceStore[u], lag)
            THEN None ELSE globalNonceStore[u]]
  /\ UNCHANGED <<issued, handler, latest_ip, issuedFor, uses>>

Tick ==
  /\ slept' = IF slept < TTL THEN slept + 1 ELSE slept
  /\ globalNonceStore' =
       [u \in UserIDs |->
          IF globalNonceStore[u] # None THEN Older(globalNonceStore[u]) ELSE None]
  /\ UNCHANGED <<issued, handler, latest_ip, issuedFor, uses>>

(* gdimd ends, at any moment, and is started again.                        *)
Restart ==
  /\ globalNonceStore' = [u \in UserIDs |-> None]
  /\ slept' = 0
  /\ handler' = [h \in Handlers |-> Idle]
  /\ UNCHANGED <<issued, latest_ip, issuedFor, uses>>

Handler(h) ==
  \/ \E u \in UserIDs, ip \in Texts, sig \in Signatures : TakeNonce(h, u, ip, sig)
  \/ VerifySignature(h)
  \/ SelectOccupied(h)
  \/ UpdateRow(h)
  \/ DatabaseError(h)

Next ==
  \/ \E u \in UserIDs : Challenge(u)
  \/ \E h \in Handlers : Handler(h)
  \/ \E u \in UserIDs, ip \in Texts : AddUser(u, ip)
  \/ \E lag \in 0..MaxLag : Purge(lag)
  \/ Tick
  \/ Restart

Spec == Init /\ [][Next]_vars

(* Time passes, and the purge goroutine wakes up and gets the lock: no     *)
(* critical section of globalNonceStoreMu blocks.                          *)
FairSpec == Spec /\ WF_vars(Tick) /\ WF_vars(\E lag \in 0..MaxLag : Purge(lag))

---------------------------------------------------------------------------
(* Properties.                                                             *)

(* Types of the store, of the handlers and of the column.  A handler that  *)
(* has taken a nonce works on a text that denotes an address               *)
(* (controlUtils.go:69-77, 87-91, 128).                                    *)
TypeOK ==
  /\ globalNonceStore \in [UserIDs -> Entries \cup {None}]
  /\ issued \in 0..MaxNonces
  /\ slept \in 0..TTL
  /\ handler \in [Handlers -> Requests \cup {Idle}]
  /\ latest_ip \in [UserIDs -> Texts \cup {None}]
  /\ issuedFor \in [Nonces -> UserIDs \cup {None}]
  /\ uses \in [Nonces -> Nat]

(* "A nonce is single-use": no two requests are ever verified against the  *)
(* same nonce, whether they run at the same time, one after the other, or  *)
(* with a restart in between (controlUtils.go:85, 149-157).                *)
SingleUse == \A n \in Nonces : uses[n] <= 1

(* A row, once there, changes only through a request that carries its      *)
(* user's signature of a nonce that was issued for this user               *)
(* (controlUtils.go:165-173, 185).                                         *)
ChangedByOwner ==
  [][\A u \in UserIDs :
       latest_ip[u] # None /\ latest_ip'[u] # latest_ip[u] =>
         \E h \in Handlers :
           /\ handler[h].pc = "update"
           /\ handler[h].user = u
           /\ handler[h].sig = [by |-> u, nonce |-> handler[h].nonce]
           /\ issuedFor[handler[h].nonce] = u
           /\ latest_ip'[u] = handler[h].ip]_vars

(* A nonce that has not expired leaves the store in no other way than that *)
(* a request takes it out, a new challenge of its user replaces it, or     *)
(* the process ends: no purge, however long it waited for the lock, and no *)
(* other user's request makes an answer in time fail                       *)
(* (controlUtils.go:103-115, 141, 150-156).                                *)
KeptUntilExpired ==
  [][\A u \in UserIDs :
       globalNonceStore[u] # None /\ ~Expired(globalNonceStore[u]) =>
         \/ globalNonceStore'[u] # None /\ globalNonceStore'[u].nonce = globalNonceStore[u].nonce
         \/ uses'[globalNonceStore[u].nonce] = uses[globalNonceStore[u].nonce] + 1
         \/ Challenge(u)
         \/ Restart]_vars

(* "Apply the update only when the requested IP is available"              *)
(* (controlUtils.go:175): when a row is updated, no other row holds the    *)
(* address that the request names.  The code compares texts, so this does  *)
(* not hold: ReplaceIPAvailable.cfg shows it.                              *)
UpdatesAvailable ==
  [][\A u \in UserIDs :
       latest_ip[u] # None /\ latest_ip'[u] # latest_ip[u] =>
         \A v \in UserIDs \ {u} :
           latest_ip[v] # None => Host[latest_ip[v]] # Host[latest_ip'[u]]]_vars

(* "It expires after 30 seconds": an expired nonce does not stay in the    *)
(* store for ever (controlUtils.go:85, 102-115).                           *)
NoncesPurged ==
  \A u \in UserIDs :
    globalNonceStore[u] # None /\ Expired(globalNonceStore[u]) ~>
      globalNonceStore[u] = None \/ ~Expired(globalNonceStore[u])
=============================================================================
