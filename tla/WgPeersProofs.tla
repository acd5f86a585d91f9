--------------------------- MODULE WgPeersProofs ---------------------------
(***************************************************************************)
(* Theorems about WgPeers, for any servers, users, texts and number of     *)
(* concurrent updates, whether or not a key is in both tables.             *)
(***************************************************************************)
EXTENDS WgPeers, TLAPS

(* No two configs of one table have the same key or the same address.      *)
Distinct(configs) ==
  \A p, q \in configs : p.table = q.table /\ (p.key = q.key \/ p.ip = q.ip) => p = q

(* The rows of one table have different addresses.                         *)
AddressesUnique ==
  /\ \A s, t \in Servers : privip[s] # None /\ privip[s] = privip[t] => s = t
  /\ \A u, v \in Users : latest_ip[u] # None /\ latest_ip[u] = latest_ip[v] => u = v

(* The daemon's call works on a device that is there.                      *)
DaemonHasDevice == call[Daemon] # Idle => wg0 # None

(* Between the two queries a call holds servers only; what it holds it has *)
(* seen, and it has seen all that is there now.  What is steady is there   *)
(* now, and unless a row was missed the call holds the servers among it.   *)
BetweenQueries(c) ==
  /\ call[c].configs \subseteq ServerConfigs
  /\ Distinct(call[c].configs)
  /\ call[c].configs \subseteq seen[c]
  /\ Rows(privip, latest_ip) \subseteq seen[c]
  /\ steady[c] \subseteq Rows(privip, latest_ip)
  /\ ~cut[c] => steady[c] \cap ServerConfigs \subseteq call[c].configs

(* After both queries a call holds a list that is distinct, that it has    *)
(* seen, and that has whatever was steady unless a row was missed.         *)
AfterQueries(c) ==
  /\ Distinct(call[c].configs)
  /\ call[c].configs \subseteq seen[c]
  /\ ~cut[c] => steady[c] \subseteq call[c].configs

CallsRead ==
  \A c \in Callers :
    /\ call[c].pc = "users" => BetweenQueries(c)
    /\ call[c].pc = "configure" => AfterQueries(c)

IInv ==
  /\ TypeOK
  /\ AddressesUnique
  /\ DaemonHasDevice
  /\ CallsRead

---------------------------------------------------------------------------
(* Facts about rows, and about what the device makes of a list.            *)

LEMMA RowsAreConfigs ==
  ASSUME NEW privips \in [Servers -> PrivateIPs \cup {None}],
         NEW ips \in [Users -> Texts \cup {None}]
  PROVE  /\ ServerRows(privips) \subseteq ServerConfigs
         /\ UserRows(ips) \subseteq UserConfigs
         /\ Rows(privips, ips) \subseteq Configs
         /\ Rows(privips, ips) \cap ServerConfigs \subseteq ServerRows(privips)
  BY DEF ServerRows, UserRows, Rows, Configs, ServerConfigs, UserConfigs

(* The rows of one query are distinct, and so are servers' rows together   *)
(* with users' rows.                                                       *)
LEMMA RowsDistinct ==
  ASSUME NEW privips \in [Servers -> PrivateIPs \cup {None}],
         NEW ips \in [Users -> Texts \cup {None}],
         \A s, t \in Servers : privips[s] # None /\ privips[s] = privips[t] => s = t,
         \A u, v \in Users : ips[u] # None /\ ips[u] = ips[v] => u = v
  PROVE  Distinct(ServerRows(privips)) /\ Distinct(UserRows(ips))
  <1>1. \A r \in ServerRows(privips) :
          \E s \in Servers : r = [table |-> "server", key |-> s, ip |-> privips[s]]
                             /\ privips[s] # None
    BY DEF ServerRows
  <1>2. \A r \in UserRows(ips) :
          \E u \in Users : r = [table |-> "user", key |-> u, ip |-> ips[u]] /\ ips[u] # None
    BY LocalAndSpellingsAreTexts, NoneIsNothing DEF UserRows
  <1>3. Distinct(ServerRows(privips))
    BY <1>1 DEF Distinct
  <1>4. Distinct(UserRows(ips))
    BY <1>2 DEF Distinct
  <1> QED
    BY <1>3, <1>4

LEMMA DistinctTogether ==
  ASSUME NEW S \in SUBSET ServerConfigs, NEW U \in SUBSET UserConfigs, Distinct(S), Distinct(U)
  PROVE  Distinct(S \cup U)
  <1>1. (\A p \in S : p.table = "server") /\ (\A p \in U : p.table = "user")
    BY DEF ServerConfigs, UserConfigs
  <1> QED
    BY <1>1 DEF Distinct

(* The device has a peer for every config, and an address belongs to the   *)
(* key of a config.                                                        *)
LEMMA InstalledHasOwners ==
  ASSUME NEW configs \in SUBSET Configs
  PROVE  /\ Installed(configs).peers = {p.key : p \in configs}
         /\ Installed(configs).peers \subseteq Keys
         /\ Installed(configs).allowed \in [Spellings -> Keys \cup {None}]
         /\ \A a \in Spellings :
              Installed(configs).allowed[a] # None =>
                \E p \in configs : p.key = Installed(configs).allowed[a] /\ p.ip = a
  <1> DEFINE owners(a) == {p.key : p \in {q \in configs : q.ip = a /\ ~Overridden(q, configs)}}
             allowed == [a \in Spellings |->
                          IF owners(a) = {} THEN None ELSE CHOOSE k \in owners(a) : TRUE]
  <1>1. Installed(configs) = [peers |-> {p.key : p \in configs}, allowed |-> allowed]
    BY DEF Installed
  <1>2. \A p \in configs : p.key \in Keys
    BY DEF Configs, ServerConfigs, UserConfigs, Keys
  <1>3. \A a \in Spellings : owners(a) \subseteq Keys
    BY <1>2
  <1>4. \A a \in Spellings :
          \/ allowed[a] = None
          \/ allowed[a] \in owners(a)
    OBVIOUS
  <1>5. \A a \in Spellings : \A k \in owners(a) : \E p \in configs : p.key = k /\ p.ip = a
    OBVIOUS
  <1>6. allowed \in [Spellings -> Keys \cup {None}]
    <2>1. \A a \in Spellings : allowed[a] \in Keys \cup {None}
      BY <1>3, <1>4
    <2>2. allowed = [a \in Spellings |-> allowed[a]]
      OBVIOUS
    <2> HIDE DEF allowed
    <2> QED
      BY <2>1, <2>2
  <1> HIDE DEF allowed, owners
  <1> QED
    BY <1>1, <1>2, <1>4, <1>5, <1>6

(* An address belongs to the key of a config that is not overridden.       *)
LEMMA InstalledGivesAddress ==
  ASSUME NEW configs \in SUBSET Configs, Distinct(configs),
         NEW p \in configs, p.ip \in Spellings, ~Overridden(p, configs)
  PROVE  Installed(configs).allowed[p.ip] = p.key
  <1> DEFINE mine == {q \in configs : q.ip = p.ip /\ ~Overridden(q, configs)}
             owners == {q.key : q \in mine}
  <1>1. \A q \in configs : q.table \in {"server", "user"}
    BY DEF Configs, ServerConfigs, UserConfigs
  <1>2. ASSUME NEW q \in mine PROVE q = p
    <2>1. CASE q.table = p.table
      BY <2>1 DEF Distinct
    <2>2. CASE q.table # p.table
      BY <1>1, <2>2 DEF Overridden, Later
    <2> QED
      BY <2>1, <2>2
  <1>3. mine = {p}
    BY <1>2
  <1>4. owners = {p.key}
    BY <1>3
  <1>5. Installed(configs).allowed[p.ip] =
          IF owners = {} THEN None ELSE CHOOSE k \in owners : TRUE
    BY DEF Installed
  <1> HIDE DEF owners
  <1> QED
    BY <1>4, <1>5

(* What a call holds, by its program location.                             *)
LEMMA CallTypes ==
  ASSUME TypeOK, NEW c \in Callers
  PROVE  /\ call[c].pc = "servers" => call[c].settings \in Settings
         /\ call[c].pc \in {"users", "configure"} =>
              /\ call[c].settings \in Settings
              /\ call[c].configs \in SUBSET Configs
  BY DEF TypeOK, Calls, Idle

---------------------------------------------------------------------------

LEMMA InitIInv == Init => IInv
  <1> SUFFICES ASSUME Init PROVE IInv
    OBVIOUS
  <1>1. TypeOK
    BY MaxStartsIsNumber DEF Init, TypeOK
  <1>2. AddressesUnique /\ DaemonHasDevice
    BY DEF Init, AddressesUnique, DaemonHasDevice, Callers
  <1>3. CallsRead
    BY DEF Init, CallsRead, Idle
  <1> QED
    BY <1>1, <1>2, <1>3 DEF IInv

(* A step of the database leaves the device and the calls alone.           *)
LEMMA CommitStep ==
  ASSUME IInv,
         NEW privips \in [Servers -> PrivateIPs \cup {None}],
         NEW ips \in [Users -> Texts \cup {None}],
         \A s, t \in Servers : privips[s] # None /\ privips[s] = privips[t] => s = t,
         \A u, v \in Users : ips[u] # None /\ ips[u] = ips[v] => u = v,
         Commit(privips, ips)
  PROVE  IInv'
  <1> USE DEF Commit
  <1> DEFINE now == Rows(privips, ips)
  <1>0. TypeOK /\ now \subseteq Configs
    BY RowsAreConfigs DEF IInv
  <1> HIDE DEF now
  <1>1. /\ steady' = [c \in Callers |->
             IF call[c].pc = "users" THEN steady[c] \cap now ELSE steady[c]]
        /\ seen' = [c \in Callers |->
             IF call[c].pc = "users" THEN seen[c] \cup now ELSE seen[c]]
        /\ UNCHANGED <<wg0, starts, call, cut>>
        /\ privip' = privips /\ latest_ip' = ips
    BY DEF now
  <1>2. TypeOK'
    <2>1. steady' \in [Callers -> SUBSET Configs] /\ seen' \in [Callers -> SUBSET Configs]
      BY <1>0, <1>1 DEF TypeOK
    <2> QED
      BY <1>0, <1>1, <2>1 DEF TypeOK
  <1>3. AddressesUnique' /\ DaemonHasDevice'
    BY <1>1 DEF IInv, AddressesUnique, DaemonHasDevice
  <1>4. ASSUME NEW c \in Callers, call'[c].pc = "users" PROVE BetweenQueries(c)'
    <2>1. BetweenQueries(c) /\ call'[c] = call[c] /\ cut'[c] = cut[c]
      BY <1>1, <1>4 DEF IInv, CallsRead
    <2>2. Rows(privip, latest_ip)' = now
      BY <1>1 DEF now
    <2>3. steady'[c] = steady[c] \cap now /\ seen'[c] = seen[c] \cup now
      BY <1>1, <1>4
    <2>4. ServerConfigs' = ServerConfigs
      BY DEF ServerConfigs
    <2> QED
      BY <2>1, <2>2, <2>3, <2>4 DEF BetweenQueries, Distinct
  <1>5. ASSUME NEW c \in Callers, call'[c].pc = "configure" PROVE AfterQueries(c)'
    <2>1. AfterQueries(c) /\ call'[c] = call[c] /\ cut'[c] = cut[c]
      BY <1>1, <1>5 DEF IInv, CallsRead
    <2>2. steady'[c] = steady[c] /\ seen'[c] = seen[c]
      BY <1>1, <1>5
    <2> QED
      BY <2>1, <2>2 DEF AfterQueries, Distinct
  <1> QED
    BY <1>2, <1>3, <1>4, <1>5 DEF IInv, CallsRead

LEMMA DatabaseStep ==
  ASSUME IInv,
         \/ \E s \in Servers, ip \in PrivateIPs : AddServer(s, ip)
         \/ \E u \in Users, ip \in Texts : AddUser(u, ip) \/ ReplaceIP(u, ip)
  PROVE  IInv'
  <1>0. /\ privip \in [Servers -> PrivateIPs \cup {None}]
        /\ latest_ip \in [Users -> Texts \cup {None}]
        /\ \A s, t \in Servers : privip[s] # None /\ privip[s] = privip[t] => s = t
        /\ \A u, v \in Users : latest_ip[u] # None /\ latest_ip[u] = latest_ip[v] => u = v
    BY DEF IInv, TypeOK, AddressesUnique
  <1>1. ASSUME NEW s \in Servers, NEW ip \in PrivateIPs, AddServer(s, ip) PROVE IInv'
    <2> DEFINE privips == [privip EXCEPT ![s] = ip]
    <2>1. Commit(privips, latest_ip) /\ \A t \in Servers : privip[t] # ip
      BY <1>1 DEF AddServer
    <2>2. privips \in [Servers -> PrivateIPs \cup {None}]
      BY <1>0
    <2>3. \A t, v \in Servers : privips[t] # None /\ privips[t] = privips[v] => t = v
      BY <1>0, <2>1
    <2> HIDE DEF privips
    <2> QED
      BY <1>0, <2>1, <2>2, <2>3, CommitStep
  <1>2. ASSUME NEW u \in Users, NEW ip \in Texts, AddUser(u, ip) \/ ReplaceIP(u, ip)
        PROVE  IInv'
    <2> DEFINE ips == [latest_ip EXCEPT ![u] = ip]
    <2>1. Commit(privip, ips) /\ \A v \in Users \ {u} : latest_ip[v] # ip
      BY <1>2 DEF AddUser, ReplaceIP, Unique
    <2>2. ips \in [Users -> Texts \cup {None}]
      BY <1>0
    <2>3. \A v, w \in Users : ips[v] # None /\ ips[v] = ips[w] => v = w
      BY <1>0, <2>1
    <2> HIDE DEF ips
    <2> QED
      BY <1>0, <2>1, <2>2, <2>3, CommitStep
  <1> QED
    BY <1>1, <1>2

(* A call goes to a location at which it holds nothing, or ends: nothing   *)
(* but the device and the number of starts changes with it.                *)
LEMMA HoldingNothing ==
  ASSUME IInv, NEW c \in Callers,
         NEW next \in [pc : {"setup", "device"}] \cup [pc : {"servers"}, settings : Settings] \cup {Idle},
         call' = [call EXCEPT ![c] = next],
         UNCHANGED database,
         steady' \in [Callers -> SUBSET Configs],
         seen' \in [Callers -> SUBSET Configs],
         cut' \in [Callers -> BOOLEAN],
         \A e \in Callers \ {c} : steady'[e] = steady[e] /\ seen'[e] = seen[e] /\ cut'[e] = cut[e],
         wg0' \in Device \cup {None}, starts' \in 0..MaxStarts,
         wg0' = None => wg0 = None \/ next = Idle,
         c = Daemon /\ next # Idle => wg0' # None,
         c # Daemon => (wg0' = None <=> wg0 = None)
  PROVE  IInv'
  <1>0. TypeOK /\ next.pc \notin {"users", "configure"}
    BY DEF IInv, Idle
  <1>1. TypeOK'
    BY <1>0 DEF TypeOK, Calls, database
  <1>2. AddressesUnique'
    BY DEF IInv, AddressesUnique, database
  <1>3. DaemonHasDevice'
    BY <1>0 DEF IInv, TypeOK, DaemonHasDevice, Callers
  <1>4. CallsRead'
    <2> SUFFICES ASSUME NEW e \in Callers
                 PROVE  /\ call'[e].pc = "users" => BetweenQueries(e)'
                        /\ call'[e].pc = "configure" => AfterQueries(e)'
      BY DEF CallsRead
    <2>1. CASE e = c
      BY <1>0, <2>1 DEF TypeOK
    <2>2. CASE e # c
      <3>1. /\ call'[e] = call[e] /\ steady'[e] = steady[e] /\ seen'[e] = seen[e]
            /\ cut'[e] = cut[e] /\ privip' = privip /\ latest_ip' = latest_ip
        BY <1>0, <2>2 DEF TypeOK, database
      <3>2. /\ call[e].pc = "users" => BetweenQueries(e)
            /\ call[e].pc = "configure" => AfterQueries(e)
        BY DEF IInv, CallsRead
      <3> QED
        BY <3>1, <3>2 DEF BetweenQueries, AfterQueries, Distinct, Rows, ServerRows, UserRows
    <2> QED
      BY <2>1, <2>2
  <1> QED
    BY <1>1, <1>2, <1>3, <1>4 DEF IInv

LEMMA EndStep ==
  ASSUME IInv, NEW c \in Callers, End(c), UNCHANGED <<database, starts>>,
         wg0' \in Device \cup {None},
         c # Daemon => (wg0' = None <=> wg0 = None)
  PROVE  IInv'
  <1>0. TypeOK
    BY DEF IInv
  <1>1. /\ steady' \in [Callers -> SUBSET Configs]
        /\ seen' \in [Callers -> SUBSET Configs]
        /\ cut' \in [Callers -> BOOLEAN]
        /\ \A e \in Callers \ {c} : steady'[e] = steady[e] /\ seen'[e] = seen[e] /\ cut'[e] = cut[e]
    BY <1>0 DEF End, TypeOK
  <1>2. call' = [call EXCEPT ![c] = Idle] /\ starts' \in 0..MaxStarts /\ UNCHANGED database
    BY <1>0 DEF End, Set, TypeOK
  <1> QED
    BY <1>1, <1>2, HoldingNothing

LEMMA InterfaceStep ==
  ASSUME IInv, CreateWG0 \/ SetupWG0Linux \/ DaemonEnds \/ \E c \in Commands : StartCommand(c)
  PROVE  IInv'
  <1>0. /\ Daemon \in Callers /\ TypeOK
        /\ steady \in [Callers -> SUBSET Configs]
        /\ seen \in [Callers -> SUBSET Configs]
        /\ cut \in [Callers -> BOOLEAN]
        /\ starts \in 0..MaxStarts
    BY DEF Callers, IInv, TypeOK
  <1>1. CASE CreateWG0
    <2>1. starts' \in 0..MaxStarts /\ starts + 1 \in Settings
      BY <1>0, <1>1, MaxStartsIsNumber DEF CreateWG0, Settings
    <2>2. wg0' = [settings |-> starts + 1, addressed |-> FALSE,
                  peers |-> {}, allowed |-> [a \in Spellings |-> None]]
      BY <1>1 DEF CreateWG0, NoPeers
    <2>3. wg0' \in Device /\ wg0' # None
      <3>1. [a \in Spellings |-> None] \in [Spellings -> Keys \cup {None}]
        OBVIOUS
      <3>2. wg0' \in Device
        BY <2>1, <2>2, <3>1 DEF Device
      <3> QED
        BY <3>2, NoneIsNoDevice
    <2>4. /\ call' = [call EXCEPT ![Daemon] = [pc |-> "setup"]]
          /\ UNCHANGED database /\ UNCHANGED ghosts
      BY <1>1 DEF CreateWG0, Set
    <2> QED
      BY <1>0, <2>1, <2>3, <2>4, HoldingNothing DEF ghosts
  <1>2. CASE SetupWG0Linux
    <2>1. wg0 \in Device
      BY <1>0, <1>2 DEF SetupWG0Linux, IInv, TypeOK, DaemonHasDevice, Idle
    <2>2. wg0' \in Device /\ wg0' # None
      BY <1>2, <2>1, NoneIsNoDevice DEF SetupWG0Linux, Device
    <2>3. /\ call' = [call EXCEPT ![Daemon] = [pc |-> "device"]]
          /\ UNCHANGED database /\ UNCHANGED ghosts /\ UNCHANGED starts
      BY <1>2 DEF SetupWG0Linux, Set
    <2> QED
      BY <1>0, <2>2, <2>3, HoldingNothing DEF ghosts
  <1>3. CASE DaemonEnds
    BY <1>0, <1>3, EndStep DEF DaemonEnds
  <1>4. ASSUME NEW c \in Commands, StartCommand(c) PROVE IInv'
    <2>1. /\ call' = [call EXCEPT ![c] = [pc |-> "device"]]
          /\ UNCHANGED database /\ UNCHANGED ghosts /\ UNCHANGED starts /\ UNCHANGED wg0
      BY <1>4 DEF StartCommand, Set
    <2>2. c \in Callers /\ c # Daemon /\ wg0' \in Device \cup {None}
      BY <1>0, <2>1, DaemonIsNoCommand DEF Callers, TypeOK
    <2> QED
      BY <1>0, <2>1, <2>2, HoldingNothing DEF ghosts
  <1> QED
    BY <1>1, <1>2, <1>3, <1>4

LEMMA ReadDeviceStep ==
  ASSUME IInv, NEW c \in Callers, ReadDevice(c)
  PROVE  IInv'
  <1>1. TypeOK /\ wg0 # None /\ wg0 \in Device
    BY DEF ReadDevice, IInv, TypeOK
  <1>2. /\ call' = [call EXCEPT ![c] = [pc |-> "servers", settings |-> wg0.settings]]
        /\ UNCHANGED database /\ UNCHANGED ghosts /\ UNCHANGED starts /\ UNCHANGED wg0
    BY DEF ReadDevice, Set
  <1>3. wg0.settings \in Settings
    BY <1>1 DEF Device
  <1> DEFINE next == [pc |-> "servers", settings |-> wg0.settings]
  <1>4. next \in [pc : {"servers"}, settings : Settings]
    BY <1>3
  <1>5. call' = [call EXCEPT ![c] = next]
    BY <1>2
  <1> HIDE DEF next
  <1> QED
    BY <1>1, <1>2, <1>4, <1>5, HoldingNothing DEF ghosts, TypeOK

(* A call holds what it has read; the database, the device and the other   *)
(* calls stay as they are.                                                 *)
LEMMA HoldingConfigs ==
  ASSUME IInv, NEW c \in Callers, NEW pc \in {"users", "configure"},
         NEW configs \in SUBSET Configs, call[c].settings \in Settings,
         call[c] # Idle,
         call' = [call EXCEPT ![c] = [pc |-> pc, settings |-> call[c].settings,
                                      configs |-> configs]],
         UNCHANGED <<privip, latest_ip, wg0, starts>>,
         steady' \in [Callers -> SUBSET Configs],
         seen' \in [Callers -> SUBSET Configs],
         cut' \in [Callers -> BOOLEAN],
         \A e \in Callers \ {c} : steady'[e] = steady[e] /\ seen'[e] = seen[e] /\ cut'[e] = cut[e],
         pc = "users" => BetweenQueries(c)',
         pc = "configure" => AfterQueries(c)'
  PROVE  IInv'
  <1>0. TypeOK
    BY DEF IInv
  <1>1. TypeOK'
    BY <1>0 DEF TypeOK, Calls
  <1>2. AddressesUnique' /\ DaemonHasDevice'
    BY <1>0 DEF IInv, TypeOK, AddressesUnique, DaemonHasDevice, Callers
  <1>3. CallsRead'
    <2> SUFFICES ASSUME NEW e \in Callers
                 PROVE  /\ call'[e].pc = "users" => BetweenQueries(e)'
                        /\ call'[e].pc = "configure" => AfterQueries(e)'
      BY DEF CallsRead
    <2>1. CASE e = c
      BY <1>0, <2>1 DEF TypeOK
    <2>2. CASE e # c
      <3>1. /\ call'[e] = call[e] /\ steady'[e] = steady[e] /\ seen'[e] = seen[e]
            /\ cut'[e] = cut[e] /\ privip' = privip /\ latest_ip' = latest_ip
        BY <1>0, <2>2 DEF TypeOK
      <3>2. /\ call[e].pc = "users" => BetweenQueries(e)
            /\ call[e].pc = "configure" => AfterQueries(e)
        BY DEF IInv, CallsRead
      <3> QED
        BY <3>1, <3>2 DEF BetweenQueries, AfterQueries, Distinct, Rows, ServerRows, UserRows
    <2> QED
      BY <2>1, <2>2
  <1> QED
    BY <1>1, <1>2, <1>3 DEF IInv

LEMMA ReadServersStep ==
  ASSUME IInv, NEW c \in Callers, ReadServers(c)
  PROVE  IInv'
  <1>0. TypeOK /\ call[c].pc = "servers" /\ call[c].settings \in Settings /\ call[c] # Idle
    BY CallTypes DEF IInv, ReadServers, Idle
  <1>1. PICK got \in SUBSET ServerRows(privip) :
          /\ ReadRows(c, ServerRows(privip), got)
          /\ call' = [call EXCEPT ![c] = [pc |-> "users", settings |-> call[c].settings,
                                          configs |-> got]]
    BY DEF ReadServers, Set
  <1>2. /\ UNCHANGED <<privip, latest_ip, wg0, starts>>
        /\ cut' = [cut EXCEPT ![c] = @ \/ got # ServerRows(privip)]
        /\ steady' = [steady EXCEPT ![c] = Rows(privip, latest_ip)]
        /\ seen' = [seen EXCEPT ![c] = Rows(privip, latest_ip)]
    BY <1>1 DEF ReadServers, ReadRows, database
  <1>3. /\ got \subseteq ServerConfigs /\ got \subseteq Configs
        /\ got \subseteq Rows(privip, latest_ip)
        /\ Rows(privip, latest_ip) \subseteq Configs
        /\ Rows(privip, latest_ip) \cap ServerConfigs \subseteq ServerRows(privip)
        /\ Distinct(got)
    <2>1. Distinct(ServerRows(privip))
      BY <1>0, RowsDistinct DEF IInv, AddressesUnique, TypeOK
    <2> QED
      BY <1>0, <2>1, RowsAreConfigs DEF TypeOK, Rows, Configs, Distinct
  <1>4. /\ steady' \in [Callers -> SUBSET Configs]
        /\ seen' \in [Callers -> SUBSET Configs]
        /\ cut' \in [Callers -> BOOLEAN]
        /\ \A e \in Callers \ {c} : steady'[e] = steady[e] /\ seen'[e] = seen[e] /\ cut'[e] = cut[e]
    BY <1>0, <1>2, <1>3 DEF TypeOK
  <1>5. BetweenQueries(c)'
    <2>1. call'[c].configs = got /\ Rows(privip, latest_ip)' = Rows(privip, latest_ip)
      BY <1>0, <1>1, <1>2 DEF TypeOK, Rows, ServerRows, UserRows
    <2>2. /\ steady'[c] = Rows(privip, latest_ip) /\ seen'[c] = Rows(privip, latest_ip)
          /\ ~cut'[c] => got = ServerRows(privip)
      BY <1>0, <1>2 DEF TypeOK
    <2> QED
      BY <1>3, <2>1, <2>2 DEF BetweenQueries, Distinct
  <1> QED
    BY <1>0, <1>1, <1>2, <1>3, <1>4, <1>5, HoldingConfigs

LEMMA ReadUsersStep ==
  ASSUME IInv, NEW c \in Callers, ReadUsers(c)
  PROVE  IInv'
  <1>0. /\ TypeOK /\ call[c].pc = "users" /\ call[c].settings \in Settings /\ call[c] # Idle
        /\ call[c].configs \in SUBSET Configs /\ BetweenQueries(c)
    BY CallTypes DEF IInv, ReadUsers, Idle, CallsRead
  <1>1. PICK got \in SUBSET UserRows(latest_ip) :
          /\ ReadRows(c, UserRows(latest_ip), got)
          /\ call' = [call EXCEPT ![c] = [pc |-> "configure", settings |-> call[c].settings,
                                          configs |-> call[c].configs \cup got]]
          /\ seen' = [seen EXCEPT ![c] = @ \cap (call[c].configs \cup got)]
    BY DEF ReadUsers, Set, Appended
  <1>2. /\ UNCHANGED <<privip, latest_ip, wg0, starts>> /\ UNCHANGED steady
        /\ cut' = [cut EXCEPT ![c] = @ \/ got # UserRows(latest_ip)]
    BY <1>1 DEF ReadUsers, ReadRows, database
  <1> DEFINE all == call[c].configs \cup got
  <1>3. /\ got \subseteq UserConfigs /\ all \subseteq Configs
        /\ got \subseteq Rows(privip, latest_ip)
        /\ Distinct(got)
    <2>1. Distinct(UserRows(latest_ip))
      BY <1>0, RowsDistinct DEF IInv, AddressesUnique, TypeOK
    <2> QED
      BY <1>0, <2>1, RowsAreConfigs DEF TypeOK, Rows, Configs, Distinct
  <1>4. Distinct(all)
    BY <1>0, <1>3, DistinctTogether DEF BetweenQueries
  <1>5. ~cut'[c] => steady[c] \subseteq all
    <2>1. ~cut'[c] => ~cut[c] /\ got = UserRows(latest_ip)
      BY <1>0, <1>2 DEF TypeOK
    <2>2. Rows(privip, latest_ip) \subseteq ServerConfigs \cup UserRows(latest_ip)
      BY <1>0, RowsAreConfigs DEF TypeOK, Rows
    <2> QED
      BY <1>0, <2>1, <2>2 DEF BetweenQueries
  <1>6. all \subseteq seen[c]
    BY <1>0, <1>3 DEF BetweenQueries
  <1>7. /\ cut' \in [Callers -> BOOLEAN] /\ \A e \in Callers \ {c} : cut'[e] = cut[e]
        /\ seen' \in [Callers -> SUBSET Configs] /\ \A e \in Callers \ {c} : seen'[e] = seen[e]
        /\ all \subseteq seen'[c]
    BY <1>0, <1>1, <1>2, <1>6 DEF TypeOK
  <1>8. call' = [call EXCEPT ![c] = [pc |-> "configure", settings |-> call[c].settings,
                                     configs |-> all]]
    BY <1>1
  <1> HIDE DEF all
  <1>9. AfterQueries(c)'
    <2>1. call'[c].configs = all
      BY <1>0, <1>8 DEF TypeOK
    <2> QED
      BY <1>2, <1>4, <1>5, <1>7, <2>1 DEF AfterQueries, Distinct
  <1> QED
    BY <1>0, <1>2, <1>3, <1>7, <1>8, <1>9, HoldingConfigs DEF TypeOK

(* What the device becomes in the step that configures it.                 *)
LEMMA Configured ==
  ASSUME IInv, NEW c \in Callers, ConfigureDevice(c)
  PROVE  \E done \in SUBSET call[c].configs :
           /\ done \in SUBSET Configs
           /\ WorkedThrough(call[c].configs, done)
           /\ AfterQueries(c)
           /\ wg0' \in Device /\ wg0' # None /\ wg0 # None
           /\ wg0'.peers = Installed(done).peers
           /\ wg0'.allowed = Installed(done).allowed
  <1>1. PICK done \in SUBSET call[c].configs :
          /\ WorkedThrough(call[c].configs, done)
          /\ wg0' = [wg0 EXCEPT !.settings = call[c].settings,
                                !.peers = Installed(done).peers,
                                !.allowed = Installed(done).allowed]
    BY DEF ConfigureDevice, Replaced
  <1>2. /\ call[c].settings \in Settings
        /\ call[c].configs \in SUBSET Configs
        /\ AfterQueries(c)
        /\ wg0 \in Device /\ wg0 # None
    BY CallTypes DEF ConfigureDevice, IInv, TypeOK, CallsRead
  <1>3. done \in SUBSET Configs
    BY <1>2
  <1>4. /\ Installed(done).peers \in SUBSET Keys
        /\ Installed(done).allowed \in [Spellings -> Keys \cup {None}]
    BY <1>3, InstalledHasOwners
  <1>5. /\ wg0' \in Device
        /\ wg0'.peers = Installed(done).peers
        /\ wg0'.allowed = Installed(done).allowed
    BY <1>1, <1>2, <1>4 DEF Device
  <1> QED
    BY <1>1, <1>2, <1>3, <1>5, NoneIsNoDevice

LEMMA ConfigureStep ==
  ASSUME IInv, NEW c \in Callers, ConfigureDevice(c)
  PROVE  IInv'
  <1>1. wg0' \in Device /\ wg0' # None /\ wg0 # None
    BY Configured
  <1>2. End(c) /\ UNCHANGED <<database, starts>>
    BY DEF ConfigureDevice
  <1> QED
    BY <1>1, <1>2, EndStep

LEMMA NextStep == IInv /\ [Next]_vars => IInv'
  <1> SUFFICES ASSUME IInv, [Next]_vars PROVE IInv'
    OBVIOUS
  <1>1. CASE UNCHANGED vars
    BY <1>1 DEF vars, IInv, TypeOK, AddressesUnique, DaemonHasDevice, CallsRead,
                BetweenQueries, AfterQueries, Distinct
  <1>2. ASSUME NEW c \in Callers, ReturnError(c) PROVE IInv'
    BY <1>2, EndStep DEF ReturnError, IInv, TypeOK
  <1>3. CASE Next
    BY <1>2, <1>3, DatabaseStep, InterfaceStep, ReadDeviceStep, ReadServersStep, ReadUsersStep,
       ConfigureStep DEF Next, UpdateConnection
  <1> QED
    BY <1>1, <1>3

(* The inductive invariant: how an update stands to the database it reads. *)
THEOREM Invariance == Spec => []IInv
  BY InitIInv, NextStep, PTL DEF Spec

(* The types of the tables, of the device and of the calls.                *)
THEOREM TypeCorrect == Spec => []TypeOK
  <1>1. IInv => TypeOK
    BY DEF IInv
  <1> QED
    BY Invariance, <1>1, PTL

(* An update that is not cut short installs every row that was in the      *)
(* database throughout; only a user with its key or its address takes a    *)
(* server's address from it.                                               *)
THEOREM NoRowLeftOut == Spec => SteadyRowsInstalled
  <1> DEFINE Complete(c) == ~cut[c] /\ Configurable(call[c].configs) = call[c].configs
             InPlace(c) == \A r \in steady[c] :
                             /\ r.key \in wg0'.peers
                             /\ wg0'.allowed[r.ip] = r.key \/ Overridden(r, call[c].configs)
  <1>1. ASSUME IInv, NEW c \in Callers, ConfigureDevice(c), Complete(c)
        PROVE  InPlace(c)
    <2>1. /\ call[c].configs \in SUBSET Configs
          /\ Distinct(call[c].configs)
          /\ steady[c] \subseteq call[c].configs
          /\ \A p \in call[c].configs : p.ip \in Spellings
          /\ wg0'.peers = Installed(call[c].configs).peers
          /\ wg0'.allowed = Installed(call[c].configs).allowed
      <3>1. PICK done \in SUBSET call[c].configs :
              /\ WorkedThrough(call[c].configs, done)
              /\ AfterQueries(c)
              /\ wg0'.peers = Installed(done).peers
              /\ wg0'.allowed = Installed(done).allowed
        BY <1>1, Configured
      <3>2. done = call[c].configs
        BY <1>1, <3>1 DEF WorkedThrough
      <3>3. call[c].configs \in SUBSET Configs
        BY <1>1, CallTypes DEF ConfigureDevice, IInv
      <3> QED
        BY <1>1, <3>1, <3>2, <3>3 DEF AfterQueries, Configurable
    <2>2. ASSUME NEW r \in steady[c]
          PROVE  /\ r.key \in wg0'.peers
                 /\ wg0'.allowed[r.ip] = r.key \/ Overridden(r, call[c].configs)
      BY <2>1, InstalledHasOwners, InstalledGivesAddress
    <2> QED
      BY <2>2
  <1>2. IInv /\ [Next]_vars =>
          [\A c \in Callers :
             (/\ ConfigureDevice(c)
              /\ ~cut[c]
              /\ Configurable(call[c].configs) = call[c].configs)
             => \A r \in steady[c] :
                  /\ r.key \in wg0'.peers
                  /\ wg0'.allowed[r.ip] = r.key \/ Overridden(r, call[c].configs)]_vars
    BY <1>1
  <1> HIDE DEF Complete, InPlace
  <1> QED
    BY Invariance, <1>2, PTL DEF Spec, SteadyRowsInstalled

(* What an update puts on the device was in the database between its two   *)
(* queries, whatever was given up before and whatever else goes on.        *)
THEOREM NothingGivenUp == Spec => GivenUpBeforeIsGone
  <1> DEFINE Seen(c) == \A a \in Spellings :
                          wg0'.allowed[a] # None =>
                            \E r \in seen[c] : r.key = wg0'.allowed[a] /\ r.ip = a
  <1>1. ASSUME IInv, NEW c \in Callers, ConfigureDevice(c)
        PROVE  Seen(c)
    <2>1. PICK done \in SUBSET call[c].configs :
            /\ done \in SUBSET Configs
            /\ AfterQueries(c)
            /\ wg0'.allowed = Installed(done).allowed
      BY <1>1, Configured
    <2>2. done \subseteq seen[c]
      BY <2>1 DEF AfterQueries
    <2> QED
      BY <2>1, <2>2, InstalledHasOwners
  <1>2. IInv /\ [Next]_vars => [\A c \in Callers : ConfigureDevice(c) => Seen(c)]_vars
    BY <1>1
  <1> QED
    BY Invariance, <1>2, PTL DEF Spec, GivenUpBeforeIsGone
=============================================================================
