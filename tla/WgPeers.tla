------------------------------ MODULE WgPeers ------------------------------
(***************************************************************************)
(* server/updateConnection.go, UpdateConnection, with its two callers: the *)
(* daemon, which has just created the interface wg0                        *)
(* (server/initializeInterface.go), and the command "gdim updateconn",     *)
(* which may run at any time and more than once.                           *)
(*                                                                         *)
(* A call reads the settings of wg0, its address, the rows of the relay    *)
(* servers and those of the users, and then configures wg0 with the        *)
(* settings it has read and the rows in place of the old peers.  Nothing   *)
(* holds the interface or the database still in between: a step is one     *)
(* system call or one query with the loop over its rows.                   *)
(*                                                                         *)
(* The private key, the port and the mark of wg0 stand or fall together:   *)
(* they are the number of the device they were made for.  (A daemon        *)
(* without a configured key makes a new one at each start.)  The server's  *)
(* own row is left out: the device ignores a peer with its own key.        *)
(*                                                                         *)
(* The device is that of wireguard-go: its peers are known by their public *)
(* keys, and each allowed address belongs to one of them.  An address is   *)
(* written as the text that net.ParseIP makes it from; of the texts that   *)
(* begin as the server's address does, no two make the same address.       *)
(***************************************************************************)
EXTENDS Naturals, FiniteSets

CONSTANTS
  Servers,      \* public keys of relay servers that may be added
  Users,        \* public keys of users that may be added, perhaps the same
  Texts,        \* what a row may hold as a user's address
  Local,        \* those that LIKE finds: they begin as the server's address does
  Spellings,    \* those that net.ParseIP accepts
  PrivateIPs,   \* private addresses of relay servers
  Commands,     \* runs of "gdim updateconn"
  Daemon,       \* the call in gdimd
  None,         \* no row, no device, no address, no peer
  MaxStarts     \* bound: how often gdimd creates the device

ASSUME LocalAndSpellingsAreTexts == Local \subseteq Texts /\ Spellings \subseteq Texts
ASSUME PrivateIPsAreAddresses == PrivateIPs \subseteq Spellings
ASSUME NoneIsNothing == None \notin Texts \cup Servers \cup Users
ASSUME DaemonIsNoCommand == Daemon \notin Commands

ASSUME MaxStartsIsNumber == MaxStarts \in Nat

VARIABLES
  privip,       \* server_info_table: each server's address, None without a row
  latest_ip,    \* user_info_table: each user's address, None without a row
  wg0,          \* the device
  starts,       \* how many devices there have been
  call,         \* each call of UpdateConnection
  steady,       \* ghost: rows there all the time from a call's first query to its second
  seen,         \* ghost: rows there at some time between the two; then, those of them it read
  cut           \* ghost: has an error ended one of the loops over the rows?

database == <<privip, latest_ip>>
ghosts == <<steady, seen, cut>>
vars == <<privip, latest_ip, wg0, starts, call, steady, seen, cut>>

Callers == Commands \cup {Daemon}
Keys == Servers \cup Users

(* A PeerConfig: from which table it is, its PublicKey, and its AllowedIPs *)
(* (if the text makes an address).                                         *)
ServerConfigs == [table : {"server"}, key : Servers, ip : PrivateIPs]
UserConfigs == [table : {"user"}, key : Users, ip : Local]
Configs == ServerConfigs \cup UserConfigs

(* WHERE server_privip <> $1, which compares sixteen bytes with a text.    *)
ServerRows(privips) ==
  {[table |-> "server", key |-> s, ip |-> privips[s]] : s \in {t \in Servers : privips[t] # None}}

(* Fault: the query has no WHERE clause.                                   *)
AllUserRows(ips) ==
  {[table |-> "user", key |-> u, ip |-> ips[u]] : u \in {v \in Users : ips[v] # None}}

(* WHERE latest_ip LIKE $1                                                 *)
UserRows(ips) ==
  {[table |-> "user", key |-> u, ip |-> ips[u]] : u \in {v \in Users : ips[v] \in Local}}

Rows(privips, ips) == ServerRows(privips) \cup UserRows(ips)

Configurable(configs) == {p \in configs : p.ip \in Spellings}

(* The users come after the servers in the list.                           *)
Later(q, p) == p.table = "server" /\ q.table = "user"

(* A later config for the same key replaces its addresses                  *)
(* (ReplaceAllowedIPs), one for the same address takes it over.            *)
Overridden(p, configs) ==
  \E q \in configs : Later(q, p) /\ (q.key = p.key \/ q.ip = p.ip)

(* What the device makes of a list: a peer for every key, and the owner of *)
(* every address.                                                          *)
Installed(configs) ==
  [peers |-> {p.key : p \in configs},
   allowed |-> [a \in Spellings |->
     LET owners == {p.key : p \in {q \in configs : q.ip = a /\ ~Overridden(q, configs)}}
     IN  IF owners = {} THEN None ELSE CHOOSE k \in owners : TRUE]]

NoPeers == [peers |-> {}, allowed |-> [a \in Spellings |-> None]]

Settings == 1..MaxStarts

Device == [settings : Settings, addressed : BOOLEAN,
           peers : SUBSET Keys, allowed : [Spellings -> Keys \cup {None}]]

ASSUME NoneIsNoDevice == None \notin Device

Idle == [pc |-> "idle"]
Calls == [pc : {"setup", "device"}] \cup
         [pc : {"servers"}, settings : Settings] \cup
         [pc : {"users", "configure"}, settings : Settings, configs : SUBSET Configs]

Set(c, value) == call' = [call EXCEPT ![c] = value]

---------------------------------------------------------------------------

Init ==
  /\ privip = [s \in Servers |-> None]
  /\ latest_ip = [u \in Users |-> None]
  /\ wg0 = None
  /\ starts = 0
  /\ call = [c \in Callers |-> Idle]
  /\ steady = [c \in Callers |-> {}]
  /\ seen = [c \in Callers |-> {}]
  /\ cut = [c \in Callers |-> FALSE]

(* The database changes; a call between its two queries lives through it.  *)
Commit(privips, ips) ==
  /\ privip' = privips
  /\ latest_ip' = ips
  /\ steady' = [c \in Callers |->
       IF call[c].pc = "users" THEN steady[c] \cap Rows(privips, ips) ELSE steady[c]]
  /\ seen' = [c \in Callers |->
       IF call[c].pc = "users" THEN seen[c] \cup Rows(privips, ips) ELSE seen[c]]
  /\ UNCHANGED <<wg0, starts, call, cut>>

(* server/addServer.go.  server_privip BYTES NOT NULL UNIQUE               *)
AddServer(s, ip) ==
  /\ privip[s] = None
  /\ \A t \in Servers : privip[t] # ip
  /\ Commit([privip EXCEPT ![s] = ip], latest_ip)

(* latest_ip BYTES NOT NULL UNIQUE                                         *)
Unique(u, ip) == \A v \in Users \ {u} : latest_ip[v] # ip

(* server/addUser.go: any text.                                            *)
AddUser(u, ip) ==
  /\ latest_ip[u] = None
  /\ Unique(u, ip)
  /\ Commit(privip, [latest_ip EXCEPT ![u] = ip])

(* The UPDATE of httpHandleReplaceIP, with an address that parses.  Nobody *)
(* tells UpdateConnection.                                                 *)
ReplaceIP(u, ip) ==
  /\ latest_ip[u] # None
  /\ ip \in Spellings
  /\ Unique(u, ip)
  /\ Commit(privip, [latest_ip EXCEPT ![u] = ip])

---------------------------------------------------------------------------
(* The interface.                                                          *)

End(c) ==
  /\ Set(c, Idle)
  /\ steady' = [steady EXCEPT ![c] = {}]
  /\ seen' = [seen EXCEPT ![c] = {}]
  /\ cut' = [cut EXCEPT ![c] = FALSE]

CreateWG0 ==
  /\ wg0 = None
  /\ starts < MaxStarts
  /\ starts' = starts + 1
  /\ wg0' = [settings |-> starts + 1, addressed |-> FALSE,
             peers |-> NoPeers.peers, allowed |-> NoPeers.allowed]
  /\ Set(Daemon, [pc |-> "setup"])
  /\ UNCHANGED <<database, ghosts>>

SetupWG0Linux ==
  /\ call[Daemon].pc = "setup"
  /\ wg0' = [wg0 EXCEPT !.addressed = TRUE]
  /\ Set(Daemon, [pc |-> "device"])
  /\ UNCHANGED <<database, starts, ghosts>>

(* gdimd ends, on a signal, an error or a crash, and wg0 with it.          *)
DaemonEnds ==
  /\ wg0 # None
  /\ wg0' = None
  /\ End(Daemon)
  /\ UNCHANGED <<database, starts>>

---------------------------------------------------------------------------
(* UpdateConnection.                                                       *)

StartCommand(c) ==
  /\ call[c] = Idle
  /\ Set(c, [pc |-> "device"])
  /\ UNCHANGED <<database, wg0, starts, ghosts>>

(* client.Device("wg0")                                                    *)
ReadDevice(c) ==
  /\ call[c].pc = "device"
  /\ wg0 # None
  /\ Set(c, [pc |-> "servers", settings |-> wg0.settings])
  /\ UNCHANGED <<database, wg0, starts, ghosts>>

(* The loop ends after the last row, or, since rows.Err is not looked at,  *)
(* at any row at which the connection to the database fails.               *)
ReadRows(c, all, got) ==
  /\ got \subseteq all
  /\ cut' = [cut EXCEPT ![c] = @ \/ got # all]
  /\ UNCHANGED <<database, wg0, starts>>

(* The interface has an IPv4 address, wg_iface.Addrs(), and the query is   *)
(* made with it.  (What becomes of the interface between the two makes no  *)
(* difference: the query does not look at it.)                             *)
ReadServers(c) ==
  /\ call[c].pc = "servers"
  /\ wg0 # None
  /\ wg0.addressed
  /\ \E got \in SUBSET ServerRows(privip) :
       /\ ReadRows(c, ServerRows(privip), got)
       /\ Set(c, [pc |-> "users", settings |-> call[c].settings, configs |-> got])
  /\ steady' = [steady EXCEPT ![c] = Rows(privip, latest_ip)]
  /\ seen' = [seen EXCEPT ![c] = Rows(privip, latest_ip)]

(* Fault: the second loop makes a list of its own.                         *)
OnlyUsers(c, got) == got

(* new_peers = append(new_peers, ...)                                      *)
Appended(c, got) == call[c].configs \cup got

ReadUsers(c) ==
  /\ call[c].pc = "users"
  /\ \E got \in SUBSET UserRows(latest_ip) :
       /\ ReadRows(c, UserRows(latest_ip), got)
       /\ Set(c, [pc |-> "configure", settings |-> call[c].settings,
                  configs |-> Appended(c, got)])
       /\ seen' = [seen EXCEPT ![c] = @ \cap Appended(c, got)]
  /\ UNCHANGED steady

(* Fault: ReplacePeers is false.                                           *)
Merged(new) ==
  [peers |-> wg0.peers \cup new.peers,
   allowed |-> [a \in Spellings |->
     IF new.allowed[a] = None /\ wg0.allowed[a] \notin new.peers
       THEN wg0.allowed[a] ELSE new.allowed[a]]]

(* ReplacePeers: true                                                      *)
Replaced(new) == new

(* The device works through the servers and the users; it stops with an    *)
(* error at an address that does not parse, whose peer it has made, and    *)
(* keeps what it has done.                                                 *)
WorkedThrough(configs, done) ==
  IF configs = Configurable(configs)
    THEN done = configs
    ELSE /\ configs \cap ServerConfigs \subseteq done
         /\ \E bad \in configs : done \ Configurable(configs) = {bad}

(* client.ConfigureDevice.                                                 *)
ConfigureDevice(c) ==
  /\ call[c].pc = "configure"
  /\ wg0 # None
  /\ \E done \in SUBSET call[c].configs :
       /\ WorkedThrough(call[c].configs, done)
       /\ LET new == Replaced(Installed(done)) IN
            wg0' = [wg0 EXCEPT !.settings = call[c].settings,
                               !.peers = new.peers, !.allowed = new.allowed]
  /\ End(c)
  /\ UNCHANGED <<database, starts>>

(* There is no device or no address, a query fails, the device cannot be   *)
(* configured: an error is returned.                                       *)
ReturnError(c) ==
  /\ call[c] # Idle
  /\ End(c)
  /\ UNCHANGED <<database, wg0, starts>>

---------------------------------------------------------------------------

UpdateConnection(c) ==
  \/ ReadDevice(c)
  \/ ReadServers(c)
  \/ ReadUsers(c)
  \/ ConfigureDevice(c)
  \/ ReturnError(c)

Next ==
  \/ \E s \in Servers, ip \in PrivateIPs : AddServer(s, ip)
  \/ \E u \in Users, ip \in Texts : AddUser(u, ip) \/ ReplaceIP(u, ip)
  \/ CreateWG0 \/ SetupWG0Linux \/ DaemonEnds
  \/ \E c \in Commands : StartCommand(c)
  \/ \E c \in Callers : UpdateConnection(c)

Spec == Init /\ [][Next]_vars

---------------------------------------------------------------------------
(* Properties.                                                             *)

(* Types of the tables, of the device and of the calls; a call reads the   *)
(* users after the servers, and the settings before both; only users in    *)
(* the server's subnet become peers (updateConnection.go:17-160).          *)
TypeOK ==
  /\ privip \in [Servers -> PrivateIPs \cup {None}]
  /\ latest_ip \in [Users -> Texts \cup {None}]
  /\ wg0 \in Device \cup {None}
  /\ starts \in 0..MaxStarts
  /\ call \in [Callers -> Calls \cup {Idle}]
  /\ steady \in [Callers -> SUBSET Configs]
  /\ seen \in [Callers -> SUBSET Configs]
  /\ cut \in [Callers -> BOOLEAN]

(* A row that is in the database from the first query to the second        *)
(* becomes a peer with its address, unless a loop was cut short or the     *)
(* device stopped at an address that does not parse; a server's row may    *)
(* only lose its address, to a user with its key or its address            *)
(* (updateConnection.go:84-154).                                           *)
SteadyRowsInstalled ==
  [][\A c \in Callers :
       (/\ ConfigureDevice(c)
        /\ ~cut[c]
        /\ Configurable(call[c].configs) = call[c].configs)
       => \A r \in steady[c] :
            /\ r.key \in wg0'.peers
            /\ wg0'.allowed[r.ip] = r.key \/ Overridden(r, call[c].configs)]_vars

(* Whoever holds an address on the device when an update has configured it *)
(* has held it in the database at some time between that update's two      *)
(* queries: an address that was given up, or passed on, before goes to     *)
(* nobody who had it, even if a loop is cut short, the device stops        *)
(* half-way, or another update or a restart comes in between               *)
(* (updateConnection.go:43, 78, 125, 155).                                 *)
GivenUpBeforeIsGone ==
  [][\A c \in Callers :
       ConfigureDevice(c) =>
         \A a \in Spellings :
           wg0'.allowed[a] # None =>
             \E r \in seen[c] : r.key = wg0'.allowed[a] /\ r.ip = a]_vars

(* "Preserve local interface settings ..." (updateConnection.go:39): an    *)
(* update leaves the key, the port and the mark of the device that it      *)
(* configures as they are.  With a restart in between it does not:         *)
(* WgSettings.cfg shows it.                                                *)
SettingsPreserved ==
  [][\A c \in Callers : ConfigureDevice(c) => wg0'.settings = wg0.settings]_vars

(* "... replacing the peer set from the database."                         *)
(* (updateConnection.go:39): when an update that has met no unusable       *)
(* address configures the device, the rows that have been in the database  *)
(* from its first query to its second are among its peers.                 *)
PeerSetReplaced ==
  [][\A c \in Callers :
       (/\ ConfigureDevice(c)
        /\ Configurable(call[c].configs) = call[c].configs)
       => \A r \in steady[c] : r.key \in wg0'.peers]_vars
============================================================================
