----------------------------- MODULE Discovery -----------------------------
(***************************************************************************)
(* The UDP discovery protocol (discovery.py): async_discover, which sends a*)
(* search and collects the answers for a while, and                        *)
(* async_set_network_config, which sends a setConfig and then runs a       *)
(* discovery to see what came of it.  Each has a socket of its own.        *)
(*                                                                         *)
(* The devices and the network are external.  A datagram may be lost, late,*)
(* duplicated or reordered; one that could not be sent, which both calls   *)
(* skip, is one that is lost.  The group and broadcast reach every device  *)
(* of the segment, an address all devices that hold it: factory-default    *)
(* cameras share one.  A device that changes its address takes what its    *)
(* setConfig names; the lease it may get instead is left out.              *)
(***************************************************************************)
EXTENDS Integers, FiniteSets, SequencesExt

CONSTANTS
  Tasks,      \* asyncio tasks, each making one call
  Macs,       \* the devices of the segment
  Addresses,  \* their addresses, as numbers
  Calls       \* the calls the tasks may make

Group     == 0    \* 239.255.255.251
Broadcast == 255  \* 255.255.255.255
Unknown   == -1   \* an announcement without an IPv4 block
NoMac     == "none"

ASSUME DiscoveryAssumption ==
  /\ Addresses \subseteq 1..254
  /\ IsFiniteSet(Macs)
  /\ NoMac \notin Macs
  /\ Calls \subseteq [op : {"discover", "set"}, mac : Macs \cup {NoMac},
                      ip : Addresses, current : Addresses \cup {Unknown},
                      hash : BOOLEAN, verify : BOOLEAN, targets : SUBSET Addresses]

VARIABLES
  call,      \* task: its call
  pc,        \* task: what it awaits
  socket,    \* task: is its socket open?
  devices,   \* task: _DiscoveryProtocol.devices, one announcement per MAC
  result,    \* task: what the call returned, a sequence of announcements
  outcome,   \* task: how it ended
  address,   \* device: the address it holds
  bare,      \* device: those that announce themselves without an IPv4 block
  requests,  \* network: datagrams that may reach a device
  replies,   \* network: datagrams that may reach a task
  heard,     \* history: devices whose announcement reached the task's sweep
  held       \* history: addresses devices held during the task's sweep

taskVars    == <<call, pc, socket, devices, result, outcome>>
networkVars == <<address, bare, requests, replies>>
historyVars == <<heard, held>>
vars == <<taskVars, networkVars, historyVars>>

NoCall == [op |-> "none"]

Announcement == [mac : Macs, ip : Addresses \cup {Unknown}]

-----------------------------------------------------------------------------
(* The datagrams.                                                          *)

Destinations(c) == IF c.targets # {} THEN c.targets ELSE {Group, Broadcast}

\* _build_query: the MAC rides at the top level, or is left out.
Query(t, c, dest) ==
  [method |-> "search", from |-> t, dest |-> dest, mac |-> c.mac]

\* "current_ip or ip".
IPAddressOld(c) == IF c.current = Unknown THEN c.ip ELSE c.current

\* _build_set_config.
SetConfig(t, c, dest, authenticated) ==
  [method |-> "setConfig", from |-> t, dest |-> dest, mac |-> c.mac, ip |-> c.ip,
   old |-> IPAddressOld(c), auth |-> authenticated]

\* With a hash, the request without one goes out first.
Attempts(c) == IF c.hash THEN {FALSE, TRUE} ELSE {FALSE}

-----------------------------------------------------------------------------
(* The calls.                                                              *)

\* Mutant: the table is shared by all sweeps.
SharedTable(t) == devices' = [devices EXCEPT ![t] = UNION {devices[u] : u \in Tasks}]

\* Each sweep has a protocol object of its own, with an empty table.
OwnTable(t) == devices' = [devices EXCEPT ![t] = {}]

\* async_discover up to its sleep.
Sweeps(t, c) ==
  /\ pc' = [pc EXCEPT ![t] = "collecting"]
  /\ socket' = [socket EXCEPT ![t] = TRUE]
  /\ OwnTable(t)
  /\ requests' = requests \cup {Query(t, c, dest) : dest \in Destinations(c)}
  /\ held' = [held EXCEPT ![t] = {[mac |-> m, ip |-> address[m]] : m \in Macs}]

Returns(t, found, how) ==
  /\ pc' = [pc EXCEPT ![t] = "over"]
  /\ result' = [result EXCEPT ![t] = found]
  /\ outcome' = [outcome EXCEPT ![t] = how]

DiscoverStarts(t, c) ==
  /\ pc[t] = "idle"
  /\ c.op = "discover"
  /\ call' = [call EXCEPT ![t] = c]
  /\ Sweeps(t, c)
  /\ UNCHANGED <<result, outcome, address, bare, replies, heard>>

\* Mutant: a request without a MAC is sent like any other.
NothingRefused(c) == FALSE

\* DahuaValueError, before anything is sent.
RefusedForNoMac(c) == c.mac = NoMac

\* async_set_network_config up to its sleep: all requests go out, and the
\* socket is closed again.
SetStarts(t, c) ==
  /\ pc[t] = "idle"
  /\ c.op = "set"
  /\ call' = [call EXCEPT ![t] = c]
  /\ IF RefusedForNoMac(c)
       THEN Returns(t, <<>>, "value_error") /\ UNCHANGED requests
       ELSE /\ requests' = requests \cup {SetConfig(t, c, dest, a) : dest \in Destinations(c),
                                                                    a \in Attempts(c)}
            /\ IF c.verify
                 THEN pc' = [pc EXCEPT ![t] = "settling"] /\ UNCHANGED <<result, outcome>>
                 ELSE Returns(t, <<>>, "done")
  /\ UNCHANGED <<socket, devices, address, bare, replies, historyVars>>

\* _open_socket cannot create or bind the socket.
SocketFails(t, c) ==
  /\ pc[t] = "idle"
  /\ call' = [call EXCEPT ![t] = c]
  /\ ~(c.op = "set" /\ RefusedForNoMac(c))
  /\ Returns(t, <<>>, "connection_error")
  /\ UNCHANGED <<socket, devices, networkVars, historyVars>>

\* The settling time is over: the verification sweep, to the same targets.
Settled(t) ==
  /\ pc[t] = "settling"
  /\ Sweeps(t, call[t])
  /\ UNCHANGED <<call, result, outcome, address, bare, replies, heard>>

VerificationFails(t) ==
  /\ pc[t] = "settling"
  /\ Returns(t, <<>>, "connection_error")
  /\ UNCHANGED <<call, socket, devices, networkVars, historyVars>>

\* Mutant: announcements are keyed by the address they report.
KeyedByAddress(a, b) == a.ip = b.ip

\* Do two announcements share a key of the table?
SameKey(a, b) == a.mac = b.mac

\* datagram_received: an announcement replaces the one it shares its key with.
\* Anything else, such as the echo of the search, is not put in the table.
Receives(t, reply) ==
  /\ pc[t] = "collecting"
  /\ reply.to = t
  /\ LET a == [mac |-> reply.mac, ip |-> reply.ip]
     IN /\ devices' = [devices EXCEPT ![t] = {b \in @ : ~SameKey(a, b)} \cup {a}]
        /\ heard' = [heard EXCEPT ![t] = @ \cup {reply.mac}]
  /\ UNCHANGED <<call, pc, socket, result, outcome, networkVars, held>>

\* _ip_sort_key.
SortKey(a) == IF a.ip = Unknown THEN 256 ELSE a.ip

\* The MACs in the order their strings have.
MacOrder == SetToSeq(Macs)
Place(mac) == CHOOSE i \in DOMAIN MacOrder : MacOrder[i] = mac

\* By the address, then by the MAC.
Before(a, b) ==
  \/ SortKey(a) < SortKey(b)
  \/ SortKey(a) = SortKey(b) /\ Place(a.mac) < Place(b.mac)

Listing(found) ==
  CHOOSE s \in [1..Cardinality(found) -> found] :
    \A i, j \in DOMAIN s : i < j => Before(s[i], s[j])

\* What the call makes of its sweep: all of it, or the device it is about.
ResultOf(c, found) ==
  IF c.op = "discover" THEN Listing(found)
                       ELSE Listing({a \in found : a.mac = c.mac})

\* Mutant: the sweep goes on until somebody has answered.
WaitsForAnAnswer(t) == pc[t] = "collecting" /\ devices[t] # {}

Collected(t) == pc[t] = "collecting"

\* Mutant: the socket is left to the garbage collector.
SocketKept(t) == UNCHANGED socket

\* transport.close() in the finally block.
SocketClosed(t) == socket' = [socket EXCEPT ![t] = FALSE]

\* What is under way to the socket, or would be answered to it, gets nowhere.
NobodyListens(t) ==
  /\ requests' = {r \in requests : ~(r.method = "search" /\ r.from = t)}
  /\ replies' = {r \in replies : r.to # t}

\* The time is up.
SweepEnds(t) ==
  /\ Collected(t)
  /\ SocketClosed(t)
  /\ NobodyListens(t)
  /\ Returns(t, ResultOf(call[t], devices[t]), "done")
  /\ UNCHANGED <<call, devices, address, bare, historyVars>>

\* The task is cancelled while it sleeps.
Cancelled(t) ==
  /\ pc[t] \in {"settling", "collecting"}
  /\ SocketClosed(t)
  /\ NobodyListens(t)
  /\ Returns(t, <<>>, "cancelled")
  /\ UNCHANGED <<call, devices, address, bare, historyVars>>

-----------------------------------------------------------------------------
(* The devices and the network.                                            *)

Reaches(request, m) == request.dest \in {Group, Broadcast, address[m]}

\* A request without a MAC is for every device.
Concerns(request, m) == request.mac \in {NoMac, m}

\* The device announces itself, to a search that names another device as well:
\* nothing in the client relies on a device reading the MAC of a search.
DeviceAnswers(m, request) ==
  /\ request.method = "search"
  /\ Reaches(request, m)
  /\ replies' = replies \cup {[to |-> request.from, mac |-> m,
                                ip |-> IF m \in bare THEN Unknown ELSE address[m]]}
  /\ UNCHANGED <<taskVars, address, bare, requests, historyVars>>

\* The device takes the new address if it holds the old one.
DeviceMoves(m, request) ==
  /\ request.method = "setConfig"
  /\ Reaches(request, m)
  /\ Concerns(request, m)
  /\ request.old = address[m]
  /\ address' = [address EXCEPT ![m] = request.ip]
  /\ held' = [t \in Tasks |-> IF pc[t] = "collecting"
                                THEN held[t] \cup {[mac |-> m, ip |-> request.ip]}
                                ELSE held[t]]
  /\ UNCHANGED <<taskVars, bare, requests, replies, heard>>

-----------------------------------------------------------------------------

Init ==
  /\ call = [t \in Tasks |-> NoCall]
  /\ pc = [t \in Tasks |-> "idle"]
  /\ socket = [t \in Tasks |-> FALSE]
  /\ devices = [t \in Tasks |-> {}]
  /\ result = [t \in Tasks |-> <<>>]
  /\ outcome = [t \in Tasks |-> "none"]
  /\ address \in [Macs -> Addresses]
  /\ bare \in SUBSET Macs
  /\ requests = {}
  /\ replies = {}
  /\ heard = [t \in Tasks |-> {}]
  /\ held = [t \in Tasks |-> {}]

TaskStep(t) ==
  \/ \E c \in Calls : DiscoverStarts(t, c) \/ SetStarts(t, c) \/ SocketFails(t, c)
  \/ Settled(t) \/ VerificationFails(t) \/ SweepEnds(t) \/ Cancelled(t)
  \/ \E reply \in replies : Receives(t, reply)

DeviceStep ==
  \E m \in Macs, request \in requests : DeviceAnswers(m, request) \/ DeviceMoves(m, request)

Next == (\E t \in Tasks : TaskStep(t)) \/ DeviceStep

Spec == Init /\ [][Next]_vars

\* The sleeps of a call come to their end.
Fairness == \A t \in Tasks : WF_vars(Settled(t)) /\ WF_vars(SweepEnds(t))

FairSpec == Spec /\ Fairness

-----------------------------------------------------------------------------
(* Properties.                                                             *)

Heard(s) == {s[i].mac : i \in DOMAIN s}

\* The values the variables take; a task has a socket open exactly while it
\* collects answers.
TypeOK ==
  /\ call \in [Tasks -> Calls \cup {NoCall}]
  /\ pc \in [Tasks -> {"idle", "settling", "collecting", "over"}]
  /\ \A t \in Tasks : /\ socket[t] <=> pc[t] = "collecting"
                      /\ devices[t] \subseteq Announcement
                      /\ \A i \in DOMAIN result[t] : result[t][i] \in devices[t]
                      /\ heard[t] \subseteq Macs
                      /\ held[t] \subseteq Announcement
  /\ outcome \in [Tasks -> {"none", "done", "value_error", "connection_error", "cancelled"}]
  /\ address \in [Macs -> Addresses]
  /\ bare \in SUBSET Macs

\* A device changes its address only on a call that named its MAC, the address
\* it had and the one it gets, whatever the device shares its address with and
\* however late the request arrives.
OnlyNamedDeviceMoves ==
  [][\A m \in Macs : address'[m] # address[m] =>
       \E t \in Tasks : /\ call[t].op = "set"
                        /\ call[t].mac = m
                        /\ call[t].ip = address'[m]
                        /\ call[t].current = address[m]]_vars

\* A device is reported at an address it held during the sweep that reports
\* it, not one from a sweep before or beside it; a device that returns from
\* async_set_network_config at the new address therefore has moved.  And it is
\* reported from a sweep that asks that address: a device moved by unicast is
\* confirmed only if its new address is among the targets as well, since the
\* verification goes where the write went.
ReportsAreFresh ==
  \A t \in Tasks : \A i \in DOMAIN result[t] :
    LET at == result[t][i].ip
    IN at # Unknown => /\ result[t][i] \in held[t]
                       /\ call[t].targets = {} \/ at \in call[t].targets

\* Every device whose announcement arrived in time is reported, once, even if
\* others report the same address; a setConfig reports its device and no other.
\* The listing is in the order of the addresses, the unknown ones last.
EveryAnswerReported ==
  \A t \in Tasks : outcome[t] = "done" =>
    /\ Len(result[t]) = Cardinality(Heard(result[t]))
    /\ Heard(result[t]) = IF call[t].op = "discover" THEN heard[t]
                                                     ELSE heard[t] \cap {call[t].mac}
    /\ \A i \in 1..(Len(result[t]) - 1) :
         \/ result[t][i + 1].ip = Unknown
         \/ result[t][i].ip # Unknown /\ result[t][i].ip <= result[t][i + 1].ip

\* Every call ends, though nobody may answer.
CallsEnd == \A t \in Tasks : pc[t] # "idle" ~> pc[t] = "over"
=============================================================================
