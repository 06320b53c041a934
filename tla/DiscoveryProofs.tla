--------------------------- MODULE DiscoveryProofs ---------------------------
(***************************************************************************)
(* Theorems about Discovery, for every number of tasks, devices, addresses *)
(* and calls.                                                              *)
(***************************************************************************)
EXTENDS Discovery, TLAPS, WellFoundedInduction, FiniteSetTheorems

Outcomes == {"none", "done", "value_error", "connection_error", "cancelled"}

\* Each variable is a function of its actor.
Types ==
  /\ call \in [Tasks -> Calls \cup {NoCall}]
  /\ pc \in [Tasks -> {"idle", "settling", "collecting", "over"}]
  /\ socket \in [Tasks -> BOOLEAN]
  /\ devices \in [Tasks -> SUBSET Announcement]
  /\ result \in [Tasks -> Seq(Announcement)]
  /\ outcome \in [Tasks -> Outcomes]
  /\ heard \in [Tasks -> SUBSET Macs]
  /\ held \in [Tasks -> SUBSET Announcement]
  /\ address \in [Macs -> Addresses]
  /\ bare \in SUBSET Macs

\* A call has a socket while it collects.  It has made nothing of its sweep
\* before the sweep is over, and has no table before it begins.
Progress(t) ==
  /\ socket[t] <=> pc[t] = "collecting"
  /\ pc[t] = "idle" <=> call[t] = NoCall
  /\ pc[t] = "settling" => call[t].op = "set"
  /\ pc[t] # "over" => result[t] = <<>> /\ outcome[t] = "none"
  /\ pc[t] \in {"idle", "settling"} => devices[t] = {} /\ heard[t] = {}
  /\ \A i \in DOMAIN result[t] : result[t][i] \in devices[t]

\* An announcement a sweep may report: of an address the device held during
\* the sweep, and that the sweep asks.
Fresh(t, a) ==
  a.ip # Unknown => a \in held[t] /\ (call[t].targets = {} \/ a.ip \in call[t].targets)

\* What is in the table is fresh, and the sweep has seen where devices are now.
Sightings(t) ==
  /\ \A a \in devices[t] : Fresh(t, a)
  /\ pc[t] = "collecting" => \A m \in Macs : [mac |-> m, ip |-> address[m]] \in held[t]

\* The table has one announcement of each device that was heard.
Keyed(found) == \A a, b \in found : a.mac = b.mac => a = b
MacsOf(found) == {a.mac : a \in found}
Tabled(t) == Keyed(devices[t]) /\ MacsOf(devices[t]) = heard[t]

\* EveryAnswerReported, of one task.
Reported(t) ==
  outcome[t] = "done" =>
    /\ Len(result[t]) = Cardinality(Heard(result[t]))
    /\ Heard(result[t]) = IF call[t].op = "discover" THEN heard[t]
                                                     ELSE heard[t] \cap {call[t].mac}
    /\ \A i \in 1..(Len(result[t]) - 1) :
         \/ result[t][i + 1].ip = Unknown
         \/ result[t][i].ip # Unknown /\ result[t][i].ip <= result[t][i + 1].ip

TaskInv(t) == Progress(t) /\ Sightings(t) /\ Tabled(t) /\ Reported(t)

\* A search is under way only for a sweep that goes on, to where that sweep
\* asks.  A setConfig says what its call says, and names a device.
RequestOfCall(r) ==
  /\ r.from \in Tasks
  /\ r.method = "search" => pc[r.from] = "collecting" /\ r.dest \in Destinations(call[r.from])
  /\ r.method # "search" =>
       /\ call[r.from].op = "set"
       /\ r.mac # NoMac
       /\ r.mac = call[r.from].mac
       /\ r.ip = call[r.from].ip
       /\ r.old = IPAddressOld(call[r.from])

\* An answer under way is to a sweep that goes on, and fresh.
AnswerToSweep(r) ==
  /\ r \in [to : Tasks, mac : Macs, ip : Addresses \cup {Unknown}]
  /\ pc[r.to] = "collecting"
  /\ Fresh(r.to, [mac |-> r.mac, ip |-> r.ip])

\* The inductive invariant.
IInv ==
  /\ Types
  /\ \A t \in Tasks : TaskInv(t)
  /\ \A r \in requests : RequestOfCall(r)
  /\ \A r \in replies : AnswerToSweep(r)

-----------------------------------------------------------------------------
(* The listing of a table.                                                 *)

\* A set of naturals has a least element: induction, as a fact about sets.
LEMMA LeastNatural ==
  ASSUME NEW S \in SUBSET Nat, S # {}
  PROVE  \E n \in S : \A m \in S : n <= m
<1> DEFINE R == {ss \in Nat \X Nat : ss[1] < ss[2]}
<1>1. R = OpToRel(<, Nat)
  BY DEF OpToRel
<1>2. IsWellFoundedOn(R, Nat)
  BY <1>1, NatLessThanWellFounded
<1>3. ASSUME NEW x \in Nat, NEW y \in Nat, <<x, y>> \notin R PROVE y <= x
  BY <1>3
<1> HIDE DEF R
<1>4. PICK x \in S : \A y \in S : ~(<<y, x>> \in R)
  BY <1>2, WFMin
<1>5. ASSUME NEW y \in S PROVE x <= y
  <2>1. <<y, x>> \notin R
    BY <1>4
  <2>. QED
    BY <2>1, <1>3
<1>. QED
  BY <1>5

\* The MACs have places in their order, each its own.
LEMMA Places ==
  /\ \A m \in Macs : Place(m) \in Nat
  /\ \A m, n \in Macs : Place(m) = Place(n) => m = n
<1>1. MacOrder \in [1..Cardinality(Macs) -> Macs] /\ Cardinality(Macs) \in Nat
      /\ \A m \in Macs : \E i \in 1..Cardinality(Macs) : MacOrder[i] = m
  <2> DEFINE N == Cardinality(Macs)
  <2>1. IsFiniteSet(Macs)
    BY DiscoveryAssumption
  <2>2. N \in Nat /\ ExistsBijection(1..N, Macs)
    BY <2>1, FS_CardinalityType
  <2>3. \E f \in [1..N -> Macs] : IsInjective(f)
    BY <2>2 DEF ExistsBijection, Bijection, Injection
  <2>4. MacOrder \in [1..N -> Macs] /\ IsInjective(MacOrder)
    BY <2>3 DEF MacOrder, SetToSeq
  <2>5. MacOrder \in Injection(1..N, Macs)
    BY <2>4 DEF Injection
  <2>6. Cardinality(1..N) = N
    BY <2>2, FS_Interval
  <2>7. MacOrder \in Surjection(1..N, Macs)
    BY <2>1, <2>2, <2>5, <2>6, FS_Injection
  <2>. QED
    BY <2>2, <2>4, <2>7 DEF Surjection
<1>2. ASSUME NEW m \in Macs PROVE Place(m) \in 1..Cardinality(Macs) /\ MacOrder[Place(m)] = m
  BY <1>1 DEF Place
<1>. QED
  BY <1>1, <1>2

\* The key a report is sorted by: the address, and 256 where it is unknown.
LEMMA SortKeys ==
  \A a \in Announcement : /\ SortKey(a) \in 1..256
                          /\ a.ip = Unknown <=> SortKey(a) = 256
                          /\ a.ip # Unknown => SortKey(a) = a.ip
<1>1. Addresses \subseteq 1..254
  BY DiscoveryAssumption
<1>2. ASSUME NEW a \in Announcement PROVE a.ip \in 1..254 \/ a.ip = -1
  BY <1>1 DEF Announcement, Unknown
<1>. QED
  BY <1>2 DEF SortKey, Unknown

\* What comes before has the lower address, and an address.
LEMMA BeforeByAddress ==
  ASSUME NEW a \in Announcement, NEW b \in Announcement, Before(a, b)
  PROVE  b.ip = Unknown \/ (a.ip # Unknown /\ a.ip <= b.ip)
<1>1. SortKey(a) \in 1..256 /\ SortKey(b) \in 1..256
  BY SortKeys
<1>2. SortKey(a) < SortKey(b) \/ SortKey(a) = SortKey(b)
  BY DEF Before
<1>3. SUFFICES ASSUME b.ip # Unknown PROVE a.ip # Unknown /\ a.ip <= b.ip
  OBVIOUS
<1>4. SortKey(b) # 256 /\ SortKey(b) = b.ip
  BY <1>3, SortKeys
<1>5. SortKey(a) # 256
  BY <1>1, <1>2, <1>4
<1>6. a.ip # Unknown /\ SortKey(a) = a.ip
  BY <1>5, SortKeys
<1>7. SortKey(a) <= SortKey(b)
  <2>1. \A k, l \in 1..256 : k < l \/ k = l => k <= l
    OBVIOUS
  <2>. QED
    BY <1>1, <1>2, <2>1
<1>. QED
  BY <1>4, <1>6, <1>7

\* Before is a strict order, total on a table.
LEMMA BeforeOrder ==
  ASSUME NEW found \in SUBSET Announcement, Keyed(found)
  PROVE  /\ \A a, b \in found : Before(a, b) => ~Before(b, a)
         /\ \A a, b, c \in found : Before(a, b) /\ Before(b, c) => Before(a, c)
         /\ \A a, b \in found : a # b => Before(a, b) \/ Before(b, a)
<1>1. ASSUME NEW a \in found
      PROVE  SortKey(a) \in Nat /\ Place(a.mac) \in Nat /\ a.mac \in Macs
  <2>1. a.mac \in Macs /\ a \in Announcement
    BY DEF Announcement
  <2>. QED
    BY <2>1, Places, SortKeys
<1>2. ASSUME NEW a \in found, NEW b \in found, a # b PROVE Place(a.mac) # Place(b.mac)
  BY <1>1, <1>2, Places DEF Keyed
<1>3. \A a, b \in found : Before(a, b) => ~Before(b, a)
  BY <1>1 DEF Before
<1>4. \A a, b, c \in found : Before(a, b) /\ Before(b, c) => Before(a, c)
  BY <1>1 DEF Before
<1>5. \A a, b \in found : a # b => Before(a, b) \/ Before(b, a)
  BY <1>1, <1>2 DEF Before
<1>. QED
  BY <1>3, <1>4, <1>5

\* A table that is not empty has a first announcement.
LEMMA FirstOfTable ==
  ASSUME NEW found \in SUBSET Announcement, Keyed(found), found # {}
  PROVE  \E a \in found : \A b \in found \ {a} : Before(a, b)
<1>1. ASSUME NEW a \in found PROVE SortKey(a) \in Nat /\ Place(a.mac) \in Nat
  <2>1. a.mac \in Macs /\ a \in Announcement
    BY DEF Announcement
  <2>. QED
    BY <2>1, Places, SortKeys
<1> DEFINE keys == {SortKey(a) : a \in found}
<1>2. PICK k \in keys : \A l \in keys : k <= l
  <2>1. keys \in SUBSET Nat /\ keys # {}
    BY <1>1
  <2> HIDE DEF keys
  <2>. QED
    BY <2>1, LeastNatural
<1> DEFINE first == {a \in found : SortKey(a) = k}
           places == {Place(a.mac) : a \in first}
<1>3. PICK p \in places : \A q \in places : p <= q
  <2>1. places \in SUBSET Nat /\ places # {}
    BY <1>1, <1>2
  <2> HIDE DEF places
  <2>. QED
    BY <2>1, LeastNatural
<1>4. PICK a \in first : Place(a.mac) = p
  BY <1>3
<1>5. ASSUME NEW b \in found \ {a} PROVE ~Before(b, a)
  BY <1>1, <1>2, <1>3, <1>4 DEF Before
<1>6. a \in found
  BY <1>4
<1>7. \A b \in found \ {a} : Before(a, b)
  BY <1>5, <1>6, BeforeOrder
<1>. QED
  BY <1>6, <1>7

\* A table can be listed, and its listing is as long as the table and in order.
LEMMA Sorted ==
  ASSUME NEW found \in SUBSET Announcement, Keyed(found), IsFiniteSet(found)
  PROVE  \E s \in [1..Cardinality(found) -> found] :
           \A i, j \in DOMAIN s : i < j => Before(s[i], s[j])
<1> DEFINE Sorts(X, s) == /\ s \in [1..Cardinality(X) -> X]
                          /\ \A i, j \in 1..Cardinality(X) : i < j => Before(s[i], s[j])
           Unsorted == {X \in SUBSET found : ~\E s : Sorts(X, s)}
<1>1. SUFFICES Unsorted = {}
  <2>1. PICK s : Sorts(found, s)
    BY <1>1
  <2>. QED
    BY <2>1
<1>2. SUFFICES ASSUME Unsorted # {} PROVE FALSE
  OBVIOUS
<1>3. IsWellFoundedOn(StrictSubsetOrdering(found), SUBSET found)
  BY FS_StrictSubsetOrderingWellFounded, FS_FiniteSubsetsOfFinite
<1>4. PICK X \in Unsorted : \A Y \in Unsorted : ~(<<Y, X>> \in StrictSubsetOrdering(found))
  <2>1. Unsorted \subseteq SUBSET found
    OBVIOUS
  <2> HIDE DEF Unsorted
  <2>. QED
    BY <1>2, <1>3, <2>1, WFMin
<1>5. X \in SUBSET found /\ IsFiniteSet(X) /\ Cardinality(X) \in Nat
  BY FS_Subset, FS_CardinalityType
<1>6. CASE X = {}
  <2>1. Cardinality(X) = 0
    BY <1>6, FS_EmptySet
  <2>2. Sorts(X, [i \in 1..0 |-> i])
    BY <2>1
  <2>. QED
    BY <2>2
<1>7. CASE X # {}
  <2>1. PICK a \in X : \A b \in X \ {a} : Before(a, b)
    <3>1. X \in SUBSET Announcement /\ Keyed(X)
      BY <1>5 DEF Keyed
    <3>. QED
      BY <1>7, <3>1, FirstOfTable
  <2> DEFINE Y == X \ {a}
             n == Cardinality(Y)
  <2>2. n \in Nat /\ Cardinality(X) = n + 1
    <3>1. IsFiniteSet(Y) /\ n = Cardinality(X) - 1
      BY <1>5, FS_RemoveElement
    <3>2. n \in Nat
      BY <3>1, FS_CardinalityType
    <3>. QED
      BY <1>5, <3>1, <3>2
  <2>3. Y \notin Unsorted
    <3>1. <<Y, X>> \in StrictSubsetOrdering(found)
      BY <1>5 DEF StrictSubsetOrdering
    <3>. QED
      BY <1>4, <3>1
  <2>4. PICK s : Sorts(Y, s)
    BY <1>5, <2>3
  <2>5. s \in [1..n -> Y] /\ \A i, j \in 1..n : i < j => Before(s[i], s[j])
    BY <2>4
  <2> DEFINE w == [i \in 1..(n + 1) |-> IF i = 1 THEN a ELSE s[i - 1]]
  <2> HIDE DEF n
  <2>6. ASSUME NEW i \in 1..(n + 1), i # 1 PROVE i - 1 \in 1..n /\ w[i] = s[i - 1] /\ w[i] \in Y
    BY <2>2, <2>5, <2>6
  <2>7. w[1] = a
    BY <2>2
  <2>8. w \in [1..(n + 1) -> X]
    BY <2>5, <2>6, <2>7
  <2>9. ASSUME NEW i \in 1..(n + 1), NEW j \in 1..(n + 1), i < j PROVE Before(w[i], w[j])
    <3>1. j # 1 /\ j - 1 \in 1..n /\ w[j] = s[j - 1] /\ w[j] \in Y
      BY <2>2, <2>6, <2>9
    <3>2. CASE i = 1
      BY <2>1, <2>7, <3>1, <3>2
    <3>3. CASE i # 1
      <4>1. i - 1 \in 1..n /\ w[i] = s[i - 1] /\ i - 1 < j - 1
        BY <2>2, <2>6, <2>9, <3>3
      <4>. QED
        BY <2>5, <3>1, <4>1
    <3>. QED
      BY <3>2, <3>3
  <2> HIDE DEF w
  <2>10. Sorts(X, w)
    BY <2>2, <2>8, <2>9
  <2>. QED
    BY <2>10
<1>. QED
  BY <1>6, <1>7

\* What Listing makes of a table: every announcement, once, in order.
LEMMA ListingFacts ==
  ASSUME NEW found \in SUBSET Announcement, Keyed(found), IsFiniteSet(found)
  PROVE  /\ Listing(found) \in Seq(Announcement)
         /\ Len(Listing(found)) = Cardinality(found)
         /\ \A i \in DOMAIN Listing(found) : Listing(found)[i] \in found
         /\ \A i, j \in DOMAIN Listing(found) :
              i < j => Before(Listing(found)[i], Listing(found)[j])
         /\ Heard(Listing(found)) = MacsOf(found)
<1> DEFINE s == Listing(found)
           n == Cardinality(found)
<1>1. /\ s \in [1..n -> found]
      /\ \A i, j \in DOMAIN s : i < j => Before(s[i], s[j])
  BY Sorted DEF Listing
<1>2. n \in Nat
  BY FS_CardinalityType
<1> HIDE DEF s, n
<1>3. s \in Seq(Announcement) /\ Len(s) = n
  BY <1>1, <1>2
<1>4. s \in Injection(1..n, found)
  <2>1. ASSUME NEW i \in 1..n, NEW j \in 1..n, i < j PROVE s[i] # s[j]
    <3>1. Before(s[i], s[j]) /\ s[i] \in found
      BY <1>1, <2>1
    <3>. QED
      BY <3>1, BeforeOrder
  <2>2. \A i, j \in 1..n : s[i] = s[j] => i = j
    BY <1>2, <2>1
  <2>. QED
    BY <1>1, <2>2 DEF Injection, IsInjective
<1>5. \A a \in found : \E i \in 1..n : s[i] = a
  <2>1. Cardinality(1..n) = n
    BY <1>2, FS_Interval
  <2>2. s \in Surjection(1..n, found)
    BY <1>4, <2>1, FS_Injection DEF n
  <2>. QED
    BY <2>2 DEF Surjection
<1>6. Heard(s) = MacsOf(found)
  BY <1>1, <1>5 DEF Heard, MacsOf
<1>. QED
  BY <1>1, <1>3, <1>6 DEF s, n

\* As many devices as announcements, in a table with one for each.
LEMMA TableCounts ==
  ASSUME NEW found \in SUBSET Announcement, Keyed(found)
  PROVE  /\ MacsOf(found) \in SUBSET Macs
         /\ IsFiniteSet(found)
         /\ Cardinality(MacsOf(found)) = Cardinality(found)
<1> DEFINE f == [a \in found |-> a.mac]
<1>1. MacsOf(found) \in SUBSET Macs
  BY DEF MacsOf, Announcement
<1>2. IsFiniteSet(MacsOf(found))
  BY <1>1, DiscoveryAssumption, FS_Subset
<1>3. f \in Injection(found, MacsOf(found))
  BY DEF Injection, IsInjective, Keyed, MacsOf
<1>4. f \in Surjection(found, MacsOf(found))
  BY DEF Surjection, MacsOf
<1>. QED
  BY <1>1, <1>2, <1>3, <1>4, FS_Injection

-----------------------------------------------------------------------------
(* The steps.                                                              *)

\* The fields of a call, and that no call is NoCall.
LEMMA CallFields ==
  /\ \A c \in Calls : /\ c.op \in {"discover", "set"}
                       /\ c.mac \in Macs \cup {NoMac}
                       /\ c.ip \in Addresses
                       /\ c.targets \in SUBSET Addresses
                       /\ c # NoCall
  /\ NoCall.op = "none"
  /\ Addresses \subseteq 1..254
<1>1. ASSUME NEW c \in Calls
      PROVE  c \in [op : {"discover", "set"}, mac : Macs \cup {NoMac},
                    ip : Addresses, current : Addresses \cup {Unknown},
                    hash : BOOLEAN, verify : BOOLEAN, targets : SUBSET Addresses]
  BY DiscoveryAssumption
<1>2. NoCall.op = "none"
  BY DEF NoCall
<1>3. Addresses \subseteq 1..254
  BY DiscoveryAssumption
<1>4. ASSUME NEW c \in Calls
      PROVE  /\ c.op \in {"discover", "set"}
             /\ c.mac \in Macs \cup {NoMac}
             /\ c.ip \in Addresses
             /\ c.targets \in SUBSET Addresses
  BY <1>1
<1>5. \A c \in Calls : c # NoCall
  BY <1>2, <1>4
<1>. QED
  BY <1>2, <1>3, <1>4, <1>5

\* Nothing of another task changes.
OnlyOf(t) ==
  \A u \in Tasks \ {t} :
    /\ call'[u] = call[u] /\ pc'[u] = pc[u] /\ socket'[u] = socket[u]
    /\ devices'[u] = devices[u] /\ result'[u] = result[u] /\ outcome'[u] = outcome[u]
    /\ heard'[u] = heard[u] /\ held'[u] = held[u]

\* A step of one task leaves to be shown what it does to that task, and to the
\* datagrams that are of it.
LEMMA TaskStepKeeps ==
  ASSUME IInv, NEW t \in Tasks, Types', OnlyOf(t), TaskInv(t)',
         UNCHANGED <<address, bare>>,
         \A r \in requests' : (r \in requests /\ r.from # t) \/ RequestOfCall(r)',
         \A r \in replies' : (r \in replies /\ r.to # t) \/ AnswerToSweep(r)'
  PROVE  IInv'
<1>1. ASSUME NEW u \in Tasks PROVE TaskInv(u)'
  <2>1. CASE u = t
    BY <2>1
  <2>2. CASE u # t
    <3>1. TaskInv(u)
      BY DEF IInv
    <3>2. Progress(u)' /\ Sightings(u)' /\ Tabled(u)' /\ Reported(u)'
      BY <2>2, <3>1
         DEF OnlyOf, TaskInv, Progress, Sightings, Tabled, Reported, Fresh
    <3>. QED
      BY <3>2 DEF TaskInv
  <2>. QED
    BY <2>1, <2>2
<1>2. ASSUME NEW r \in requests' PROVE RequestOfCall(r)'
  <2>1. ASSUME r \in requests, r.from # t PROVE RequestOfCall(r)'
    <3>1. RequestOfCall(r)
      BY <2>1 DEF IInv
    <3>. QED
      BY <2>1, <3>1 DEF RequestOfCall, OnlyOf
  <2>. QED
    BY <2>1
<1>3. ASSUME NEW r \in replies' PROVE AnswerToSweep(r)'
  <2>1. ASSUME r \in replies, r.to # t PROVE AnswerToSweep(r)'
    <3>1. AnswerToSweep(r)
      BY <2>1 DEF IInv
    <3>2. r.to \in Tasks
      BY <3>1 DEF AnswerToSweep
    <3>. QED
      BY <2>1, <3>1, <3>2 DEF AnswerToSweep, OnlyOf, Fresh
  <2>. QED
    BY <2>1
<1>. QED
  BY <1>1, <1>2, <1>3 DEF IInv

\* A request of a task that has not begun, an answer to one that does not
\* collect: there are none.
LEMMA NoneBefore ==
  ASSUME IInv, NEW t \in Tasks
  PROVE  /\ pc[t] = "idle" => \A r \in requests : r.from # t
         /\ pc[t] # "collecting" => \A r \in replies : r.to # t
         /\ pc[t] # "collecting" => \A r \in requests : r.from = t => r.method # "search"
<1>1. pc[t] = "idle" => call[t].op = "none"
  BY CallFields DEF IInv, TaskInv, Progress
<1>2. ASSUME NEW r \in requests, r.from = t
      PROVE  /\ r.method = "search" => pc[t] = "collecting"
             /\ r.method # "search" => call[t].op = "set"
  BY <1>2 DEF IInv, RequestOfCall
<1>. QED
  BY <1>1, <1>2 DEF IInv, AnswerToSweep

\* A call that ends with nothing, before its sweep or without one.
LEMMA ReturnsNothing ==
  ASSUME IInv, NEW t \in Tasks, pc[t] \in {"idle", "settling", "collecting"},
         NEW how \in Outcomes, Returns(t, <<>>, how),
         call' \in [Tasks -> Calls \cup {NoCall}], call'[t] \in Calls,
         \A u \in Tasks \ {t} : call'[u] = call[u],
         pc[t] # "idle" => call'[t] = call[t],
         how = "done" => pc[t] = "idle",
         socket' \in [Tasks -> BOOLEAN], ~socket'[t],
         \A u \in Tasks \ {t} : socket'[u] = socket[u],
         UNCHANGED <<devices, heard, held, address, bare>>
  PROVE  Types' /\ OnlyOf(t) /\ TaskInv(t)'
<1>1. /\ pc' = [pc EXCEPT ![t] = "over"]
      /\ result' = [result EXCEPT ![t] = <<>>]
      /\ outcome' = [outcome EXCEPT ![t] = how]
  BY DEF Returns
<1>2. Types'
  BY <1>1 DEF IInv, Types
<1>3. OnlyOf(t)
  BY <1>1 DEF IInv, Types, OnlyOf
<1>4. pc'[t] = "over" /\ result'[t] = <<>> /\ outcome'[t] = how
  BY <1>1 DEF IInv, Types
<1>5. call'[t] # NoCall
  BY CallFields
<1>6. Progress(t)'
  BY <1>4, <1>5 DEF Progress
<1>7. Sightings(t)'
  BY <1>4 DEF IInv, TaskInv, Progress, Sightings, Fresh
<1>8. Tabled(t)'
  BY DEF IInv, TaskInv, Tabled
<1>9. Reported(t)'
  <2>1. how = "done" => heard'[t] = {}
    BY DEF IInv, TaskInv, Progress
  <2>2. Heard(result'[t]) = {} /\ Len(result'[t]) = 0 /\ Cardinality({}) = 0
    BY <1>4, FS_EmptySet DEF Heard
  <2>3. 1..(Len(result'[t]) - 1) = {}
    BY <2>2
  <2>. QED
    BY <1>4, <2>1, <2>2, <2>3 DEF Reported
<1>. QED
  BY <1>2, <1>3, <1>6, <1>7, <1>8, <1>9 DEF TaskInv

\* A sweep starts, for the call c of t.
LEMMA SweepsKeeps ==
  ASSUME IInv, NEW t \in Tasks, pc[t] \in {"idle", "settling"}, NEW c \in Calls,
         Sweeps(t, c), call' = [call EXCEPT ![t] = c],
         pc[t] = "settling" => call[t] = c,
         UNCHANGED <<result, outcome, address, bare, replies, heard>>
  PROVE  IInv'
<1>1. /\ pc' = [pc EXCEPT ![t] = "collecting"]
      /\ socket' = [socket EXCEPT ![t] = TRUE]
      /\ devices' = [devices EXCEPT ![t] = {}]
      /\ requests' = requests \cup {Query(t, c, dest) : dest \in Destinations(c)}
      /\ held' = [held EXCEPT ![t] = {[mac |-> m, ip |-> address[m]] : m \in Macs}]
  BY DEF Sweeps, OwnTable
<1>2. {[mac |-> m, ip |-> address[m]] : m \in Macs} \in SUBSET Announcement
  BY DEF IInv, Types, Announcement
<1>3. Types'
  BY <1>1, <1>2 DEF IInv, Types
<1>4. OnlyOf(t)
  BY <1>1 DEF IInv, Types, OnlyOf
<1>5. /\ pc'[t] = "collecting" /\ socket'[t] /\ devices'[t] = {} /\ call'[t] = c
      /\ held'[t] = {[mac |-> m, ip |-> address[m]] : m \in Macs}
  BY <1>1 DEF IInv, Types
<1>6. result'[t] = <<>> /\ outcome'[t] = "none" /\ heard'[t] = {}
  BY DEF IInv, TaskInv, Progress
<1>7. TaskInv(t)'
  <2>1. Progress(t)'
    BY <1>5, <1>6, CallFields DEF Progress
  <2>2. Sightings(t)'
    BY <1>5 DEF Sightings
  <2>3. Tabled(t)'
    BY <1>5, <1>6 DEF Tabled, Keyed, MacsOf
  <2>4. Reported(t)'
    BY <1>6 DEF Reported
  <2>. QED
    BY <2>1, <2>2, <2>3, <2>4 DEF TaskInv
<1>8. ASSUME NEW r \in requests' PROVE (r \in requests /\ r.from # t) \/ RequestOfCall(r)'
  <2>1. CASE r \in requests
    <3>1. RequestOfCall(r)
      BY <2>1 DEF IInv
    <3>2. CASE r.from = t
      <4>1. r.method # "search" /\ pc[t] = "settling"
        BY <2>1, <3>2, NoneBefore
      <4>. QED
        BY <1>5, <3>1, <3>2, <4>1 DEF RequestOfCall
    <3>. QED
      BY <2>1, <3>2
  <2>2. CASE r \notin requests
    <3>1. PICK dest \in Destinations(c) : r = Query(t, c, dest)
      BY <1>1, <2>2
    <3>2. r.from = t /\ r.method = "search" /\ r.dest \in Destinations(c)
      BY <3>1 DEF Query
    <3>. QED
      BY <1>5, <3>2 DEF RequestOfCall
  <2>. QED
    BY <2>1, <2>2
<1>9. \A r \in replies' : r \in replies /\ r.to # t
  BY NoneBefore
<1>. QED
  BY <1>3, <1>4, <1>7, <1>8, <1>9, TaskStepKeeps

\* async_discover starts its sweep.
LEMMA DiscoverStartsKeeps ==
  ASSUME IInv, NEW t \in Tasks, NEW c \in Calls, DiscoverStarts(t, c)
  PROVE  IInv'
BY SweepsKeeps DEF DiscoverStarts

\* The settling time of async_set_network_config is over: it verifies.
LEMMA SettledKeeps ==
  ASSUME IInv, NEW t \in Tasks, Settled(t)
  PROVE  IInv'
<1>1. call[t] \in Calls
  <2>1. call[t] # NoCall /\ call[t] \in Calls \cup {NoCall}
    BY DEF IInv, Types, TaskInv, Progress, Settled
  <2>. QED
    BY <2>1
<1>2. call' = [call EXCEPT ![t] = call[t]]
  BY DEF IInv, Types, Settled
<1>. QED
  BY <1>1, <1>2, SweepsKeeps DEF Settled

\* async_set_network_config sends what its call says.
LEMMA SetStartsKeeps ==
  ASSUME IInv, NEW t \in Tasks, NEW c \in Calls, SetStarts(t, c)
  PROVE  IInv'
<1>1. /\ pc[t] = "idle" /\ c.op = "set" /\ call' = [call EXCEPT ![t] = c]
      /\ UNCHANGED <<socket, devices, address, bare, replies, heard, held>>
  BY DEF SetStarts, historyVars
<1>2. /\ call' \in [Tasks -> Calls \cup {NoCall}] /\ call'[t] = c
      /\ \A u \in Tasks \ {t} : call'[u] = call[u]
  BY <1>1 DEF IInv, Types
<1>3. ~socket[t] /\ result[t] = <<>> /\ outcome[t] = "none" /\ devices[t] = {} /\ heard[t] = {}
  BY <1>1 DEF IInv, TaskInv, Progress
<1>4. ASSUME NEW how \in Outcomes, Returns(t, <<>>, how)
      PROVE  Types' /\ OnlyOf(t) /\ TaskInv(t)'
  BY <1>1, <1>2, <1>3, <1>4, ReturnsNothing DEF IInv, Types
<1>5. \A r \in replies' : r \in replies /\ r.to # t
  BY <1>1, NoneBefore
<1>6. \A r \in requests : r.from # t
  BY <1>1, NoneBefore
<1>7. CASE RefusedForNoMac(c)
  <2>1. Returns(t, <<>>, "value_error") /\ UNCHANGED requests
    BY <1>7 DEF SetStarts
  <2>2. Types' /\ OnlyOf(t) /\ TaskInv(t)'
    BY <1>4, <2>1 DEF Outcomes
  <2>. QED
    BY <1>1, <1>5, <1>6, <2>1, <2>2, TaskStepKeeps
<1>8. CASE ~RefusedForNoMac(c)
  <2>1. /\ requests' = requests \cup {SetConfig(t, c, dest, a) : dest \in Destinations(c),
                                                               a \in Attempts(c)}
        /\ IF c.verify
             THEN pc' = [pc EXCEPT ![t] = "settling"] /\ UNCHANGED <<result, outcome>>
             ELSE Returns(t, <<>>, "done")
    BY <1>8 DEF SetStarts
  <2>2. Types' /\ OnlyOf(t) /\ TaskInv(t)'
    <3>1. CASE ~c.verify
      BY <1>4, <2>1, <3>1 DEF Outcomes
    <3>2. CASE c.verify
      <4>1. pc' = [pc EXCEPT ![t] = "settling"] /\ UNCHANGED <<result, outcome>>
        BY <2>1, <3>2
      <4>2. Types'
        BY <1>1, <1>2, <4>1 DEF IInv, Types
      <4>3. OnlyOf(t)
        BY <1>1, <1>2, <4>1 DEF IInv, Types, OnlyOf
      <4>4. pc'[t] = "settling"
        BY <4>1 DEF IInv, Types
      <4>5. Progress(t)' /\ Reported(t)'
        BY <1>1, <1>2, <1>3, <4>1, <4>4, CallFields DEF Progress, Reported
      <4>6. Sightings(t)' /\ Tabled(t)'
        BY <1>1, <1>3, <4>4 DEF Sightings, Tabled, Keyed, MacsOf
      <4>. QED
        BY <4>2, <4>3, <4>5, <4>6 DEF TaskInv
    <3>. QED
      BY <3>1, <3>2
  <2>3. ASSUME NEW r \in requests' PROVE (r \in requests /\ r.from # t) \/ RequestOfCall(r)'
    <3>1. CASE r \in requests
      BY <1>6, <3>1
    <3>2. CASE r \notin requests
      <4>1. PICK dest \in Destinations(c), a \in Attempts(c) : r = SetConfig(t, c, dest, a)
        BY <2>1, <3>2
      <4>2. /\ r.from = t /\ r.method = "setConfig" /\ r.mac = c.mac /\ r.ip = c.ip
            /\ r.old = IPAddressOld(c)
        BY <4>1 DEF SetConfig
      <4>3. c.mac # NoMac
        BY <1>8 DEF RefusedForNoMac
      <4>. QED
        BY <1>1, <1>2, <4>2, <4>3 DEF RequestOfCall
    <3>. QED
      BY <3>1, <3>2
  <2>. QED
    BY <1>1, <1>5, <2>2, <2>3, TaskStepKeeps
<1>. QED
  BY <1>7, <1>8

\* The socket of a call cannot be opened: it raises before its first await.
LEMMA SocketFailsKeeps ==
  ASSUME IInv, NEW t \in Tasks, NEW c \in Calls, SocketFails(t, c)
  PROVE  IInv'
<1>1. /\ pc[t] = "idle" /\ call' = [call EXCEPT ![t] = c]
      /\ Returns(t, <<>>, "connection_error")
      /\ UNCHANGED <<socket, devices, address, bare, requests, replies, heard, held>>
  BY DEF SocketFails, networkVars, historyVars
<1>2. /\ call' \in [Tasks -> Calls \cup {NoCall}] /\ call'[t] = c
      /\ \A u \in Tasks \ {t} : call'[u] = call[u]
  BY <1>1 DEF IInv, Types
<1>3. ~socket[t] /\ socket' \in [Tasks -> BOOLEAN]
  BY <1>1 DEF IInv, Types, TaskInv, Progress
<1>4. Types' /\ OnlyOf(t) /\ TaskInv(t)'
  BY <1>1, <1>2, <1>3, ReturnsNothing DEF Outcomes
<1>5. (\A r \in requests : r.from # t) /\ (\A r \in replies : r.to # t)
  BY <1>1, NoneBefore
<1>. QED
  BY <1>1, <1>4, <1>5, TaskStepKeeps

\* A call that has begun is one of the calls.
LEMMA CallBegun ==
  ASSUME IInv, NEW t \in Tasks, pc[t] # "idle"
  PROVE  call[t] \in Calls
<1>1. call[t] # NoCall /\ call[t] \in Calls \cup {NoCall}
  BY DEF IInv, Types, TaskInv, Progress
<1>. QED
  BY <1>1

\* The socket of the verification cannot be opened.
LEMMA VerificationFailsKeeps ==
  ASSUME IInv, NEW t \in Tasks, VerificationFails(t)
  PROVE  IInv'
<1>1. /\ pc[t] = "settling"
      /\ Returns(t, <<>>, "connection_error")
      /\ UNCHANGED <<call, socket, devices, address, bare, requests, replies, heard, held>>
  BY DEF VerificationFails, networkVars, historyVars
<1>2. call[t] \in Calls
  BY <1>1, CallBegun
<1>3. ~socket[t] /\ socket' \in [Tasks -> BOOLEAN] /\ call' \in [Tasks -> Calls \cup {NoCall}]
  BY <1>1 DEF IInv, Types, TaskInv, Progress
<1>4. Types' /\ OnlyOf(t) /\ TaskInv(t)'
  BY <1>1, <1>2, <1>3, ReturnsNothing DEF Outcomes
<1>5. \A r \in replies : r.to # t
  BY <1>1, NoneBefore
<1>6. ASSUME NEW r \in requests, r.from = t PROVE RequestOfCall(r)'
  BY <1>1, <1>6, NoneBefore DEF IInv, RequestOfCall
<1>. QED
  BY <1>1, <1>4, <1>5, <1>6, TaskStepKeeps

\* With the socket closed, no datagram is left that needs it open.
LEMMA NobodyListensKeeps ==
  ASSUME IInv, NEW t \in Tasks, NobodyListens(t), UNCHANGED call
  PROVE  /\ \A r \in requests' : (r \in requests /\ r.from # t) \/ RequestOfCall(r)'
         /\ \A r \in replies' : r \in replies /\ r.to # t
<1>1. ASSUME NEW r \in requests', r.from = t PROVE RequestOfCall(r)'
  <2>1. r \in requests /\ r.method # "search"
    BY <1>1 DEF NobodyListens
  <2>2. RequestOfCall(r)
    BY <2>1 DEF IInv
  <2>. QED
    BY <2>1, <2>2 DEF RequestOfCall
<1>. QED
  BY <1>1 DEF NobodyListens

\* A call is cancelled at one of its sleeps, and closes its socket.
LEMMA CancelledKeeps ==
  ASSUME IInv, NEW t \in Tasks, Cancelled(t)
  PROVE  IInv'
<1>1. /\ pc[t] \in {"settling", "collecting"}
      /\ socket' = [socket EXCEPT ![t] = FALSE]
      /\ NobodyListens(t)
      /\ Returns(t, <<>>, "cancelled")
      /\ UNCHANGED <<call, devices, address, bare, heard, held>>
  BY DEF Cancelled, SocketClosed, historyVars
<1>2. call[t] \in Calls
  BY <1>1, CallBegun
<1>3. /\ socket' \in [Tasks -> BOOLEAN] /\ ~socket'[t]
      /\ \A u \in Tasks \ {t} : socket'[u] = socket[u]
      /\ call' \in [Tasks -> Calls \cup {NoCall}]
  BY <1>1 DEF IInv, Types
<1>4. Types' /\ OnlyOf(t) /\ TaskInv(t)'
  BY <1>1, <1>2, <1>3, ReturnsNothing DEF Outcomes
<1>. QED
  BY <1>1, <1>4, NobodyListensKeeps, TaskStepKeeps

\* The announcements a call reports, before they are listed.
ReportOf(c, found) == IF c.op = "discover" THEN found ELSE {a \in found : a.mac = c.mac}

\* What is reported of a table is a keyed part of it, with the macs asked for.
LEMMA ResultFacts ==
  ASSUME NEW c, NEW found \in SUBSET Announcement, Keyed(found)
  PROVE  /\ ResultOf(c, found) = Listing(ReportOf(c, found))
         /\ ReportOf(c, found) \in SUBSET found
         /\ Keyed(ReportOf(c, found))
         /\ MacsOf(ReportOf(c, found)) = IF c.op = "discover" THEN MacsOf(found)
                                                             ELSE MacsOf(found) \cap {c.mac}
BY DEF ResultOf, ReportOf, Keyed, MacsOf

\* The sweep is over: the call closes its socket and reports its table.
LEMMA SweepEndsKeeps ==
  ASSUME IInv, NEW t \in Tasks, SweepEnds(t)
  PROVE  IInv'
<1> DEFINE report == ReportOf(call[t], devices[t])
           s == Listing(report)
<1>1. /\ pc[t] = "collecting"
      /\ socket' = [socket EXCEPT ![t] = FALSE]
      /\ NobodyListens(t)
      /\ pc' = [pc EXCEPT ![t] = "over"]
      /\ result' = [result EXCEPT ![t] = ResultOf(call[t], devices[t])]
      /\ outcome' = [outcome EXCEPT ![t] = "done"]
      /\ UNCHANGED <<call, devices, address, bare, heard, held>>
  BY DEF SweepEnds, Collected, SocketClosed, Returns, historyVars
<1>2. devices[t] \in SUBSET Announcement /\ Keyed(devices[t]) /\ MacsOf(devices[t]) = heard[t]
  BY DEF IInv, Types, TaskInv, Tabled
<1>3. /\ ResultOf(call[t], devices[t]) = s
      /\ report \in SUBSET devices[t]
      /\ Keyed(report)
      /\ MacsOf(report) = IF call[t].op = "discover" THEN heard[t]
                                                     ELSE heard[t] \cap {call[t].mac}
  BY <1>2, ResultFacts
<1> HIDE DEF report
<1>4. report \in SUBSET Announcement
  BY <1>2, <1>3
<1>5. IsFiniteSet(report) /\ Cardinality(MacsOf(report)) = Cardinality(report)
  BY <1>3, <1>4, TableCounts
<1>6. /\ s \in Seq(Announcement)
      /\ Len(s) = Cardinality(report)
      /\ \A i \in DOMAIN s : s[i] \in report
      /\ \A i, j \in DOMAIN s : i < j => Before(s[i], s[j])
      /\ Heard(s) = MacsOf(report)
  BY <1>3, <1>4, <1>5, ListingFacts
<1> HIDE DEF s
<1>7. Types'
  BY <1>1, <1>3, <1>6 DEF IInv, Types, Outcomes
<1>8. OnlyOf(t)
  BY <1>1 DEF IInv, Types, OnlyOf
<1>9. pc'[t] = "over" /\ ~socket'[t] /\ result'[t] = s /\ outcome'[t] = "done"
  BY <1>1, <1>3 DEF IInv, Types
<1>10. Progress(t)'
  BY <1>1, <1>3, <1>6, <1>9, CallBegun, CallFields DEF Progress
<1>11. Sightings(t)' /\ Tabled(t)'
  BY <1>1, <1>9 DEF IInv, TaskInv, Sightings, Tabled, Fresh
<1>12. Reported(t)'
  <2>1. ASSUME NEW i \in 1..(Len(s) - 1)
        PROVE  s[i + 1].ip = Unknown \/ (s[i].ip # Unknown /\ s[i].ip <= s[i + 1].ip)
    <3>1. i \in DOMAIN s /\ i + 1 \in DOMAIN s /\ i < i + 1
      BY <1>6
    <3>2. Before(s[i], s[i + 1]) /\ s[i] \in Announcement /\ s[i + 1] \in Announcement
      BY <1>4, <1>6, <3>1
    <3>. QED
      BY <3>2, BeforeByAddress
  <2>2. /\ Len(s) = Cardinality(Heard(s))
        /\ Heard(s) = IF call[t].op = "discover" THEN heard[t] ELSE heard[t] \cap {call[t].mac}
    BY <1>3, <1>5, <1>6
  <2>. QED
    BY <1>1, <1>9, <2>1, <2>2 DEF Reported
<1>13. TaskInv(t)'
  BY <1>10, <1>11, <1>12 DEF TaskInv
<1>. QED
  BY <1>1, <1>7, <1>8, <1>13, NobodyListensKeeps, TaskStepKeeps

\* An announcement takes the place of the one its device sent before.
LEMMA ReceivesKeeps ==
  ASSUME IInv, NEW t \in Tasks, NEW reply \in replies, Receives(t, reply)
  PROVE  IInv'
<1> DEFINE a == [mac |-> reply.mac, ip |-> reply.ip]
<1>1. /\ pc[t] = "collecting" /\ reply.to = t
      /\ devices' = [devices EXCEPT ![t] = {b \in @ : ~SameKey(a, b)} \cup {a}]
      /\ heard' = [heard EXCEPT ![t] = @ \cup {reply.mac}]
      /\ UNCHANGED <<call, pc, socket, result, outcome, address, bare, requests, replies, held>>
  BY DEF Receives, networkVars
<1>2. AnswerToSweep(reply)
  BY DEF IInv
<1>3. a \in Announcement /\ a.mac = reply.mac /\ reply.mac \in Macs /\ Fresh(t, a)
  BY <1>1, <1>2 DEF AnswerToSweep, Announcement
<1> HIDE DEF a
<1>4. /\ devices'[t] = {b \in devices[t] : b.mac # a.mac} \cup {a}
      /\ heard'[t] = heard[t] \cup {a.mac}
  BY <1>1, <1>3 DEF IInv, Types, SameKey
<1>5. Types'
  BY <1>1, <1>3 DEF IInv, Types
<1>6. OnlyOf(t)
  BY <1>1 DEF IInv, Types, OnlyOf
<1>7. result[t] = <<>> /\ outcome[t] = "none"
  BY <1>1 DEF IInv, TaskInv, Progress
<1>8. Progress(t)'
  BY <1>1, <1>7 DEF IInv, TaskInv, Progress
<1>9. Sightings(t)'
  BY <1>1, <1>3, <1>4 DEF IInv, TaskInv, Sightings, Fresh
<1>10. Tabled(t)'
  <2>1. Keyed(devices[t]) /\ MacsOf(devices[t]) = heard[t]
    BY DEF IInv, TaskInv, Tabled
  <2>2. Keyed(devices'[t])
    BY <1>4, <2>1 DEF Keyed
  <2>3. MacsOf(devices'[t]) = heard'[t]
    BY <1>4, <2>1 DEF MacsOf
  <2>. QED
    BY <2>2, <2>3 DEF Tabled
<1>11. Reported(t)'
  BY <1>1, <1>7 DEF Reported
<1>12. TaskInv(t)'
  BY <1>8, <1>9, <1>10, <1>11 DEF TaskInv
<1>13. ASSUME NEW r \in requests, r.from = t PROVE RequestOfCall(r)'
  BY <1>1 DEF IInv, RequestOfCall
<1>14. ASSUME NEW r \in replies PROVE AnswerToSweep(r)'
  BY <1>1 DEF IInv, AnswerToSweep, Fresh
<1>. QED
  BY <1>1, <1>5, <1>6, <1>12, <1>13, <1>14, TaskStepKeeps

\* A device answers a search where it is, which the sweep has seen, and where
\* the search went: to it alone, or to everybody.
LEMMA DeviceAnswersKeeps ==
  ASSUME IInv, NEW m \in Macs, NEW request \in requests, DeviceAnswers(m, request)
  PROVE  IInv'
<1> DEFINE t == request.from
           at == IF m \in bare THEN Unknown ELSE address[m]
           reply == [to |-> t, mac |-> m, ip |-> at]
<1>1. /\ request.method = "search"
      /\ Reaches(request, m)
      /\ replies' = replies \cup {reply}
      /\ UNCHANGED <<call, pc, socket, devices, result, outcome, address, bare, requests,
                    heard, held>>
  BY DEF DeviceAnswers, taskVars, historyVars
<1>2. /\ t \in Tasks /\ pc[t] = "collecting" /\ request.dest \in Destinations(call[t])
      /\ [mac |-> m, ip |-> address[m]] \in held[t]
  BY <1>1 DEF IInv, RequestOfCall, TaskInv, Sightings
<1>3. call[t] \in Calls /\ address[m] \in Addresses
  BY <1>2, CallBegun DEF IInv, Types
<1>4. call[t].targets = {} \/ address[m] \in call[t].targets
  <2>1. call[t].targets \in SUBSET Addresses /\ Addresses \subseteq 1..254
    BY <1>3, CallFields
  <2>2. CASE call[t].targets # {}
    <3>1. request.dest \in call[t].targets
      BY <1>2, <2>2 DEF Destinations
    <3>2. request.dest \notin {Group, Broadcast}
      BY <2>1, <3>1 DEF Group, Broadcast
    <3>3. request.dest = address[m]
      BY <1>1, <3>2 DEF Reaches
    <3>. QED
      BY <3>1, <3>3
  <2>. QED
    BY <2>2
<1>5. [mac |-> m, ip |-> at].ip # Unknown => at = address[m]
  OBVIOUS
<1>6. Fresh(t, [mac |-> m, ip |-> at])
  BY <1>2, <1>4, <1>5 DEF Fresh
<1>7. AnswerToSweep(reply)
  BY <1>2, <1>3, <1>6 DEF AnswerToSweep
<1> HIDE DEF reply
<1>8. Types'
  BY <1>1 DEF IInv, Types
<1>9. ASSUME NEW u \in Tasks PROVE TaskInv(u)'
  BY <1>1 DEF IInv, TaskInv, Progress, Sightings, Tabled, Reported, Fresh
<1>10. ASSUME NEW r \in requests' PROVE RequestOfCall(r)'
  BY <1>1 DEF IInv, RequestOfCall
<1>11. ASSUME NEW r \in replies' PROVE AnswerToSweep(r)'
  <2>1. AnswerToSweep(r)
    BY <1>1, <1>7 DEF IInv
  <2>. QED
    BY <1>1, <2>1 DEF AnswerToSweep, Fresh
<1>. QED
  BY <1>8, <1>9, <1>10, <1>11 DEF IInv

\* A device that moves is seen by the sweeps that go on.
LEMMA DeviceMovesKeeps ==
  ASSUME IInv, NEW m \in Macs, NEW request \in requests, DeviceMoves(m, request)
  PROVE  IInv'
<1>1. /\ request.method = "setConfig"
      /\ address' = [address EXCEPT ![m] = request.ip]
      /\ held' = [t \in Tasks |-> IF pc[t] = "collecting"
                                     THEN held[t] \cup {[mac |-> m, ip |-> request.ip]}
                                     ELSE held[t]]
      /\ UNCHANGED <<call, pc, socket, devices, result, outcome, bare, requests, replies,
                    heard>>
  BY DEF DeviceMoves, taskVars
<1>2. request.ip \in Addresses
  <2>1. /\ request.from \in Tasks /\ call[request.from].op = "set"
        /\ request.ip = call[request.from].ip
    BY <1>1 DEF IInv, RequestOfCall
  <2>2. call[request.from] # NoCall /\ call[request.from] \in Calls \cup {NoCall}
    BY <2>1, CallFields DEF IInv, Types
  <2>. QED
    BY <2>1, <2>2, CallFields
<1>3. [mac |-> m, ip |-> request.ip] \in Announcement
  BY <1>2 DEF Announcement
<1>4. Types'
  BY <1>1, <1>2, <1>3 DEF IInv, Types
<1>5. ASSUME NEW t \in Tasks PROVE held[t] \subseteq held'[t]
  BY <1>1
<1>6. ASSUME NEW t \in Tasks PROVE TaskInv(t)'
  <2>1. Progress(t)' /\ Tabled(t)' /\ Reported(t)'
    BY <1>1 DEF IInv, TaskInv, Progress, Tabled, Reported
  <2>2. \A a \in devices'[t] : Fresh(t, a)'
    BY <1>1, <1>5 DEF IInv, TaskInv, Sightings, Fresh
  <2>3. ASSUME pc'[t] = "collecting", NEW n \in Macs
        PROVE  [mac |-> n, ip |-> address'[n]] \in held'[t]
    <3>1. CASE n = m
      BY <1>1, <2>3, <3>1 DEF IInv, Types
    <3>2. CASE n # m
      <4>1. address'[n] = address[n]
        BY <1>1, <3>2 DEF IInv, Types
      <4>2. [mac |-> n, ip |-> address[n]] \in held[t]
        BY <1>1, <2>3 DEF IInv, TaskInv, Sightings
      <4>. QED
        BY <1>5, <4>1, <4>2
    <3>. QED
      BY <3>1, <3>2
  <2>. QED
    BY <2>1, <2>2, <2>3 DEF TaskInv, Sightings
<1>7. ASSUME NEW r \in requests' PROVE RequestOfCall(r)'
  BY <1>1 DEF IInv, RequestOfCall
<1>8. ASSUME NEW r \in replies' PROVE AnswerToSweep(r)'
  <2>1. AnswerToSweep(r)
    BY <1>1 DEF IInv
  <2>. QED
    BY <1>1, <1>5, <2>1 DEF AnswerToSweep, Fresh
<1>. QED
  BY <1>4, <1>6, <1>7, <1>8 DEF IInv

-----------------------------------------------------------------------------
(* The theorems.                                                           *)

\* Initially no call is under way and the segment is empty.
LEMMA InitIInv == Init => IInv
<1> SUFFICES ASSUME Init PROVE IInv
  OBVIOUS
<1>1. Types
  BY DEF Init, Types, Outcomes
<1>2. ASSUME NEW t \in Tasks PROVE TaskInv(t)
  BY DEF Init, TaskInv, Progress, Sightings, Tabled, Keyed, MacsOf, Reported
<1>3. requests = {} /\ replies = {}
  BY DEF Init
<1>. QED
  BY <1>1, <1>2, <1>3 DEF IInv

\* Every step preserves it.
LEMMA StepIInv == IInv /\ [Next]_vars => IInv'
<1> SUFFICES ASSUME IInv, [Next]_vars PROVE IInv'
  OBVIOUS
<1>1. ASSUME NEW t \in Tasks, TaskStep(t) PROVE IInv'
  <2>1. CASE \E c \in Calls : DiscoverStarts(t, c) \/ SetStarts(t, c) \/ SocketFails(t, c)
    BY <2>1, DiscoverStartsKeeps, SetStartsKeeps, SocketFailsKeeps
  <2>2. CASE Settled(t) \/ VerificationFails(t) \/ SweepEnds(t) \/ Cancelled(t)
    BY <2>2, SettledKeeps, VerificationFailsKeeps, SweepEndsKeeps, CancelledKeeps
  <2>3. CASE \E reply \in replies : Receives(t, reply)
    BY <2>3, ReceivesKeeps
  <2>. QED
    BY <1>1, <2>1, <2>2, <2>3 DEF TaskStep
<1>2. ASSUME DeviceStep PROVE IInv'
  BY <1>2, DeviceAnswersKeeps, DeviceMovesKeeps DEF DeviceStep
<1>3. CASE UNCHANGED vars
  <2>1. UNCHANGED <<call, pc, socket, devices, result, outcome, address, bare, requests,
                    replies, heard, held>>
    BY <1>3 DEF vars, taskVars, networkVars, historyVars
  <2>2. Types'
    BY <2>1 DEF IInv, Types
  <2>3. ASSUME NEW u \in Tasks PROVE TaskInv(u)'
    BY <2>1 DEF IInv, TaskInv, Progress, Sightings, Tabled, Reported, Fresh
  <2>4. ASSUME NEW r \in requests' PROVE RequestOfCall(r)'
    BY <2>1 DEF IInv, RequestOfCall
  <2>5. ASSUME NEW r \in replies' PROVE AnswerToSweep(r)'
    BY <2>1 DEF IInv, AnswerToSweep, Fresh
  <2>. QED
    BY <2>2, <2>3, <2>4, <2>5 DEF IInv
<1>. QED
  BY <1>1, <1>2, <1>3 DEF Next

\* The discoveries and re-addressings of any number of tasks keep the
\* inductive invariant.
THEOREM Inductive == Spec => []IInv
BY InitIInv, StepIInv, PTL DEF Spec

\* The variables have their types, and a socket is open exactly while its task
\* collects answers, whichever way the call ends.
THEOREM TypesHold == Spec => []TypeOK
<1>1. IInv => TypeOK
  BY DEF IInv, Types, Outcomes, TaskInv, Progress, TypeOK
<1>. QED
  BY <1>1, Inductive, PTL

\* async_discover and async_set_network_config report a device only at an
\* address it held during the sweep that reports it, and that the sweep asked.
THEOREM Freshness == Spec => []ReportsAreFresh
<1>1. IInv => ReportsAreFresh
  <2> SUFFICES ASSUME IInv, NEW t \in Tasks, NEW i \in DOMAIN result[t],
                      result[t][i].ip # Unknown
               PROVE  /\ result[t][i] \in held[t]
                      /\ call[t].targets = {} \/ result[t][i].ip \in call[t].targets
    BY DEF ReportsAreFresh
  <2>1. result[t][i] \in devices[t]
    BY DEF IInv, TaskInv, Progress
  <2>2. Fresh(t, result[t][i])
    BY <2>1 DEF IInv, TaskInv, Sightings
  <2>. QED
    BY <2>2 DEF Fresh
<1>. QED
  BY <1>1, Inductive, PTL

\* _ip_sort_key and the table keyed by MAC: each device that answered in time
\* is reported once, and in the order of the addresses.
THEOREM Completeness == Spec => []EveryAnswerReported
<1>1. IInv => EveryAnswerReported
  BY DEF IInv, TaskInv, Reported, EveryAnswerReported
<1>. QED
  BY <1>1, Inductive, PTL

\* No device is moved but by a call that names it, the address it has and the
\* one it gets.
THEOREM Moves == Spec => OnlyNamedDeviceMoves
<1> DEFINE Named(m) == \E t \in Tasks : /\ call[t].op = "set"
                                        /\ call[t].mac = m
                                        /\ call[t].ip = address'[m]
                                        /\ call[t].current = address[m]
<1>1. ASSUME IInv, Next, NEW m \in Macs, address'[m] # address[m] PROVE Named(m)
  <2>1. PICK n \in Macs, request \in requests : DeviceMoves(n, request)
    <3>1. ASSUME NEW t \in Tasks, TaskStep(t) PROVE UNCHANGED address
      <4>1. CASE \E c \in Calls : DiscoverStarts(t, c) \/ SetStarts(t, c) \/ SocketFails(t, c)
        BY <4>1 DEF DiscoverStarts, SetStarts, SocketFails, networkVars
      <4>2. CASE Settled(t) \/ VerificationFails(t) \/ SweepEnds(t) \/ Cancelled(t)
        BY <4>2 DEF Settled, VerificationFails, SweepEnds, Cancelled, networkVars
      <4>3. CASE \E reply \in replies : Receives(t, reply)
        BY <4>3 DEF Receives, networkVars
      <4>. QED
        BY <3>1, <4>1, <4>2, <4>3 DEF TaskStep
    <3>2. ASSUME NEW n \in Macs, NEW request \in requests, DeviceAnswers(n, request)
          PROVE  UNCHANGED address
      BY <3>2 DEF DeviceAnswers
    <3>. QED
      BY <1>1, <3>1, <3>2 DEF Next, DeviceStep
  <2> DEFINE t == request.from
  <2>2. /\ request.method = "setConfig" /\ Concerns(request, n) /\ request.old = address[n]
        /\ address' = [address EXCEPT ![n] = request.ip]
    BY <2>1 DEF DeviceMoves
  <2>3. n = m /\ address'[m] = request.ip
    BY <1>1, <2>2 DEF IInv, Types
  <2>4. /\ t \in Tasks /\ call[t].op = "set" /\ request.mac # NoMac
        /\ request.mac = call[t].mac /\ request.ip = call[t].ip
        /\ request.old = IPAddressOld(call[t])
    BY <1>1, <2>2 DEF IInv, RequestOfCall
  <2>5. call[t].mac = m
    BY <2>2, <2>3, <2>4 DEF Concerns
  <2>6. call[t].current = address[m]
    BY <1>1, <2>2, <2>3, <2>4 DEF IPAddressOld
  <2>. QED
    BY <2>3, <2>4, <2>5, <2>6
<1>2. ASSUME UNCHANGED vars, NEW m \in Macs PROVE address'[m] = address[m]
  BY <1>2 DEF vars, networkVars
<1>3. IInv /\ [Next]_vars =>
        [\A m \in Macs : address'[m] # address[m] => Named(m)]_vars
  BY <1>1, <1>2
<1>. QED
  BY <1>3, Inductive, PTL DEF Spec, OnlyNamedDeviceMoves

=============================================================================
