--------------------------- MODULE AudioGuardProofs ---------------------------
(***************************************************************************)
(* Theorems about AudioGuard and the vote of Brands, for every set of      *)
(* tasks, every device, and any number of calls and of refused queries.    *)
(***************************************************************************)
EXTENDS AudioGuard, TLAPS, FiniteSetTheorems

-----------------------------------------------------------------------------
(* The vote.                                                               *)

\* The profiles in the order of the table.
LEMMA KnownBrands ==
  /\ Known = {"dahua", "amcrest", "lorex", "empiretech"}
  /\ Place("dahua") = 1 /\ Place("amcrest") = 2
  /\ Place("lorex") = 3 /\ Place("empiretech") = 4
<1>1. DOMAIN Order = {1, 2, 3, 4}
  BY DEF Order
<1>2. Order[1] = "dahua" /\ Order[2] = "amcrest" /\ Order[3] = "lorex" /\ Order[4] = "empiretech"
  BY DEF Order
<1>3. Known = {"dahua", "amcrest", "lorex", "empiretech"}
  BY <1>1, <1>2 DEF Known
<1>4. ASSUME NEW i \in DOMAIN Order PROVE Place(Order[i]) = i
  BY <1>1, <1>2 DEF Place
<1>. QED
  BY <1>1, <1>2, <1>3, <1>4

\* The votes of the firmware: signals that have a weight.
LEMMA FirmwareSignals ==
  ASSUME NEW s, NEW b \in Known
  PROVE  /\ FirmwareVotes(s)[b] \in SUBSET {"vendor", "oem_code"}
         /\ "vendor" \in FirmwareVotes(s)[b] <=> s.vendor \in VendorAliases[b]
         /\ "oem_code" \in FirmwareVotes(s)[b] <=> s.version \in OemCodes[b]
BY DEF FirmwareVotes

\* The votes of the hardware: the serial prefix alone.
LEMMA HardwareSignals ==
  ASSUME NEW s, NEW b \in Known
  PROVE  /\ HardwareVotes(s)[b] \in SUBSET {"serial"}
         /\ "serial" \in HardwareVotes(s)[b] <=> s.serial \in SerialPrefixes[b]
BY DEF HardwareVotes

\* In one table of votes, no two sets of signals have the same weight and
\* different sizes.
Comparable(votes) ==
  \A b \in Known : votes[b] \in SUBSET {"vendor", "oem_code"} \/ votes[b] \in SUBSET {"serial"}

\* The weights of the signals of one table, and how many there can be.
LEMMA Weights ==
  ASSUME NEW x, x \in SUBSET {"vendor", "oem_code"} \/ x \in SUBSET {"serial"}
  PROVE  Weight(x) \in 0..3 /\ Cardinality(x) \in 0..2
<1>1. Weight(x) \in 0..3
  BY DEF Weight
<1>2. IsFiniteSet({"vendor"}) /\ Cardinality({"vendor"}) = 1
  BY FS_Singleton
<1>3. Cardinality({"vendor"} \cup {"oem_code"}) = Cardinality({"vendor"}) + 1
  BY <1>2, FS_AddElement
<1>4. {"vendor", "oem_code"} = {"vendor"} \cup {"oem_code"}
  OBVIOUS
<1>5. x \in {{}, {"vendor"}, {"oem_code"}, {"vendor", "oem_code"}, {"serial"}}
  OBVIOUS
<1>6. Cardinality({}) = 0 /\ Cardinality({"oem_code"}) = 1 /\ Cardinality({"serial"}) = 1
  BY FS_EmptySet, FS_Singleton
<1>. QED
  BY <1>1, <1>2, <1>3, <1>4, <1>5, <1>6

\* Of some known brands that all have different keys, one has the highest.
LEMMA Highest ==
  ASSUME NEW k \in [Known -> Int], \A b, c \in Known : b # c => k[b] # k[c],
         NEW V \in SUBSET Known, V # {}
  PROVE  \E b \in V : \A c \in V \ {b} : k[b] > k[c]
<1> DEFINE Has(U) == U # {} => \E b \in U : \A c \in U \ {b} : k[b] > k[c]
<1>1. ASSUME NEW U \in SUBSET Known, NEW x \in Known, Has(U) PROVE Has(U \cup {x})
  <2>1. CASE U = {}
    BY <2>1
  <2>2. CASE U # {}
    <3>1. PICK b \in U : \A c \in U \ {b} : k[b] > k[c]
      BY <1>1, <2>2
    <3>2. CASE k[b] >= k[x]
      <4>1. ASSUME NEW c \in (U \cup {x}) \ {b} PROVE k[b] > k[c]
        BY <3>1, <3>2, <4>1
      <4>. QED
        BY <4>1
    <3>3. CASE k[b] < k[x]
      <4>1. ASSUME NEW c \in (U \cup {x}) \ {x} PROVE k[x] > k[c]
        BY <3>1, <3>3, <4>1
      <4>. QED
        BY <4>1
    <3>. QED
      BY <3>2, <3>3
  <2>. QED
    BY <2>1, <2>2
<1>2. Has({})
  OBVIOUS
<1> HIDE DEF Has
<1>3. ASSUME NEW U \in SUBSET Known, NEW x \in Known, Has(V \cap U) PROVE Has(V \cap (U \cup {x}))
  <2>1. CASE x \in V
    <3>1. V \cap (U \cup {x}) = (V \cap U) \cup {x} /\ V \cap U \in SUBSET Known
      BY <2>1
    <3>. QED
      BY <1>1, <1>3, <3>1
  <2>2. CASE x \notin V
    <3>1. V \cap (U \cup {x}) = V \cap U
      BY <2>2
    <3>. QED
      BY <1>3, <3>1
  <2>. QED
    BY <2>1, <2>2
<1> DEFINE one == {} \cup {"dahua"}
           two == one \cup {"amcrest"}
           three == two \cup {"lorex"}
           four == three \cup {"empiretech"}
<1>4. Has(V \cap {}) /\ V \cap four = V
  BY <1>2, KnownBrands
<1>5. Has(V \cap four)
  <2>1. /\ {} \in SUBSET Known /\ one \in SUBSET Known /\ two \in SUBSET Known
        /\ three \in SUBSET Known
        /\ "dahua" \in Known /\ "amcrest" \in Known /\ "lorex" \in Known
        /\ "empiretech" \in Known
    BY KnownBrands
  <2>2. Has(V \cap one)
    BY <1>3, <1>4, <2>1
  <2> HIDE DEF one
  <2>3. Has(V \cap two)
    BY <1>3, <2>1, <2>2
  <2> HIDE DEF two
  <2>4. Has(V \cap three)
    BY <1>3, <2>1, <2>3
  <2> HIDE DEF three
  <2>. QED
    BY <1>3, <2>1, <2>4
<1> HIDE DEF four
<1>6. Has(V)
  BY <1>4, <1>5
<1>. QED
  BY <1>6 DEF Has

\* The key of best() decides between any two brands.
LEMMA Keys ==
  ASSUME NEW votes, Comparable(votes)
  PROVE  \E k \in [Known -> Int] :
           /\ \A b, c \in Known : b # c => k[b] # k[c]
           /\ \A b, c \in Known : Beats(votes, b, c) <=> k[b] > k[c]
<1> DEFINE k == [b \in Known |-> 100 * Weight(votes[b]) + 10 * Cardinality(votes[b]) - Place(b)]
<1>1. ASSUME NEW b \in Known
      PROVE  Weight(votes[b]) \in 0..3 /\ Cardinality(votes[b]) \in 0..2 /\ Place(b) \in 1..4
  BY Weights, KnownBrands DEF Comparable
<1>2. \A b, c \in Known : b # c => Place(b) # Place(c)
  BY KnownBrands
<1>3. k \in [Known -> Int]
  BY <1>1
<1>4. ASSUME NEW b \in Known, NEW c \in Known, b # c PROVE k[b] # k[c]
  BY <1>1, <1>2, <1>4
<1>5. ASSUME NEW b \in Known, NEW c \in Known PROVE Beats(votes, b, c) <=> k[b] > k[c]
  BY <1>1 DEF Beats
<1>. QED
  BY <1>3, <1>4, <1>5

\* best() finds the brand that beats all others voted for, if there are any.
LEMMA BestFacts ==
  ASSUME NEW votes, Comparable(votes)
  PROVE  /\ (\A b \in Known : votes[b] = {}) => Best(votes) = "unknown"
         /\ (\E b \in Known : votes[b] # {}) =>
              /\ Best(votes) \in Known /\ votes[Best(votes)] # {}
              /\ \A c \in Known : votes[c] # {} /\ c # Best(votes) =>
                   Weight(votes[c]) <= Weight(votes[Best(votes)])
<1> DEFINE voted == {b \in Known : votes[b] # {}}
<1>1. Best(votes) = IF voted = {} THEN "unknown"
                    ELSE CHOOSE b \in voted : \A c \in voted \ {b} : Beats(votes, b, c)
  BY Zenon DEF Best
<1>2. CASE voted = {}
  BY <1>1, <1>2
<1>3. CASE voted # {}
  <2>1. PICK k \in [Known -> Int] :
          /\ \A b, c \in Known : b # c => k[b] # k[c]
          /\ \A b, c \in Known : Beats(votes, b, c) <=> k[b] > k[c]
    BY Keys
  <2>2. PICK b \in voted : \A c \in voted \ {b} : k[b] > k[c]
    <3>1. voted \in SUBSET Known
      OBVIOUS
    <3> HIDE DEF voted
    <3>. QED
      BY <1>3, <2>1, <3>1, Highest
  <2>3. \A c \in voted \ {b} : Beats(votes, b, c)
    BY <2>1, <2>2
  <2> DEFINE best == CHOOSE e \in voted : \A c \in voted \ {e} : Beats(votes, e, c)
  <2>4. best \in voted /\ \A c \in voted \ {best} : Beats(votes, best, c)
    BY <2>3
  <2>5. Best(votes) = best
    BY <1>1, <1>3
  <2> HIDE DEF best
  <2>6. ASSUME NEW c \in voted \ {best} PROVE Weight(votes[c]) <= Weight(votes[best])
    <3>1. Beats(votes, best, c)
      BY <2>4, <2>6
    <3>2. Weight(votes[c]) \in 0..3 /\ Weight(votes[best]) \in 0..3
      BY <2>4, <2>6, Weights DEF Comparable
    <3>. QED
      BY <3>1, <3>2 DEF Beats
  <2>. QED
    BY <1>3, <2>4, <2>5, <2>6
<1>. QED
  BY <1>2, <1>3

\* The brand of the firmware: that of its OEM code, or one with votes.
LEMMA FirmwareBrand ==
  ASSUME NEW s, NEW f, f = Best(FirmwareVotes(s))
  PROVE  /\ f \in Brand
         /\ \A b \in Known : s.version \in OemCodes[b] => f = b
         /\ f # "unknown" => f \in Known /\ FirmwareVotes(s)[f] # {}
         /\ f = "unknown" => \A b \in Known : FirmwareVotes(s)[b] = {}
<1> DEFINE votes == FirmwareVotes(s)
<1>1. "unknown" \notin Known
  BY KnownBrands
<1>2. Comparable(votes)
  BY FirmwareSignals DEF Comparable
<1>3. /\ (\A b \in Known : votes[b] = {}) => f = "unknown"
      /\ (\E b \in Known : votes[b] # {}) =>
           /\ f \in Known /\ votes[f] # {}
           /\ \A c \in Known : votes[c] # {} /\ c # f => Weight(votes[c]) <= Weight(votes[f])
  BY <1>2, BestFacts
<1>4. ASSUME NEW b \in Known, s.version \in OemCodes[b] PROVE f = b
  <2>1. "oem_code" \in votes[b]
    BY <1>4, FirmwareSignals
  <2>2. f \in Known /\ votes[f] # {} /\ (b # f => Weight(votes[b]) <= Weight(votes[f]))
    BY <1>3, <2>1
  <2>3. b # f => s.version \notin OemCodes[f]
    BY <1>4, <2>2, KnownBrands DEF OemCodes
  <2>4. b # f => "oem_code" \notin votes[f]
    BY <2>2, <2>3, FirmwareSignals
  <2>5. Weight(votes[b]) >= 2
    BY <2>1 DEF Weight
  <2>6. "oem_code" \notin votes[f] => Weight(votes[f]) <= 1
    BY DEF Weight
  <2>7. Weight(votes[b]) \in 0..3 /\ Weight(votes[f]) \in 0..3
    BY <1>2, <2>2, Weights DEF Comparable
  <2>. QED
    BY <2>2, <2>4, <2>5, <2>6, <2>7
<1>. QED
  BY <1>1, <1>3, <1>4 DEF Brand

\* The brand of the hardware: one with votes, or unknown without any.
LEMMA HardwareBrand ==
  ASSUME NEW s, NEW h, h = Best(HardwareVotes(s))
  PROVE  /\ h \in Brand
         /\ h # "unknown" => h \in Known /\ HardwareVotes(s)[h] # {}
         /\ h = "unknown" => \A b \in Known : HardwareVotes(s)[b] = {}
<1> DEFINE votes == HardwareVotes(s)
<1>1. "unknown" \notin Known
  BY KnownBrands
<1>2. Comparable(votes)
  BY HardwareSignals DEF Comparable
<1>3. /\ (\A b \in Known : votes[b] = {}) => h = "unknown"
      /\ (\E b \in Known : votes[b] # {}) => h \in Known /\ votes[h] # {}
  BY <1>2, BestFacts
<1>. QED
  BY <1>1, <1>3 DEF Brand

\* identify_brand: the firmware's OEM code decides, then the vendor string, and
\* the hardware where the firmware is silent.
THEOREM Identification ==
  ASSUME NEW s, NEW m, m = IdentifyBrand(s)
  PROVE  /\ m \in [brand : Brand, firmware_brand : Brand, hardware_brand : Brand,
                    matched_on : SUBSET {"vendor", "oem_code", "serial"}]
         /\ m.firmware_brand # "unknown" => m.brand = m.firmware_brand
         /\ m.brand = "unknown" <=> m.matched_on = {}
         /\ \A b \in Known : s.version \in OemCodes[b] => m.brand = b
         /\ m.brand = "lorex" =>
              \/ s.version = "LR"
              \/ /\ s.version \notin {"DH", "AC"}
                 /\ \/ s.vendor \in VendorAliases["lorex"]
                    \/ /\ \A b \in Known : s.vendor \notin VendorAliases[b]
                       /\ s.serial = "ND"
<1> DEFINE f == Best(FirmwareVotes(s))
           h == Best(HardwareVotes(s))
           b0 == Reported(f, h)
           fv == FirmwareVotes(s)
           hv == HardwareVotes(s)
<1>1. /\ f \in Brand
      /\ \A b \in Known : s.version \in OemCodes[b] => f = b
      /\ f # "unknown" => f \in Known /\ fv[f] # {}
      /\ f = "unknown" => \A b \in Known : fv[b] = {}
  BY FirmwareBrand
<1>2. /\ h \in Brand
      /\ h # "unknown" => h \in Known /\ hv[h] # {}
      /\ h = "unknown" => \A b \in Known : hv[b] = {}
  BY HardwareBrand
<1>3. m = [brand          |-> b0,
           firmware_brand |-> f,
           hardware_brand |-> h,
           matched_on     |-> IF b0 = "unknown" THEN {} ELSE fv[b0] \cup hv[b0]]
  BY DEF IdentifyBrand
<1>4. "unknown" \notin Known /\ Brand = Known \cup {"unknown"}
  BY KnownBrands DEF Brand
<1>5. b0 = IF f # "unknown" THEN f ELSE h
  BY DEF Reported
<1>6. \A b \in Known : fv[b] \in SUBSET {"vendor", "oem_code"} /\ hv[b] \in SUBSET {"serial"}
  BY FirmwareSignals, HardwareSignals
<1>7. /\ \A b \in Known : "vendor" \in fv[b] <=> s.vendor \in VendorAliases[b]
      /\ \A b \in Known : "oem_code" \in fv[b] <=> s.version \in OemCodes[b]
      /\ \A b \in Known : "serial" \in hv[b] <=> s.serial \in SerialPrefixes[b]
  BY FirmwareSignals, HardwareSignals
<1> HIDE DEF f, h, fv, hv, b0
<1>8. b0 \in Brand /\ (b0 # "unknown" => b0 \in Known /\ fv[b0] \cup hv[b0] # {})
  BY <1>1, <1>2, <1>4, <1>5
<1>9. /\ m.brand = b0 /\ m.firmware_brand = f /\ m.hardware_brand = h
      /\ m.matched_on = IF b0 = "unknown" THEN {} ELSE fv[b0] \cup hv[b0]
  BY <1>3
<1>10. m.matched_on \in SUBSET {"vendor", "oem_code", "serial"}
  BY <1>6, <1>8, <1>9
<1>11. m \in [brand : Brand, firmware_brand : Brand, hardware_brand : Brand,
              matched_on : SUBSET {"vendor", "oem_code", "serial"}]
  BY <1>1, <1>2, <1>3, <1>8, <1>9, <1>10
<1>12. ASSUME b0 = "lorex"
       PROVE  \/ s.version = "LR"
              \/ /\ s.version \notin {"DH", "AC"}
                 /\ \/ s.vendor \in VendorAliases["lorex"]
                    \/ /\ \A b \in Known : s.vendor \notin VendorAliases[b]
                       /\ s.serial = "ND"
  <2>1. /\ OemCodes["dahua"] = {"DH"} /\ OemCodes["amcrest"] = {"AC"}
        /\ OemCodes["lorex"] = {"LR"} /\ SerialPrefixes["lorex"] = {"ND"}
    BY DEF OemCodes, SerialPrefixes
  <2>2. "dahua" \in Known /\ "amcrest" \in Known /\ "lorex" \in Known
    BY KnownBrands
  <2>3. s.version \notin {"DH", "AC"}
    BY <1>1, <1>5, <1>12, <2>1, <2>2
  <2>4. CASE f # "unknown"
    <3>1. fv["lorex"] # {} /\ fv["lorex"] \in SUBSET {"vendor", "oem_code"}
      BY <1>1, <1>5, <1>6, <1>12, <2>2, <2>4
    <3>2. "vendor" \in fv["lorex"] \/ "oem_code" \in fv["lorex"]
      BY <3>1
    <3>. QED
      BY <1>7, <2>1, <2>2, <2>3, <3>2
  <2>5. CASE f = "unknown"
    <3>1. hv["lorex"] # {} /\ hv["lorex"] \in SUBSET {"serial"}
      BY <1>2, <1>5, <1>6, <1>12, <2>2, <2>5
    <3>2. "serial" \in hv["lorex"]
      BY <3>1
    <3>3. \A b \in Known : s.vendor \notin VendorAliases[b]
      BY <1>1, <1>7, <2>5
    <3>. QED
      BY <1>7, <2>1, <2>2, <2>3, <3>2, <3>3
  <2>. QED
    BY <2>4, <2>5
<1>13. \A b \in Known : s.version \in OemCodes[b] => b0 = b
  BY <1>1, <1>4, <1>5
<1>14. b0 = "unknown" <=> m.matched_on = {}
  BY <1>8, <1>9
<1>15. f # "unknown" => b0 = f
  BY <1>5
<1>. QED
  BY <1>9, <1>11, <1>12, <1>13, <1>14, <1>15

-----------------------------------------------------------------------------
(* The inductive invariant.                                                *)

Results == {"none", "pending", "done", "unsafe", "raised"}
Strings == {"none"} \cup {device[q] : q \in Query}

Types ==
  /\ brand \in {NoBrand} \cup [brand : Brand, firmware_brand : Brand, hardware_brand : Brand,
                               matched_on : SUBSET {"vendor", "oem_code", "serial"}]
  /\ pc \in [Tasks -> {"idle", "prime"} \cup Query \cup Sending]
  /\ op \in [Tasks -> Ops]
  /\ force \in [Tasks -> BOOLEAN]
  /\ got \in [Tasks -> [Query -> Strings]]
  /\ result \in [Tasks -> Results]
  /\ device \in Devices
  /\ up \in BOOLEAN
  /\ calls \in 0..MaxCalls
  /\ refused \in [Query -> 0..MaxRefused]

\* The value a query ends with: the device's, or none if it has been refused.
Vouched(q, value) == value = device[q] \/ (value = "none" /\ refused[q] > 0)

\* The strings an identification of this device may end with.
Seen == {s \in [Query -> Strings] : \A q \in Query : Vouched(q, s[q])}

\* The cached brand is that of such strings.
Cached == brand # NoBrand => \E s \in Seen : brand = IdentifyBrand(s)

\* A call identifies the device unforced, and holds the values of the queries
\* that are over; what the guard let through or held back was a brand made of
\* such strings.
TaskInv(t) ==
  /\ force[t] => op[t] # "async_identify"
  /\ \A q \in Query : got[t][q] \in {"none", device[q]}
  /\ pc[t] \in Query => ~force[t]
  /\ pc[t] \in {"version", "serial"} => Vouched("vendor", got[t]["vendor"])
  /\ pc[t] = "serial" => Vouched("version", got[t]["version"])
  /\ pc[t] \in Sending \cup {"prime"} =>
       force[t] \/ \E s \in Seen : ~Unsafe(IdentifyBrand(s))
  /\ result[t] = "unsafe" => ~force[t] /\ \E s \in Seen : Unsafe(IdentifyBrand(s))

IInv == Types /\ Cached /\ \A t \in Tasks : TaskInv(t)

-----------------------------------------------------------------------------
(* The steps.                                                              *)

\* The three queries, in the order async_identify asks them.
LEMMA QueryNames ==
  /\ Query = {"vendor", "version", "serial"}
  /\ DOMAIN Queries = {1, 2, 3} /\ Len(Queries) = 3
  /\ Queries[1] = "vendor" /\ Queries[2] = "version" /\ Queries[3] = "serial"
<1>1. /\ DOMAIN Queries = {1, 2, 3} /\ Len(Queries) = 3
      /\ Queries[1] = "vendor" /\ Queries[2] = "version" /\ Queries[3] = "serial"
  BY DEF Queries
<1>. QED
  BY <1>1 DEF Query

\* Nothing of another task changes.
OnlyOf(t) ==
  \A u \in Tasks \ {t} :
    /\ pc'[u] = pc[u] /\ op'[u] = op[u] /\ force'[u] = force[u]
    /\ got'[u] = got[u] /\ result'[u] = result[u]

\* Refusals only add to what may be seen of the device.
LEMMA SeenGrows ==
  ASSUME IInv, Types', UNCHANGED device, \A q \in Query : refused'[q] >= refused[q]
  PROVE  Seen \subseteq Seen' /\ \A q, value : q \in Query /\ Vouched(q, value) => Vouched(q, value)'
<1>1. ASSUME NEW q \in Query, refused[q] > 0 PROVE refused'[q] > 0
  <2>1. refused[q] \in 0..MaxRefused /\ refused'[q] \in 0..MaxRefused
    BY DEF IInv, Types
  <2>. QED
    BY <1>1, <2>1
<1>2. \A q, value : q \in Query /\ Vouched(q, value) => Vouched(q, value)'
  BY <1>1 DEF Vouched
<1>3. Strings' = Strings
  BY DEF Strings
<1>. QED
  BY <1>2, <1>3 DEF Seen

\* A step of one task leaves to be shown what it does to that task and to the
\* cached brand.
LEMMA TaskStepKeeps ==
  ASSUME IInv, NEW t \in Tasks, Types', UNCHANGED device,
         \A q \in Query : refused'[q] >= refused[q],
         OnlyOf(t), TaskInv(t)', UNCHANGED brand \/ Cached'
  PROVE  IInv'
<1>1. Seen \subseteq Seen' /\ \A q, value : q \in Query /\ Vouched(q, value) => Vouched(q, value)'
  BY SeenGrows
<1>2. "vendor" \in Query /\ "version" \in Query
  BY QueryNames
<1>3. ASSUME NEW u \in Tasks PROVE TaskInv(u)'
  <2>1. CASE u # t
    <3>1. TaskInv(u)
      BY DEF IInv
    <3>2. /\ pc'[u] = pc[u] /\ op'[u] = op[u] /\ force'[u] = force[u]
          /\ got'[u] = got[u] /\ result'[u] = result[u]
      BY <2>1 DEF OnlyOf
    <3>. QED
      BY <1>1, <1>2, <3>1, <3>2 DEF TaskInv
  <2>. QED
    BY <2>1
<1>4. Cached'
  BY <1>1 DEF IInv, Cached
<1>. QED
  BY <1>3, <1>4 DEF IInv

\* The guard's verdict on a brand made of strings seen: the request is held
\* back, or goes on.
LEMMA Verdict ==
  ASSUME IInv, NEW t \in Tasks, NEW o \in Ops \ {"async_identify"}, NEW m,
         Guard(t, o, m), NEW f \in BOOLEAN, ~f,
         op' \in [Tasks -> Ops], op'[t] = o,
         force' \in [Tasks -> BOOLEAN], force'[t] = f,
         \A q \in Query : got'[t][q] \in {"none", device'[q]},
         NEW s \in Seen', m = IdentifyBrand(s)
  PROVE  /\ TaskInv(t)'
         /\ pc' \in [Tasks -> {"idle", "prime"} \cup Query \cup Sending]
         /\ result' \in [Tasks -> Results]
         /\ \A u \in Tasks \ {t} : pc'[u] = pc[u] /\ result'[u] = result[u]
<1>1. pc \in [Tasks -> {"idle", "prime"} \cup Query \cup Sending] /\ result \in [Tasks -> Results]
  BY DEF IInv, Types
<1>2. \A x \in {"idle", "prime"} \cup Sending : x \notin Query
  BY QueryNames DEF Sending
<1>3. CASE Unsafe(m)
  <2>1. pc' = [pc EXCEPT ![t] = "idle"] /\ result' = [result EXCEPT ![t] = "unsafe"]
    BY <1>3 DEF Guard, Returns
  <2>2. pc'[t] = "idle" /\ result'[t] = "unsafe" /\ "idle" \notin Sending \cup {"prime"} \cup Query
    BY <1>1, <1>2, <2>1 DEF Sending
  <2>3. TaskInv(t)'
    BY <1>3, <2>2, QueryNames DEF TaskInv
  <2>. QED
    BY <1>1, <2>1, <2>3 DEF Results
<1>4. CASE ~Unsafe(m)
  <2>1. pc' = [pc EXCEPT ![t] = GoAhead(o)] /\ result' = [result EXCEPT ![t] = "pending"]
    BY <1>4 DEF Guard, GoesTo
  <2>2. GoAhead(o) \in {"getAudio", "prime"}
    BY DEF GoAhead
  <2>3. /\ pc'[t] \in {"getAudio", "prime"} /\ result'[t] = "pending"
        /\ pc'[t] \notin Query /\ pc'[t] \notin {"version", "serial"}
    BY <1>1, <1>2, <2>1, <2>2, QueryNames DEF Sending
  <2>4. TaskInv(t)'
    BY <1>4, <2>3 DEF TaskInv
  <2>. QED
    BY <1>1, <2>1, <2>2, <2>4 DEF Results, Sending
<1>. QED
  BY <1>3, <1>4

\* A call starts: with its first query, past the guard, or at the guard.
LEMMA CallStartsKeeps ==
  ASSUME IInv, NEW t \in Tasks, NEW o \in Ops, NEW f \in BOOLEAN, CallStarts(t, o, f)
  PROVE  IInv'
<1>1. /\ pc[t] = "idle" /\ calls < MaxCalls /\ (o = "async_identify" => ~f)
      /\ calls' = calls + 1 /\ op' = [op EXCEPT ![t] = o] /\ force' = [force EXCEPT ![t] = f]
      /\ got' = [got EXCEPT ![t] = NoStrings] /\ StartsAt(t, o, f)
      /\ UNCHANGED <<brand, device, up, refused>>
  BY DEF CallStarts
<1>2. /\ pc \in [Tasks -> {"idle", "prime"} \cup Query \cup Sending] /\ result \in [Tasks -> Results]
      /\ op \in [Tasks -> Ops] /\ force \in [Tasks -> BOOLEAN]
      /\ got \in [Tasks -> [Query -> Strings]]
  BY DEF IInv, Types
<1>3. NoStrings \in [Query -> Strings] /\ \A q \in Query : NoStrings[q] = "none"
  BY QueryNames DEF NoStrings, Strings
<1>4. /\ op' \in [Tasks -> Ops] /\ op'[t] = o /\ force' \in [Tasks -> BOOLEAN] /\ force'[t] = f
      /\ got' \in [Tasks -> [Query -> Strings]] /\ got'[t] = NoStrings
      /\ \A u \in Tasks \ {t} : op'[u] = op[u] /\ force'[u] = force[u] /\ got'[u] = got[u]
  BY <1>1, <1>2, <1>3
<1>5. calls' \in 0..MaxCalls
  BY <1>1, AudioGuardAssumption DEF IInv, Types
<1>6. /\ TaskInv(t)'
      /\ pc' \in [Tasks -> {"idle", "prime"} \cup Query \cup Sending]
      /\ result' \in [Tasks -> Results]
      /\ \A u \in Tasks \ {t} : pc'[u] = pc[u] /\ result'[u] = result[u]
  <2>1. CASE Identifies(o, f)
    <3>1. ~f
      BY <1>1, <2>1 DEF Identifies
    <3>2. pc' = [pc EXCEPT ![t] = "vendor"] /\ result' = [result EXCEPT ![t] = "pending"]
      BY <1>1, <2>1, <3>1 DEF StartsAt, GoesTo
    <3>3. pc'[t] = "vendor" /\ result'[t] = "pending"
      BY <1>2, <3>2
    <3>4. TaskInv(t)'
      BY <1>3, <1>4, <3>1, <3>3, QueryNames DEF TaskInv, Sending
    <3>. QED
      BY <1>2, <3>2, <3>4, QueryNames DEF Results
  <2>2. CASE ~Identifies(o, f) /\ f
    <3>1. pc' = [pc EXCEPT ![t] = GoAhead(o)] /\ result' = [result EXCEPT ![t] = "pending"]
      BY <1>1, <2>2 DEF StartsAt, GoesTo
    <3>2. GoAhead(o) \in {"getAudio", "prime"}
      BY DEF GoAhead
    <3>3. /\ pc'[t] \in {"getAudio", "prime"} /\ result'[t] = "pending"
          /\ pc'[t] \notin Query
      BY <1>2, <3>1, <3>2, QueryNames
    <3>4. TaskInv(t)'
      BY <1>1, <1>3, <1>4, <2>2, <3>3, QueryNames DEF TaskInv
    <3>. QED
      BY <1>2, <3>1, <3>2, <3>4 DEF Results, Sending
  <2>3. CASE ~Identifies(o, f) /\ ~f
    <3>1. Guard(t, o, brand) /\ o # "async_identify" /\ brand # NoBrand
      BY <1>1, <2>3 DEF StartsAt, Identifies
    <3>2. PICK s \in Seen : brand = IdentifyBrand(s)
      BY <3>1 DEF IInv, Cached
    <3>3. s \in Seen'
      BY <1>1 DEF Seen, Vouched, Strings
    <3>4. \A q \in Query : got'[t][q] \in {"none", device'[q]}
      BY <1>3, <1>4
    <3>. QED
      BY <1>4, <2>3, <3>1, <3>2, <3>3, <3>4, Verdict
  <2>. QED
    BY <2>1, <2>2, <2>3
<1>7. Types'
  BY <1>1, <1>4, <1>5, <1>6 DEF IInv, Types, Strings
<1>8. OnlyOf(t)
  BY <1>4, <1>6 DEF OnlyOf
<1>9. \A q \in Query : refused'[q] >= refused[q]
  BY <1>1 DEF IInv, Types
<1>. QED
  BY <1>1, <1>6, <1>7, <1>8, <1>9, TaskStepKeeps

\* A query is over, answered or refused: the next one, or the brand.
LEMMA QueryOverKeeps ==
  ASSUME IInv, NEW t \in Tasks, pc[t] \in Query, NEW value \in Strings, QueryOver(t, value),
         \A q \in Query : refused'[q] >= refused[q], refused' \in [Query -> 0..MaxRefused],
         value \in {"none", device[pc[t]]},
         value = device[pc[t]] \/ refused'[pc[t]] > 0
  PROVE  IInv'
<1> DEFINE i == CHOOSE j \in DOMAIN Queries : Queries[j] = pc[t]
<1>a. PICK p \in Query : p = pc[t]
  OBVIOUS
<1>b. PICK strings : strings = Stored(t, value)
  OBVIOUS
<1>1. /\ got' = [got EXCEPT ![t] = strings]
      /\ IF i < Len(Queries) THEN GoesTo(t, Queries[i + 1]) /\ UNCHANGED brand
                             ELSE Identified(t, strings)
      /\ UNCHANGED <<op, force, device, up, calls>>
  BY <1>b DEF QueryOver
<1>2. /\ pc \in [Tasks -> {"idle", "prime"} \cup Query \cup Sending] /\ result \in [Tasks -> Results]
      /\ op \in [Tasks -> Ops] /\ force \in [Tasks -> BOOLEAN]
      /\ got \in [Tasks -> [Query -> Strings]]
  BY DEF IInv, Types
<1>3. strings = [got[t] EXCEPT ![pc[t]] = value]
  BY <1>b DEF Stored
<1>4. /\ strings \in [Query -> Strings] /\ strings[p] = value
      /\ \A q \in Query \ {p} : strings[q] = got[t][q]
  BY <1>a, <1>2, <1>3
<1>5. got' \in [Tasks -> [Query -> Strings]] /\ got'[t] = strings
      /\ \A u \in Tasks \ {t} : got'[u] = got[u]
  BY <1>1, <1>2, <1>4
<1>6. TaskInv(t) /\ ~force'[t] /\ force'[t] = force[t] /\ op'[t] = op[t]
  BY <1>1 DEF IInv, TaskInv
<1>7. \A q \in Query : got'[t][q] \in {"none", device'[q]}
  BY <1>a, <1>1, <1>4, <1>5, <1>6 DEF TaskInv
<1>8. Vouched(p, value)'
  BY <1>a, <1>1 DEF Vouched
<1>9. ASSUME NEW q \in Query, NEW x, Vouched(q, x) PROVE Vouched(q, x)'
  <2>1. refused[q] \in 0..MaxRefused /\ refused'[q] \in 0..MaxRefused
    BY DEF IInv, Types
  <2>. QED
    BY <1>1, <1>9, <2>1 DEF Vouched
<1>10. "vendor" \in Query /\ "version" \in Query /\ "serial" \in Query
  BY QueryNames
<1>11. Types' /\ TaskInv(t)' /\ OnlyOf(t) /\ (UNCHANGED brand \/ Cached')
  <2>1. ASSUME NEW q \in {"version", "serial"}, GoesTo(t, q), UNCHANGED brand,
               Vouched("vendor", strings["vendor"])',
               q = "serial" => Vouched("version", strings["version"])'
        PROVE  Types' /\ TaskInv(t)' /\ OnlyOf(t)
    <3>1. pc' = [pc EXCEPT ![t] = q] /\ result' = [result EXCEPT ![t] = "pending"]
      BY <2>1 DEF GoesTo
    <3>2. pc'[t] = q /\ result'[t] = "pending" /\ q \in Query /\ q \notin Sending \cup {"prime"}
      BY <1>2, <3>1, QueryNames DEF Sending
    <3>3. Types'
      BY <1>1, <1>2, <1>5, <2>1, <3>1, <3>2 DEF IInv, Types, Strings, Results
    <3>4. TaskInv(t)'
      BY <1>5, <1>6, <1>7, <2>1, <3>2 DEF TaskInv
    <3>5. OnlyOf(t)
      BY <1>1, <1>2, <1>5, <3>1 DEF OnlyOf
    <3>. QED
      BY <3>3, <3>4, <3>5
  <2>2. CASE p = "vendor"
    <3>1. i = 1
      BY <1>a, <2>2, QueryNames
    <3>2. GoesTo(t, "version") /\ UNCHANGED brand
      BY <1>1, <3>1, QueryNames
    <3>. QED
      BY <1>4, <1>8, <2>1, <2>2, <3>2
  <2>3. CASE p = "version"
    <3>1. i = 2
      BY <1>a, <2>3, QueryNames
    <3>2. GoesTo(t, "serial") /\ UNCHANGED brand
      BY <1>1, <3>1, QueryNames
    <3>3. Vouched("vendor", strings["vendor"])'
      BY <1>a, <1>4, <1>6, <1>9, <1>10, <2>3 DEF TaskInv
    <3>. QED
      BY <1>4, <1>8, <2>1, <2>3, <3>2, <3>3
  <2>4. CASE p = "serial"
    <3>1. i = 3
      BY <1>a, <2>4, QueryNames
    <3>2. Identified(t, strings)
      BY <1>1, <3>1, QueryNames
    <3>3. Vouched("vendor", strings["vendor"])' /\ Vouched("version", strings["version"])'
      BY <1>a, <1>4, <1>6, <1>9, <1>10, <2>4 DEF TaskInv
    <3>4. strings \in Seen'
      <4>1. Strings' = Strings
        BY <1>1 DEF Strings
      <4>2. ASSUME NEW q \in Query PROVE Vouched(q, strings[q])'
        BY <1>4, <1>8, <2>4, <3>3, QueryNames
      <4>. QED
        BY <1>4, <4>1, <4>2 DEF Seen
    <3>5. brand' = IdentifyBrand(strings)
      BY <3>2 DEF Identified
    <3>6. Cached'
      BY <3>4, <3>5 DEF Cached
    <3>7. brand' \in [brand : Brand, firmware_brand : Brand, hardware_brand : Brand,
                      matched_on : SUBSET {"vendor", "oem_code", "serial"}]
      BY <3>5, Identification
    <3>8. /\ TaskInv(t)'
          /\ pc' \in [Tasks -> {"idle", "prime"} \cup Query \cup Sending]
          /\ result' \in [Tasks -> Results]
          /\ \A u \in Tasks \ {t} : pc'[u] = pc[u] /\ result'[u] = result[u]
      <4>1. CASE op[t] = "async_identify"
        <5>1. pc' = [pc EXCEPT ![t] = "idle"] /\ result' = [result EXCEPT ![t] = "done"]
          BY <3>2, <4>1 DEF Identified, Returns
        <5>2. /\ pc'[t] = "idle" /\ result'[t] = "done"
              /\ "idle" \notin Query \cup Sending \cup {"prime"}
          BY <1>2, <5>1, QueryNames DEF Sending
        <5>3. TaskInv(t)'
          BY <1>6, <1>7, <5>2, QueryNames DEF TaskInv
        <5>. QED
          BY <1>2, <5>1, <5>3 DEF Results
      <4>2. CASE op[t] # "async_identify"
        <5>1. Guard(t, op[t], IdentifyBrand(strings)) /\ op[t] \in Ops \ {"async_identify"}
          BY <1>2, <3>2, <4>2 DEF Identified
        <5>2. op' \in [Tasks -> Ops] /\ force' \in [Tasks -> BOOLEAN] /\ ~FALSE /\ force'[t] = FALSE
          BY <1>1, <1>2, <1>6
        <5>. QED
          BY <1>6, <1>7, <3>4, <5>1, <5>2, Verdict
      <4>. QED
        BY <4>1, <4>2
    <3>9. Types'
      BY <1>1, <1>2, <1>5, <3>7, <3>8 DEF IInv, Types, Strings
    <3>10. OnlyOf(t)
      BY <1>1, <1>5, <3>8 DEF OnlyOf
    <3>. QED
      BY <3>6, <3>8, <3>9, <3>10
  <2>. QED
    BY <2>2, <2>3, <2>4, QueryNames
<1>. QED
  BY <1>1, <1>11, TaskStepKeeps

\* The call ends otherwise than at the guard.
LEMMA EndsKeeps ==
  ASSUME IInv, NEW t \in Tasks, NEW outcome \in {"done", "raised"}, Returns(t, outcome),
         UNCHANGED <<brand, op, force, got, device, up, calls, refused>>
  PROVE  IInv'
<1>1. pc' = [pc EXCEPT ![t] = "idle"] /\ result' = [result EXCEPT ![t] = outcome]
  BY DEF Returns
<1>2. Types'
  BY <1>1 DEF IInv, Types, Results, Strings
<1>3. OnlyOf(t)
  BY <1>1 DEF IInv, Types, OnlyOf
<1>4. /\ pc'[t] = "idle" /\ result'[t] = outcome /\ outcome # "unsafe"
      /\ "idle" \notin Query \cup Sending \cup {"prime"}
  BY <1>1, QueryNames DEF IInv, Types, Sending
<1>5. TaskInv(t)'
  <2>1. TaskInv(t)
    BY DEF IInv
  <2>. QED
    BY <1>4, <2>1, QueryNames DEF TaskInv
<1>6. \A q \in Query : refused'[q] >= refused[q]
  BY DEF IInv, Types
<1>. QED
  BY <1>2, <1>3, <1>5, <1>6, TaskStepKeeps

\* The priming GET is answered, and the POST goes out.
LEMMA PrimedKeeps ==
  ASSUME IInv, NEW t \in Tasks, Primed(t)
  PROVE  IInv'
<1>1. /\ pc[t] = "prime" /\ pc' = [pc EXCEPT ![t] = "postAudio"]
      /\ UNCHANGED <<brand, op, force, got, result, device, up, calls, refused>>
  BY DEF Primed
<1>2. Types'
  BY <1>1 DEF IInv, Types, Strings, Sending
<1>3. OnlyOf(t)
  BY <1>1 DEF IInv, Types, OnlyOf
<1>4. pc'[t] = "postAudio" /\ pc'[t] \notin Query
  BY <1>1, QueryNames DEF IInv, Types
<1>5. TaskInv(t)'
  <2>1. TaskInv(t) /\ Seen' = Seen
    BY <1>1 DEF IInv, Seen, Vouched, Strings
  <2>. QED
    BY <1>1, <1>4, <2>1, QueryNames DEF TaskInv
<1>6. \A q \in Query : refused'[q] >= refused[q]
  BY <1>1 DEF IInv, Types
<1>. QED
  BY <1>1, <1>2, <1>3, <1>5, <1>6, TaskStepKeeps

\* The device goes away and comes back: nothing the calls have depends on it.
LEMMA DeviceKeeps ==
  ASSUME IInv, up' \in BOOLEAN, UNCHANGED <<brand, pc, op, force, got, result, device, calls, refused>>
  PROVE  IInv'
<1>1. Types'
  BY DEF IInv, Types, Strings
<1>2. Seen' = Seen
  BY DEF Seen, Vouched, Strings
<1>3. \A t \in Tasks : TaskInv(t)'
  BY <1>2 DEF IInv, TaskInv, Vouched
<1>4. Cached'
  BY <1>2 DEF IInv, Cached
<1>. QED
  BY <1>1, <1>3, <1>4 DEF IInv

-----------------------------------------------------------------------------
(* The theorems.                                                           *)

\* Initially nothing is cached and no call is under way.
LEMMA InitIInv == Init => IInv
<1> SUFFICES ASSUME Init PROVE IInv
  OBVIOUS
<1>1. refused \in [Query -> 0..MaxRefused]
  BY QueryNames, AudioGuardAssumption DEF Init
<1>2. NoStrings \in [Query -> Strings] /\ \A q \in Query : NoStrings[q] = "none"
  BY QueryNames DEF NoStrings, Strings
<1>3. Types
  BY <1>1, <1>2, AudioGuardAssumption DEF Init, Types, Ops, Results
<1>4. Cached
  BY DEF Init, Cached
<1>5. ASSUME NEW t \in Tasks PROVE TaskInv(t)
  BY <1>2, QueryNames DEF Init, TaskInv, Sending
<1>. QED
  BY <1>3, <1>4, <1>5 DEF IInv

\* The steps of a task, one by one.
LEMMA TaskKeeps ==
  ASSUME IInv, NEW t \in Tasks, TaskStep(t)
  PROVE  IInv'
<1>1. CASE \E o \in Ops, f \in BOOLEAN : CallStarts(t, o, f)
  BY <1>1, CallStartsKeeps
<1>2. CASE QueryAnswered(t)
  <2>1. /\ pc[t] \in Query /\ QueryOver(t, device[pc[t]]) /\ UNCHANGED refused
        /\ device[pc[t]] \in Strings
    BY <1>2 DEF QueryAnswered, Strings
  <2>2. \A q \in Query : refused'[q] >= refused[q]
    BY <2>1 DEF IInv, Types
  <2>3. refused' \in [Query -> 0..MaxRefused]
    BY <2>1 DEF IInv, Types
  <2>. QED
    BY <2>1, <2>2, <2>3, QueryOverKeeps
<1>3. CASE QueryRefused(t)
  <2> DEFINE q == pc[t]
  <2>1. /\ q \in Query /\ QueryOver(t, "none") /\ "none" \in Strings
        /\ refused["vendor"] + refused["version"] + refused["serial"] < MaxRefused
        /\ refused' = [refused EXCEPT ![q] = @ + 1]
    BY <1>3 DEF QueryRefused, Strings
  <2>2. \A p \in Query : refused[p] \in Nat /\ refused[p] \in 0..MaxRefused
    BY DEF IInv, Types
  <2>3. refused[q] + 1 \in 0..MaxRefused
    BY <2>1, <2>2, QueryNames, AudioGuardAssumption
  <2> HIDE DEF q
  <2>4. /\ refused' \in [Query -> 0..MaxRefused] /\ refused'[q] = refused[q] + 1
        /\ \A p \in Query \ {q} : refused'[p] = refused[p]
    BY <2>1, <2>3 DEF IInv, Types
  <2>5. \A p \in Query : refused'[p] >= refused[p]
    BY <2>2, <2>4
  <2>6. refused'[q] > 0
    BY <2>1, <2>2, <2>4
  <2>. QED
    BY <2>1, <2>4, <2>5, <2>6, QueryOverKeeps DEF q
<1>4. CASE RequestFails(t) \/ PostTimesOut(t) \/ AudioAnswered(t)
  <2>1. PICK outcome \in {"done", "raised"} : Returns(t, outcome)
    BY <1>4 DEF RequestFails, FailureRaised, PostTimesOut, AudioAnswered
  <2>2. UNCHANGED <<brand, op, force, got, device, up, calls, refused>>
    BY <1>4 DEF RequestFails, FailureRaised, PostTimesOut, AudioAnswered
  <2>. QED
    BY <2>1, <2>2, EndsKeeps
<1>5. CASE Primed(t)
  BY <1>5, PrimedKeeps
<1>6. CASE DeviceAborts(t)
  BY <1>6, DeviceKeeps DEF DeviceAborts, clientVars
<1>. QED
  BY <1>1, <1>2, <1>3, <1>4, <1>5, <1>6 DEF TaskStep

\* Whatever the calls that share the client do, the inductive invariant holds.
THEOREM Inductive == Spec => []IInv
<1>1. IInv /\ UNCHANGED vars => IInv'
  <2> SUFFICES ASSUME IInv, UNCHANGED vars PROVE IInv'
    OBVIOUS
  <2>1. up' \in BOOLEAN
    BY DEF vars, IInv, Types
  <2>. QED
    BY <2>1, DeviceKeeps DEF vars, clientVars
<1>2. IInv /\ DeviceStartsUp => IInv'
  BY DeviceKeeps DEF DeviceStartsUp, clientVars
<1>3. IInv /\ [Next]_vars => IInv'
  BY <1>1, <1>2, TaskKeeps DEF Next
<1>. QED
  BY <1>3, InitIInv, PTL DEF Spec

\* The variables have their types: what is cached is a brand.
THEOREM TypesHold == Spec => []TypeOK
<1>1. IInv => TypeOK
  BY DEF IInv, Types, TaskInv, TypeOK, Results
<1>. QED
  BY <1>1, Inductive, PTL

\* A device that answered all its queries is seen as it is.
LEMMA SeenWhole ==
  ASSUME Types, NEW s \in Seen
  PROVE  /\ refused["version"] = 0 => s.version = device.version
         /\ (\A q \in Query : refused[q] = 0) =>
              s.vendor = device.vendor /\ s.version = device.version /\ s.serial = device.serial
<1>1. /\ Vouched("vendor", s["vendor"]) /\ Vouched("version", s["version"])
      /\ Vouched("serial", s["serial"])
  BY QueryNames DEF Seen
<1>. QED
  BY <1>1, QueryNames DEF Vouched

\* The guard holds back Lorex and no other brand, and LR is a code of Lorex.
LEMMA LorexUnsafe ==
  /\ "lorex" \in Known /\ "LR" \in OemCodes["lorex"]
  /\ \A m : Unsafe(m) <=> m.brand = "lorex"
BY KnownBrands DEF OemCodes, Unsafe, AudioCgiReboots

\* async_get_audio_input and async_post_audio send nothing, unforced, to
\* firmware that audio.cgi reboots, if it answered getSoftwareVersion.
THEOREM Spared == Spec => []RebooterSpared
<1>1. IInv => RebooterSpared
  <2> SUFFICES ASSUME IInv, Reboots(device), refused.version = 0, NEW t \in Tasks,
                      pc[t] \in Sending \cup {"prime"}
               PROVE  force[t]
    BY DEF RebooterSpared
  <2>1. SUFFICES ASSUME NEW s \in Seen, ~Unsafe(IdentifyBrand(s)) PROVE FALSE
    BY DEF IInv, TaskInv
  <2>2. s.version = "LR"
    BY SeenWhole DEF IInv, Reboots
  <2>3. IdentifyBrand(s).brand = "lorex"
    BY <2>2, LorexUnsafe, Identification
  <2>. QED
    BY <2>1, <2>3, LorexUnsafe
<1>. QED
  BY <1>1, Inductive, PTL

\* Unless a query was refused, the brand cached is the brand of all strings the
\* device reports, however many identifications overlapped or failed.
THEOREM WholeDevice == Spec => []BrandIsOfWholeDevice
<1>1. IInv => BrandIsOfWholeDevice
  <2> SUFFICES ASSUME IInv, brand # NoBrand, \A q \in Query : refused[q] = 0
               PROVE  brand = IdentifyBrand(device)
    BY DEF BrandIsOfWholeDevice
  <2>1. PICK s \in Seen : brand = IdentifyBrand(s)
    BY DEF IInv, Cached
  <2>2. s.vendor = device.vendor /\ s.version = device.version /\ s.serial = device.serial
    BY SeenWhole DEF IInv
  <2>3. FirmwareVotes(s) = FirmwareVotes(device) /\ HardwareVotes(s) = HardwareVotes(device)
    BY <2>2 DEF FirmwareVotes, HardwareVotes
  <2>4. IdentifyBrand(s) = IdentifyBrand(device)
    BY <2>3 DEF IdentifyBrand
  <2>. QED
    BY <2>1, <2>4
<1>. QED
  BY <1>1, Inductive, PTL

\* The brand async_identify caches is the one its firmware's OEM code names.
THEOREM Firmware == Spec => []FirmwareDecides
<1>1. IInv => FirmwareDecides
  <2> SUFFICES ASSUME IInv, brand # NoBrand
               PROVE  /\ refused.version = 0 =>
                           \A b \in Known : device.version \in OemCodes[b] => brand.brand = b
                      /\ brand.firmware_brand # "unknown" => brand.brand = brand.firmware_brand
                      /\ brand.brand = "unknown" <=> brand.matched_on = {}
    BY DEF FirmwareDecides
  <2>1. PICK s \in Seen : brand = IdentifyBrand(s)
    BY DEF IInv, Cached
  <2>2. refused.version = 0 => s.version = device.version
    BY SeenWhole DEF IInv
  <2>. QED
    BY <2>1, <2>2, Identification
<1>. QED
  BY <1>1, Inductive, PTL

\* DahuaUnsafeError is raised only of a device whose strings add up to Lorex.
THEOREM Justified == Spec => []RefusalJustified
<1>1. IInv => RefusalJustified
  <2> SUFFICES ASSUME IInv, NEW t \in Tasks, result[t] = "unsafe",
                      \A q \in Query : refused[q] = 0
               PROVE  /\ ~force[t]
                      /\ \/ device.version = "LR"
                         \/ /\ device.version \notin {"DH", "AC"}
                            /\ \/ device.vendor \in VendorAliases["lorex"]
                               \/ /\ \A b \in Known : device.vendor \notin VendorAliases[b]
                                  /\ device.serial = "ND"
    BY DEF RefusalJustified
  <2>1. ~force[t] /\ \E s \in Seen : Unsafe(IdentifyBrand(s))
    BY DEF IInv, TaskInv
  <2>2. PICK s \in Seen : Unsafe(IdentifyBrand(s))
    BY <2>1
  <2>3. s.vendor = device.vendor /\ s.version = device.version /\ s.serial = device.serial
    BY SeenWhole DEF IInv
  <2>4. IdentifyBrand(s).brand = "lorex"
    BY <2>2, LorexUnsafe
  <2>. QED
    BY <2>1, <2>3, <2>4, Identification
<1>. QED
  BY <1>1, Inductive, PTL

=============================================================================
