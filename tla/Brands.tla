------------------------------- MODULE Brands -------------------------------
(***************************************************************************)
(* Brand identification (brands.py): the profile table, and identify_brand *)
(* as a vote of the three strings a device reports.  A vendor string is    *)
(* represented by its normalised value, a version by the OEM code in it, a *)
(* serial number by its prefix; "other" is any value no profile knows, and *)
(* "none" a string that is missing or has no such part.                    *)
(***************************************************************************)
EXTENDS Integers, Sequences, FiniteSets

\* PROFILES, in its order, without UNKNOWN.
Order  == <<"dahua", "amcrest", "lorex", "empiretech">>
Known  == {Order[i] : i \in DOMAIN Order}
Brand  == Known \cup {"unknown"}

OemCodes == [dahua |-> {"DH"}, amcrest |-> {"AC"}, lorex |-> {"LR"}, empiretech |-> {}]

VendorAliases ==
  [dahua      |-> {"dahua", "dh", "general"},
   amcrest    |-> {"amcrest", "ac"},
   lorex      |-> {"lorex", "lr"},
   empiretech |-> {"empiretech", "empire"}]

SerialPrefixes ==
  [dahua |-> {}, amcrest |-> {"AMC", "AMR"}, lorex |-> {"ND"}, empiretech |-> {}]

\* The profiles whose firmware audio.cgi reboots.
AudioCgiReboots(brand) == brand = "lorex"

NoStrings == [vendor |-> "none", version |-> "none", serial |-> "none"]

\* The signals of a group that speak for each known brand.
FirmwareVotes(s) ==
  [b \in Known |-> (IF s.vendor \in VendorAliases[b] THEN {"vendor"} ELSE {})
                   \cup (IF s.version \in OemCodes[b] THEN {"oem_code"} ELSE {})]

HardwareVotes(s) ==
  [b \in Known |-> IF s.serial \in SerialPrefixes[b] THEN {"serial"} ELSE {}]

\* Mutant: the vendor string counts as much as the OEM code.
EqualWeight(signals) == Cardinality(signals \cap {"oem_code", "vendor"})

\* SIGNAL_WEIGHTS, summed; the serial number is not in the table.
Weight(signals) == (IF "oem_code" \in signals THEN 2 ELSE 0)
                   + (IF "vendor" \in signals THEN 1 ELSE 0)

Place(b) == CHOOSE i \in DOMAIN Order : Order[i] = b

\* The key of best(): weight, then number of signals, then the table's order.
Beats(votes, b, c) ==
  \/ Weight(votes[b]) > Weight(votes[c])
  \/ /\ Weight(votes[b]) = Weight(votes[c])
     /\ \/ Cardinality(votes[b]) > Cardinality(votes[c])
        \/ Cardinality(votes[b]) = Cardinality(votes[c]) /\ Place(b) < Place(c)

Best(votes) ==
  LET voted == {b \in Known : votes[b] # {}}
  IN IF voted = {} THEN "unknown"
     ELSE CHOOSE b \in voted : \A c \in voted \ {b} : Beats(votes, b, c)

\* Mutant: the hardware brand comes first.
HardwareFirst(firmware, hardware) == IF hardware # "unknown" THEN hardware ELSE firmware

\* Which of the two brands is reported.
Reported(firmware, hardware) == IF firmware # "unknown" THEN firmware ELSE hardware

\* identify_brand.
IdentifyBrand(s) ==
  LET firmware == Best(FirmwareVotes(s))
      hardware == Best(HardwareVotes(s))
      brand    == Reported(firmware, hardware)
  IN [brand          |-> brand,
      firmware_brand |-> firmware,
      hardware_brand |-> hardware,
      matched_on     |-> IF brand = "unknown" THEN {}
                         ELSE FirmwareVotes(s)[brand] \cup HardwareVotes(s)[brand]]

IsConfident(match) == Cardinality(match.matched_on) > 1
IsCrossFlashed(match) ==
  /\ match.firmware_brand # "unknown"
  /\ match.hardware_brand # "unknown"
  /\ match.firmware_brand # match.hardware_brand
=============================================================================
