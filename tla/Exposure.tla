------------------------------ MODULE Exposure ------------------------------
(***************************************************************************)
(* Shutter speeds and exposure settings (exposure.py): what a caller may   *)
(* say, what is written for it, and what is read back.                     *)
(*                                                                         *)
(* A number of milliseconds is num/den.  Python's floats have two values   *)
(* that are no numbers, which are those with den = 0: infinity, with       *)
(* num = 1, and not-a-number, with num = 0.  A float is taken for the      *)
(* rational it stands for; only for ties of a rounding is that inexact.    *)
(***************************************************************************)
EXTENDS Integers, Sorting, SequencesExt

ExposureAuto == 0  \* EXPOSURE_AUTO
ShutterRange == 4  \* EXPOSURE_SHUTTER_RANGE
Profiles     == 0..2  \* EXPOSURE_PROFILES

\* round(): to the nearest integer, and of two to the even one.
Rounded(num, den) ==
  LET q == num \div den
      r == num % den
  IN IF 2 * r > den \/ (2 * r = den /\ q % 2 = 1) THEN q + 1 ELSE q

\* a > b, of floats: false if one is not a number.
Exceeds(a, b) == a.num * b.den > b.num * a.den

NaN == [num |-> 0, den |-> 0]

-----------------------------------------------------------------------------

\* parse_shutter: the milliseconds of "1/60", or of a number of them.
InMs(speed) ==
  [num |-> IF speed.form = "fraction" THEN 1000 * speed.num ELSE speed.num, den |-> speed.den]

\* What parse_shutter raises DahuaValueError for.
NotASpeed(speed) ==
  \/ speed.form = "words"
  \/ speed.form = "fraction" /\ speed.den = 0
  \/ InMs(speed).num <= 0 /\ InMs(speed) # NaN

\* _profiles: some profile is not one.
UnknownProfile(chosen) == \E p \in chosen : p \notin Profiles

\* Mutant: the order of the range is not looked at.
OrderUnchecked(slowest, fastest, chosen) ==
  NotASpeed(slowest) \/ NotASpeed(fastest) \/ UnknownProfile(chosen)

\* What shutter_range_config raises DahuaValueError for.
RangeRefused(slowest, fastest, chosen) ==
  \/ NotASpeed(slowest) \/ NotASpeed(fastest)
  \/ Exceeds(InMs(fastest), InMs(slowest))
  \/ UnknownProfile(chosen)

\* Mutant: the digits after the second are cut off.
CutOff(ms) == IF ms.den = 0 THEN ms ELSE [num |-> (100 * ms.num) \div ms.den, den |-> 100]

\* What is written for a number of milliseconds: two digits.
TwoDigits(ms) == IF ms.den = 0 THEN ms ELSE [num |-> Rounded(100 * ms.num, ms.den), den |-> 100]

\* The settings a profile has after the pairs of shutter_range_config.
Capped(slowest, fastest) ==
  [mode |-> ShutterRange, value1 |-> TwoDigits(InMs(fastest)), value2 |-> TwoDigits(InMs(slowest))]

\* auto_exposure_config writes the mode only.
HandedBack(settings) == [settings EXCEPT !.mode = ExposureAuto]

Unwritten == -1  \* "?"

\* _as_fraction: N, for "1/N".
AsFraction(ms) == IF ms.num > 0 THEN Rounded(1000 * ms.den, ms.num) ELSE Unwritten

\* parse_exposure, of the settings the device has for each profile of the
\* channel: one entry per profile, in profile order.
ParseExposure(settings) ==
  [i \in 1..Cardinality(DOMAIN settings) |->
    LET p == Ascending(DOMAIN settings)[i]
    IN [profile |-> p,
        mode |-> settings[p].mode,
        shutter_range_applies |-> settings[p].mode = ShutterRange,
        fastest |-> settings[p].value1,
        slowest |-> settings[p].value2,
        slowest_fraction |-> AsFraction(settings[p].value2)]]
=============================================================================
