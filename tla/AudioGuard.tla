----------------------------- MODULE AudioGuard -----------------------------
(***************************************************************************)
(* The guard in front of audio.cgi: async_identify, which caches the brand *)
(* of the device on the client, and async_get_audio_input and              *)
(* async_post_audio, which send no audio.cgi request to a brand whose      *)
(* firmware it reboots unless they are forced to.                          *)
(*                                                                         *)
(* Several tasks share the client, so the cached brand can be written by   *)
(* one while another is between two of its queries.  A query is answered,  *)
(* or refused (DahuaNotSupportedError, DahuaResponseError and its subclass *)
(* DahuaAuthError: async_identify goes on without the string), or fails    *)
(* (timeout, connection error, cancellation: the exception propagates).    *)
(* The device, external, goes away for a while when its firmware is one of *)
(* those that audio.cgi reboots.  A channel below 1 raises before any of   *)
(* this in async_get_audio_input and is left out.                          *)
(***************************************************************************)
EXTENDS Brands

CONSTANTS
  Tasks,      \* asyncio tasks that share the client
  Devices,    \* the devices looked at, each the strings it reports
  MaxCalls,   \* bound: calls started in a behaviour
  MaxRefused  \* bound: queries refused in a behaviour

ASSUME AudioGuardAssumption ==
  /\ \A d \in Devices : DOMAIN d = DOMAIN NoStrings
  /\ MaxCalls \in Nat
  /\ MaxRefused \in Nat

VARIABLES
  brand,    \* client: _brand
  pc,       \* task: the request its call awaits
  op,       \* task: the method called
  force,    \* task: its force argument
  got,      \* task: the strings its identification has so far
  result,   \* task: how its last call ended
  device,   \* device: the strings it reports
  up,       \* device: is it on the network?
  calls,    \* history: calls started
  refused   \* history: which queries have been refused, and how often

clientVars == <<brand, pc, op, force, got, result>>
vars == <<clientVars, device, up, calls, refused>>

NoBrand == [brand |-> "none"]
Ops     == {"async_identify", "async_get_audio_input", "async_post_audio"}
Queries == <<"vendor", "version", "serial">>
Query   == {Queries[i] : i \in DOMAIN Queries}

\* What the profile comments say of the firmware that audio.cgi reboots: its
\* version carries the OEM code LR.
Reboots(d) == d.version = "LR"

\* Awaiting the headers of audio.cgi.
Sending == {"getAudio", "postAudio"}

-----------------------------------------------------------------------------

Returns(t, outcome) ==
  /\ pc' = [pc EXCEPT ![t] = "idle"]
  /\ result' = [result EXCEPT ![t] = outcome]

GoesTo(t, request) ==
  /\ pc' = [pc EXCEPT ![t] = request]
  /\ result' = [result EXCEPT ![t] = "pending"]

\* Past the guard: the probe goes out, and the POST after its priming GET.
GoAhead(o) == IF o = "async_get_audio_input" THEN "getAudio" ELSE "prime"

\* Mutant: a brand that could not be made out is held back as well.
UnknownUnsafe(match) == match.brand \in {"lorex", "unknown"}

\* Does the guard hold the request back?
Unsafe(match) == AudioCgiReboots(match.brand)

\* The guard's verdict on a brand, for the method o.
Guard(t, o, match) ==
  IF Unsafe(match) THEN Returns(t, "unsafe") ELSE GoesTo(t, GoAhead(o))

\* Mutant: the guard works only after an explicit identification.
NeverIdentifiesFirst(o, f) == o = "async_identify"

\* "self._brand or await self.async_identify()".
Identifies(o, f) == o = "async_identify" \/ (~f /\ brand = NoBrand)

\* Where a call starts: at the first query, past the guard when it is forced,
\* at the guard with the cached brand otherwise.
StartsAt(t, o, f) ==
  CASE Identifies(o, f) -> GoesTo(t, "vendor")
    [] f                -> GoesTo(t, GoAhead(o))
    [] OTHER            -> Guard(t, o, brand)

CallStarts(t, o, f) ==
  /\ pc[t] = "idle"
  /\ calls < MaxCalls
  /\ o = "async_identify" => ~f
  /\ calls' = calls + 1
  /\ op' = [op EXCEPT ![t] = o]
  /\ force' = [force EXCEPT ![t] = f]
  /\ got' = [got EXCEPT ![t] = NoStrings]
  /\ StartsAt(t, o, f)
  /\ UNCHANGED <<brand, device, up, refused>>

\* async_identify has the last of its strings: it caches the brand, and the
\* caller goes on with the brand returned to it.
Identified(t, strings) ==
  /\ brand' = IdentifyBrand(strings)
  /\ IF op[t] = "async_identify" THEN Returns(t, "done")
     ELSE Guard(t, op[t], IdentifyBrand(strings))

\* Mutant: whatever was asked, the answer is taken for the vendor.
StoredAsVendor(t, value) == [got[t] EXCEPT !.vendor = value]

\* The strings the task has, with the answer to its query.
Stored(t, value) == [got[t] EXCEPT ![pc[t]] = value]

\* The query is over with this value: the next query, or the end.
QueryOver(t, value) ==
  LET i == CHOOSE j \in DOMAIN Queries : Queries[j] = pc[t]
      strings == Stored(t, value)
  IN /\ got' = [got EXCEPT ![t] = strings]
     /\ IF i < Len(Queries)
          THEN GoesTo(t, Queries[i + 1]) /\ UNCHANGED brand
          ELSE Identified(t, strings)
     /\ UNCHANGED <<op, force, device, up, calls>>

QueryAnswered(t) ==
  /\ pc[t] \in Query
  /\ up
  /\ QueryOver(t, device[pc[t]])
  /\ UNCHANGED refused

\* The endpoint is missing, or the device answers with an error: while it
\* starts up, when it is busy, when it has locked the account out.
QueryRefused(t) ==
  /\ pc[t] \in Query
  /\ refused.vendor + refused.version + refused.serial < MaxRefused
  /\ refused' = [refused EXCEPT ![pc[t]] = @ + 1]
  /\ QueryOver(t, "none")

\* Mutant: a query that times out is skipped as well.
FailuresSkipped(t) ==
  IF pc[t] \in Query THEN QueryOver(t, "none")
  ELSE Returns(t, "raised") /\ UNCHANGED <<brand, op, force, got, device, up, calls>>

\* The exception leaves the call, and the brand cached stays as it was.
FailureRaised(t) ==
  Returns(t, "raised") /\ UNCHANGED <<brand, op, force, got, device, up, calls>>

\* Any await times out, loses its connection or is cancelled.
RequestFails(t) ==
  /\ pc[t] # "idle"
  /\ FailureRaised(t)
  /\ UNCHANGED refused

\* async_post_audio takes the timeout of its POST for the end of the stream.
PostTimesOut(t) ==
  /\ pc[t] = "postAudio"
  /\ Returns(t, "done")
  /\ UNCHANGED <<brand, op, force, got, device, up, calls, refused>>

\* The priming GET of async_post_audio is answered, however.
Primed(t) ==
  /\ pc[t] = "prime"
  /\ up
  /\ pc' = [pc EXCEPT ![t] = "postAudio"]
  /\ UNCHANGED <<brand, op, force, got, result, device, up, calls, refused>>

\* The device answers audio.cgi, if its firmware survives it.
AudioAnswered(t) ==
  /\ pc[t] \in Sending
  /\ up
  /\ ~Reboots(device)
  /\ Returns(t, "done")
  /\ UNCHANGED <<brand, op, force, got, device, up, calls, refused>>

\* It reboots otherwise, and the request is left without an answer.
DeviceAborts(t) ==
  /\ pc[t] \in Sending
  /\ up
  /\ Reboots(device)
  /\ up' = FALSE
  /\ UNCHANGED <<clientVars, device, calls, refused>>

DeviceStartsUp ==
  /\ ~up
  /\ up' = TRUE
  /\ UNCHANGED <<clientVars, device, calls, refused>>

-----------------------------------------------------------------------------

Init ==
  /\ brand = NoBrand
  /\ pc = [t \in Tasks |-> "idle"]
  /\ op = [t \in Tasks |-> "async_identify"]
  /\ force = [t \in Tasks |-> FALSE]
  /\ got = [t \in Tasks |-> NoStrings]
  /\ result = [t \in Tasks |-> "none"]
  /\ device \in Devices
  /\ up = TRUE
  /\ calls = 0
  /\ refused = [vendor |-> 0, version |-> 0, serial |-> 0]

TaskStep(t) ==
  \/ \E o \in Ops, f \in BOOLEAN : CallStarts(t, o, f)
  \/ QueryAnswered(t)
  \/ QueryRefused(t)
  \/ RequestFails(t)
  \/ PostTimesOut(t)
  \/ Primed(t)
  \/ AudioAnswered(t)
  \/ DeviceAborts(t)

Next == (\E t \in Tasks : TaskStep(t)) \/ DeviceStartsUp

Spec == Init /\ [][Next]_vars

-----------------------------------------------------------------------------
(* Properties.                                                             *)

\* The values the variables take; only the audio methods are forced, and what
\* a task collects it takes from the device.
TypeOK ==
  /\ brand \in {NoBrand} \cup [brand : Brand, firmware_brand : Brand, hardware_brand : Brand,
                               matched_on : SUBSET {"vendor", "oem_code", "serial"}]
  /\ pc \in [Tasks -> {"idle", "prime"} \cup Query \cup Sending]
  /\ op \in [Tasks -> Ops]
  /\ force \in [Tasks -> BOOLEAN]
  /\ \A t \in Tasks : /\ force[t] => op[t] # "async_identify"
                      /\ \A q \in Query : got[t][q] \in {"none", device[q]}
  /\ result \in [Tasks -> {"none", "pending", "done", "unsafe", "raised"}]
  /\ device \in Devices
  /\ up \in BOOLEAN
  /\ calls \in 0..MaxCalls
  /\ refused \in [Query -> 0..MaxRefused]

\* Whatever the calls that overlap do to the cached brand, no audio.cgi is
\* ever on its way, unforced, to firmware it reboots, as long as the device
\* answered every getSoftwareVersion it was asked.
RebooterSpared ==
  (Reboots(device) /\ refused.version = 0)
    => \A t \in Tasks : pc[t] \in Sending \cup {"prime"} => force[t]

\* "audio.cgi reboots a Lorex E891AB.  The library must not send it."  A
\* Lorex that refuses its three identification queries refutes it: it is then
\* an unknown brand, and the guard lets that pass.
NeverSentUnforced ==
  Reboots(device) => \A t \in Tasks : pc[t] \in Sending => force[t]

\* The cached brand is the brand of the device, not of half its strings,
\* unless a query was refused: failed identifications leave no trace.
BrandIsOfWholeDevice ==
  (brand # NoBrand /\ \A q \in Query : refused[q] = 0) => brand = IdentifyBrand(device)

\* The firmware decides the brand: its OEM code alone, then the vendor string;
\* the hardware speaks only when the firmware is silent, and a refused query
\* never makes a brand out of nothing.
FirmwareDecides ==
  brand # NoBrand =>
    /\ refused.version = 0 =>
         \A b \in Known : device.version \in OemCodes[b] => brand.brand = b
    /\ brand.firmware_brand # "unknown" => brand.brand = brand.firmware_brand
    /\ brand.brand = "unknown" <=> brand.matched_on = {}

\* The guard holds back no device but those whose strings add up to Lorex, by
\* their firmware or, where that is silent, by their hardware.
RefusalJustified ==
  \A t \in Tasks :
    (result[t] = "unsafe" /\ \A q \in Query : refused[q] = 0) =>
      /\ ~force[t]
      /\ \/ device.version = "LR"
         \/ /\ device.version \notin {"DH", "AC"}
            /\ \/ device.vendor \in VendorAliases["lorex"]
               \/ /\ \A b \in Known : device.vendor \notin VendorAliases[b]
                  /\ device.serial = "ND"
=============================================================================
