# aiodahua in TLA+

A model of aiodahua, the asyncio client for Dahua cameras and recorders: TLA+
modules for the parts of it that keep state or run concurrently, TLC
configurations that check them on small instances, and machine-checked proofs
about all of them: the authentication of requests, the searches that hold a
handle of the device, the session and the event streams, the operations of a
device, the audio guard, the RTSP backchannel, the discovery, and the texts and
numbers the client writes and reads.
`PROJECT.json` lists the components, the runs, the mutants, the source lines of
every definition, the findings, the hazards and the theorems.

Run `tlc -config <file>.cfg <module>` for a run, and `tlapm <module>` for the
proofs, which are in NegotiationProofs, SearchProofs, EventStreamProofs,
DeviceOpsProofs, AudioGuardProofs, BackchannelProofs, DiscoveryProofs and
FormatsProofs.

## Inventory

All paths are under `src/src/aiodahua/`.

| Component | State it keeps | Operations | Interacts with |
|---|---|---|---|
| Negotiation (`client.py` `_authed_request`, `digest.py`) | client: `_digest_state`, `_use_basic_auth`; per request a `DigestAuth` | send, answer one 401 challenge, fall back to basic, remember | the device's nonces and lockout; every call of every task, through the shared state |
| Session (`client.py`) | `_session`, `_owns_session` | `_get_session`, `async_close` | all requests use the session |
| Transport (`client.py`, `parsers.py`, `exceptions.py`) | none of its own | `async_get_text`, `async_get_bytes`, `get` | sits on the negotiation; everything below sits on it |
| Device operations (`client.py`) | none | `enable_motion_detection`, `async_set_all_ivs_rules`, `async_set_config`, getters with and without fallbacks, some fifty one-line calls | several transport calls in a row, concurrently with other tasks |
| Searches (`client.py`) | a finder or token the *device* keeps | `async_find_recordings`, `async_search_logs` | several transport calls with a `finally` block |
| Brands (`brands.py`) | a table of profiles | `identify_brand` | called by `async_identify` |
| Audio guard (`client.py`) | `_brand` | `async_identify`, `async_get_audio_input`, `async_post_audio` | cached brand shared by tasks; a device that reboots |
| Backchannel (`client.py`) | one TCP connection, RTP counters | `async_post_audio_backchannel`, `_parse_adts_frames` | the RTSP server of the device |
| Discovery (`discovery.py`) | one socket and one table per call | `async_discover`, `async_set_network_config` | UDP, every device of the segment |
| Event stream (`client.py` `stream_events`) | a `DigestAuth` of its own, one response | `stream_events` | the client's session, which others may close under it; a callback |
| Config, exposure (`config.py`, `exposure.py`) | none | values to query strings, and exposure read back | `async_set_config` and its callers; the firmware that takes a query apart |
| Parsers (`parsers.py`) | none | bodies to lists and dictionaries | most getters, the searches, `async_download_clip` |

What is hard about it:

* **Interleaving.** asyncio is cooperative, so the code between two awaits is
  atomic and the interesting thing is what other tasks do at the awaits. Four
  pieces of state are shared by the tasks of one client: the digest state, the
  basic switch, the session and the cached brand. Each is read before an await
  and written after it.
* **Failure.** Every await may end with a timeout, a dropped connection or a
  cancellation. The request it abandons is still on its way and may be carried
  out later, or never.
* **Ordering.** Late requests overtake later ones; announcements are lost,
  repeated and reordered; events wait in a buffer while the stream ends;
  classification depends on the order of its tests.
* **Data at its edges.** Texts with the characters the firmware splits on,
  speeds that are rounded out and rounded back, lines that belong to the entry
  above them, audio frames that carry no audio.
* **Denials that mean something else.** A 401 may be wrong credentials, an
  expired nonce, a device that wants basic, or a lockout.

The properties that make each component correct are stated in its module, after
the specification, and listed under [Runs](#runs). The full list of what is
hard to test, at its line, is `hazards` in `PROJECT.json`.

## Modules

One action of a module is the code from one await to the next. `Tasks` are
asyncio tasks; a variable that belongs to a task is a function of it. The
device and the network are external: what they do is modelled from what the
client relies on, and as freely as that allows.

* **Negotiation** – the core. `digest`, `useBasic` and `fallback` are the
  client's attributes, `auth[t]` the `DigestAuth` of the call, `req`/`ans` the
  request in flight and its answer, `sends` and `open` count what a call has
  sent and not released. `CallStarts` is `_authed_request` up to its first
  await, `ChallengeAnswered` is `_handle_401`, `ChallengeRaises` the header it
  cannot parse, `FallsBackToBasic` the sticky switch, `DigestReturns` and
  `BasicReturns` the return to the transport, `BodyRead` the end of the body,
  `CallFails` any await that ends early. Hashes are abstracted to whether a
  challenge can be answered and with which nonce and count; the device accepts
  a count it has seen before (the code does not know whether one would).
* **AuthContract** – the abstract specification: what a caller is promised of
  authentication, with no requests, challenges or nonces in it. Calls begin and
  end; an outcome is true of the device; the password is given away only where
  it may be. `Negotiation.Contract` maps it: the calls in progress are the tasks
  not idle, the password is exposed once the switch is made or basic is on the
  wire.
* **Session** – `GetSession(s)` is `_get_session`; `async_close` is `CloseAtOnce`
  where aiohttp has nothing to wait for, else `CloseWaits` followed by
  `CloseEnds` or `CloseCancelled`. aiohttp marks a session closed before it
  waits, which is what makes the interleavings interesting.
* **EventStream** – extends Session: `stream_events` on the session it shares.
  `StreamStarts` is the call up to its first await, `StreamChallenged` its own
  `_handle_401`, `StreamRefused` `raise_for_status`, `StreamHears` one turn of
  the loop with the callback, `StreamFinishes` the end of the loop, `StreamCut`
  an await that ends early. All of them end in `StreamOver`, which is the two
  except clauses and the finally. `coming` is what aiohttp has received and
  nobody has read; the device sends, and ends the stream, at any time.
* **Transport** – operators: `TextVerdict` and `BytesVerdict` are the
  classification of a response, `FaultVerdict` the exception an await that
  fails becomes, `ResponseErrors` the classes a handler of
  `aiohttp.ClientResponseError` catches.
* **DeviceOps** – extends Transport: every operation on settings and readings,
  in nine classes by its control (`Ops`): the probe and its fallback, the read
  and its write, the writes with `verify_ok`, with a boolean, with an exception
  or with no verification, the reads with and without a default, and the
  binary one. `wire` holds the requests the device has not dealt with, awaited
  or abandoned.
* **HandleLease** – the abstract specification of a search: a handle is opened,
  used and given back, and the outcome is that of its use.
* **Search** – both searches as one program of calls in three parts
  (`OpeningCalls`, `WorkCalls`, `CleanupCalls`); `After` and `AfterFailure` say
  where a call leads, `failure` is the exception a `finally` block runs under.
  The device has `Capacity` handles and may carry out an abandoned request at
  any later time. `Search.Lease` maps HandleLease: the phase of a lease is the
  part of the call awaited.
* **Brands** – operators: the profile table and `identify_brand`, with strings
  abstracted to what the profiles tell apart.
* **AudioGuard** – extends Brands: `async_identify` query by query, the guard,
  the two `audio.cgi` methods, and the device that reboots.
* **Adts** – operators: `_parse_adts_frames` over bytes abstracted to "a header
  with this length and CRC flag starts here" or not, and the parts
  `async_post_audio` cuts a clip into.
* **Backchannel** – extends Adts: the RTSP dialogue, the RTP stream, every exit.
  The session description is a sequence of media, the wall clock of the
  pacing is left out. A response comes as the device sends it (`sent`): whole, or
  in pieces of a head that may never end, then a body. `Reads` is one turn of the
  loop over `reader.read()`, or the `readexactly()` of the body, `ReadsEnd` the empty
  chunk after which the response is what there is of it, `ReadFails` a reset, or
  a connection that ends in the middle of a body.
* **Discovery** – sweeps and `setConfig` over sets of datagrams: `requests` and
  `replies` only grow or shrink by the network's choice, so a datagram is lost
  if nobody takes it, repeated if it is taken twice, and reordered freely.
* **Config** – operators: `encode_config_value` and `build_config_query`, and,
  external, the firmware as `config.py` describes it: it decodes a query before
  it splits it, ignores an empty value and trims the others. A query is a
  sequence of characters, each encoded or literal.
* **Sorting** – the operator `Ascending`: `sorted()` as Exposure and Parsers,
  which extend it, use it.
* **Exposure** – operators: `parse_shutter`, `shutter_range_config`,
  `auto_exposure_config`, `parse_exposure`. Milliseconds are rationals; infinity
  and not-a-number, which `float()` accepts, are those with denominator 0.
* **Parsers** – operators: `parse_kv`, `parse_log_entries`, `parse_media_files`,
  `parse_storage_info`, `strip_dhav_preamble`. A line is a record of what their
  patterns tell apart.
* **Formats** – extends these three: the calls of the client that use them, on
  a device with text fields and exposure settings. What a call wrote or
  returned is in `call`, what was asked of the shutter in `asked`.
* **NegotiationProofs**, **SearchProofs**, **EventStreamProofs**,
  **DeviceOpsProofs**, **AudioGuardProofs**, **BackchannelProofs**,
  **DiscoveryProofs**, **FormatsProofs** – the theorems, each about the module
  it is named for.

The `MC*` modules give the constants their values. Definitions marked
`Mutant:` are plausible bugs of the definition below them; each is put in its
place to see that a property notices. They are part of no specification.
Where several mutants break one property `PROJECT.json` names one; the others
are in [Mutants](#mutants).

## Runs

| Run | What it shows |
|---|---|
| `nego_shared` | Two tasks share the client, with expiring nonces, a lockout, timeouts and drops. `NegotiationBudget`: at most request, answer, basic. `ResponsesReleased`: no exit leaves a response open. `PasswordConfined`: who ever sees the password. `CountNeverAhead`: shared counts never skip. `SerialCallsReuseNonce`: without overlap and failures the count is exact and a nonce costs one challenge in its life. `KeepsContract`: Negotiation implements AuthContract. `CallsEnd`. |
| `nego_lockout` | *Violation*, see Findings. |
| `stream` | Streams, requests and closes on one session. `SessionsAccountedFor`: a supplied session is never closed, an own one never lost. `ReopensAfterClose`. `StreamEndsClean`: no response outlives its stream, and a cancellation is never swallowed. `EventsInOrder`: the callback gets every event once and in order. |
| `search` | `HandlesReturned`, `SearchesEnd`, with requests refused, lost, abandoned, late. `KeepsLease`: Search implements HandleLease. |
| `search_cancelled` | *Violation*, see Findings. |
| `guard` | All combinations of vendor string, OEM code and serial prefix. `RebooterSpared`: no unforced `audio.cgi` to a device it reboots, if it answered its version queries. `BrandIsOfWholeDevice`, `FirmwareDecides`, `RefusalJustified`. |
| `guard_refused` | *Violation*, see Findings. |
| `backchannel` | All clips up to the bound, whole and damaged, all descriptions, and responses in pieces, cut off or unfinished. `ConnectionReleased`, `AudioOnlyWhenPlaying`, `TrackReceivesAudio`, `EndsWhileRead`. `StreamWhole`: what goes out is the audio of the clip, numbered and stamped without a gap. `FramesRecovered`: the parser finds the frames. |
| `backchannel_track` | *Violation*, see Findings. |
| `discovery` | `OnlyNamedDeviceMoves`, `ReportsAreFresh`, `EveryAnswerReported`, `CallsEnd`, with two cameras that may share an address. |
| `device_ops` | `AcknowledgedIsApplied`: a reported success was carried out, and is about what the call asked for. `OfflineIsNoAnswer`: nothing returned stands for a device that is not there. `NothingLeftBehind`: only a call that lost its answer leaves a request on its way. |
| `formats` | `WritesArrive`: every text of up to two characters in one field, and some in two, arrives as it is or nothing is sent; a shutter range is written to the profiles chosen, in order and as asked. `ReadsAreWhole`: exposure, logs, recordings, disks and clips are read as the device holds them, and all the disks are there. |

Some properties carry a condition, and the condition says something about the
code. `SessionsAccountedFor` holds only while two calls of `async_close` do not
overlap: the one that ends last drops whatever session is there by then, open
or not. `ReopensAfterClose` excepts a close that was cancelled: the closed
session then stays on the client and every request raises `RuntimeError`.
`HandlesReturned` excepts an opening call that was abandoned, which no client
can do anything about. `StreamWhole` asks no marker of clips that end with a
frame without audio: they are sent without one. `ReportsAreFresh` says that a
device moved by unicast is confirmed only if its new address is among the
targets too, since the verification goes where the write went: a move that
succeeded may be reported as `None`. `EndsWhileRead` needs a device
that reads, since `drain()` and `wait_closed()` have no timeout, and one that does
not trickle (`Trickles`): each chunk of a head has ten seconds of its own
(client.py:1887), so a device that sends a byte now and then and never ends the
head holds the call; without that alternative TLC finds the behaviour.
`TrackReceivesAudio` needs descriptions that name a track before its direction.
The logs of `ReadsAreWhole` have no continuation line that looks like another
kind of line (see below), and `OfflineIsNoAnswer` takes a 401 for an answer.

### Bounds

| Constant | Value | Why it is enough |
|---|---|---|
| tasks | 2 (`stream` 3) | Every hazard of the shared state is between two calls; a request between two overlapping closes takes three. |
| `Streams` | 1 | Streams share nothing but the session, and closes and requests of the three tasks stand for another stream there. The proofs are for any number. |
| `MaxStreams`, `MaxEvents` | 2 and 2 | A stream after one that ended; an event read, one in the buffer. |
| `MaxCalls` (Negotiation) | 3 | Two that overlap and one that inherits what they left; three in a row let a nonce be reused, expire, and its successor be used. |
| `MaxNonce` | 2 | A nonce and its successor; the count restarts and goes on. |
| `MaxLockouts` | 1 | One is what it takes to flip the switch. |
| `Faults` (Negotiation, Search) | two of three | A cancellation ends a call of the negotiation exactly as a drop does, and a drop ends one of a search exactly as a timeout does. |
| `Capacity` | 1 | A handle kept too long starves the other search at once. |
| `MaxCalls`, `MaxRefused` (AudioGuard) | 3 and 1 | Two identifications beside a guarded call; one refusal is enough to lose a string. |
| `MaxSessions`, `MaxCloses` | 3 and 3 | A close overlapped by a close, and one after. |
| `HeaderLen`, `CrcLen` | 2 and 1 | Header, CRC and payload stay distinguishable; 7 and 2 only make longer sequences. `backchannel_track` uses 7 and 2. |
| `SeqModulus`, `TsModulus` | 2 and 3 | Every clip of three frames wraps both, at different places. |
| `Cases` (Backchannel) | `SomeCases` | All clips for a device without media, where all that matters is how they are cut; all whole clips, and those of three short frames, for a camera, which gets the stream; and one clip for all descriptions of two media, each of which may be the backchannel and write its lines in any order. |
| `Pieces` | `AnyPiece` | A head may come in any number of pieces, with the status line and the challenge in any of them, and its body later or not at all. `backchannel_track` gets whole responses. |
| `RulesTried`, `MaxRule` | 2 and 2 | Three rules of which the code asks for two, as it asks for ten of eleven. |
| `Addresses`, `Macs` | 2 and 2 | A shared factory address, and somewhere to move to. |
| `Params` (Formats) | texts up to 2 | Every pair of the characters the firmware treats apart, and every place of an ampersand between two fields. |
| `Speeds` | 11 | A fraction, milliseconds, zero, negative, no number, `inf`, `nan`, and both sides of the border: 1/320 is the first that two digits do not bring back. |
| `MaxCalls` (Formats) | 3 | A range, the hand-back and a reading. Calls that have nothing to do with the exposure are made alone (`CalledAlone`), as nothing carries over from them. |

`device_ops` uses the symmetry of its calls; it checks invariants only, so that
is sound. `CHECK_DEADLOCK FALSE` everywhere: every behaviour ends when its
bounded calls are over.

### Fairness

Weak fairness only, and only of what the runtime does by itself: asyncio runs
a task whose await has completed, and a timer that is armed goes off. So
`Negotiation` and `Search` assume it of the handlers of an answer and of the
transport's timeout, which spans the handshake, the fallback and the body;
`Discovery` of the sleeps; `Backchannel` of its continuations, of a read that has
something to read or whose ten seconds pass with nothing coming (a chunk ends the
read and its timeout with it, and the next read starts anew), and the completion
of `drain` where the device reads. Nothing is assumed of the
device or the network: they may fall silent at any point. `AudioGuard`, `Session`,
`DeviceOps` and `Formats` claim no liveness: they are made of calls whose end is
shown in `Negotiation`. `EventStream` claims none because there is none: a stream
has no timeout of its own and may stay silent for as long as aiohttp lets it.

## Proofs

The theorems hold for every value of the constants that satisfies the
assumption of the module. `NegotiationAssumption`, `SearchAssumption`,
`SessionAssumption`, `EventStreamAssumption` and `DeviceOpsAssumption` say that
the bounds are natural numbers and the sets of faults and kinds are of those
named. `AudioGuardAssumption` says that a device has the strings the queries ask
for. `AdtsAssumption` says that a header has a length; `BackchannelAssumption`
that clips and descriptions are sequences and the RTP moduli, 65536 and 2^32 in
the code, are above 1; `PiecesAssumption` that a device sends pieces of a response.
A description comes with its Content-Length, so that a response cut off holds
none. `DiscoveryAssumption` says that addresses are the last
bytes of one /24, that there are finitely many devices, and what calls are made
of. `FormatsAssumption` says of the inputs what shape they have: params are pairs of
a field and a text; a log has an entry for each index (`LogShape`), a table one
line for each key, whose first part is a number where it has several
(`TableShape`); the bytes of a partition are numbers (`PartitionShape`); and a clip
is empty or starts with a frame header, before which there is none in its body
(`LoadShape`). Their lengths are not bounded. `ConfigAssumption` keeps field names
apart from the characters of a text. TLC checked every inductive invariant before it was proved.

### Negotiation

1. `TypeCorrect`, `Released`. The inductive invariant is `TypeInv`: `TypeOK`,
   which has at most one response open per task, and `OpenIffAnswered`: a task
   has one open exactly if it has an answer. `TypeOK` alone is not inductive: the
   next answer would open a second response. `ResponsesReleased` follows from
   it, because a task that is idle has no answer.
2. `Budget`. `NegotiationBudget` speaks of a finished call; `BudgetInv` adds how
   many requests a call has sent at each await, in terms of `challenged` and
   of what it began with.
3. `CountBehind`. `CountNeverAhead` is inductive with `TypeInv`; the lemma that
   carries it is `SendDigestBehind`: a request adds one to the uses of its
   nonce and at most one to the count that goes with it.
4. `Outcome`, `Confined`. The hard ones. `IInv` is `TypeInv`, the owner's consent
   (`BasicNeedsConsent`) and `OutcomeInv`, which says where a handshake can be on a
   device that takes digest and has locked nobody out (`HandshakeSucceeds`): a
   request that answers a challenge is going to be granted, so the only denials
   are those that open a handshake, with a challenge the client can use under a
   nonce still valid. Without it nothing excludes a second denial, and with it
   the fallback. `AnswersTrue` ties every answer and outcome to the device.
5. `ImplementsContract`. `CInv` adds to `IInv` that basic is on the wire only
   after the switch (`SwitchFirst`), so that a password once exposed stays so, and
   that a denial carries the header of the device (`HeaderSent`).
   Every action then maps to one of the contract, or to a stutter: starts to
   `Calls`, ends to `Returns` with an outcome that `IInv` makes truthful, the
   fallback to `GivesPassword`, a first lockout to `LocksOut`.
6. `NonceReused`. `SerialCallsReuseNonce` counts over the whole history, and the
   state that carries the count moves: from what is remembered to the handshake
   and back. `TurnInv` says which one has the books (`Carried`, `Remembered`), and
   `Balanced` what is in them: the count is that of the requests under the
   nonce, no later nonce has been used, and `sent <= calls + last_nonce`. The
   last one holds because a challenge that a steady device sends brings a newer
   nonce (`Challenging`, `TurnDenied`): it denies only requests that have no
   nonce or one it has forgotten. `StatesKnown` ties every request to the state
   it was built from.

`Outcome`, `Confined`, `ImplementsContract` and `NonceReused` rest on what the model assumes of
a device that takes digest: its challenge is one the client can compute (`Init`),
and it does not forget a nonce while the challenge that carries it is being
answered (`NonceExpires`). A device without the second would deny correct
credentials under any client that answers a challenge once.

### Search

1. `TypeCorrect`. `TypeOK` is inductive; a search awaits a call exactly while
   one task is in it.
2. `Returned`. `HandlesReturned` says when the device may still keep a handle.
   A request of the opening that comes late could bring one to life after the
   search is over; `HandleInv` excludes it: an opening request is on the wire
   only while it is awaited or was given up, one that was answered is not on
   the wire, and a last request that succeeded has taken the handle away.
   `HandleFrame` is the other half: a step of one search shows nothing to
   another, whose requests are its own.
3. `ImplementsLease`. With `TypeOK` every step of a search moves its phase as
   HandleLease allows and every step of the device stutters. The weight is in
   `RaisesStep`: a failure in the cleanup keeps the exception pending, a
   cancellation ends the lease at once.

### Session and event streams

`StreamInvariant` proves one inductive invariant, `StreamInv`, from which
`TypeCorrect`, `AccountedFor`, `Reopens`, `EndsClean` and `InOrder` follow.

* `SessionInv` adds `OneCloses` to the session's properties: while closes have not
  overlapped at most one is under way, and what it closes is still the client's
  session. Without it a close that ends could drop a session opened since.
* `Fits` ties the values of one stream to each other: what was heard and what
  is still coming are together the events sent, numbered without a gap; a
  response is held exactly while the stream reads; a stream that finished has
  heard all. `OneStreamMoves` reduces a step to the stream that takes it;
  `SessionsRemain` says that no step of the session unmakes one a stream is on.

### Device operations

`DeviceOpsInvariant` proves `IInv`, from which `DeviceOpsTypes`,
`DeviceOpsAcknowledged`, `DeviceOpsOffline` and `DeviceOpsNothingLeft` follow.

* `StepsAreOfOp` ties the request a call awaits to its operation, so that the
  rules are read before they are written: until then the call has no target.
* `AppliedWhole`, `UnbornIsIdle` and `WireHasSender` say what requests can do: each is
  one its call made, sets something unless it is a read, and a request left
  behind adds nothing to what its call has set. Without them an acknowledgement
  could be followed by a change of what it acknowledged.
* `ReportedMoves` reduces what happens to a call to three cases: it goes on, it
  ends, or nobody awaits the answer. `RefusalIsNoOk` is where the tests of the
  transport matter: no refusal that passes them reads "OK".
* `NothingLeftBehind` is inductive with the types; `OneRequest` is the form in which
  it is used: a call that still awaits has no other request on its way.

### Audio guard

`Identification` is about `identify_brand` for any strings at all: an OEM code
decides alone, a brand the firmware votes for is the brand, and the hardware is
asked where the firmware is silent. The vote is a `CHOOSE` over the profiles with
the highest score, so the lemmas compare scores.

`IInv` is the types, `Cached` and `TaskInv`: what a task has collected, and what
the cached brand was made of, are strings that are `Vouched` for: the device's
own, or missing after a refused query. `Seen` are the combinations possible. With
it `Spared`, `WholeDevice`, `Firmware` and `Justified` are consequences of
`Identification`. The guard alone would not do: it looks at a brand another task
may have cached.

### Backchannel

* `Inductive` proves `IInv`. `Connection` says when one is open, `Dialogue` which
  requests were accepted at each await, `Streamed` how far the stream is: the
  packets are the frames with audio up to the next one, in order
  (`PacketsInOrder`), and the counters are those of the last packet, modulo their
  width. `Released`, `PlayedFirst` and `WholeStream` follow.
  `Wire` carries the acceptance across the pieces of a response: what has been
  sent, or read, and says 200 belongs to the request awaited, and there is
  nothing of a response before its request is written out (`Quiet`). Without it
  a 200 to one request could be taken for that of the next.
* `Recovered` is about `_parse_adts_frames` on data of any length. The parser is a
  recursive function; `Solves` unfolds it, and `ParsedPieces` goes down the
  offsets: from each one it finds the pieces that lie there. `LaidOut` says when
  a clip is whole.
* `TrackReceives` is about the loop over the lines of a session description. The
  lines are a concatenation and the loop a fold; `FlattenSteps` and `FoldSteps`
  turn each into its steps, and the induction is over the media read so far
  (`TrackOfMedium`).

### Discovery

* `IInv` has for each task where its call is (`Progress`), what its table has
  (`Tabled`: one announcement of each device heard, `Sightings`: at an address the
  device held during the sweep) and what it reported (`Reported`); for every
  datagram in the network, that it belongs to a call (`RequestOfCall`), and, of
  an answer, that it is to a sweep that still collects (`AnswerToSweep`): a
  closed socket hears nothing, and a late answer to it could be a stale one.
* `Freshness` and `Moves` follow from what datagrams there can be. `Completeness`
  needs that a listing exists: that a finite table can be sorted, by induction
  over the table.

### Formats

The state is small; what is hard is in the operators, so most of FormatsProofs
is lemmas about them.

* `ExposureInvariant` proves `ExposureInv`: the settings are well-formed, those last
  asked for are what the device has to two digits (`AskedHeld`), and a report is of
  the device as it is (`Reported`). `ExposureWhole` needs `AskedHeld`, as the reading
  may come any number of calls after the writing. The lemmas below it are about
  `round()`: how far it goes wrong (`RoundedNear`), that it keeps an order
  (`RoundedInOrder`, which needs that a tie goes the same way whatever the divisor,
  `RoundedTie`), and that 1000/N to two digits read back is N up to 319
  (`FractionReadBack`).
* `ReadsWhole` adds one lemma for each call that reads. `ClipMade`: the least place
  of a header is where the clip begins. `RecordingsMade` and `DisksMade`: `Ascending`
  is the order of the ranks (`AscendingFacts`), and a sum over the partitions of a
  disk is the sum over their lines (`SumCarried`). `LogMade`: `LogInOrder` says which
  line of an entry is where, `ReadUpTo` what has been read at each line, and
  `EntryStarts` and `EntryGoesOn` take it on; that a new index goes to the end is
  where distinct indices matter.
* `WritesReach` has a half for the shutter (`ShutterWritten`) and one for the texts
  (`TextsWritten`). `PieceFacts` says that nothing in a query is cut off, refused or
  taken for a blank (`Arrives`), `QueryPlaced` where its parts are in the text the
  device decodes, `SplitParts` that the text is split there and nowhere else, and
  `PartsTaken` that every part is assigned; `TrimSent` covers the empty text, which
  travels as a space.

Sums, folds and flattenings are recursive functions under a `CHOOSE`, so each has a
lemma that such a function exists (`SumExists`, `FoldExists`, `FlattenSteps`) and one
that goes through it step by step.

### What is left to TLC

Liveness (`CallsEnd`, `SearchesEnd`, `EndsWhileRead`) is out of the prover's reach.
Every invariant, action property and refinement that a run checks has a theorem.

The induction theorems of the library cannot be applied here, as they take an
operator as a parameter. Where a proof goes along the numbers or over a finite
set, it takes the least element of the set of counterexamples instead
(`LeastNatural`, `Upward`, and the strict subsets in DiscoveryProofs), which is
stated for sets. Folds of the library are unfolded where they are used, one lemma
for each operator folded.

## Findings

* `nego_lockout` – the switch to basic is said to mean the device does not want
  digest; a lockout during one handshake flips it for the client's life.
* `search_cancelled` – "finder is always cleaned up" does not survive a
  cancellation during the close action: `except Exception` does not catch it,
  and the loop is left before `destroy`.
* `guard_refused` – "the library must not send it": a Lorex that refuses its
  identification queries for a moment is cached as unknown, which the guard
  lets pass.
* `backchannel_track` – the SETUP of the backchannel names
  `trackID=control:trackID=5`.

Noted while reading, without a run of their own: `get_max_extra_streams` says
"just assume 2" and returns 3 (client.py:859); `async_set_all_ivs_rules` says 11
rules and asks for 10 (client.py:984), so a device with eleven keeps the last one
as it was while the call reports success; an RTSP device that trickles the head of a response
holds the call without end (client.py:1887); a line of a log's detail that begins
like `found=` or `items[3].` is dropped, or taken for a field of entry 3, when it
continues the detail of another (parsers.py:262 and 265); `async_get_bytes` returns an error report
that came with a 200 as data, where `async_get_text` raises (client.py:333); the
fallbacks of the callers of `async_get_config` cannot run, because it turns
every response error into `{}` first (client.py:917); `async_set_config` takes
any body that contains "ok" for an acknowledgement (client.py:477), abstracted
in DeviceOps to the bare one; `parse_shutter` promises "a positive fraction of a
second or ms value" and accepts `inf` and `nan` (exposure.py:50); `_as_fraction`
reports `1/0` for two seconds and more (exposure.py:66); the URL of
`async_set_zoom_v1` has no `&` before its parameter (client.py:1159); a stream asked for on a
closed session returns at once and silently, and any stream ends with aiohttp's
default total timeout of five minutes (client.py:1617); `async_post_audio` returns
normally when its credentials are rejected (client.py:1821); `KeyError`, `ValueError`, `RuntimeError` and plain
`Exception` leave the library beside `DahuaError`, "base class for every error
raised by this library" (exceptions.py:27).

## Mutants

Beside those of `PROJECT.json`, these are noticed as well:

| Mutant | of | noticed by |
|---|---|---|
| `OldChallengeKept` | `Negotiation.WithChallenge` | `KeepsContract` |
| `StateForgotten` | `Negotiation.RememberDigest` | `SerialCallsReuseNonce` |
| `NoFinally` | `Search.AfterFailure` | `KeepsLease` |
| `NotReleased` | `EventStream.Released` | `StreamEndsClean` |
| `Newest` | `EventStream.Oldest` | `EventsInOrder` |
| `AlwaysNew` | `Session.GetSession` | `SessionsAccountedFor` |
| `MarkedEarly` | `Backchannel.Marked` | `StreamWhole` |
| `HardwareFirst` | `Brands.Reported` | `FirmwareDecides` |
| `SafeWithPlus` | `Config.Safe` | `WritesArrive` |
| `OrderUnchecked` | `Exposure.RangeRefused` | `WritesArrive` |
| `CutOff` | `Exposure.TwoDigits` | `WritesArrive` |
| `SentUpToRefusal` | `Formats.SentPairs` | `WritesArrive` |
| `StringOrder` | `Parsers.FileOrder` | `ReadsAreWhole` |
| `FirstD` | `Parsers.StripDhavPreamble` | `ReadsAreWhole` |

## Not modelled

* `async_post_audio` beyond the guard, its two requests and the parts of its
  body: the headers of the parts, `duration`, which is a timeout here, and the
  nonce state of its private `DigestAuth` objects, which nothing else sees. It
  promises nothing about its outcome (see Findings), so there is nothing to hold
  it to.
* URL builders (`get_rtsp_url` and its siblings), `format_bytes`, the names of
  fields, profiles and modes, the prefixes `parse_kv` strips on request: formats
  without control, where a model would only repeat the string.
* `_normalise`, `to_stream_name`, the properties and the context manager's
  `__aenter__`.
* Character encodings, hashes, header syntax, wall-clock time, and the rounding
  of binary floats beyond that of rationals.
* `scripts/`: manual tools that call the library against a device.

## Plan

1. *Done*: Negotiation, Session, EventStream, Search, Brands and AudioGuard,
   Adts and Backchannel, Discovery, Transport and DeviceOps, Config, Exposure,
   Parsers and Formats; the refinements of AuthContract and HandleLease; the
   proofs of all invariants, action properties and refinements.
2. **Next**: what the theorems assume of devices, made weaker where the code
   allows it: tables that repeat a key, of which `parse_kv` keeps the last line;
   and lemmas on `brands.py` beyond `Identification`.
