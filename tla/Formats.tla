------------------------------ MODULE Formats ------------------------------
(***************************************************************************)
(* The calls that are more data than dialogue: writing configuration, the  *)
(* shutter and reading it back, and reading logs, recordings, disks and    *)
(* clips (client.py, on config.py, exposure.py and parsers.py).  One       *)
(* client, and a device that answers; the calls that lose an answer, and   *)
(* those of several tasks, are the matter of the other modules.            *)
(***************************************************************************)
EXTENDS Config, Exposure, Parsers

CONSTANTS
  Params,    \* the params of an async_set_config: sequences of a key and a text
  Speeds,    \* what callers say for a shutter speed
  Fastest,   \* what they say for the fastest one
  ProfileSets,   \* what they say for the profiles
  Channels,  \* the video channels of the device
  Logs,      \* what its log may hold: sequences of entries
  Listings,  \* what a file search may find: sequences of lines
  Storages,  \* what a recorder may say of its disks: sequences of lines
  Loads,     \* what loadfile.cgi may send: a preamble and a clip
  MaxCalls   \* bound: calls in a behaviour

Forms == {"fraction", "ms", "words"}

\* A log has an entry for each index, and its lines either look like a pair or
\* do not.
LogShape(log) ==
  /\ Len(log) \in Nat /\ DOMAIN log = 1..Len(log)
  /\ \A i, j \in DOMAIN log : log[i].index = log[j].index => i = j
  /\ \A i \in DOMAIN log :
       LET more == log[i].more
       IN /\ Len(more) \in Nat /\ DOMAIN more = 1..Len(more)
          /\ \A j \in DOMAIN more : more[j].pair.key = NoPair.key => more[j].pair = NoPair

\* A table has one line for each key, which is a name, or starts with an index.
TableShape(lines) ==
  /\ Len(lines) \in Nat /\ DOMAIN lines = 1..Len(lines)
  /\ \A i \in DOMAIN lines :
       LET key == lines[i].key
       IN /\ Len(key) \in 1..3 /\ key = [n \in 1..Len(key) |-> key[n]]
          /\ Len(key) > 1 => key[1] \in Nat
  /\ \A i, j \in DOMAIN lines : lines[i].key = lines[j].key => i = j

\* What is said of a partition.
PartitionShape(line) ==
  /\ line.key[3] \in {"TotalBytes", "UsedBytes"} => line.value \in Nat
  /\ line.key[3] = "IsError" => line.value \in BOOLEAN

\* A clip starts with a frame header, and none starts before it.
LoadShape(load) ==
  /\ load.preamble \in Seq(STRING) /\ load.clip \in Seq(STRING)
  /\ load.clip = <<>> \/ 1 \in Headers(load.clip)
  /\ \A i \in Headers(load.preamble \o load.clip) : i > Len(load.preamble)

ASSUME FormatsAssumption ==
  /\ MaxCalls \in Nat
  /\ Params \subseteq Seq([key : Keys, value : Seq(Char)])
  /\ \A c \in ProfileSets : c \subseteq Nat
  /\ Speeds \cup Fastest \subseteq [form : Forms, num : Int, den : Nat]
  /\ \A log \in Logs : LogShape(log)
  /\ \A lines \in Listings \cup Storages : TableShape(lines)
  /\ \A lines \in Storages : \A i \in DOMAIN lines :
       Len(lines[i].key) = 3 => PartitionShape(lines[i])
  /\ \A load \in Loads : LoadShape(load)

VARIABLES
  fields,    \* device: its text fields
  exposure,  \* device: VideoInExposure[channel][profile]
  call,      \* client: the call made last, with what came of it
  asked,     \* history: the slowest shutter last accepted for a profile
  calls      \* history: calls made

vars == <<fields, exposure, call, asked, calls>>

Called(record) == calls < MaxCalls /\ calls' = calls + 1 /\ call' = record

\* Bound: a call that has nothing to do with the exposure is made alone.
CalledAlone(record) == calls = 0 /\ calls' = MaxCalls /\ call' = record

-----------------------------------------------------------------------------

\* Mutant: the pairs before the one that is refused have been sent.
SentUpToRefusal(params) ==
  LET bad == {i \in DOMAIN params : ~Representable(params[i].value)}
  IN SubSeq(params, 1, IF bad = {} THEN Len(params) ELSE Min(bad) - 1)

\* All pairs go out in one request, or none if one has a value that cannot be
\* represented.
SentPairs(params) ==
  IF \A i \in DOMAIN params : Representable(params[i].value) THEN params ELSE <<>>

\* async_set_config, and the calls that name a field and a text only.
SetConfig(params) ==
  LET query == BuildConfigQuery(SentPairs(params))
      refused == \E i \in DOMAIN params : ~Representable(params[i].value)
  IN /\ fields' = IF Decodable(query) THEN Taken(fields, query) ELSE fields
     /\ CalledAlone([op |-> "set_config", params |-> params,
                     outcome |-> IF refused THEN "value_error"
                                 ELSE IF Decodable(query) THEN "ok" ELSE "refused"])
     /\ UNCHANGED <<exposure, asked>>

\* async_set_shutter_range.
SetShutterRange(slowest, fastest, channel, chosen) ==
  LET refused == RangeRefused(slowest, fastest, chosen)
      shutter == [op |-> "set_shutter_range", slowest |-> slowest, fastest |-> fastest,
                  channel |-> channel, chosen |-> chosen,
                  outcome |-> IF refused THEN "value_error" ELSE "ok"]
  IN /\ Called(shutter)
     /\ IF refused
          THEN UNCHANGED <<exposure, asked>>
          ELSE /\ exposure' = [exposure EXCEPT ![channel] =
                    [p \in DOMAIN @ |-> IF p \in chosen THEN Capped(slowest, fastest) ELSE @[p]]]
               /\ asked' = [asked EXCEPT ![channel] =
                    [p \in DOMAIN @ |-> IF p \in chosen THEN slowest ELSE @[p]]]
     /\ UNCHANGED fields

\* async_set_exposure_auto.
SetExposureAuto(channel, chosen) ==
  /\ Called([op |-> "set_exposure_auto", channel |-> channel, chosen |-> chosen,
             outcome |-> IF UnknownProfile(chosen) THEN "value_error" ELSE "ok"])
  /\ exposure' = IF UnknownProfile(chosen)
                   THEN exposure
                   ELSE [exposure EXCEPT ![channel] =
                          [p \in DOMAIN @ |-> IF p \in chosen THEN HandedBack(@[p]) ELSE @[p]]]
  /\ UNCHANGED <<fields, asked>>

\* async_get_exposure: the whole table is read, and the channel picked out.
GetExposure(channel) ==
  /\ Called([op |-> "get_exposure", channel |-> channel,
             report |-> ParseExposure(exposure[channel])])
  /\ UNCHANGED <<fields, exposure, asked>>

\* A device writes its log the way parse_log_entries describes it.
Item(i, field, text) ==
  [kind |-> "item", index |-> i, field |-> field, text |-> text, pair |-> NoPair]

Bare(kind, text, pair) ==
  [kind |-> kind, index |-> 0, field |-> "none", text |-> text, pair |-> pair]

LogLines(log) ==
  <<Bare("found", "none", NoPair)>>
    \o FlattenSeq([i \in DOMAIN log |->
         <<Item(log[i].index, "Time", log[i].time), Item(log[i].index, "Detail", log[i].detail)>>
           \o [j \in DOMAIN log[i].more |-> Bare("text", log[i].more[j].text, log[i].more[j].pair)]
           \o <<Bare("blank", "none", NoPair)>>])

\* The doFind step of async_search_logs.
SearchLogs(log) ==
  /\ CalledAlone([op |-> "search_logs", log |-> log, entries |-> ParseLogEntries(LogLines(log))])
  /\ UNCHANGED <<fields, exposure, asked>>

\* The findNextFile step of async_find_recordings.
FindRecordings(lines) ==
  /\ CalledAlone([op |-> "find_recordings", lines |-> lines, listing |-> ParseMediaFiles(lines)])
  /\ UNCHANGED <<fields, exposure, asked>>

\* async_get_storage_info.
GetStorageInfo(lines) ==
  /\ CalledAlone([op |-> "get_storage_info", lines |-> lines, disks |-> ParseStorageInfo(lines)])
  /\ UNCHANGED <<fields, exposure, asked>>

\* async_download_clip: a channel below 1 or an empty range is refused before
\* anything is sent, and a body without a frame header is no clip.
DownloadClip(channel, start, end, load) ==
  LET body == load.preamble \o load.clip
  IN /\ CalledAlone([op |-> "download_clip", channel |-> channel, start |-> start, end |-> end,
                     load |-> load,
                     clip |-> IF channel < 1 \/ end <= start \/ Headers(body) = {}
                                THEN <<>> ELSE StripDhavPreamble(body),
                     outcome |-> IF channel < 1 \/ end <= start THEN "value_error"
                                 ELSE IF Headers(body) = {} THEN "response_error" ELSE "ok"])
     /\ UNCHANGED <<fields, exposure, asked>>

-----------------------------------------------------------------------------

\* The settings a device comes with: automatic, with a range it ignores.
Default ==
  [mode |-> ExposureAuto,
   value1 |-> [num |-> 10, den |-> 100], value2 |-> [num |-> 4000, den |-> 100]]

Unasked == [form |-> "none", num |-> 0, den |-> 1]

Init ==
  /\ fields = [k \in Keys |-> <<"a">>]
  /\ exposure = [c \in Channels |-> [p \in Profiles |-> Default]]
  /\ call = [op |-> "none"]
  /\ asked = [c \in Channels |-> [p \in Profiles |-> Unasked]]
  /\ calls = 0

Next ==
  \/ \E params \in Params : SetConfig(params)
  \/ \E channel \in Channels :
       \/ \E slowest \in Speeds, fastest \in Fastest, chosen \in ProfileSets :
            SetShutterRange(slowest, fastest, channel, chosen)
       \/ \E chosen \in ProfileSets : SetExposureAuto(channel, chosen)
       \/ GetExposure(channel)
  \/ \E log \in Logs : SearchLogs(log)
  \/ \E lines \in Listings : FindRecordings(lines)
  \/ \E lines \in Storages : GetStorageInfo(lines)
  \/ \E channel \in 0..1, start \in 1..2, end \in 1..2, load \in Loads :
       DownloadClip(channel, start, end, load)

Spec == Init /\ [][Next]_vars

-----------------------------------------------------------------------------
(* Properties.                                                             *)

\* Half of a hundredth of a millisecond, or less, from what was asked.
Near(written, ms) ==
  LET off == written.num * ms.den - ms.num * written.den
  IN 2 * 100 * off <= ms.den * written.den /\ 2 * 100 * off >= -(ms.den * written.den)

\* The text a call of async_set_config has for the field k, if it has one.
Says(params, k) == {params[i].value : i \in {j \in DOMAIN params : params[j].key = k}}

\* Every field has the text of the call that names it, trimmed.
TextsArrive ==
  call'.op = "set_config" =>
    IF \E i \in DOMAIN call'.params : "&" \in Range(call'.params[i].value)
      THEN call'.outcome = "value_error" /\ fields' = fields
      ELSE \A k \in Keys : IF Says(call'.params, k) = {}
                             THEN fields'[k] = fields[k]
                             ELSE fields'[k] \in {Trim(text) : text \in Says(call'.params, k)}

\* A profile changes on a call that chose it, and gets what that call says.
ShutterArrives ==
  \A c \in Channels, p \in Profiles :
    LET was == exposure[c][p]
        now == exposure'[c][p]
    IN now # was =>
         /\ call'.op \in {"set_shutter_range", "set_exposure_auto"}
         /\ call'.outcome = "ok" /\ c = call'.channel /\ p \in call'.chosen
         /\ call'.op = "set_exposure_auto" => now = [was EXCEPT !.mode = ExposureAuto]
         /\ call'.op = "set_shutter_range" =>
              /\ now.mode = ShutterRange
              /\ ~Exceeds(now.value1, now.value2)
              /\ now.value2.den # 0 => Near(now.value2, InMs(call'.slowest))

\* What was accepted holds for all profiles chosen.
ShutterReaches ==
  (call'.op = "set_shutter_range" /\ call'.outcome = "ok") =>
    \A p \in call'.chosen : asked'[call'.channel][p] = call'.slowest
                            /\ exposure'[call'.channel][p].mode = ShutterRange

\* A write changes the device to what was asked and nothing else, or is refused
\* before anything is sent.  A field has its text whatever characters are in
\* it, the empty text included; a "&" anywhere in the pairs stops all of them.
\* The shutter range of the chosen profiles, and of no other, is on, in order
\* and as asked up to the two digits written; handing exposure back leaves the
\* range alone.
WritesArrive == [][TextsArrive /\ ShutterArrives /\ ShutterReaches]_vars

\* The exposure of a channel is reported profile by profile as the device has
\* it, and a shutter asked for as 1/N reads 1/N again, also after exposure was
\* handed back; up to N = 319, where the two digits written begin to tell.
ExposureWhole ==
  call.op = "get_exposure" =>
    \A p \in Profiles :
      LET entry == call.report[p + 1]
          speed == asked[call.channel][p]
      IN /\ entry.profile = p
         /\ entry.shutter_range_applies <=> exposure[call.channel][p].mode = ShutterRange
         /\ (speed.form = "fraction" /\ speed.num = 1 /\ speed.den < 320)
              => entry.slowest_fraction = speed.den

\* There are as many entries as the device has, and each keeps the lines that
\* continue it, also those that look like a pair.  A continuation that begins
\* the way a count or a field does (found=, items[n].) is not among the logs:
\* parse_log_entries takes it for one.
LogWhole(read) ==
  read.op = "search_logs" =>
    /\ Len(read.entries) = Len(read.log)
    /\ \A i \in DOMAIN read.log :
         LET entry == read.log[i]
             texts == [j \in DOMAIN entry.more |-> entry.more[j].text]
         IN /\ read.entries[i].time = entry.time
            /\ read.entries[i].detail = <<entry.detail>> \o texts
            /\ {f.key : f \in read.entries[i].detail_fields} =
                 {entry.more[j].pair.key : j \in DOMAIN entry.more} \ {NoPair.key}

\* Files come in the order of their indices, each with what was said of it.
RecordingsWhole(read) ==
  read.op = "find_recordings" =>
    /\ Len(read.listing.files) = Cardinality(Indices(read.lines))
    /\ \A i \in DOMAIN read.lines :
         LET line == read.lines[i]
             place == Cardinality({n \in Indices(read.lines) : n <= line.key[1]})
         IN Len(line.key) = 2 /\ line.key[2] = "StartTime" =>
              read.listing.files[place].start_time = line.value

\* Bytes and errors of the nth disk are those of its own partitions: of the
\* lines with the nth of the indices.
DiskWhole(lines, n, disk) ==
  LET index == CHOOSE i \in Indices(lines) : Cardinality({j \in Indices(lines) : j <= i}) = n
      Own(field) == {i \in DOMAIN lines :
                       LET key == lines[i].key
                       IN Len(key) = 3 /\ key[1] = index /\ key[3] = field}
  IN /\ disk.total = SumFunction([i \in Own("TotalBytes") |-> lines[i].value])
     /\ disk.used <= disk.total => disk.used + disk.free = disk.total
     /\ disk.healthy => \A i \in Own("IsError") : ~lines[i].value

\* There is one disk for each index in the keys.
DisksWhole(read) ==
  read.op = "get_storage_info" =>
    /\ DOMAIN read.disks = 1..Cardinality(Indices(read.lines))
    /\ \A n \in DOMAIN read.disks : DiskWhole(read.lines, n, read.disks[n])

\* A clip comes whole and without its preamble, or the call says why not.
ClipWhole(read) ==
  read.op = "download_clip" =>
    IF read.outcome = "ok" THEN read.clip = read.load.clip
                           ELSE read.clip = <<>> /\ (read.outcome = "value_error" \/ read.load.clip = <<>>)

\* What a reading call returns is what the device holds: nothing left out, put
\* with a neighbour, or made up from the way it is written.
ReadsAreWhole ==
  /\ ExposureWhole
  /\ LogWhole(call) /\ RecordingsWhole(call) /\ DisksWhole(call) /\ ClipWhole(call)
=============================================================================
