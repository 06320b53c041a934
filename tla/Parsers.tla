------------------------------ MODULE Parsers ------------------------------
(***************************************************************************)
(* What is made of the bodies a device sends (parsers.py): log entries,    *)
(* recorded files, disks and clips.  A line is a record of what the        *)
(* patterns of the parsers tell apart.                                     *)
(***************************************************************************)
EXTENDS Integers, Sorting, SequencesExt

-----------------------------------------------------------------------------
(* parse_log_entries.  A line is the count ("found"), blank, a field of an *)
(* indexed entry ("item"), or text that continues an entry, which may look *)
(* like a pair of a key and a value.                                       *)

NoPair == [key |-> "none", value |-> "none"]

NoEntries == [entries |-> <<>>, current |-> 0]

\* The entry with this index has position p; a new one goes to the end.
Position(entries, index) ==
  IF \E p \in DOMAIN entries : entries[p].index = index
    THEN CHOOSE p \in DOMAIN entries : entries[p].index = index
    ELSE Len(entries) + 1

WithField(entry, line) ==
  IF line.field = "Time" THEN [entry EXCEPT !.time = line.text]
                         ELSE [entry EXCEPT !.detail = <<line.text>>]

\* A line that continues an entry; one that looks like a pair names a field.
WithText(entry, line) ==
  [entry EXCEPT !.detail = Append(@, line.text),
                !.detail_fields = IF line.pair = NoPair
                                    THEN @ ELSE {f \in @ : f.key # line.pair.key} \cup {line.pair}]

\* Mutant: a continuation line goes to the entry listed first.
ContinuesFirst(so_far) == IF so_far.entries = <<>> THEN 0 ELSE 1

\* The position of the entry that a continuation line belongs to, 0 for none.
Continues(so_far) == so_far.current

Parsed(so_far, line) ==
  CASE line.kind \in {"found", "blank"} -> so_far
    [] line.kind = "item" ->
         LET p == Position(so_far.entries, line.index)
             entry == IF p \in DOMAIN so_far.entries
                        THEN so_far.entries[p]
                        ELSE [index |-> line.index, time |-> "none",
                              detail |-> <<>>, detail_fields |-> {}]
         IN [entries |-> SubSeq(so_far.entries, 1, p - 1) \o <<WithField(entry, line)>>
                           \o SubSeq(so_far.entries, p + 1, Len(so_far.entries)),
             current |-> p]
    [] OTHER ->
         LET p == Continues(so_far)
         IN IF p = 0 THEN so_far ELSE [so_far EXCEPT !.entries[p] = WithText(@, line)]

ParseLogEntries(lines) == FoldLeft(Parsed, NoEntries, lines).entries

-----------------------------------------------------------------------------
(* parse_media_files and parse_storage_info.  parse_kv has made a set of   *)
(* pairs of the lines: only the last of those with one key is left.        *)

ParseKv(lines) ==
  {lines[i] : i \in {j \in DOMAIN lines :
     \A k \in (j + 1)..Len(lines) : lines[k].key # lines[j].key}}

\* What the key is paired with, or the default.
Value(kv, key, default) ==
  IF \E l \in kv : l.key = key THEN (CHOOSE l \in kv : l.key = key).value ELSE default

\* RECORD_TYPES, in the order they are looked for in a path.
RecordTypes == <<"R", "M", "A", "I">>

RecordType(marks) ==
  IF marks \cap Range(RecordTypes) = {}
    THEN "unknown" ELSE SelectSeq(RecordTypes, LAMBDA code : code \in marks)[1]

\* The indices that occur in the keys.
Indices(lines) == {lines[i].key[1] : i \in {j \in DOMAIN lines : Len(lines[j].key) > 1}}

\* Mutant: the files come in the order their indices have as strings.
StringOrder(lines) ==
  SetToSortSeq(Indices(lines),
               LAMBDA i, j : IF i \div 10 = j \div 10 THEN i < j ELSE i \div 10 > j \div 10)

\* The indices of the files, in the order they have as numbers.
FileOrder(lines) == Ascending(Indices(lines))

\* A line is the count, with key <<"found">> and -1 for what is no number, or
\* a field of the file with some index.  A path is the set of the trigger
\* marks in it.
ParseMediaFiles(lines) ==
  LET kv == ParseKv(lines)
      order == FileOrder(lines)
  IN [found |-> LET count == Value(kv, <<"found">>, 0) IN IF count < 0 THEN 0 ELSE count,
      files |-> [i \in DOMAIN order |->
                  [start_time  |-> Value(kv, <<order[i], "StartTime">>, 0),
                   record_type |-> RecordType(Value(kv, <<order[i], "FilePath">>, {}))]]]

\* An entry of parse_storage_info, of the partitions of the disk.
Disk(state, parts) ==
  LET total == SumFunction([p \in DOMAIN parts |-> parts[p].total])
      used  == SumFunction([p \in DOMAIN parts |-> parts[p].used])
  IN [total |-> total,
      used  |-> used,
      free  |-> IF total > used THEN total - used ELSE 0,
      healthy |-> state = "Success" /\ \A i \in DOMAIN parts : ~parts[i].is_error,
      noted |-> total # 0 /\ used >= total]

\* A line is a field of a disk or, with the number of one, of a partition.
ParseStorageInfo(lines) ==
  LET kv == ParseKv(lines)
      order == Ascending(Indices(lines))
      Part(d) == {l.key[2] : l \in {k \in kv : k.key[1] = d /\ Len(k.key) = 3}}
  IN [i \in DOMAIN order |->
       Disk(Value(kv, <<order[i], "State">>, "none"),
            [p \in Part(order[i]) |->
              [total    |-> Value(kv, <<order[i], p, "TotalBytes">>, 0),
               used     |-> Value(kv, <<order[i], p, "UsedBytes">>, 0),
               is_error |-> Value(kv, <<order[i], p, "IsError">>, FALSE)]])]

-----------------------------------------------------------------------------
(* strip_dhav_preamble.                                                    *)

Magic == <<"D", "H", "A", "V">>

\* The places where a frame header starts.
Headers(data) ==
  {i \in 1..(Len(data) - 3) : SubSeq(data, i, i + 3) = Magic}

\* Mutant: the first letter of the header is taken for it.
FirstD(data) == LET at == {i \in DOMAIN data : data[i] = "D"} IN SubSeq(data, Min(at), Len(data))

\* The clip, of data that has a frame header.
StripDhavPreamble(data) == SubSeq(data, Min(Headers(data)), Len(data))
=============================================================================
