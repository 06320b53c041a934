----------------------------- MODULE MCFormats -----------------------------
(* Formats on small samples.                                               *)
EXTENDS Formats

Texts == UNION {[1..n -> Char] : n \in 0..2}
Few   == {<<>>, <<"a">>, <<"&", "a">>}

\* Any text for one field, and few for two at once.
SomeParams ==
  {<<[key |-> "name", value |-> text]>> : text \in Texts}
    \cup {<<[key |-> "name", value |-> a], [key |-> "title", value |-> b]>> : a, b \in Few}

Fraction(num, den) == [form |-> "fraction", num |-> num, den |-> den]
Ms(num, den) == [form |-> "ms", num |-> num, den |-> den]
Words == [form |-> "words", num |-> 0, den |-> 1]

\* 319 and 320 are the two sides of the border where 1/N begins to differ.
SomeSpeeds ==
  {Fraction(1, 60), Fraction(1, 319), Fraction(1, 320), Fraction(1, 0), Fraction(-1, 60),
   Ms(833, 100), Ms(1, 1000), Ms(0, 1), Ms(1, 0), Ms(0, 0), Words}
SomeFastest == {Ms(1, 10), Ms(20, 1)}
SomeProfiles == {0..2, {1}, {0, 3}}

Text(text) == [text |-> text, pair |-> NoPair]
Pair(key, value) == [text |-> key, pair |-> [key |-> key, value |-> value]]
Entry(i, time, more) == [index |-> i, time |-> time, detail |-> "Event", more |-> more]

SomeMore == {<<>>, <<Text("text")>>, <<Pair("Channel", "10"), Pair("Start", "1")>>,
             <<Pair("Channel", "2"), Text("a=b")>>}
SomeLogs == {<<>>} \cup {<<Entry(i, "t1", a), Entry(1 - i, "t2", b)>> : i \in 0..1, a, b \in SomeMore}

Line(key, value) == [key |-> key, value |-> value]

\* The fields of files 2 and 10, in either order, and a count that may be wrong.
Files(first, second, count) ==
  <<Line(<<"found">>, count), Line(<<first, "StartTime">>, first),
    Line(<<first, "FilePath">>, {"M"}), Line(<<second, "FilePath">>, {"R", "A"}),
    Line(<<second, "StartTime">>, second)>>
SomeListings == {<<>>, <<Line(<<"found">>, -1)>>} \cup {Files(2, 10, 2), Files(10, 2, 2), Files(1, 0, -1)}

Disks(state, error) ==
  <<Line(<<1, "State">>, "Success"), Line(<<0, "State">>, state),
    Line(<<0, 1, "TotalBytes">>, 5), Line(<<0, 0, "TotalBytes">>, 3), Line(<<1, 0, "TotalBytes">>, 4),
    Line(<<0, 0, "UsedBytes">>, 3), Line(<<1, 0, "UsedBytes">>, 4),
    Line(<<0, 1, "IsError">>, error), Line(<<1, 0, "IsError">>, ~error)>>
SomeStorages == {<<>>} \cup {Disks(state, error) : state \in {"Success", "Error"}, error \in BOOLEAN}

\* Preambles that look like the beginning of a header, and bodies without one.
SomeLoads ==
  {[preamble |-> p, clip |-> c] : p \in {<<>>, <<"x", "D">>, <<"D", "H", "A">>, <<"V", "D", "H", "x">>},
                                  c \in {<<>>, Magic, Magic \o <<"x">> \o Magic}}
=============================================================================
