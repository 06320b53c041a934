------------------------------- MODULE Config -------------------------------
(***************************************************************************)
(* How a setConfig travels: encode_config_value and build_config_query     *)
(* (config.py) on the way out, and the firmware that takes it apart.  A    *)
(* text is a sequence of characters, one for every class the two tell      *)
(* apart; a query is a sequence of characters that are percent-encoded or  *)
(* literal.                                                                *)
(*                                                                         *)
(* The firmware is external, as config.py describes it: it decodes the     *)
(* whole query before it splits it on "&", ignores an empty value, trims   *)
(* the others, and refuses what it cannot decode.                          *)
(***************************************************************************)
EXTENDS Naturals, SequencesExt

CONSTANT Keys  \* the fields that may be written, each one character of a query

Special == {" ", "#", "+", "%", "&", "="}
Char == {"a", "/"} \cup Special

ASSUME ConfigAssumption == Keys \cap Char = {}

-----------------------------------------------------------------------------
(* config.py.                                                              *)

\* Mutant: "+" is taken for a character that needs no encoding.
SafeWithPlus == {"a", "/", "+"}

\* What quote leaves alone: letters and digits, and CONFIG_VALUE_SAFE.
Safe == {"a", "/"}

Representable(text) == "&" \notin Range(text)

\* Mutant: the empty value is written as it is.
EmptyLeftEmpty(text) ==
  [i \in DOMAIN text |-> [char |-> text[i], encoded |-> text[i] \notin Safe]]

\* The empty value travels as a space.
EncodeConfigValue(text) ==
  LET sent == IF text = <<>> THEN <<" ">> ELSE text
  IN [i \in DOMAIN sent |-> [char |-> sent[i], encoded |-> sent[i] \notin Safe]]

Literally(text) == [i \in DOMAIN text |-> [char |-> text[i], encoded |-> FALSE]]

\* The pairs of params, a sequence, joined by "&".
BuildConfigQuery(params) ==
  FlattenSeq([i \in DOMAIN params |->
    Literally(IF i = 1 THEN <<params[i].key, "=">> ELSE <<"&", params[i].key, "=">>)
      \o EncodeConfigValue(params[i].value)])

-----------------------------------------------------------------------------
(* The firmware, and what carries the query to it.                         *)

\* A fragment is not sent.
Carried(query) ==
  LET hashes == {i \in DOMAIN query : query[i] = [char |-> "#", encoded |-> FALSE]}
  IN IF hashes = {} THEN query ELSE SubSeq(query, 1, Min(hashes) - 1)

Decodable(query) == \A i \in DOMAIN query : query[i] # [char |-> "%", encoded |-> FALSE]

Decoded(query) ==
  [i \in DOMAIN query |->
    IF query[i] = [char |-> "+", encoded |-> FALSE] THEN " " ELSE query[i].char]

Split(text) ==
  FoldLeft(LAMBDA parts, char :
             IF char = "&" THEN Append(parts, <<>>)
                           ELSE [parts EXCEPT ![Len(parts)] = Append(@, char)],
           <<<<>>>>, text)

Trim(text) ==
  LET kept == {i \in DOMAIN text : text[i] # " "}
  IN IF kept = {} THEN <<>> ELSE SubSeq(text, Min(kept), Max(kept))

\* The fields after one part of the query, which may assign none.
Assigned(fields, part) ==
  IF Len(part) > 2 /\ part[1] \in Keys /\ part[2] = "="
    THEN [fields EXCEPT ![part[1]] = Trim(SubSeq(part, 3, Len(part)))]
    ELSE fields

\* The fields of a device after a query it can decode.
Taken(fields, query) == FoldLeft(Assigned, fields, Split(Decoded(Carried(query))))
=============================================================================
