---------------------------- MODULE CommandParams ----------------------------
(* client/params: the option objects of commands.  A setter records a keyword *)
(* in params_ and its values in fields; addParamsToArgv() writes the recorded  *)
(* options in the class's order.  The server's reading of the words is         *)
(* external.                                                                   *)
EXTENDS Integers, Sequences, SequencesExt

CONSTANTS Numbers,      \* the text std::to_string() makes of a number (a weight is cut to six decimals there)
          Texts,        \* a value that is text, and may look like a keyword
          MaxList,      \* the longest list given to get() or weights()
          NumKeys       \* the keys of the command weights() is used with

VARIABLES
    cls,       \* the class of the object
    params_,   \* the keywords set
    values     \* the words of each keyword's fields

paramVars == <<cls, params_, values>>

(***************************************************************************)
(* The classes: the options in the order they are written, each with the    *)
(* values its setter takes and how they are written                          *)
(***************************************************************************)
Flag(k) == [kw |-> k, form |-> "flag", takes |-> {<<>>}]
Number(k) == [kw |-> k, form |-> "words", takes |-> {<<n>> : n \in Numbers}]
Word(k) == [kw |-> k, form |-> "words", takes |-> {<<w>> : w \in Texts}]
Limit == [kw |-> "LIMIT", form |-> "words", takes |-> Numbers \X Numbers]
List(k, form, words) == [kw |-> k, form |-> form, takes |-> UNION {[1 .. n -> words] : n \in 0 .. MaxList}]

SetParams == <<Flag("NX"), Flag("XX"), Flag("KEEPTTL"), Number("EX"), Number("PX"), Number("EXAT"), Number("PXAT")>>
GetExParams == <<Flag("PERSIST"), Number("EX"), Number("PX"), Number("EXAT"), Number("PXAT")>>
RestoreParams == <<Flag("REPLACE"), Flag("ABSTTL"), Number("IDLETIME"), Number("FREQ")>>
CopyParams == <<Number("DB"), Flag("REPLACE")>>
ExpireParams == <<Flag("NX"), Flag("XX"), Flag("GT"), Flag("LT")>>
GeoAddParams == <<Flag("NX"), Flag("XX"), Flag("CH")>>
ZAddParams == <<Flag("NX"), Flag("XX"), Flag("GT"), Flag("LT"), Flag("CH")>>
ScanParams == <<Word("MATCH"), Number("COUNT"), Word("TYPE")>>
SortParams == <<Word("BY"), Limit, List("GET", "each", Texts), Flag("ASC"), Flag("DESC"), Flag("ALPHA")>>
ZRangeParams == <<Flag("BYSCORE"), Flag("BYLEX"), Flag("REV"), Limit, Flag("WITHSCORES")>>
ZInterUnionParams == <<List("WEIGHTS", "words", Numbers), Word("AGGREGATE")>>
BitPositonParams ==
    <<[Number("START") EXCEPT !.form = "bare"], [Number("END") EXCEPT !.form = "bare"], Flag("BYTE"), Flag("BIT")>>

Classes == {"Set", "GetEx", "Restore", "Copy", "Expire", "GeoAdd", "ZAdd", "Scan", "Sort", "ZRange", "ZInterUnion", "BitPositon"}
ClassOf(c) ==
    CASE c = "Set" -> SetParams [] c = "GetEx" -> GetExParams [] c = "Restore" -> RestoreParams
      [] c = "Copy" -> CopyParams [] c = "Expire" -> ExpireParams [] c = "GeoAdd" -> GeoAddParams
      [] c = "ZAdd" -> ZAddParams [] c = "Scan" -> ScanParams [] c = "Sort" -> SortParams
      [] c = "ZRange" -> ZRangeParams [] c = "ZInterUnion" -> ZInterUnionParams [] c = "BitPositon" -> BitPositonParams

ParamsInit == cls \in Classes /\ params_ = {} /\ values = <<>>

\* A setter.  Called again, it replaces the values.
AddParams ==
    /\ \E i \in DOMAIN ClassOf(cls) : \E words \in ClassOf(cls)[i].takes :
          LET kw == ClassOf(cls)[i].kw IN
          /\ params_' = params_ \cup {kw}
          /\ values' = [k \in params_' |-> IF k = kw THEN words ELSE values[k]]
    /\ UNCHANGED cls

Written(option) ==
    LET words == values[option.kw] IN
    CASE option.form \in {"flag", "words"} -> <<option.kw>> \o words
      [] option.form = "bare" -> words
      [] option.form = "each" -> FlattenSeq([i \in DOMAIN words |-> <<option.kw, words[i]>>])

AddParamsToArgv == FlattenSeq([i \in DOMAIN ClassOf(cls) |->
                                 IF ClassOf(cls)[i].kw \in params_ THEN Written(ClassOf(cls)[i]) ELSE <<>>])

(***************************************************************************)
(* The server: an option is a keyword and a fixed number of words           *)
(***************************************************************************)
ServerKnows(c) ==
    CASE c = "Set" -> {"NX", "XX", "GET", "KEEPTTL", "EX", "PX", "EXAT", "PXAT"}
      [] c = "GetEx" -> {"PERSIST", "EX", "PX", "EXAT", "PXAT"}
      [] c = "Restore" -> {"REPLACE", "ABSTTL", "IDLETIME", "FREQ"}
      [] c = "Copy" -> {"DB", "REPLACE"}
      [] c = "Expire" -> {"NX", "XX", "GT", "LT"}
      [] c = "GeoAdd" -> {"NX", "XX", "CH"}
      [] c = "ZAdd" -> {"NX", "XX", "GT", "LT", "CH", "INCR"}
      [] c = "Scan" -> {"MATCH", "COUNT", "TYPE"}
      [] c = "Sort" -> {"BY", "LIMIT", "GET", "ASC", "DESC", "ALPHA", "STORE"}
      [] c = "ZRange" -> {"BYSCORE", "BYLEX", "REV", "LIMIT", "WITHSCORES"}
      [] c = "ZInterUnion" -> {"WEIGHTS", "AGGREGATE", "WITHSCORES"}
ServerTakes(c, kw) ==
    CASE kw = "LIMIT" -> 2
      [] kw = "WEIGHTS" -> NumKeys
      [] kw \in {"EX", "PX", "EXAT", "PXAT", "IDLETIME", "FREQ", "DB", "MATCH", "COUNT", "TYPE", "BY", "AGGREGATE", "STORE"} -> 1
      [] kw = "GET" -> IF c = "Sort" THEN 1 ELSE 0
      [] OTHER -> 0

Refused == [ok |-> FALSE, left |-> 0, kw |-> "", read |-> <<>>]
ServerReads(s, word) ==
    IF ~s.ok THEN s
    ELSE IF s.left > 0
    THEN IF s.kw = "WEIGHTS" /\ word \notin Numbers THEN Refused
         ELSE [s EXCEPT !.left = @ - 1, !.read[s.kw] = Append(@, word)]
    ELSE IF word \in ServerKnows(cls)
    THEN [ok |-> TRUE, left |-> ServerTakes(cls, word), kw |-> word,
          read |-> [k \in DOMAIN s.read \cup {word} |-> IF k \in DOMAIN s.read THEN s.read[k] ELSE <<>>]]
    ELSE Refused

\* BITPOS takes a start, an end and a unit by their places.
ServerReadsPlaces(words) ==
    LET places == <<"START", "END">>
        numbers == {i \in 1 .. 2 : i <= Len(words)}
    IN  IF Len(words) > 3 \/ (\E i \in numbers : words[i] \notin Numbers) THEN Refused
        ELSE [ok |-> TRUE, left |-> 0, kw |-> "",
              read |-> [k \in {places[i] : i \in numbers} \cup (IF Len(words) = 3 THEN {words[3]} ELSE {}) |->
                          IF k = "START" THEN <<words[1]>> ELSE IF k = "END" THEN <<words[2]>> ELSE <<>>]]

Reading ==
    IF cls = "BitPositon" THEN ServerReadsPlaces(AddParamsToArgv)
    ELSE FoldLeft(ServerReads, [Refused EXCEPT !.ok = TRUE], AddParamsToArgv)

(***************************************************************************)
(* Properties                                                               *)
(***************************************************************************)
\* The options that leave words in argv; an empty list of GET patterns leaves
\* none.
Asked == {k \in params_ : ~(k = "GET" /\ values[k] = <<>>)}

\* Whatever setters are called, in whatever order and with values that look
\* like keywords, the server reads the options that were set, or refuses the
\* command.  It may only refuse a number of weights that is not the number of
\* keys, and BITPOS options without the ones before them.  One call is
\* misread: an end without a start is taken for the start.
ServerReadsWhatWasSet ==
    LET endAlone == cls = "BitPositon" /\ "END" \in params_ /\ "START" \notin params_
        mayRefuse == \/ cls = "ZInterUnion" /\ "WEIGHTS" \in params_ /\ Len(values["WEIGHTS"]) # NumKeys
                     \/ cls = "BitPositon" /\ params_ \cap {"BYTE", "BIT"} # {}
        understood == Reading.ok /\ Reading.left = 0
    IN  /\ understood /\ ~endAlone => Reading.read = [k \in Asked |-> values[k]]
        /\ ~understood => mayRefuse
=============================================================================
