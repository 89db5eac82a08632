------------------------------- MODULE Stralgo -------------------------------
(* Stralgo::lcs(): the table of lengths, then the way back through it, which   *)
(* writes the common subsequence from its end and the ranges it is made of.    *)
EXTENDS Integers, Sequences, FiniteSets, FiniteSetsExt

CONSTANTS LcsStrings,       \* the strings compared
          LcsMinLengths     \* the values of minmatchlen

VARIABLES
    sa, sb, minmatchlen,
    li, lj,        \* the indexes of the way back
    matchstr,      \* the subsequence; its first idx characters are not written yet
    idx,
    range,         \* the current range, or NoRange
    matches        \* the ranges emitted

lcsVars == <<sa, sb, minmatchlen, li, lj, matchstr, idx, range, matches>>

NoRange == [a |-> -1, aEnd |-> -1, b |-> -1, bEnd |-> -1]

\* LCS(i, j): the length for the first i and j characters.
LCS[i \in 0 .. Len(sa), j \in 0 .. Len(sb)] ==
    IF i = 0 \/ j = 0 THEN 0
    ELSE IF sa[i] = sb[j] THEN LCS[i - 1, j - 1] + 1
    ELSE Max({LCS[i - 1, j], LCS[i, j - 1]})

LcsInit ==
    /\ sa \in LcsStrings /\ sb \in LcsStrings /\ minmatchlen \in LcsMinLengths
    /\ li = Len(sa) /\ lj = Len(sb)
    /\ idx = LCS[Len(sa), Len(sb)] /\ matchstr = [n \in 1 .. idx |-> "?"]
    /\ range = NoRange /\ matches = <<>>

Emit(r) ==
    /\ matches' = IF minmatchlen = 0 \/ r.aEnd - r.a + 1 >= minmatchlen THEN Append(matches, r) ELSE matches
    /\ range' = NoRange

\* The last characters are equal: the range begins or grows by one; it is
\* emitted when it does not touch or has reached the first character.
LcsMatch ==
    LET i == li - 1
        j == lj - 1
        extends == range # NoRange /\ range.a = li /\ range.b = lj
        r == IF range = NoRange THEN [a |-> i, aEnd |-> i, b |-> j, bEnd |-> j]
             ELSE IF extends THEN [range EXCEPT !.a = i, !.b = j] ELSE range
    IN  /\ li > 0 /\ lj > 0 /\ sa[li] = sb[lj]
        /\ matchstr' = [matchstr EXCEPT ![idx] = sa[li]]
        /\ IF (range # NoRange /\ ~extends) \/ r.a = 0 \/ r.b = 0 THEN Emit(r) ELSE range' = r /\ UNCHANGED matches
        /\ idx' = idx - 1 /\ li' = i /\ lj' = j /\ UNCHANGED <<sa, sb, minmatchlen>>

LcsMismatch ==
    /\ li > 0 /\ lj > 0 /\ sa[li] # sb[lj]
    /\ IF LCS[li - 1, lj] > LCS[li, lj - 1] THEN li' = li - 1 /\ UNCHANGED lj ELSE lj' = lj - 1 /\ UNCHANGED li
    /\ IF range # NoRange THEN Emit(range) ELSE UNCHANGED <<range, matches>>
    /\ UNCHANGED <<sa, sb, minmatchlen, matchstr, idx>>

LcsNext == LcsMatch \/ LcsMismatch

(***************************************************************************)
(* Properties                                                               *)
(***************************************************************************)
LcsDone == li = 0 \/ lj = 0
Picks(s, t) == {I \in SUBSET DOMAIN s : Cardinality(I) = Len(t) /\
                  \A i \in I : s[i] = t[Cardinality({k \in I : k <= i})]}
Common(t) == Picks(sa, t) # {} /\ Picks(sb, t) # {}

\* The string written is a common subsequence, complete, and no string has a
\* longer one in common.
LongestCommonSubsequence ==
    LcsDone => /\ idx = 0 /\ Common(matchstr)
               /\ \A I \in SUBSET DOMAIN sa : Cardinality(I) > Len(matchstr) =>
                     LET t == [n \in 1 .. Cardinality(I) |-> sa[CHOOSE i \in I : Cardinality({k \in I : k <= i}) = n]]
                     IN  Picks(sb, t) = {}

\* The ranges emitted, from the last one on, are equal stretches of the two
\* strings, each behind the next in both; with no least length they spell the
\* whole subsequence, and with one no shorter range is among them.
RangesSpellTheMatch ==
    LET length(n) == matches[n].aEnd - matches[n].a + 1
        after(r, s) == r.aEnd < s.a /\ r.bEnd < s.b
    IN  /\ \A n \in DOMAIN matches : LET r == matches[n] IN
              /\ SubSeq(sa, r.a + 1, r.aEnd + 1) = SubSeq(sb, r.b + 1, r.bEnd + 1) /\ length(n) >= minmatchlen
              /\ n > 1 => after(r, matches[n - 1])
        /\ LcsDone /\ minmatchlen = 0 => MapThenSumSet(length, DOMAIN matches) = Len(matchstr)
=============================================================================
