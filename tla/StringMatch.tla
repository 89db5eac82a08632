----------------------------- MODULE StringMatch -----------------------------
(* StringUtil::matchLen(): glob patterns.  A character is its ASCII code; the  *)
(* pattern ends in a NUL, as that of a std::string does.                        *)
EXTENDS Integers, Sequences

CONSTANTS PatternChars, MatchTexts, MaxPattern

VARIABLES pattern, text, nocase

matchVars == <<pattern, text, nocase>>

NUL == 0
Star == 42
Minus == 45
Question == 63
Open == 91
Backslash == 92
Shut == 93
Caret == 94
ToLower(c) == IF c \in 65 .. 90 THEN c + 32 ELSE c
At(i) == IF i <= Len(pattern) THEN pattern[i] ELSE NUL
Same(a, b) == IF nocase THEN ToLower(a) = ToLower(b) ELSE a = b
InRange(c, from, to) ==
    LET lo == IF from > to THEN to ELSE from
        hi == IF from > to THEN from ELSE to
    IN  IF nocase THEN ToLower(c) \in ToLower(lo) .. ToLower(hi) ELSE c \in lo .. hi

\* The members of a class from index i on: whether one is c, and the index
\* where the class ends.  An escaped member is compared with its case; a class
\* without its bracket ends with the pattern.
RECURSIVE Members(_, _, _)
Members(i, c, match) ==
    IF At(i) = Backslash /\ i < Len(pattern) THEN Members(i + 2, c, match \/ At(i + 1) = c)
    ELSE IF At(i) = Shut THEN [match |-> match, at |-> i]
    ELSE IF i > Len(pattern) THEN [match |-> match, at |-> i - 1]
    ELSE IF At(i + 1) = Minus /\ i + 2 <= Len(pattern) THEN Members(i + 3, c, match \/ InRange(c, At(i), At(i + 2)))
    ELSE Members(i + 1, c, match \/ Same(At(i), c))

\* The element at i that is no star: whether it takes c, and where it ends.
Element(i, c) ==
    CASE At(i) = Question -> [match |-> TRUE, at |-> i]
      [] At(i) = Open -> LET no == At(i + 1) = Caret
                             r == Members(IF no THEN i + 2 ELSE i + 1, c, FALSE)
                         IN  [r EXCEPT !.match = (@ # no)]
      [] At(i) = Backslash /\ i < Len(pattern) -> [match |-> Same(At(i + 1), c), at |-> i + 1]
      [] OTHER -> [match |-> Same(At(i), c), at |-> i]

LastStar(i) == CHOOSE k \in i .. Len(pattern) : At(k + 1) # Star /\ \A n \in i .. k : At(n) = Star

\* matchLenImpl() of the pattern from i and the text from j, with what it
\* leaves in skipLongerMatches.
RECURSIVE MatchLenImpl(_, _), TryStar(_, _)
MatchLenImpl(i, j) ==
    IF i > Len(pattern) \/ j > Len(text) THEN [ok |-> i > Len(pattern) /\ j > Len(text), skip |-> FALSE]
    ELSE IF At(i) = Star
    THEN IF LastStar(i) = Len(pattern) THEN [ok |-> TRUE, skip |-> FALSE] ELSE TryStar(LastStar(i) + 1, j)
    ELSE LET e == Element(i, text[j]) IN
         IF ~e.match THEN [ok |-> FALSE, skip |-> FALSE]
         ELSE IF j = Len(text) THEN [ok |-> \A n \in e.at + 1 .. Len(pattern) : At(n) = Star, skip |-> FALSE]
         ELSE MatchLenImpl(e.at + 1, j + 1)
TryStar(i, j) ==
    IF j > Len(text) THEN [ok |-> FALSE, skip |-> TRUE]
    ELSE LET r == MatchLenImpl(i, j) IN IF r.ok \/ r.skip THEN r ELSE TryStar(i, j + 1)

MatchLen == MatchLenImpl(1, 1).ok

MatchInit == pattern = <<>> /\ text \in MatchTexts /\ nocase \in BOOLEAN
MatchNext ==
    /\ Len(pattern) < MaxPattern
    /\ \E c \in PatternChars : pattern' = Append(pattern, c)
    /\ UNCHANGED <<text, nocase>>

(***************************************************************************)
(* Properties                                                               *)
(***************************************************************************)
\* What a glob means, with no early end: a star takes any number of
\* characters.
RECURSIVE Means(_, _)
Means(i, j) ==
    IF i > Len(pattern) THEN j > Len(text)
    ELSE IF At(i) = Star THEN \E k \in j .. Len(text) + 1 : Means(i + 1, k)
    ELSE j <= Len(text) /\ LET e == Element(i, text[j]) IN e.match /\ Means(e.at + 1, j + 1)

\* Giving up after the last star of a pattern has failed loses no match.  One
\* text is matched otherwise than a glob means it: the empty one, which only
\* the empty pattern matches, not "*".
MatchesAsMeant == MatchLen = IF text = <<>> THEN pattern = <<>> ELSE Means(1, 1)
=============================================================================
