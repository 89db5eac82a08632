----------------------------- MODULE NumberParse -----------------------------
(* StringUtil::string2ll() and string2ull(): decimal text to a number of a     *)
(* fixed width.  A digit is itself; Sign is '-', any other byte is Letter.      *)
(* The width is a parameter, so that the boundary is reached by short texts.    *)
EXTENDS Integers, Sequences, SequencesExt

CONSTANTS ULLONG_MAX, NumberBytes, MaxDigits

Sign == 10
Letter == 11
LLONG_MAX == ULLONG_MAX \div 2
LLONG_MIN == -LLONG_MAX - 1
Refuse == <<>>  \* a number n is <<n>>

VARIABLE digits

\* One turn of the loop: acc is the number so far, or Refuse; a byte that is
\* no digit stops the loop with bytes unused.
DigitStepUnchecked(acc, c) ==
    IF acc = Refuse \/ c > 9 \/ acc[1] > ULLONG_MAX \div 10 THEN Refuse
    ELSE <<(acc[1] * 10 + c) % (ULLONG_MAX + 1)>>

DigitStep(acc, c) ==
    IF acc = Refuse \/ c > 9 \/ acc[1] > ULLONG_MAX \div 10 \/ acc[1] * 10 > ULLONG_MAX - c THEN Refuse
    ELSE <<acc[1] * 10 + c>>

\* string2ull(): the first digit is not 0, unless it is the only byte.
String2ull(s) ==
    IF s = <<>> THEN Refuse
    ELSE IF s = <<0>> THEN <<0>>
    ELSE IF s[1] \in 1 .. 9 THEN FoldLeft(DigitStep, <<s[1]>>, Tail(s))
    ELSE Refuse

\* string2ll(): the same digits after an optional sign, and the limits of the
\* signed type at the end.
String2ll(s) ==
    LET negative == s # <<>> /\ s[1] = Sign
        v == String2ull(IF negative THEN Tail(s) ELSE s)
    IN  IF v = Refuse THEN Refuse
        ELSE IF negative
        THEN IF v[1] \in 1 .. -(LLONG_MIN + 1) + 1 THEN <<-v[1]>> ELSE Refuse
        ELSE IF v[1] <= LLONG_MAX THEN v ELSE Refuse

DigitsInit == digits = <<>>
DigitsNext == \E c \in NumberBytes : Len(digits) < MaxDigits /\ digits' = Append(digits, c)

(***************************************************************************)
(* Properties                                                               *)
(***************************************************************************)
\* The number a decimal text denotes, without any limit.
Denoted(s) == FoldLeft(LAMBDA n, c : 10 * n + c, 0, s)
Decimal(s) == s # <<>> /\ (\A i \in DOMAIN s : s[i] <= 9) /\ (s[1] = 0 => Len(s) = 1)

\* What is accepted is exactly the canonical decimal text of a number of the
\* type, and the result is that number: the checks before each product and
\* sum refuse the numbers past the limit and none before it
\* (StringUtil::string2ll(), string2ull()).
ParsesExactly ==
    LET negative == digits # <<>> /\ digits[1] = Sign
        rest == IF negative THEN Tail(digits) ELSE digits
        n == IF Decimal(rest) THEN (IF negative THEN -Denoted(rest) ELSE Denoted(rest)) ELSE 0
        canonical == Decimal(rest) /\ ~(negative /\ n = 0)
    IN  /\ String2ull(digits) = IF canonical /\ ~negative /\ n <= ULLONG_MAX THEN <<n>> ELSE Refuse
        /\ String2ll(digits) = IF canonical /\ n \in LLONG_MIN .. LLONG_MAX THEN <<n>> ELSE Refuse
=============================================================================
