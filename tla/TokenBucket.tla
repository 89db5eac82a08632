----------------------------- MODULE TokenBucket -----------------------------
(* common::TokenBucket: a rate limiter in integer arithmetic.  The clock is in *)
(* milliseconds and never goes back.                                           *)
EXTENDS Integers

CONSTANTS init_tokens, tokens_per_second, strict_percent,
          MaxNow, MaxTokens     \* bounds: the clock and one request

ASSUME TokenSizes ==
    init_tokens \in Nat /\ tokens_per_second \in Nat \ {0} /\ strict_percent \in Nat /\ MaxNow \in Nat /\ MaxTokens \in Nat

VARIABLES
    now,       \* ClockTime::intervalMs()
    tokens_, last_fill_time_ms_,
    strict_limit_tokens_,
    granted    \* the tokens consume() has granted

tokenVars == <<now, tokens_, last_fill_time_ms_, strict_limit_tokens_, granted>>

Least(a, b) == IF a < b THEN a ELSE b
Towards0(a, n) == IF a >= 0 THEN a \div n ELSE -((-a) \div n)   \* a double made an integer

\* strict_limit_factor_ in percent.
StrictPercent == IF strict_percent < 100 THEN 100 ELSE strict_percent
StrictMax == (init_tokens * StrictPercent) \div 100

TokenInit ==
    /\ now = 0 /\ tokens_ = init_tokens /\ last_fill_time_ms_ = 0 /\ strict_limit_tokens_ = StrictMax
    /\ granted = 0

NewTokens == ((now - last_fill_time_ms_) * tokens_per_second) \div 1000

RefillTokens == Least(tokens_ + NewTokens, init_tokens)
RefillStrict == Least(Towards0(100 * strict_limit_tokens_ + NewTokens * StrictPercent, 100), StrictMax)

\* What the bucket has is gone also when it is too little.
Consume(n) ==
    /\ IF RefillTokens >= n THEN tokens_' = RefillTokens - n /\ granted' = granted + n
       ELSE tokens_' = 0 /\ UNCHANGED granted
    /\ strict_limit_tokens_' = RefillStrict - n
    /\ last_fill_time_ms_' = now /\ UNCHANGED now

\* isStrictLimit() refills, and then tells whether the strict tokens are gone.
IsStrictLimit ==
    /\ tokens_' = RefillTokens /\ strict_limit_tokens_' = RefillStrict
    /\ last_fill_time_ms_' = now /\ UNCHANGED <<now, granted>>

MillisecondsPass(n) ==
    /\ now + n <= MaxNow /\ now' = now + n
    /\ UNCHANGED <<tokens_, last_fill_time_ms_, strict_limit_tokens_, granted>>

TokenNext ==
    \/ \E n \in 1 .. MaxTokens : strict_limit_tokens_ > -MaxTokens /\ Consume(n)
    \/ IsStrictLimit
    \/ \E n \in 1 .. MaxNow : MillisecondsPass(n)

TokenSpec == TokenInit /\ [][TokenNext]_tokenVars

(***************************************************************************)
(* Properties                                                               *)
(***************************************************************************)
\* However often the bucket is asked and refilled, rounding never gives away a
\* token: what is granted is within the rate and the first filling.
\* What rounding takes away has no bound: a bucket asked more often than the
\* rate fills a token is never refilled (TokenBucket.cpp:64, 73).
GrantedWithinRate == 1000 * (granted + tokens_) <= 1000 * init_tokens + tokens_per_second * last_fill_time_ms_
=============================================================================
