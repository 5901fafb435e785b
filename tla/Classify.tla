------------------------------ MODULE Classify ------------------------------
(***************************************************************************)
(* The pure decisions of the retry engine: how one HTTP round trip is      *)
(* classified, what a Retry-After header asks for, how long a same-backend *)
(* retry waits.  Everything is an operator over its inputs; the modules    *)
(* that drive them are Engine (the retry loop) and ClassifyCheck (every    *)
(* operator against an independent definition of it).                      *)
(*                                                                         *)
(* Statuses are strings named after the constants of sicha.h without       *)
(* their prefix: "TIMEOUT_IDLE" is SICHA_T_E_TIMEOUT_IDLE.                 *)
(***************************************************************************)
EXTENDS Integers, Sequences, SequencesExt

Timeouts == {"TIMEOUT_CONNECT", "TIMEOUT_FIRST_BYTE", "TIMEOUT_IDLE", "TIMEOUT_TOTAL"}

TransportStatus ==
  {"OK", "CONNECT", "TLS", "RESET", "ABORTED_BY_SINK", "CANCELLED", "PROTOCOL",
   "NOMEM", "OTHER"} \cup Timeouts

ErrorClass == {"NONE", "ABORT", "RETRY_SAME", "ADVANCE", "CANCELLED", "VALIDATION"}

BodyState == {"OK", "EMPTY", "MALFORMED", "TOOBIG"}

FinishReason == {"UNKNOWN", "STOP", "LENGTH", "TOOL_CALLS", "CONTENT_FILTER"}

-----------------------------------------------------------------------------
(* A policy is a record: the three flags as Booleans, overrides as a       *)
(* sequence of [http, cls] records, and the numbers of the backoff.        *)

(* sicha_policy_validate: only the three retry classes may be assigned. *)
PolicyValid(p) ==
  \A i \in DOMAIN p.overrides :
    /\ p.overrides[i].http > 0
    /\ p.overrides[i].cls \in {"ABORT", "RETRY_SAME", "ADVANCE"}

OverridesOf(p, http) == {i \in DOMAIN p.overrides : p.overrides[i].http = http}

(* Mutant: the last matching override wins. *)
LookupLastOverride(p, http) ==
  p.overrides[CHOOSE i \in OverridesOf(p, http) :
                \A j \in OverridesOf(p, http) : i >= j].cls

(* The first matching override wins. *)
LookupOverride(p, http) ==
  p.overrides[CHOOSE i \in OverridesOf(p, http) :
                \A j \in OverridesOf(p, http) : i <= j].cls

(* The built-in table for a response outside 2xx.                          *)
ClassifyStatus(http) ==
  IF http \in 400..404 THEN "ABORT"
  ELSE IF http = 429 THEN "ADVANCE"
  ELSE "RETRY_SAME"

ClassifySuccess(p, body, finish) ==
  IF \/ body \in {"EMPTY", "MALFORMED", "TOOBIG"}
     \/ finish = "LENGTH" /\ p.lengthIsAdvance
     \/ finish = "CONTENT_FILTER" /\ p.contentFilterIsAdvance
  THEN "ADVANCE"
  ELSE "NONE"

sicha_classify(p, ts, http, body, finish) ==
  IF ts \in {"CANCELLED", "ABORTED_BY_SINK"} THEN "CANCELLED"
  ELSE IF ts \in Timeouts \cup {"PROTOCOL", "NOMEM"} THEN "ADVANCE"
  ELSE IF ts # "OK" THEN "RETRY_SAME"
  ELSE IF http \in 200..299 THEN ClassifySuccess(p, body, finish)
  ELSE IF OverridesOf(p, http) # {} THEN LookupOverride(p, http)
  ELSE ClassifyStatus(http)

-----------------------------------------------------------------------------
(* Retry-After.  The value is a sequence of digits (numbers below Radix),  *)
(* of blanks (a space or a tab) and of other characters.                   *)
(* Sat is RETRY_AFTER_SAT_MS and Kilo the factor from seconds to           *)
(* milliseconds (1000).                                                    *)

Blank   == -1
Garbage == -2
IsDigit(c) == c >= 0

(* The loops over spaces and tabs before and after the number. *)
SkipBlanks(s) ==
  LET ink == {i \in DOMAIN s : s[i] # Blank}
  IN  IF ink = {} THEN <<>>
      ELSE SubSeq(s, CHOOSE i \in ink : \A j \in ink : i <= j, Len(s))

(* The longest prefix of digits. *)
DigitPrefix(s) ==
  LET ends == {i \in 0..Len(s) : \A j \in 1..i : IsDigit(s[j])}
  IN  SubSeq(s, 1, CHOOSE i \in ends : \A j \in ends : j <= i)

(* One turn of the digit loop: a saturated value is pinned, not grown. *)
AddDigit(Radix, Sat, seconds, d) ==
  IF seconds > Sat THEN Sat ELSE seconds * Radix + d

sicha_retry_after_ms(Radix, Sat, Kilo, none, value) ==
  LET s       == SkipBlanks(value)
      digits  == DigitPrefix(s)
      rest    == SkipBlanks(SubSeq(s, Len(digits) + 1, Len(s)))
      seconds == FoldLeft(LAMBDA acc, d : AddDigit(Radix, Sat, acc, d), 0, digits)
  IN  IF digits = <<>> \/ rest # <<>> THEN none
      ELSE IF seconds > Sat \div Kilo THEN Sat
      ELSE seconds * Kilo

(* attempt_on_status: of the Retry-After headers of a response the last is  *)
(* kept, and no more of it than a buffer of room characters holds.         *)
retry_after(room, values) ==
  LET value == Last(values)
  IN  SubSeq(value, 1, IF Len(value) > room THEN room ELSE Len(value))

RetryAfterAsked(Radix, Sat, Kilo, room, none, values) ==
  IF values = <<>> THEN none
  ELSE sicha_retry_after_ms(Radix, Sat, Kilo, none, retry_after(room, values))

-----------------------------------------------------------------------------
(* Backoff, in words of W bits: the code computes in uint64_t (W = 64).    *)

TwoTo[n \in Nat] == IF n = 0 THEN 1 ELSE 2 * TwoTo[n - 1]

WordMax(W) == TwoTo[W] - 1

(* Mutant: the shift is only guarded against its own width. *)
ExponentialLossy(W, base, cap, k) ==
  IF k - 1 >= W - 1 THEN cap ELSE (base * TwoTo[k - 1]) % TwoTo[W]

(* base * 2^(k-1), or the cap when the shift would lose bits.              *)
Exponential(W, base, cap, k) ==
  IF k - 1 >= W - 1 \/ base > WordMax(W) \div TwoTo[k - 1]
  THEN cap
  ELSE (base * TwoTo[k - 1]) % TwoTo[W]

(* uint64_t addition of the jitter, saturating.                            *)
AddJitter(W, wait, j) == IF wait > WordMax(W) - j THEN WordMax(W) ELSE (wait + j) % TwoTo[W]

(* Numbers of a policy are half a word wide; the largest is SICHA_DISABLED. *)
Disabled(W) == TwoTo[W \div 2] - 1

(* Zeroed numbers are replaced before a policy is used, so no jitter and no *)
(* Retry-After are asked for with Disabled.                                *)
sicha_policy_resolve(p, defaults) ==
  [n \in DOMAIN p |-> IF n \in DOMAIN defaults /\ p[n] = 0 THEN defaults[n] ELSE p[n]]

sicha_backoff_ms(W, p, k, rand) ==
  LET expo == Exponential(W, p.base, p.cap, IF k = 0 THEN 1 ELSE k)
      wait == IF p.jitter \in {0, Disabled(W)} THEN expo ELSE AddJitter(W, expo, rand % p.jitter)
  IN  IF wait < p.cap THEN wait ELSE p.cap

(* The wait chat_common chooses before the k-th same-backend retry: a      *)
(* usable Retry-After, capped, replaces the formula unless the policy      *)
(* ignores the header.                                                     *)
RetryWait(W, p, k, rand, none, retryAfter) ==
  IF retryAfter # none /\ p.retryAfterCap # Disabled(W)
  THEN IF retryAfter > p.retryAfterCap THEN p.retryAfterCap ELSE retryAfter
  ELSE sicha_backoff_ms(W, p, k, rand)
=============================================================================
