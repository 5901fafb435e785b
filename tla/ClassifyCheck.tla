--------------------------- MODULE ClassifyCheck ---------------------------
(***************************************************************************)
(* The operators of Classify against what include/sicha.h says of them.    *)
(* A behaviour asks one question (query) and gets one answer; the initial  *)
(* states are all the questions over the sets below.                       *)
(***************************************************************************)
EXTENDS Classify

CONSTANTS
  W,                 \* word size of the backoff arithmetic
  Radix, Sat, Kilo,  \* digits, saturation and milliseconds of Retry-After
  Policies,          \* policies the classification is asked under
  HttpStatuses,      \* response statuses
  RetryAfters,       \* the values of the Retry-After headers of one response, in order
  RetryAfterRoom,    \* characters of such a value that are kept (63)
  PolicyDefaults,    \* what the numbers of a policy are when zeroed
  WaitCases              \* [p, k, rand, retryAfter] records, p as a caller writes it

NoValue == -1        \* UINT64_MAX, "no Retry-After"

ASSUME ScaleAssumption ==
  /\ {W, Radix, Sat, Kilo, RetryAfterRoom} \subseteq Nat
  /\ W > 1 /\ Radix > 1 /\ Sat >= Kilo /\ Kilo >= 1
ASSUME QueriesAssumption ==
  /\ \A p \in Policies :
       /\ PolicyValid(p)
       /\ p.overrides \in Seq([http : Int, cls : ErrorClass])
       /\ {p.lengthIsAdvance, p.contentFilterIsAdvance} \subseteq BOOLEAN
  /\ HttpStatuses \subseteq Int
  /\ RetryAfters \subseteq Seq(Seq({Blank, Garbage} \cup 0..(Radix - 1)))

(* The numbers of a policy are half a word wide, and none is a default by
   being turned off. *)
Numbers == {"base", "cap", "jitter", "retryAfterCap"}

ASSUME WaitsAssumption ==
  /\ PolicyDefaults \in [Numbers -> 1..(Disabled(W) - 1)]
  /\ \A w \in WaitCases :
       /\ w.p \in [Numbers -> 0..Disabled(W)]
       /\ {w.k, w.rand} \subseteq Nat
       /\ w.retryAfter \in Nat \cup {NoValue}

VARIABLES query, answer

checkVars == <<query, answer>>

ClassQueries ==
  [op : {"class"}, p : Policies, ts : TransportStatus, http : HttpStatuses,
   body : BodyState, finish : FinishReason]

TextQueries == [op : {"text"}, fields : RetryAfters]

WaitQueries == [op : {"wait"}, w : WaitCases]

ClassifyInit ==
  /\ \/ query \in ClassQueries
     \/ query \in TextQueries
     \/ query \in WaitQueries
  /\ answer = <<>>

Reply(v) == answer = <<>> /\ answer' = <<v>> /\ UNCHANGED query

AskClass ==
  /\ query.op = "class"
  /\ Reply(sicha_classify(query.p, query.ts, query.http, query.body, query.finish))

AskText ==
  /\ query.op = "text"
  /\ Reply(RetryAfterAsked(Radix, Sat, Kilo, RetryAfterRoom, NoValue, query.fields))

AskWait ==
  /\ query.op = "wait"
  /\ Reply(RetryWait(W, sicha_policy_resolve(query.w.p, PolicyDefaults), query.w.k, query.w.rand,
                     NoValue, query.w.retryAfter))

ClassifyNext == AskClass \/ AskText \/ AskWait

ClassifySpec == ClassifyInit /\ [][ClassifyNext]_checkVars

Answered(op) == query.op = op /\ answer # <<>>

-----------------------------------------------------------------------------
(* What the header file says, class by class.                              *)

FirstOverride(cl) ==
  \E n \in DOMAIN query.p.overrides :
    /\ query.p.overrides[n] = [http |-> query.http, cls |-> cl]
    /\ \A m \in 1..(n - 1) : query.p.overrides[m].http # query.http

Overridden == \E cl \in ErrorClass : FirstOverride(cl)

Usable ==
  /\ query.body = "OK"
  /\ ~(query.finish = "LENGTH" /\ query.p.lengthIsAdvance)
  /\ ~(query.finish = "CONTENT_FILTER" /\ query.p.contentFilterIsAdvance)

Responded == query.ts = "OK" /\ query.http \notin 200..299

Manual(cl) ==
  CASE cl = "NONE" -> query.ts = "OK" /\ query.http \in 200..299 /\ Usable
    [] cl = "ABORT" ->
         Responded /\ (FirstOverride(cl) \/
                       (~Overridden /\ query.http \in {400, 401, 402, 403, 404}))
    [] cl = "ADVANCE" ->
         \/ query.ts \in Timeouts \cup {"PROTOCOL", "NOMEM"}
         \/ query.ts = "OK" /\ query.http \in 200..299 /\ ~Usable
         \/ Responded /\ (FirstOverride(cl) \/ (~Overridden /\ query.http = 429))
    [] cl = "CANCELLED" -> query.ts \in {"CANCELLED", "ABORTED_BY_SINK"}
    [] cl = "RETRY_SAME" ->
         \/ query.ts \in {"CONNECT", "TLS", "RESET", "OTHER"}
         \/ Responded /\ (FirstOverride(cl) \/
                          (~Overridden /\ query.http \notin (400..404) \cup {429}))
    [] OTHER -> FALSE

(* The class of a round trip is the one class whose description in the
   header of the library fits it: the first matching override decides for
   every response outside 2xx and for nothing else. *)
ClassifyAsDocumented ==
  Answered("class") => \A cl \in ErrorClass : answer[1] = cl <=> Manual(cl)

-----------------------------------------------------------------------------
(* The number written in s[a..b]. *)
NumberAt(s, a, b) ==
  FoldLeft(LAMBDA n, d : n * Radix + d, 0, SubSeq(s, a, b))

(* [a, b] spans the digits of s, with nothing but blanks around them. *)
Spans(s, a, b) ==
  /\ \A n \in DOMAIN s : n \in a..b <=> IsDigit(s[n])
  /\ \A n \in DOMAIN s : n \notin a..b => s[n] = Blank

LesserOf(a, b) == IF a < b THEN a ELSE b

(* The characters of the last Retry-After a response carries that count: the
   code keeps 63 of them, so what a longer value says behind them is as if it
   had not been written (a number is cut short, garbage is not noticed). *)
WhatCounts(fields) ==
  [n \in 1..LesserOf(Len(fields[Len(fields)]), RetryAfterRoom) |-> fields[Len(fields)][n]]

(* The last Retry-After of a response asks for the delta-seconds it spells, in
   milliseconds, never more than the saturation value however many digits
   there are, and for nothing at all when it is not one number (an HTTP date,
   garbage) or when there is none. *)
RetryAfterAsWritten ==
  Answered("text") =>
    IF query.fields = <<>> THEN answer[1] = NoValue
    ELSE LET s     == WhatCounts(query.fields)
             spans == {ab \in (DOMAIN s) \X (DOMAIN s) :
                         ab[1] <= ab[2] /\ Spans(s, ab[1], ab[2])}
         IN  IF spans = {} THEN answer[1] = NoValue
             ELSE \A ab \in spans :
                    answer[1] = LET ms == NumberAt(s, ab[1], ab[2]) * Kilo
                                IN  IF ms < Sat THEN ms ELSE Sat

-----------------------------------------------------------------------------
(* What a number of a policy means: "0 = default", and "SICHA_DISABLED = no
   jitter", "= ignore Retry-After entirely". *)
Meant(n) == IF query.w.p[n] = 0 THEN PolicyDefaults[n] ELSE query.w.p[n]
Off(n) == query.w.p[n] = Disabled(W)

(* The wait before a retry is the documented formula computed in unbounded
   integers, min(base * 2^(k-1) + jitter, cap), for every k up to and past
   the width of the word; a Retry-After in use replaces it and never passes
   its own cap. *)
WaitFollowsFormula ==
  Answered("wait") =>
    LET q == query.w
        n == IF q.k = 0 THEN 1 ELSE q.k
        j == IF Off("jitter") THEN 0 ELSE q.rand % Meant("jitter")
    IN  answer[1] = IF q.retryAfter # NoValue /\ ~Off("retryAfterCap")
                    THEN LesserOf(q.retryAfter, Meant("retryAfterCap"))
                    ELSE LesserOf(Meant("base") * TwoTo[n - 1] + j, Meant("cap"))

(* What a call waits before a retry: the Retry-After its server wrote, or the
   formula of sicha.h. *)
WaitAsDocumented == RetryAfterAsWritten /\ WaitFollowsFormula
=============================================================================
