--------------------------- MODULE StreamAttempt ---------------------------
(***************************************************************************)
(* The round trips of one call: run_attempt of src/client.c over the       *)
(* parsing and the assembly of src/response.c (sicha_response_parse;       *)
(* sicha_stream_on_event, deliver, raw_chunk) and their buffers.  Event    *)
(* payloads, or the pieces of a body, arrive one by one, in any sequence,  *)
(* from a transport that may stop anywhere; callbacks may ask for          *)
(* cancellation and allocations may fail at every place the code checks.   *)
(* How bytes become events is the subject of Sse, how they become a        *)
(* document that of Json.                                                  *)
(*                                                                         *)
(* A byte of answer, and every field lifted from an answer, is represented *)
(* by the number of the round trip that brought it; 0 is -1 or NULL.       *)
(* Steps of one event follow each other within on_event, so an operator    *)
(* maps a context to the set of contexts it may become.                    *)
(***************************************************************************)
EXTENDS Integers, Sequences, SequencesExt, FiniteSets

CONSTANTS
  Cap,           \* max_response_bytes, the limit of text and of reasoning
  ExcerptMax,    \* SICHA_EXCERPT_MAX
  Modes,         \* the values of stream the call may have
  Events,        \* the payloads the server may stream
  Replies,       \* the documents it may answer with otherwise
  Accumulate,    \* SICHA_REQ_NO_ACCUMULATE is not set
  HasDelta,      \* the caller passed on_delta
  AfterDeltas,   \* SICHA_POLICY_RETRY_AFTER_DELTAS
  MaxAttempts,   \* bound: round trips of the call
  MaxEvents      \* bound: payloads, or pieces, of one round trip

Tokens == {"prompt", "completion", "total"}

(* "done" is [DONE]; "raw" a payload that is no JSON object or has an error
   member; "odd" an object whose first choice is none; a chunk brings bytes
   of content and of reasoning, tool calls, a finish reason, numbers of
   tokens, the name of the model. *)
Event == [kind : {"done", "raw", "odd", "chunk"}, content : Nat, reasoning : Nat,
          tools : BOOLEAN, finish : BOOLEAN, usage : SUBSET Tokens, model : BOOLEAN]

(* A completion with a usable first choice whose content is a string (text) or
   not; every other body is malformed. *)
Reply == [text : BOOLEAN, content : Nat, reasoning : Nat,
          tools : BOOLEAN, finish : BOOLEAN, usage : SUBSET Tokens, model : BOOLEAN]

ASSUME StreamAssumption ==
  /\ Cap \in Nat \ {0} /\ ExcerptMax \in Nat
  /\ Modes \subseteq BOOLEAN
  /\ Events \subseteq Event /\ Replies \subseteq Reply
  /\ {Accumulate, HasDelta, AfterDeltas} \subseteq BOOLEAN
  /\ MaxAttempts \in Nat /\ MaxEvents \in Nat

VARIABLES
  stream,     \* sicha_chat_stream was called
  phase,      \* "idle", "flight" or "judged"
  attempt,    \* round trips begun
  io,         \* the context of the round trip, and the result it fills
  http,       \* io.http_status, 0 before on_status
  events,     \* payloads, or pieces of the body, of this round trip
  outcome,    \* the attempt_outcome of the last round trip
  committed   \* any_delivered of chat_common

vars == <<stream, phase, attempt, io, http, events, outcome, committed>>

Empty == [data |-> <<>>, err |-> "OK"]

(* done, delivered, sawEvent, err, lastRaw: fields of sicha_stream_ctx (whose
   payload last_raw is); sseErr: of the parser; body: of attempt_io; rc: what
   on_event or the parser returned last; text, reasoning, finish, usage,
   model, rawBody: of the result.  The rest is history: the answer bytes that
   came, those handed to a callback, a callback's wish to cancel. *)
Fresh == [done |-> FALSE, delivered |-> FALSE, sawEvent |-> FALSE, err |-> "OK",
          sseErr |-> "OK", rc |-> "more", lastRaw |-> <<>>, body |-> Empty,
          text |-> Empty, reasoning |-> Empty, finish |-> 0,
          usage |-> [t \in Tokens |-> 0], model |-> 0, rawBody |-> <<>>,
          came |-> [text |-> 0, reasoning |-> 0],
          handed |-> [text |-> 0, reasoning |-> 0], asked |-> FALSE]

NoOutcome == [ts |-> "OK", http |-> 0, body |-> "OK", terminal |-> FALSE,
              delivered |-> FALSE, excerpt |-> <<>>, message |-> "ok"]

Init ==
  /\ stream \in Modes
  /\ phase = "idle"
  /\ attempt = 0
  /\ io = Fresh
  /\ http = 0
  /\ events = 0
  /\ outcome = NoOutcome
  /\ committed = FALSE

-----------------------------------------------------------------------------
(* Buffers.                                                                *)

(* Errors are sticky: an append to a buffer in error does nothing. *)
AppendBytes(b, n) ==
  IF b.err # "OK" THEN {b}
  ELSE IF Len(b.data) + n > Cap THEN {[b EXCEPT !.err = "TOOBIG"]}
  ELSE {[b EXCEPT !.data = @ \o [k \in 1..n |-> attempt]], [b EXCEPT !.err = "NOMEM"]}

(* sicha_buf_reset: the bytes go, the error stays. *)
ResetBytes(b) == [b EXCEPT !.data = <<>>]

-----------------------------------------------------------------------------
(* Assembly: one payload.                                                  *)

Fail(c, why) == [c EXCEPT !.err = why, !.rc = "error"]

(* A callback may return nonzero. *)
Called(c) == {c, [c EXCEPT !.asked = TRUE, !.rc = "cancel"]}

(* Go on with op unless a step before it ended the event. *)
Then(contexts, op(_)) == UNION {IF c.rc # "more" THEN {c} ELSE op(c) : c \in contexts}

Callback(field) == IF field = "text" THEN HasDelta ELSE TRUE

(* The callback is told; from here on the round trip has delivered. *)
Hand(c, field, n) ==
  IF ~Callback(field) THEN {c}
  ELSE Called([c EXCEPT !.delivered = TRUE, !.handed[field] = @ + n])

Store(c, field, n) ==
  {IF b.err = "OK" THEN [c EXCEPT ![field] = b] ELSE Fail([c EXCEPT ![field] = b], b.err) :
     b \in AppendBytes(c[field], n)}

(* deliver: into the result first, then to the caller. *)
Deliver(c, field, n) ==
  IF n = 0 THEN {c}
  ELSE LET came   == [c EXCEPT !.came[field] = @ + n]
           stored == IF Accumulate THEN Store(came, field, n) ELSE {came}
       IN  Then(stored, LAMBDA d : Hand(d, field, n))

(* raw_chunk: a capped copy for the records, then on_raw_chunk. *)
RawChunk(c) == {Fail(c, "NOMEM")} \cup Called([c EXCEPT !.lastRaw = <<attempt>>])

SetFinish(c) == {[c EXCEPT !.finish = attempt], Fail(c, "NOMEM")}

(* Each number of tokens that is there replaces the one before. *)
LiftUsage(c, present) ==
  [c EXCEPT !.usage = [t \in Tokens |-> IF t \in present THEN attempt ELSE @[t]]]

(* The first model that is named stays. *)
LiftModel(c, present) ==
  IF present /\ c.model = 0 THEN {[c EXCEPT !.model = attempt], Fail(c, "NOMEM")} ELSE {c}

Chunk(c, e) ==
  LET content   == Deliver(c, "text", e.content)
      reasoning == Then(content, LAMBDA d : Deliver(d, "reasoning", e.reasoning))
      tools     == IF e.tools THEN Then(reasoning, RawChunk) ELSE reasoning
      finish    == IF e.finish THEN Then(tools, SetFinish) ELSE tools
  IN  Then(finish, LAMBDA d : LiftModel(LiftUsage(d, e.usage), e.model))

(* A payload yyjson_read finds no memory for is taken for one that is no JSON:
   its bytes of answer go to on_raw_chunk and to nobody else. *)
sicha_stream_on_event(c, e) ==
  CASE e.kind = "done"  -> {[c EXCEPT !.done = TRUE, !.rc = "stop"]}
    [] e.kind = "raw"   -> RawChunk(c)
    [] e.kind = "odd"   -> RawChunk([c EXCEPT !.sawEvent = TRUE]) \cup RawChunk(c)
    [] e.kind = "chunk" -> Chunk([c EXCEPT !.sawEvent = TRUE], e) \cup RawChunk(c)

(* What a feed may do to the context: hand over an event, or fail on a line
   or an event that is too long or finds no memory. *)
SseFails(c) == {[c EXCEPT !.sseErr = why, !.rc = "error"] : why \in {"TOOBIG", "NOMEM"}}

FeedEvent(c, e) == sicha_stream_on_event(c, e) \cup SseFails(c)

-----------------------------------------------------------------------------
(* A whole body: sicha_response_parse.                                     *)

(* The contexts the parser may leave, each with its body_state in rc; with
   "NOMEM" the parser fails.  A document yyjson_read finds no memory for is
   malformed. *)
Parsed(c, state) == [c EXCEPT !.rc = state]

ParseField(c, field, n) ==
  {IF b.err = "OK" THEN [c EXCEPT ![field] = b] ELSE Parsed([c EXCEPT ![field] = b], b.err) :
     b \in AppendBytes(c[field], n)}

(* Content that is no string is a turn of tool calls, or unusable. *)
ParseContent(c, r) ==
  IF r.text THEN ParseField([c EXCEPT !.came.text = r.content], "text", r.content)
  ELSE IF r.tools THEN {c}
  ELSE {Parsed(c, "MALFORMED")}

ParseReasoning(c, r) ==
  IF r.reasoning = 0 THEN {c}
  ELSE ParseField([c EXCEPT !.came.reasoning = r.reasoning], "reasoning", r.reasoning)

ParseFinish(c, r) ==
  IF r.finish THEN {[c EXCEPT !.finish = attempt], Parsed(c, "NOMEM")} ELSE {c}

ParseModel(c, r) ==
  IF r.model /\ c.model = 0
  THEN {[c EXCEPT !.model = attempt], Parsed(c, "NOMEM")} ELSE {c}

ParseTurn(c, r) ==
  LET content   == ParseContent(c, r)
      reasoning == Then(content, LAMBDA d : ParseReasoning(d, r))
      finish    == Then(reasoning, LAMBDA d : ParseFinish(d, r))
      model     == Then(finish, LAMBDA d : ParseModel(LiftUsage(d, r.usage), r))
  IN  Then(model, LAMBDA d : {Parsed(d, "OK")})

(* Parsing undoes escapes and drops syntax, so the strings of a document are
   shorter than it. *)
FitsIn(r, body) == r.content + r.reasoning < Len(body.data)

(* The reply is any the body may be. *)
sicha_response_parse(c) ==
  IF c.body.data = <<>> THEN {Parsed(c, "EMPTY")}
  ELSE {Parsed(c, "MALFORMED")} \cup
       UNION {ParseTurn(c, r) : r \in {r \in Replies : FitsIn(r, c.body)}}

-----------------------------------------------------------------------------
(* The round trip.                                                         *)

(* Mutant: the model named in the last round trip is kept. *)
ResetButModel(c) ==
  [Fresh EXCEPT !.text = ResetBytes(c.text), !.reasoning = ResetBytes(c.reasoning),
                !.model = c.model]

(* sicha_result_reset_content and a new attempt_io. *)
ResetContent(c) ==
  [Fresh EXCEPT !.text = ResetBytes(c.text), !.reasoning = ResetBytes(c.reasoning)]

(* The retry loop comes back, after any outcome that leaves it a choice (a
   success too: the validator may have rejected it). *)
Begin ==
  /\ \/ phase = "idle"
     \/ /\ phase = "judged"
        /\ ~outcome.terminal /\ outcome.ts # "CANCELLED"
        /\ ~committed \/ AfterDeltas
  /\ attempt < MaxAttempts
  /\ phase' = "flight"
  /\ attempt' = attempt + 1
  /\ io' = ResetContent(io)
  /\ http' = 0
  /\ events' = 0
  /\ UNCHANGED <<stream, outcome, committed>>

OnStatus ==
  /\ phase = "flight" /\ http = 0
  /\ http' \in {200, 500}
  /\ UNCHANGED <<stream, phase, attempt, io, events, outcome, committed>>

(* A piece of a body that is not streamed: two bytes, or one. *)
AppendPiece(c) ==
  {[c EXCEPT !.body = b, !.rc = IF b.err = "OK" THEN "more" ELSE "error"] :
     b \in UNION {AppendBytes(c.body, n) : n \in 1..2}}

(* attempt_on_body, event by event or piece by piece; a nonzero return ends
   the body. *)
OnBody ==
  /\ phase = "flight" /\ http # 0
  /\ io.rc = "more"
  /\ events < MaxEvents
  /\ IF stream THEN \E e \in Events : io' \in FeedEvent(io, e) ELSE io' \in AppendPiece(io)
  /\ events' = events + 1
  /\ UNCHANGED <<stream, phase, attempt, http, outcome, committed>>

(* What the transport may report (Transport!Return): an abort by the sink for
   a refusal, unless the cancel token is seen first or the transport itself
   breaks at that moment. *)
TransportMayReport(ts) ==
  IF io.rc # "more" THEN ts \in {"ABORTED_BY_SINK", "CANCELLED", "NOMEM", "OTHER"}
  ELSE /\ ts # "ABORTED_BY_SINK"
       /\ ts = "OK" => http # 0

(* Mutant: a sink that stops at a limit of a whole body is not explained. *)
UntangleStreams(c, o) ==
  IF o.ts # "ABORTED_BY_SINK" THEN o
  ELSE IF c.done THEN [o EXCEPT !.ts = "OK"]
  ELSE IF c.rc = "cancel" THEN [o EXCEPT !.ts = "CANCELLED"]
  ELSE IF "NOMEM" \in {c.err, c.sseErr, c.body.err} THEN [o EXCEPT !.terminal = TRUE]
  ELSE IF "TOOBIG" \in {c.err, c.sseErr} THEN [o EXCEPT !.ts = "OK", !.body = "TOOBIG"]
  ELSE o

(* Why did the sink abort?                                                 *)
Untangle(c, o) ==
  IF o.ts # "ABORTED_BY_SINK" THEN o
  ELSE IF c.done THEN [o EXCEPT !.ts = "OK"]
  ELSE IF c.rc = "cancel" THEN [o EXCEPT !.ts = "CANCELLED"]
  ELSE IF "NOMEM" \in {c.err, c.sseErr, c.body.err} THEN [o EXCEPT !.terminal = TRUE]
  ELSE [o EXCEPT !.ts = "OK", !.body = "TOOBIG"]

Complete(o) == o.ts = "OK" /\ o.http = 200 /\ o.body = "OK" /\ ~o.terminal

(* Mutant: a callback's wish during the flush is not looked for. *)
FlushedAsSize(c, o) ==
  IF c.rc # "error" THEN o
  ELSE IF "NOMEM" \in {c.err, c.sseErr} THEN [o EXCEPT !.terminal = TRUE]
  ELSE [o EXCEPT !.body = "TOOBIG"]

(* What the flush of a last, unterminated event means. *)
Flushed(c, o) ==
  IF c.rc = "cancel" THEN [o EXCEPT !.ts = "CANCELLED"]
  ELSE IF c.rc # "error" THEN o
  ELSE IF "NOMEM" \in {c.err, c.sseErr} THEN [o EXCEPT !.terminal = TRUE]
  ELSE [o EXCEPT !.body = "TOOBIG"]

(* Neither [DONE] nor a finish reason: an incomplete or empty stream. *)
CheckEnd(c, o) ==
  IF Complete(o) /\ ~c.done /\ c.finish = 0
  THEN [o EXCEPT !.body = IF c.sawEvent THEN "MALFORMED" ELSE "EMPTY"]
  ELSE o

(* The contexts sicha_sse_finish may leave: nothing was pending, or one
   event, which is dispatched. *)
Flush(c) == {c} \cup UNION {FeedEvent(c, e) : e \in Events}

(* A context and an outcome in which a round trip may end. *)
End(c, o) == [io |-> c, outcome |-> o]

(* The rest of a streamed round trip. *)
EndStream(c, o) ==
  IF Complete(o) /\ ~c.done THEN {End(d, CheckEnd(d, Flushed(d, o))) : d \in Flush(c)}
  ELSE {End(c, CheckEnd(c, o))}

(* Whatever the parser made of it, the body goes into the result; taking an
   empty one allocates. *)
TakeBody(c, o) ==
  {End([c EXCEPT !.rawBody = c.body.data, !.body = Empty], o)} \cup
  IF c.body.data = <<>> THEN {End(c, [o EXCEPT !.terminal = TRUE])} ELSE {}

Settle(c, o) == IF c.rc = "NOMEM" THEN {End(c, [o EXCEPT !.terminal = TRUE])}
                ELSE TakeBody(c, [o EXCEPT !.body = c.rc])

(* The rest of one that is not: parse, and keep the body. *)
EndWhole(c, o) ==
  IF ~Complete(o) THEN {End(c, o)}
  ELSE UNION {Settle(d, o) : d \in sicha_response_parse(c)}

(* What the record says: the first of these that is so. *)
outcome_message(o) ==
  CASE o.terminal -> "out of memory"
    [] ~o.terminal /\ o.ts # "OK" -> o.ts
    [] ~o.terminal /\ o.ts = "OK" /\ o.http # 200 -> "http"
    [] OTHER -> IF o.body = "OK" THEN "ok" ELSE o.body

outcome_borrow_excerpt(bytes) ==
  SubSeq(bytes, 1, IF Len(bytes) > ExcerptMax THEN ExcerptMax ELSE Len(bytes))

(* The bytes of a response that failed which go into its record. *)
Excerpt(c, o) ==
  IF o.ts # "OK" \/ (o.http = 200 /\ o.body = "OK") THEN <<>>
  ELSE outcome_borrow_excerpt(IF stream THEN IF c.lastRaw # <<>> THEN c.lastRaw ELSE c.text.data
                              ELSE IF c.rawBody # <<>> THEN c.rawBody ELSE c.body.data)

(* perform has returned: the rest of run_attempt. *)
Judge(ts) ==
  /\ phase = "flight"
  /\ TransportMayReport(ts)
  /\ LET o == Untangle(io, [NoOutcome EXCEPT !.ts = ts, !.http = http,
                                           !.terminal = (ts = "NOMEM")])
     IN  \E end \in (IF stream THEN EndStream(io, o) ELSE EndWhole(io, o)) :
           /\ io' = end.io
           /\ outcome' = [end.outcome EXCEPT !.excerpt = Excerpt(end.io, end.outcome),
                                           !.delivered = end.io.delivered,
                                           !.message = outcome_message(end.outcome)]
           /\ committed' = (committed \/ end.io.delivered)
  /\ phase' = "judged"
  /\ UNCHANGED <<stream, attempt, http, events>>

TransportStatus ==
  {"OK", "RESET", "TIMEOUT_IDLE", "CANCELLED", "NOMEM", "OTHER", "ABORTED_BY_SINK"}

Perform == \E ts \in TransportStatus : Judge(ts)

Next == Begin \/ OnStatus \/ OnBody \/ Perform

(* What the caller reads of a result: sicha_result_text and the like; and of
   a pointer that is NULL. *)
Read(r) == [text |-> r.text.data, reasoning |-> r.reasoning.data, finish_reason |-> r.finish,
            model |-> r.model, tokens |-> r.usage, raw_body |-> r.rawBody]

Inert == [text |-> <<>>, reasoning |-> <<>>, finish_reason |-> 0, model |-> 0,
          tokens |-> [t \in Tokens |-> 0], raw_body |-> <<>>]

Spec == Init /\ [][Next]_vars

-----------------------------------------------------------------------------
(* Properties.                                                             *)

Succeeded == phase = "judged" /\ Complete(outcome)

(* "the result contains only the final attempt's text"
   (tests/test_routing.c): after a success the caller reads every byte of
   answer that was parsed in this round trip and none of another one, and so
   with finish reason, tokens, model and body; the excerpt of a failed one is
   of its own body and fits its record.  A stream that was cut off is no
   success: [DONE] or a finish reason came in this very round trip.  Before the
   first round trip a result reads as none does ("inert on NULL"). *)
ResultIsLastAnswer ==
  /\ Succeeded =>
       LET r == Read(io) IN
       /\ stream => io.done \/ r.finish_reason = attempt
       /\ ~stream => r.raw_body # <<>>
       /\ Accumulate \/ ~stream =>
            /\ r.text = [k \in 1..io.came.text |-> attempt]
            /\ r.reasoning = [k \in 1..io.came.reasoning |-> attempt]
       /\ {r.finish_reason, r.model} \cup Range(r.tokens) \subseteq {0, attempt}
       /\ Range(r.raw_body) \subseteq {attempt}
  /\ phase = "idle" => Read(io) = Inert
  /\ phase = "judged" => /\ Range(outcome.excerpt) \subseteq {attempt}
                         /\ Len(outcome.excerpt) <= ExcerptMax

(* What Engine assumes of an outcome holds of every one: an abort by the sink
   is told apart unless the memory is full, an answer too big by itself is a
   streamed one or a body, and no answer is stored past its limit.  The message
   of its record says "ok" of a success and of nothing else, and names a limit,
   a lack of memory or the caller's wish where that was the cause. *)
AbortIsExplained ==
  phase = "judged" =>
    /\ outcome.ts \in {"ABORTED_BY_SINK", "NOMEM"} => outcome.terminal
    /\ outcome.body = "TOOBIG" /\ ~stream => io.body.err = "TOOBIG"
    /\ (outcome.message = "ok") = Complete(outcome)
    /\ outcome.message # "ABORTED_BY_SINK"
    /\ "NOMEM" \in {io.err, io.sseErr, io.body.err} =>
         outcome.message \in {"out of memory", "CANCELLED", "OTHER"}
    /\ \A b \in {io.text, io.reasoning, io.body} : Len(b.data) <= Cap

(* Bytes the caller heard of are in the result, whatever becomes of the
   round trip: a failed append is found before the callback runs.  The commit
   rule sees a delivery exactly if a callback was handed bytes of answer, on
   every path out of the round trip; and a callback that asked for cancellation
   gets it: no other failure, limit or success hides it, in the body or in the
   flush after it.  Only a transport that breaks at that very moment reports
   its own failure instead. *)
CallbackIsHeeded ==
  /\ Accumulate =>
       /\ HasDelta => io.handed.text <= Len(io.text.data)
       /\ io.handed.reasoning <= Len(io.reasoning.data)
  /\ phase = "judged" =>
       /\ outcome.delivered <=> io.handed.text + io.handed.reasoning > 0
       /\ io.asked =>
            \/ outcome.ts = "CANCELLED" /\ ~outcome.terminal
            \/ outcome.ts \in {"NOMEM", "OTHER"} /\ outcome.terminal = (outcome.ts = "NOMEM")

(* "Clear per-attempt content ... for a fresh attempt" (sicha_internal.h):
   an answer is too big only for its own size. *)
TooBigOnItsOwn ==
  phase = "judged" /\ outcome.body = "TOOBIG" /\ io.sseErr = "OK" =>
    io.came.text > Cap \/ io.came.reasoning > Cap
=============================================================================
