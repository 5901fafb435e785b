# sicha: specifications, model checking, proofs

sicha is a C17 library for chat requests to OpenAI-compatible servers. A client
holds a chain of backends; a call walks the chain, retries, falls back, streams
the answer to callbacks and can be cancelled from any thread. This directory
models it in TLA+. `PROJECT.json` lists the components, the runs, the source lines
of every definition, the hazards, the findings and the theorems. Paths below are
relative to the repository.

## 1. The system

| Component (source) | State | Operations | Interacts with |
|---|---|---|---|
| Classification (`src/classify.c`) | none; a resolved policy is input | resolve, validate, classify, Retry-After, back-off | called by the engine |
| Requests (`src/request.c`) | a client's deep-copied backends | validate, build headers and body, merge the extra body | called by client and engine |
| Routing engine (`src/client.c`) | backend, three counters per backend, `any_delivered`, records, final status | create, destroy, `sicha_chat`, `sicha_chat_stream` | transport, clock, token, callbacks |
| Round trip and assembly (`src/client.c`, `src/response.c`) | stream context, result buffers, `attempt_outcome` | `run_attempt`, `sicha_stream_on_event`, `sicha_response_parse`, reset, getters | is the sink of a transport, feeds the SSE parser |
| SSE parser (`src/sse.c`) | line, event data, BOM and CR state, sticky stop | feed, finish | calls `on_event` |
| JSON library (`src/yyjson.c`, `src/yyjson.h`, vendored) | value array of a document, ring and pools of a mutable one | read, look up, copy, merge, write | requests and responses |
| Transports (`src/transport_curl.c`, `src/transport_script.c`) | per transfer; pool of handles; queue and log of the script | `perform`, push, log | libcurl, the clock, the token, the sink |
| Cancel token (`src/cancel.c`, `src/sicha_thread.h`) | flag, mutex, condition variable | trigger, reset, query, timed wait | shared by any number of threads and calls |
| Buffer (`src/buf.c`) | data, len, cap, limit, sticky error | append, reset, take, free | used everywhere |
| Demos (`demo/`) | hand-over state under a mutex, history of turns, queue of events | send, drain, cancel, retry, unwind | one worker thread calls the library |

What is hard here: a token that fires between any two statements, shared by
waiting and performing threads; retries that must not follow delivered text; one
result reused by all round trips of a call; allocations that fail at any point;
streams cut at any byte; time budgets measured from different moments; a pool, a
queue and a log shared by calls; a window that is left while its worker still
runs; JSON read in one pass into cells that change their meaning; arithmetic at
the end of `size_t`, of `uint64_t` and of a double. The hazards of `PROJECT.json`
name 40 of them, each at its line with the properties that cover it.

## 2. The modules

```
Classify <- ClassifyCheck <- MCClassify
Request, SetUp <- Records                 } <- RequestCheck <- MCRequest
JsonText <- JsonDoc; JsonScan <- JsonReal; JsonPool } <- JsonCheck <- MCJson
Engine (over Classify) -- refines --> FallbackChain  }  EngineProofs
Classify <- ClassifyCheck, Request <- RequestCheck   }
CancelToken -- refines --> CancelWait                }  RequestProofs
Records, SetUp, Request <- RequestCheck              }
StreamAttempt (its outcomes are those of Engine)        StreamAttemptProofs
Buf; Sse (its events are those of StreamAttempt)        SseProofs
CurlTransport -- refines --> Transport; CurlPool        CurlProofs
ScriptTransport -- refines, per call --> Transport      ScriptTransportProofs
ChatDemo, FallbackDemo <- Demos                      }  DemosProofs
Request <- RequestCheck                              }
FoldFacts: what a fold computes, for the proofs of Sse, Engine, Request and the demos
```

`MC<Module>` gives a module small constants; `<Module>_<question>.cfg` is a run
(`Documented.cfg` that of the sequential code). Operators commented "Mutant" are
deliberate errors: each property is known to reject one of them, so none of them
holds by the shape of the model.

### Sequential code

**Classify** translates the pure functions of `classify.c`: classification,
overrides, Retry-After, back-off; and `attempt_on_status`, which hands the second
of them the last Retry-After of a response, cut to 63 characters. `ClassifyCheck`
compares each with a reference written from the table or formula in `include/sicha.h`. Integers are `W` bits
wide and saturation limits are scaled to it.

**Request** is `request.c` as operators over its inputs: the UTF-8 automaton, URLs
and origins, headers, the checks of backends, options and requests, the members
of a body and their order, the redacted wire log, and what `demo/chat.c` makes of
its arguments. **SetUp** and **Records** are the memory: given the set of blocks
that cannot be allocated, which ones live when `sicha_client_create`,
`chat_common`, `sicha_result_add_attempt`, the scripted transport or `header_cb`
return. A block is a tuple naming the member that points to it, so a leak, a block
freed twice and a half-built object are differences of sets. **RequestCheck** asks
the questions.

**JsonText** is the readers of yyjson on symbols (a string or a number is one
symbol): the cells of an open container hold the way back and the count so far,
and become length and offset when it is closed. **JsonScan** spells strings and
numbers byte by byte, **JsonReal** converts decimals to doubles, doubles to the
shortest decimal and integers to digits, on words and doubles scaled down with
all their derived bounds. **JsonDoc** is the ring of a mutable document, the copy
of a parsed one into it, sicha's merge and the minified writer; **JsonPool** its two
pools of chunks. **JsonCheck** compares them with the grammar of RFC 8259, with
exact rational arithmetic, and with what memory is for.

A behaviour of `RequestCheck` and `JsonCheck` asks one question of each and gets
one answer: state is used only to let TLC enumerate inputs.

### Concurrent code

**Engine** is `chat_common`. `pc` follows its loop: token check, building the
request, the round trip, recording, `on_attempt`, the decision by class, the
back-off wait, the abort request to KoboldCpp. A round trip yields any member of
`Outcomes`; other threads may trigger the token before every step. Milliseconds
are left out: a wait ends by time or by the token. The body of a backend can fail
to be built with NOMEM, and, if it has members given as JSON text, with INVALID_ARG
(`BuildErrors`). **FallbackChain** is what it
promises: round trips move along the chain, never back; the call ends once.

**CancelToken** has one step per access of a waiter, a trigger or a reset to the
mutex, flag or condition variable; `Spurious` wakes anybody. It keeps two
clocks: the monotonic one of the deadline and the wall clock on which
`pthread_cond_timedwait` sleeps, which `SetWallClock` may move. **CancelWait** is
the promise: a wait returns "cancelled" only if the token was triggered and
"elapsed" only at its deadline. A reset while a call waits is excluded by the
threading contract (`include/sicha.h:99-109`).

**StreamAttempt** is `run_attempt`, streamed or not, with `on_event`, the parser,
the result and its reset between round trips, what the caller reads of it, and the
excerpt and message of the record. A byte of answer is the number of the round
trip that brought it, which is what tells a stale byte from a fresh one. An
operator maps a context to the set of contexts it may become: a callback may ask
for cancellation and an allocation may fail at every place the code checks.

**Sse** feeds the parser byte by byte over an alphabet of the bytes it tells
apart, in every partition into feeds, and compares its events with
`EventsOf`, a reference that sees the whole stream: where a line begins and ends
is told by the bytes around it, and the fields of an event are those of the lines
since the last empty one.

**Transport** is the contract of `sicha_transport.perform`; **CurlTransport**
(over an external libcurl that may deliver headers and body, end or fail at any
step) and **ScriptTransport** (concurrent calls on a queue, a log, a token and a
virtual clock, with a reader that takes a snapshot of the log while it grows)
implement it. libcurl also hands the header callback the lines of blocks that are not
the response's: interim ones, and on a new tunnel the proxy's answer to CONNECT
(`NextPhase`), which the callback takes for the response; the flag `tunnelled`
and the history variable `first` tell which block was heard. In `CurlTransport` time
advances while the loop polls; in
`ScriptTransport` whenever a call waits.

**CurlPool** is `slot_acquire` and `slot_release` with the mutex, the creation of
handles and its failures, transient handles, and the destruction of the
transport.

**Buf** is the growable buffer: `buf_reserve`'s loop and allocation are steps of
their own, arithmetic wraps at `SizeMax + 1`.

**ChatDemo** and **FallbackDemo** are the window programs: the frame loop with its
keys, the worker thread, the hand-over under `io_mu` (a critical section is a
step), the history with its pair-wise eviction and unwinding, the queue of events
and the log of attempts, the showcase and the self-test, failing allocations and
thread creation, and the shutdown. The call behind the fallback window goes through
`chat_common`'s loop (`Trip`, `Land`, `LandUnrecorded`, `Decide`): the transport may
find no memory for its log, the engine none for a record, the parser none for a
delta, and `x` may leave the window without a client. **Demos** runs one of the two
in a behaviour.

## 3. What each run shows

| Run | States | Shows |
|---|---|---|
| documented | 639 k | classification, Retry-After and back-off agree with the docs (`ClassifyAsDocumented`, `WaitAsDocumented`); only what may be sent is accepted, in the form promised (`Sendable`); the body has the members asked for, once, the extra body merged over them (`BodyAsAsked`); failed allocations leave nothing behind (`FailuresLeaveNothing`); JSON is read, merged and written as RFC 8259 defines it, in memory of its own (`JsonAsDefined`); strings, numbers and doubles are what they spell and spell what they are (`ScalarsAsDefined`) |
| engine_commit | 12 k | commit rule, budget and numbering of round trips, no premature fallback, status against records and abort requests, refinement of FallbackChain; a triggered token ends the call although waits and round trips have no budget; with budgets every call returns |
| cancel_token_races | 241 k | no lost wakeup, CancelWait is implemented also when the wall clock is set, triggers end waits, finite waits end |
| cancel_token_wallclock | - | **violated**: setting the wall clock back lengthens a sleep (`SleepEndsByDeadline`) |
| stream_retried | 218 k | the result is the last answer, complete; aborts of the sink are told apart and named in the record; what the caller heard is stored, counted as delivered, and its wish to cancel is never hidden |
| stream_sticky | - | **violated**: one answer over the limit spoils all later round trips (`TooBigOnItsOwn`) |
| sse_cuts | 617 k | events do not depend on how the stream is cut; none is invented; the limit is exact |
| curl_budgets | 1 617 k | budgets hold within a poll, timeouts have their cause, status and headers are those of one block, the response's own unless a tunnel was opened (`HeadersOfFirstBlock`), Transport is implemented, a token ends a transfer without budgets |
| script_shared | 626 k | two calls share queue, log, token and clock: order of the queue, what a snapshot of the log holds, a closed formula for the end of every call; Transport is implemented; every call returns |
| buf_bounds | 95 k | writes inside the allocation, nothing lost without an error, errors have causes, the loop ends |
| pool_shared | 60 k | handles are exclusive and point at their own call, are accounted for; transient ones are made only when the pool is busy; every call leaves the pool when no new ones come |
| demos_windows | 883 k | the transcript is the reply but for deltas that found no room or no memory; history and log keep their order; a retry rebuilds the prompt; the shown queue is the one the transport holds but for round trips without a record or without an event; what a worker uses is alive and nothing is destroyed twice; a window being left closes |

**Bounds.** The engine needs two backends, two tries and one re-roll to reach
every transition between retry, re-roll and fallback, and the first and the last
backend; `Outcomes` holds one outcome per class, with and without delivered
bytes. Tokens have two waiters and two controllers, enough for a signal to reach
the wrong thread and for a reset between two waits. Calls have up to three round
trips of three payloads (or pieces of a body), which is one more than a leak from
one to the next needs, and limits of two or three bytes against chunks of one and
two. SSE streams come in four settings: line ends and BOM bytes, in which every
line end is cut at every place and a whole BOM is followed by a field; fields with
spaces; fields under a tight limit with events on both sides of it; and the beginning
of a BOM under a limit of one byte. Time
budgets are sets, a few ticks each or infinite against a poll of two: each can
expire alone, first, in the same poll as another, or never. The script has two
responses pushed and two calls, so that a call may find the queue empty and the
log may move. The buffer has four-bit sizes and a first capacity of two, so that
doubling, the last doubling and `SIZE_MAX` are all met. A response of the libcurl
transport comes behind a tunnel or not, with fields of one to three units against
caps of two for one and three for all. Three calls on a pool of
two slots saturate it. The chat keeps a history of four turns (one eviction, one
unwinding), a hand-over buffer of one byte against deltas of one and two, three
sends of two deltas; the fallback window the code's three backends of two tries, a
queue of two against a showcase of three, two requests, one rebuild of the wire,
a reply of one delta and a log of two lines. A Retry-After has up to five
characters against a buffer of four, and a response up to two of them.

Of the sequential code: JSON texts of up to four of eleven symbols, up to six
over six of them, rows and nests of two, five and nine (yyjson grows its array in
between); numbers on both sides of a word of 7 bits; doubles of 11-bit words with
5-bit significands and exponents, all 496 finite ones written and read back, and
numbers half way between two of about 38 with up to 17 further digits, on both sides
of the 16 that stand for the code's `F64_MAX_DEC_DIG`; integers in
radix 2 of up to 20 digits, so that every branch on a number of digits is taken;
pools that begin with 8 and 6 units and grow to 24 and 30, up to twenty requests
and one failing allocation among the first five. UTF-8 texts have bytes on both
sides of every boundary of the automaton. Up to two blocks of a client or of a
call, and any one of rows of up to nineteen operations, are missing.

**Fairness.** `Engine`: weak fairness of the calling thread's own steps; a wait
or round trip ends by itself only when the token is triggered (`CancelSpec`),
which is what `CancelToken` and `Transport` show. `CallReturns` has finite
budgets (`BudgetsExpire`) as the antecedent of its first half. `CancelToken`:
every thread inside a call runs on and time advances; a notified waiter may be
delayed but not for ever. `CurlTransport`: the loop runs on and time passes while
it polls; nothing is assumed of the server. `ScriptTransport` and `Buf`: the code
of an operation runs on. `CurlPool`: threads in `perform` run on and a free mutex
is granted to somebody, not to everybody: POSIX promises no turn, so the property
speaks of the calls left when no new ones come. `Demos`: the UI thread goes round
its loop, the worker's own statements run on, and a call returns once its token is
triggered; that it returns otherwise is the antecedent `ChatBudgetsExpire`, since
the budgets of the chat may be infinite. The events of the fallback window's
script end by themselves.

## 4. Where code and documents disagree

Each is a run that TLC must find violated; `findings` in `PROJECT.json` quotes
the statement.

- `src/response.c:122`: `sicha_result_reset_content` keeps the buffers' sticky
  error, so after one streamed answer over `max_response_bytes` every later round
  trip of the call fails at its first delta, the fallback included. (A whole body
  is not concerned: its buffer is made anew for each round trip.)
- `src/sicha_thread.h:186`: the relative timed wait is translated to
  `CLOCK_REALTIME`, so a wall clock set back lengthens a sleep.

Exceptions stand in properties that otherwise hold, because the code does not do
there what the property says:

- `src/client.c:838-847`: if `headers` could be allocated and `n_headers` not, the
  clean-up reads `n_headers[i]` through a null pointer, where `include/sicha.h:605`
  promises a status (`FailuresLeaveNothing`).
- `src/yyjson.c:3703-3723`: decimals of more than 768 significant digits are cut to
  769, the last of which is set to one, and two kinds of them become the double above
  the nearest (`ReadAbove` in `ScalarsAsDefined`), against the comments at 3566-3569
  and 3721-3722. The one is set also if every digit from there on is a zero, a single one
  included, so a number half way between two doubles that is padded with zeroes is taken
  for more than that; and a point among the digits left out is counted as one of them,
  so those kept count for ten times as much.
- `src/sse.c:171`: `sicha_sse_finish` does not look at the line buffer after it appended
  a held-back BOM prefix, so a stream of nothing but those bytes ends without an
  error though it is over a limit of one byte (`LimitIsExact`).
- `src/transport_curl.c:113-131`: on a new tunnel `on_status` fires for the proxy's answer
  to CONNECT, with its status and its headers; those of the response are never
  heard, where the comment at line 87 says that the final block is (`HeadersOfFirstBlock`).
  The first-byte budget, too, ends with the proxy's block, and the idle budget takes
  over. A connection that is used again has no such block.
- `include/sicha.h:550`: a count of tokens written `12.0`, `1e2` or beyond 2^64 is
  recorded as 0, where -1 is said to stand for unknown; counts from 2^63 on turn
  negative (`src/response.c:276-284`; `CountsAsWritten`).
- `src/client.c:282`: of a Retry-After of 64 bytes or more the first 63 are read
  (`RetryAfterAsWritten`).
- `demo/fallback.c:227` counts what the transport consumed by the calls of `on_attempt`:
  a round trip whose record finds no memory (`src/client.c:739-742`) took its event
  uncounted, and one without memory for the script's log (`src/transport_script.c:176-184`)
  is counted though it took none (`QueueIsCounted` says by how much).
- `src/response.c:531`: a delta for which `yyjson_read` finds no memory is handed on as
  a raw chunk; the call can succeed with a hole in the reply (`ReplyShown`).
- `demo/fallback.c:467`: the token of every request but the last is not destroyed
  (`FallbackOwnership`).

Seen while reading, without a run. Engine and responses:
- an override of a 2xx status passes validation and is never looked at;
- a token triggered during the last round trip of the chain leaves the status
  EXHAUSTED;
- the validator runs also for streams that ended with a finish reason and not
  only after `[DONE]`; a stream of nothing but `[DONE]` is a success with empty
  text;
- the excerpt of a streamed HTTP error is empty, because `last_raw` is set by SSE
  data events only; `include/sicha.h:555` says "First SICHA_EXCERPT_MAX bytes of the
  response body". For a raw event it is the last payload;
- lack of memory in `yyjson_read` is taken for a malformed body, or in a stream for
  a payload that is no JSON: its text goes to `on_raw_chunk` and the stream may
  still succeed (`src/response.c:365`, `531`);
- a key of 504 bytes or more is left out of the abort request to KoboldCpp
  (`src/client.c:559-570`).

Requests and JSON:
- an `import_json` that finds no memory to parse is reported as INVALID_ARG
  (`src/request.c:624-645` against its comment at 527-529); a call whose body is
  built only when its backend is reached can so end with INVALID_ARG after round trips
  and with `*out` set (`BuildErrors` in `Engine`);
- `yyjson_obj_get` sees the first member of a name, the merge of the extra body
  keeps the last; the header documents fewer reserved names than the code refuses.

Transports and buffers:
- libcurl's loop reports the total budget where the scripted transport, said to
  mirror it, reports the phase; `SICHA_INFINITE` as connect budget leaves libcurl's
  default of 300 s in force;
- `sicha_buf_take` (`src/buf.c:118`) does not re-initialise the buffer when the
  allocation for an empty string fails.

Demos:
- chat: keys behind Enter in the same batch still edit the line, and a Backspace
  there can send an empty message; `status` is overwritten every frame, so "failed
  to start worker thread" and "done" are not seen; a cancelled turn, or one whose
  thread did not start, leaves a question without an answer, so the "user+assistant
  pairs" of `demo/chat.c:57` do not hold; when `turns_push` finds no memory the
  request is sent without its turn, and if it fails an earlier turn is removed;
  `--auto` does not end when the thread cannot be started; surrogates are encoded,
  and the request is then refused; `--auto` or `--demo-seconds` as the last argument
  is taken for a URL;
- fallback: the letters of `queued` are not shifted when events are consumed; client
  and script are leaked when the terminal cannot be opened; when `x` cannot make a new
  script or client the window goes on without it, and every request is refused;
  `x` does not clear the log.

## 5. What is proved

TLAPS checks the following for all values of the constants that satisfy the
named assumptions of the modules. Induction over data goes by the least
counterexample: the naturals are well-founded (`WFMin`), so a set that holds 0 and
with each number the next holds all of them. Recursive functions (`TwoTo`,
`Without`) are shown to exist and to be unique before they are used.

**FoldFacts** states for any operator `Op` what a fold over a sequence does with
the empty sequence, with one element more and with two sequences one behind the
other, and that a set of sequences closed under appending holds all of them. Proof
modules instantiate it with the operator at hand.

**EngineProofs** (any chain, policy, set of outcomes): `TypeCorrect`,
`CommitRuleHolds`, `CancelStopsTripsHolds`, `NumberingHolds`,
`AttemptBudgetHolds`, and `EngineImplementsChain`. The properties are not
inductive: they speak of finished round trips, while the decision to go on is
taken from counters and flags some steps later. `IInv` adds what links the two:
`ControlInv` (what each place in the loop implies), `DeliveredInv` (a delivery
is in `any_delivered` before the decision), `LateInv` (the trip that began late
is the only one), `LinkInv` (records and counters agree), `BudgetInv` (the trips of
a backend are bounded by its counters), `CauseInv` (why the loop is where it
is). One lemma per conjunct follows the actions; the refinement then maps each
step that settles a round trip to one of `FallbackChain`, the others to
stuttering.

On it rest `StatusTellsRecordsHolds` and `NoPrematureFallbackHolds`. `SInv` says
that a class which ends the call is that of the last record (`ClassInv`), that
round trips, records and the backend of the result keep step (`TripsInv`), that
every backend passed has a record (`PassedInv`), where deliveries and abort
requests are accounted for (`HeardInv`, `AssistInv`), and what each status says of
the records (`VerdictInv`). The second theorem counts records by class and backend
(`CountInv`): the counters of the loop are those numbers, so a backend that was
left was spent.

The same module proves what the engine asks of `classify.c` and `request.c`, whose
runs only enumerate questions; here the invariant is short (the answer is the one
the operator gives) and the work is in the operators.
- `ClassesAreDocumented` (any policy, any number of overrides): the classifier
  looks overrides up one by one and tests conditions in order, the documentation
  gives a table; exactly one line of the table fits.
- `WaitsAreDocumented` (any word size, policy, attempt, header and room for it): the loop that
  reads digits saturates and cuts blanks as the definition over the integers says
  (`NumberIsRead`), and so do the doubling and its cap (`ExponentialIs`). It
  assumes that numbers and limits are in the range of their types
  (`WaitsAssumption`).
- `BodiesAreAsAsked` (any request, any extra body): sicha's own members have
  distinct names (`OwnFresh`); a merge keeps them distinct and only ever appends
  (`MergeIs`), so what the extra body does not name stays in front in its place,
  which is a number of members left before it (`WithoutPlaces`). The backend is one
  that `sicha_client_create` accepted (`BodyAssumption`).

**RequestProofs** is about what a call is given and what it takes. For the token
(any threads, waits and wall clock): `TypeCorrect`,
`NoWakeupIsLost`, `TokenImplementsWait`. `NoLostWakeup` needs that test and sleep
lie under one mutex (`MutexInv`), that only calls with the token use it
(`UseInv`), and why a wait leaves its loop (`ExitInv`).

For memory (any rows of operations, chains, calls and sets of failing blocks), in
the same module: `FailuresLeaveNothingHolds`. A row of operations is a fold, and
each of its three kinds has an invariant over the operations made so far, which the
clauses of the property are not: `ResultInv`, `ScriptInv` and `TransferInv` say
which blocks live, entry by entry, that arrays have the room their growth gives
them, that numbers of operations still to come are in no list, and for the queue
that what was played lies before what is left. One lemma per operation
(`AttemptKeepsResult`, `PushKeeps`, `PerformKeeps`, `FieldKeeps`, ...) takes apart
which of its allocations failed. The set-ups are no loops over state:
`BackendInitIs` and `CreateIs` compute what lives on each of their exits and that
`sicha_client_destroy` reaches it (`DestroyIsWhole`). `MemoryInv` joins questions
and answers. It assumes that rows, chains and calls are of the types the interface
gives them (`MemoryAssumption`).

**StreamAttemptProofs** (any limits, payloads, replies, number of round trips):
`LastAnswerHolds`, `AbortExplainedHolds`, `CallbackHeededHolds`. Every operator on
contexts has a lemma. `Streamed` is the invariant of a streamed round trip: all
data in the context is of the running round trip, no buffer is over the limit,
what was handed out is stored, and as long as nothing failed everything that came
is stored. `Whole` and `Parsing` are those of a body, before the parser and within
it; there the buffers of the result cannot be too small, because the strings of a
document are shorter than it. `Ended` is what context and outcome say of each other
on every path out of `run_attempt`, `CallInv` joins them along the call.

**SseProofs** (any stream, any cut, any limits): `EventsOfStreamHolds` and
`LimitIsExactHolds`. `ParserInv` says what the parser holds after each byte in terms
of the bytes fed: how much of a BOM came (`Marking`), the line begun since the last
line end, the data of the lines since the last empty one and the events before it
(`Reads`), or why it stopped (`Ended`). One lemma per kind of byte (line end, the second half of CRLF, BOM, other)
shows that the reference changes as the buffers do. The proof attempt brought the
exception of `LimitIsExact` to light (section 4), and the run has a setting for it
now.

For `Buf`, in the same module (any width of `size_t`, first capacity, limits):
`BufTypeCorrect`, `WritesInBounds`, `NothingIsLost`, `ErrorsTellTheTruth`.
`AllocInv` says the allocation has a byte more than the capacity, which stays below
`SIZE_MAX`; `LoopInv` that inside `buf_reserve` the bytes asked for are those
wanted, and that the loop reaches `SIZE_MAX` only if it was asked for (doubling
yields even numbers, `SIZE_MAX` is odd).

**CurlProofs**, for `CurlTransport` (any budgets, poll, cap, server): `TypeCorrect`,
`TransfersEndInTime`, `HeadersAreComplete` (of `HeadersOfFirstBlock`),
`CurlImplementsTransport`. The budgets
are inductive because a loop that waits has just looked at every deadline and at
the token, and at most one poll has passed since (`TimeInv`); a reported timeout
has its budget behind it (`CauseInv`); a callback that fails is the last one, and
until then the header block, the tunnel's or the response's, is complete and is the first
(`HeadInv`). The refinement maps the
callbacks that reach the sink to the steps of `Transport` and the rest to
stuttering.

For `CurlPool` (any number of calls, handles and slots): `PoolTypeCorrect`,
`OwnHandles`, `HandlesAreAccounted`, `TransientsAreNeeded`. `HoldInv` says when a
call holds handles and that those of its slot are the ones it holds, `SlotInv` that
slots do not share handles nor calls slots; with the account, kept handle by
handle (`EachAccounted`), they are inductive. The last theorem counts: every slot
in use belongs to a call (`InUseInv`), and the call that finds all of them in use
is one more. It assumes finitely many calls.

**ScriptTransportProofs** (any number of calls, script, delays and budgets):
`TypeCorrect`, `PlaysScriptHolds` and `ScriptImplementsTransport`. `CallInv` says of
a call in progress when the delay it waits for began and ends, that no deadline was
passed unseen (`TimeInv`) and which parts of its response came within their budgets
(`PathInv`); the closed formula for the end of a call (`EndInv`) then follows at each
of its exits. `ServedInOrder` relates
queue, log and what was pushed; `LogInv` says that no call is logged twice and that
an entry a reader holds stays where it is. Every call by itself is a `Transport`;
what the others do is stuttering to it.

**DemosProofs** (any size of history, buffer, chain and queue):
`OwnershipHolds`, `BelievedHolds`, `ShownAsSaidHolds`. `LifeInv` says which objects of the
chat live at each place of loop and worker, `HoldInv` which of the fallback window's:
the client, the script and the last token, unless `x` or the token's allocation found no
memory, and the tokens before it that nobody destroys. `RetryInv` says that after a failure
the history is what the failed request had before its own turn, and short enough
that the next one evicts nothing. `CountInv` relates the wire to the queue shown: what is
gone from it is what was counted, and what was taken uncounted, less what was counted
and not taken (`CountsMove` is the arithmetic of one round trip). For the third,
`TurnsInv` says in which order the turns stand and alternate; `DeltaInv` that the
transcript and the hand-over buffer hold all deltas but the dropped ones, in order;
`LogInv` that each line of the attempt log is behind the one before and which lines are
of the running request; `ReplyInv` what is shown of a reply: the deltas of the round
trips so far less those no memory was found for; `SelfTestInv` that the self-test goes
through its events one by one. They assume the chain and the number of tries
that `make_client` of `demo/fallback.c` has (`MakeClientAssumption`).

For what is typed, accepted and sent (any text, code point, description, options and
row of arguments), in the same module: `SendableHolds`. Each of its parts compares
two computations, and the proof goes through what they have in common.
- UTF-8: the scan goes from the front, the reference from the end, and both look for
  a set of cuts with a segment between neighbours (`Parses`): `CharIs` says that
  the byte ranges of the scan are those of the numbers spelled, `ParsesFront` and
  `ParsesBack` take one segment off at either end, and the least place where scan or
  reference would differ (`LeastNat`) is none (`ValidIsParses`,
  `WellFormedIsParses`). `TypedUtf8` is the way back, quotient by quotient.
- Arguments: the loop is a fold, and `ArgsInv` says after each word how many
  positional words there were, whether the next one is a value, and which word each
  member of the configuration is from; the third place keeps the last of them.
- URLs: `UrlIs` finds the two slashes of the scheme and the host behind them,
  `OriginIs` and `JoinIs` the ends of what is kept.
- Headers: `SentIs` and `AbortIs` give the lists as they stand; extra headers are
  none of the generated ones whatever their cases (`ExtrasFit`). That the key
  is in no log is non-interference: two descriptions that differ in their secrets
  only are logged alike (`LogIs`). `KeysWhole` is the other side: no
  Authorization is sent with a key cut short.

It assumes the types of the inputs (`InputAssumption`): bytes are below 256, words
are strings, a null pointer is neither, and a code point is at most 0x10FFFF.

**Only model-checked.** Liveness and fairness (`CallReturns`, `WaitsEnd`,
`TriggerEndsTransfer`, `CallsReturn` of script and pool, `OperationsEnd`, `Closes`),
which is beyond the prover, as is ENABLED. `JsonAsDefined` and `ScalarsAsDefined`, whose
reference is a recursive operator, which a module with proofs may not reach, and
whose arithmetic is that of scaled-down doubles. The two violated runs are
counterexamples and need no proof.

## 6. Not modelled

- `src/status.c`: constant strings. The benchmark, the fuzz harnesses, the tests and
  the build scripts: drivers of the library; the assertions of the tests were read
  as statements about it.
- Of yyjson what sicha never calls: incremental reading, relaxed syntax, pretty
  writing, files, pointers, patches, custom allocators, numbers in single
  precision. The divisions by multiplication in `write_u32_*` are taken as
  divisions.
- Drawing and colours of the demos; the Windows branch of `sicha_thread.h`.
- libcurl itself and TLS: `CurlTransport` lets them do anything the loop can
  observe. Options of a request that change no behaviour (method, HTTP/1.1).
- Allocation failures inside `Sse`, whose effect is in `StreamAttempt`, where a
  feed may fail at any byte. Milliseconds in `Engine`, which are in the transports.
- Wording of messages: the record of a round trip names its cause, not its text.

## 7. Plan

Done, in this order: Classify, Engine and FallbackChain, CancelToken and
CancelWait, StreamAttempt, Sse, Transport with CurlTransport and
ScriptTransport, Buf, CurlPool; then the demos, Request, SetUp and Records, whole
bodies and records in StreamAttempt, the log of the script, and JSON; the proofs
of section 5: first the concurrent code, then the parser, the script, the demos,
the classification, the bodies, the memory, and what is typed and sent.

Left, in order of what it would add:
1. **MassCancel**: several `Engine` calls on one token and one transport, as
   composition of modules that now meet only through their contracts.
