-------------------------- MODULE ScriptTransport --------------------------
(***************************************************************************)
(* script_perform, sicha_script_push and the readers of the log of         *)
(* src/transport_script.c: calls of several threads are logged, take       *)
(* responses off one queue and play them against the clock, while a test   *)
(* looks at the log.  The clock is a virtual one (a fake sicha_clock):     *)
(* time passes only while every call that is running waits.                *)
(***************************************************************************)
EXTENDS Integers, Sequences, FiniteSets

CONSTANTS
  Calls,        \* calls of perform, each by a thread of its own
  HasToken, HasSink,
  Infinite,     \* SICHA_INFINITE
  Responses,    \* the scripted responses that may be pushed
  Timeouts,     \* the budgets of a call
  Chunk,        \* the 100 ms a wait lasts at most
  FirstCap,     \* the 8 entries the log has room for at first
  MaxRead,      \* bound: entries of the log the test looks at
  MaxPushed     \* bound: responses pushed

(* chunks: pieces the body is cut into; fail_after: those sent before a
   scripted failure. *)
Response == [connect_delay : Nat, first_byte_delay : Nat, per_chunk_delay : Nat,
             chunks : Nat, status : STRING, fail_after : Nat]
Budget == (Nat \ {0}) \cup {Infinite}

(* Of a call that has not taken a response. *)
Silent == [connect_delay |-> 0, first_byte_delay |-> 0, per_chunk_delay |-> 0,
           chunks |-> 0, status |-> "OK", fail_after |-> 0]

NoEntry == [index |-> 0, call |-> "none", array |-> 0]

ASSUME ScriptAssumption ==
  /\ Infinite \notin Int
  /\ Responses \subseteq Response \ {Silent}
  /\ Timeouts \subseteq [connect : Budget, first_byte : Budget, idle : Budget, total : Budget]
  /\ {Chunk, FirstCap} \subseteq Nat \ {0} /\ {MaxPushed, MaxRead} \subseteq Nat
  /\ HasToken \in BOOLEAN /\ HasSink \in BOOLEAN

(* What a response may be scripted to end with.  The type would let a test
   script a cancellation or an abort as well; such a script breaks the promise
   of a transport because it says so. *)
Statuses ==
  {"OK", "CONNECT", "TLS", "TIMEOUT_CONNECT", "TIMEOUT_FIRST_BYTE", "TIMEOUT_IDLE",
   "TIMEOUT_TOTAL", "RESET", "PROTOCOL", "NOMEM", "OTHER"}

ASSUME StatusAssumption == \A r \in Responses : r.status \in Statuses

VARIABLES
  queue,       \* responses not yet taken
  pushed,      \* history: all responses pushed, in order
  log,         \* s->calls: the calls recorded
  cap,         \* s->c_cap; a new array for every value
  snap,        \* what the test holds of an entry
  pc,          \* of each call: "new", "test", "wait", "landed", "told" or "done"
  phase,       \* of each call: "connect", "first_byte" or "body"
  resp,        \* the response a call took
  budgets,     \* of each call
  start,       \* of each call and of the body chunk it waits for
  target,      \* when the delay of the phase is over
  wake,        \* when a wait ends
  told, chunks, refused, result,  \* as the sink and the caller see a call
  token,       \* one token, shared by all calls
  now

perCall == <<phase, resp, budgets, start, target, wake>>
seen == <<told, chunks, refused, result>>
logs == <<log, cap>>
vars == <<queue, pushed, logs, snap, pc, perCall, seen, token, now>>

Init ==
  /\ queue = <<>> /\ pushed = <<>> /\ log = <<>>
  /\ cap = 0 /\ snap = NoEntry
  /\ pc = [c \in Calls |-> "new"]
  /\ phase = [c \in Calls |-> "connect"]
  /\ resp = [c \in Calls |-> Silent]
  /\ budgets \in [Calls -> Timeouts]
  /\ start = [c \in Calls |-> [call |-> 0, chunk |-> 0]]
  /\ target = [c \in Calls |-> 0]
  /\ wake = [c \in Calls |-> 0]
  /\ told = [c \in Calls |-> FALSE]
  /\ chunks = [c \in Calls |-> 0]
  /\ refused = [c \in Calls |-> FALSE]
  /\ result = [c \in Calls |-> "none"]
  /\ token \in (IF HasToken THEN BOOLEAN ELSE {FALSE})
  /\ now = 0

-----------------------------------------------------------------------------
(* The queue; each of these holds the mutex throughout.                    *)

Push(r) ==
  /\ Len(pushed) < MaxPushed
  /\ queue' = Append(queue, r)
  /\ pushed' = Append(pushed, r)
  /\ UNCHANGED <<logs, snap, pc, perCall, seen, token, now>>

Return(c, ts) ==
  /\ pc' = [pc EXCEPT ![c] = "done"]
  /\ result' = [result EXCEPT ![c] = ts]

(* The array doubles when it is full. *)
Grown == IF Len(log) < cap THEN cap ELSE IF cap = 0 THEN FirstCap ELSE 2 * cap

(* The call is recorded and the first response taken, in one critical
   section; an empty queue is a refused connection. *)
Begin(c) ==
  /\ pc[c] = "new"
  /\ cap' = Grown
  /\ log' = Append(log, c)
  /\ IF queue = <<>>
     THEN Return(c, "CONNECT") /\ UNCHANGED <<queue, perCall>>
     ELSE /\ resp' = [resp EXCEPT ![c] = Head(queue)]
          /\ queue' = Tail(queue)
          /\ start' = [start EXCEPT ![c] = [call |-> now, chunk |-> now]]
          /\ target' = [target EXCEPT ![c] = now + Head(queue).connect_delay]
          /\ pc' = [pc EXCEPT ![c] = "test"]
          /\ UNCHANGED <<phase, budgets, wake, result>>
  /\ UNCHANGED <<pushed, snap, told, chunks, refused, token, now>>

(* The call cannot be recorded, though the array may have grown: the queue is
   left as it is. *)
BeginFails(c) ==
  /\ pc[c] = "new"
  /\ cap' \in {cap, Grown}
  /\ Return(c, "NOMEM")
  /\ UNCHANGED <<queue, pushed, log, snap, perCall, told, chunks, refused, token, now>>

(* Mutant: the test keeps a pointer into the array. *)
SnapshotByPointer(i) ==
  /\ snap = NoEntry
  /\ snap' = [index |-> i, call |-> log[i], array |-> cap]
  /\ UNCHANGED <<queue, pushed, logs, pc, perCall, seen, token, now>>

(* call_snapshot: the test takes a copy of an entry, whose strings nothing
   frees before sicha_script_destroy (array 0), and keeps it. *)
Snapshot(i) ==
  /\ snap = NoEntry
  /\ snap' = [index |-> i, call |-> log[i], array |-> 0]
  /\ UNCHANGED <<queue, pushed, logs, pc, perCall, seen, token, now>>

-----------------------------------------------------------------------------
(* delay_within                                                            *)

Deadline(since, budget) == IF budget = Infinite THEN Infinite ELSE since + budget

Past(deadline) == deadline # Infinite /\ now >= deadline

(* connect_ms and first_byte_ms run from the start of the call, idle_ms from
   the start of the chunk. *)
PhaseDeadline(c) ==
  CASE phase[c] = "connect"    -> Deadline(start[c].call, budgets[c].connect)
    [] phase[c] = "first_byte" -> Deadline(start[c].call, budgets[c].first_byte)
    [] phase[c] = "body"       -> Deadline(start[c].chunk, budgets[c].idle)

TimeoutOf(ph) ==
  CASE ph = "connect" -> "TIMEOUT_CONNECT" [] ph = "first_byte" -> "TIMEOUT_FIRST_BYTE"
    [] ph = "body"    -> "TIMEOUT_IDLE"

TotalDeadline(c) == Deadline(start[c].call, budgets[c].total)

(* Mutant: a delay is over only after its last millisecond. *)
VerdictAfter(c) ==
  IF token THEN "CANCELLED"
  ELSE IF Past(PhaseDeadline(c)) THEN TimeoutOf(phase[c])
  ELSE IF Past(TotalDeadline(c)) THEN "TIMEOUT_TOTAL"
  ELSE IF now > target[c] THEN "OK"
  ELSE "none"

(* One round of the loop: the token first, then the deadlines, then the end
   of the delay. *)
Verdict(c) ==
  IF token THEN "CANCELLED"
  ELSE IF Past(PhaseDeadline(c)) THEN TimeoutOf(phase[c])
  ELSE IF Past(TotalDeadline(c)) THEN "TIMEOUT_TOTAL"
  ELSE IF now >= target[c] THEN "OK"
  ELSE "none"

Minimum(S) == CHOOSE m \in S : \A n \in S : m <= n

WakeTime(c) == Minimum({target[c], now + Chunk} \cup
                       ({PhaseDeadline(c), TotalDeadline(c)} \ {Infinite}))

(* The delay goes on: wait for the next thing to happen, at most Chunk. *)
Delay(c) ==
  /\ pc[c] = "test"
  /\ Verdict(c) = "none"
  /\ wake' = [wake EXCEPT ![c] = WakeTime(c)]
  /\ pc' = [pc EXCEPT ![c] = "wait"]
  /\ UNCHANGED <<queue, pushed, logs, snap, phase, resp, budgets, start, target, seen, token, now>>

DelayEnds(c) ==
  /\ pc[c] = "test"
  /\ Verdict(c) = "OK"
  /\ pc' = [pc EXCEPT ![c] = "landed"]
  /\ UNCHANGED <<queue, pushed, logs, snap, perCall, seen, token, now>>

DelayFails(c) ==
  /\ pc[c] = "test"
  /\ Verdict(c) \notin {"none", "OK"}
  /\ Return(c, Verdict(c))
  /\ UNCHANGED <<queue, pushed, logs, snap, perCall, told, chunks, refused, token, now>>

(* wait_ms returns nonzero for a triggered token. *)
Wake(c) ==
  /\ pc[c] = "wait"
  /\ \/ token /\ Return(c, "CANCELLED")
     \/ ~token /\ now >= wake[c] /\ pc' = [pc EXCEPT ![c] = "test"] /\ UNCHANGED result
  /\ UNCHANGED <<queue, pushed, logs, snap, perCall, told, chunks, refused, token, now>>

-----------------------------------------------------------------------------
(* What a phase leads to.                                                  *)

Enter(c, ph, delay) ==
  /\ pc' = [pc EXCEPT ![c] = "test"]
  /\ phase' = [phase EXCEPT ![c] = ph]
  /\ start' = [start EXCEPT ![c].chunk = now]
  /\ target' = [target EXCEPT ![c] = now + delay]

(* A pure transport failure comes after the connect delay. *)
ConnectLanded(c) ==
  /\ pc[c] = "landed" /\ phase[c] = "connect"
  /\ IF resp[c].status # "OK" /\ resp[c].fail_after = 0
     THEN Return(c, resp[c].status) /\ UNCHANGED perCall
     ELSE /\ Enter(c, "first_byte", resp[c].first_byte_delay)
          /\ UNCHANGED <<resp, budgets, wake, result>>
  /\ UNCHANGED <<queue, pushed, logs, snap, told, chunks, refused, token, now>>

(* The chunks sent: a scripted failure cuts the body short. *)
Body(r) == IF r.status = "OK" \/ r.chunks < r.fail_after THEN r.chunks ELSE r.fail_after

(* on_status *)
StatusLanded(c, refuse) ==
  /\ pc[c] = "landed" /\ phase[c] = "first_byte"
  /\ refuse => HasSink
  /\ told' = [told EXCEPT ![c] = TRUE]
  /\ refused' = [refused EXCEPT ![c] = refuse]
  /\ pc' = [pc EXCEPT ![c] = "told"]
  /\ UNCHANGED <<queue, pushed, logs, snap, perCall, chunks, result, token, now>>

(* on_body *)
ChunkLanded(c, refuse) ==
  /\ pc[c] = "landed" /\ phase[c] = "body"
  /\ refuse => HasSink
  /\ chunks' = [chunks EXCEPT ![c] = @ + 1]
  /\ refused' = [refused EXCEPT ![c] = refuse]
  /\ pc' = [pc EXCEPT ![c] = "told"]
  /\ UNCHANGED <<queue, pushed, logs, snap, perCall, told, result, token, now>>

(* Mutant: what the sink returned is not looked at. *)
ProceedDeaf(c) ==
  /\ pc[c] = "told"
  /\ IF chunks[c] < Body(resp[c])
     THEN /\ Enter(c, "body", resp[c].per_chunk_delay)
          /\ UNCHANGED <<resp, budgets, wake, result>>
     ELSE Return(c, resp[c].status) /\ UNCHANGED perCall
  /\ UNCHANGED <<queue, pushed, logs, snap, told, chunks, refused, token, now>>

(* After a callback: the end for a refusal, the next chunk, or the end the
   response was scripted to have. *)
Proceed(c) ==
  /\ pc[c] = "told"
  /\ IF refused[c] THEN Return(c, "ABORTED_BY_SINK") /\ UNCHANGED perCall
     ELSE IF chunks[c] < Body(resp[c])
     THEN /\ Enter(c, "body", resp[c].per_chunk_delay)
          /\ UNCHANGED <<resp, budgets, wake, result>>
     ELSE Return(c, resp[c].status) /\ UNCHANGED perCall
  /\ UNCHANGED <<queue, pushed, logs, snap, told, chunks, refused, token, now>>

-----------------------------------------------------------------------------
Trigger ==
  /\ HasToken /\ ~token
  /\ token' = TRUE
  /\ UNCHANGED <<queue, pushed, logs, snap, pc, perCall, seen, now>>

Running == {c \in Calls : pc[c] \notin {"new", "done"}}

(* Virtual time: it passes while all running calls wait. *)
Tick ==
  /\ Running # {}
  /\ \A c \in Running : pc[c] = "wait" /\ now < wake[c]
  /\ now' = now + 1
  /\ UNCHANGED <<queue, pushed, logs, snap, pc, perCall, seen, token>>

CallStep(c) ==
  \/ Delay(c) \/ DelayEnds(c) \/ DelayFails(c) \/ Wake(c) \/ ConnectLanded(c) \/ Proceed(c)
  \/ \E refuse \in BOOLEAN : StatusLanded(c, refuse) \/ ChunkLanded(c, refuse)

AllDone == (\A c \in Calls : pc[c] = "done") /\ UNCHANGED vars

Next ==
  \/ \E r \in Responses : Push(r)
  \/ \E c \in Calls : Begin(c) \/ BeginFails(c) \/ CallStep(c)
  \/ \E i \in 1..MaxRead : i <= Len(log) /\ Snapshot(i)
  \/ Trigger \/ Tick \/ AllDone

Spec == Init /\ [][Next]_vars

FairSpec == Spec /\ (\A c \in Calls : WF_vars(CallStep(c))) /\ WF_vars(Tick)

-----------------------------------------------------------------------------
(* Properties.                                                             *)

(* How many of the first n calls recorded got a response. *)
Served(n) == Cardinality({m \in 1..n : resp[log[m]] # Silent})

(* What the test holds of an entry is still there when it looks, and is what
   the log has there, though a concurrent call moves the array. *)
HeldEntryStands ==
  snap # NoEntry => snap.array \in {0, cap} /\ log[snap.index] = snap.call

(* FIFO: whatever the threads do and whichever calls fail, the n-th call that
   got a response got the n-th response pushed, and none is lost: what was
   pushed is what was taken and what still waits.  The record of the calls is
   as stable for a test that reads it meanwhile. *)
ServedInOrder ==
  /\ \A n \in DOMAIN log :
       resp[log[n]] # Silent => Served(n) \in DOMAIN pushed /\ resp[log[n]] = pushed[Served(n)]
  /\ Served(Len(log)) <= Len(pushed)
  /\ queue = SubSeq(pushed, Served(Len(log)) + 1, Len(pushed))
  /\ HeldEntryStands

Least(a, b) == IF b = Infinite THEN a ELSE IF a = Infinite THEN b ELSE IF a < b THEN a ELSE b

Before(t, limit) == limit = Infinite \/ t < limit

(* What a response r means under budgets b: the time its parts arrive, and
   the budget that is used up before. *)
Scripted(r, b) ==
  LET arrival == r.connect_delay + r.first_byte_delay
      arrives(n) == arrival + n * r.per_chunk_delay
      late(t, limit, name) == IF Before(t, Least(limit, b.total)) THEN "none"
                              ELSE IF Least(limit, b.total) = limit THEN name ELSE "TIMEOUT_TOTAL"
      idle == IF Before(r.per_chunk_delay, b.idle) THEN Infinite ELSE arrival + b.idle
      cut  == IF r.status # "OK" /\ r.fail_after < r.chunks THEN r.fail_after ELSE r.chunks
      missed == {n \in 1..cut : ~Before(arrives(n), Least(idle, b.total))}
  IN  IF late(r.connect_delay, b.connect, "TIMEOUT_CONNECT") # "none"
      THEN [result |-> late(r.connect_delay, b.connect, "TIMEOUT_CONNECT"), chunks |-> 0]
      ELSE IF r.status # "OK" /\ r.fail_after = 0
      THEN [result |-> r.status, chunks |-> 0]
      ELSE IF late(arrival, b.first_byte, "TIMEOUT_FIRST_BYTE") # "none"
      THEN [result |-> late(arrival, b.first_byte, "TIMEOUT_FIRST_BYTE"), chunks |-> 0]
      ELSE IF missed = {} THEN [result |-> r.status, chunks |-> cut]
      ELSE [result |-> IF Least(idle, b.total) = idle THEN "TIMEOUT_IDLE" ELSE "TIMEOUT_TOTAL",
            chunks |-> Minimum(missed) - 1]

(* "under a fake clock every timeout class reproduces deterministically":
   without a cancellation or a refusal a call ends as its response and its
   budgets say, however many others run at the same time. *)
EndsAsScripted ==
  \A c \in Calls :
    result[c] \notin {"none", "CANCELLED", "ABORTED_BY_SINK"} /\ resp[c] # Silent =>
      [result |-> result[c], chunks |-> chunks[c]] = Scripted(resp[c], budgets[c])

(* The script is played as it was pushed: to each call its own response, and
   of that response what its budgets leave. *)
PlaysScript == ServedInOrder /\ EndsAsScripted

(* The promise of a transport, to each call. *)
Promise(c) == INSTANCE Transport WITH
  told <- told[c], chunks <- chunks[c], refused <- refused[c], result <- result[c],
  broken <- FALSE

(* ScriptTransport implements Transport for every call, several at a time. *)
ImplementsTransport ==
  /\ \A c \in Calls : Promise(c)!Init
  /\ [][\A c \in Calls : Promise(c)!Next \/ UNCHANGED Promise(c)!transportVars]_vars

(* Every call that began returns, with no budget to help it. *)
CallsReturn == \A c \in Calls : pc[c] = "test" ~> pc[c] = "done"
=============================================================================
