----------------------- MODULE ScriptTransportProofs -----------------------
(***************************************************************************)
(* Proofs about ScriptTransport, for every number of calls, every script   *)
(* and every budget.                                                       *)
(***************************************************************************)
EXTENDS ScriptTransport, FiniteSetTheorems, SequenceTheorems, TLAPS

Results == Statuses \cup {"none", "CANCELLED", "ABORTED_BY_SINK"}

(* The values the variables may take. *)
SharedOK ==
  /\ queue \in Seq(Responses) /\ pushed \in Seq(Responses)
  /\ log \in Seq(Calls) /\ cap \in Nat
  /\ snap \in [index : Nat, call : Calls \cup {"none"}, array : Nat]
  /\ token \in BOOLEAN /\ (token => HasToken)
  /\ now \in Nat

CallsOK ==
  /\ pc \in [Calls -> {"new", "test", "wait", "landed", "told", "done"}]
  /\ phase \in [Calls -> {"connect", "first_byte", "body"}]
  /\ resp \in [Calls -> Responses \cup {Silent}]
  /\ budgets \in [Calls -> Timeouts]
  /\ start \in [Calls -> [call : Nat, chunk : Nat]]
  /\ target \in [Calls -> Nat] /\ wake \in [Calls -> Nat]
  /\ told \in [Calls -> BOOLEAN] /\ refused \in [Calls -> BOOLEAN]
  /\ chunks \in [Calls -> Nat]
  /\ result \in [Calls -> Results]

TypeOK == SharedOK /\ CallsOK

-----------------------------------------------------------------------------
(* What a call knows of itself, and the response it plays.                 *)

LEMMA ResponseType ==
  ASSUME NEW r \in Responses \cup {Silent}
  PROVE  /\ {r.connect_delay, r.first_byte_delay, r.per_chunk_delay, r.chunks, r.fail_after} \subseteq Nat
         /\ r.status \in Statuses
  BY ScriptAssumption, StatusAssumption DEF Response, Silent, Statuses

LEMMA BudgetType ==
  ASSUME NEW b \in Timeouts
  PROVE  {b.connect, b.first_byte, b.idle, b.total} \subseteq (Nat \ {0}) \cup {Infinite}
  BY ScriptAssumption DEF Budget

LEMMA DeadlineType ==
  ASSUME CallsOK, NEW c \in Calls
  PROVE  {PhaseDeadline(c), TotalDeadline(c)} \subseteq Nat \cup {Infinite}
<1>1. budgets[c] \in Timeouts /\ start[c] \in [call : Nat, chunk : Nat]
      /\ phase[c] \in {"connect", "first_byte", "body"}
  BY DEF CallsOK
<1> QED BY <1>1, BudgetType DEF PhaseDeadline, TotalDeadline, Deadline

LEMMA WakeTimeIs ==
  ASSUME SharedOK, CallsOK, NEW c \in Calls
  PROVE  /\ WakeTime(c) \in Nat
         /\ WakeTime(c) <= target[c]
         /\ WakeTime(c) <= now + Chunk
         /\ PhaseDeadline(c) # Infinite => WakeTime(c) <= PhaseDeadline(c)
         /\ TotalDeadline(c) # Infinite => WakeTime(c) <= TotalDeadline(c)
         /\ WakeTime(c) \in {target[c], now + Chunk, PhaseDeadline(c), TotalDeadline(c)}
<1> DEFINE S == {target[c], now + Chunk} \cup ({PhaseDeadline(c), TotalDeadline(c)} \ {Infinite})
<1>0. Chunk \in Nat /\ Infinite \notin Int
  BY ScriptAssumption
<1>1. target[c] \in Nat /\ now \in Nat /\ now + Chunk \in Nat
  BY <1>0 DEF SharedOK, CallsOK
<1>2. S \subseteq Nat /\ target[c] \in S
  BY <1>1, DeadlineType
<1>3. \E m \in S : \A n \in S : m <= n
  <2> DEFINE a == IF target[c] <= now + Chunk THEN target[c] ELSE now + Chunk
             d == IF PhaseDeadline(c) = Infinite \/ a <= PhaseDeadline(c) THEN a ELSE PhaseDeadline(c)
             e == IF TotalDeadline(c) = Infinite \/ d <= TotalDeadline(c) THEN d ELSE TotalDeadline(c)
  <2>1. a \in S /\ a <= target[c] /\ a <= now + Chunk
    BY <1>1
  <2>2. d \in S /\ d <= a /\ (PhaseDeadline(c) # Infinite => d <= PhaseDeadline(c))
    <3> HIDE DEF a
    <3> QED BY <1>0, <1>2, <2>1
  <2>3. e \in S /\ e <= d /\ (TotalDeadline(c) # Infinite => e <= TotalDeadline(c))
    BY <1>0, <1>2, <2>2
  <2> HIDE DEF a, d, e
  <2>4. \A n \in S : e <= n
    <3>1. ASSUME NEW n \in S PROVE e <= n
      <4>1. n \in Nat /\ {a, d, e, target[c], now + Chunk} \subseteq Nat
        BY <1>1, <1>2, <2>1, <2>2, <2>3
      <4>2. n = target[c] \/ n = now + Chunk \/ n = PhaseDeadline(c) \/ n = TotalDeadline(c)
        OBVIOUS
      <4> QED BY <1>0, <2>1, <2>2, <2>3, <4>1, <4>2
    <3> QED BY <3>1
  <2> QED BY <2>3, <2>4
<1> HIDE DEF S
<1>4. WakeTime(c) \in S /\ \A n \in S : WakeTime(c) <= n
  BY <1>3 DEF WakeTime, Minimum, S
<1> QED BY <1>1, <1>2, <1>4 DEF S

-----------------------------------------------------------------------------
(* Type correctness.                                                       *)

LEMMA ReturnType ==
  ASSUME CallsOK, NEW c \in Calls, NEW ts \in Results, Return(c, ts)
  PROVE  pc' \in [Calls -> {"new", "test", "wait", "landed", "told", "done"}]
         /\ result' \in [Calls -> Results]
  BY DEF CallsOK, Return

LEMMA EnterType ==
  ASSUME SharedOK, CallsOK, NEW c \in Calls, NEW ph \in {"connect", "first_byte", "body"},
         NEW d \in Nat, Enter(c, ph, d)
  PROVE  /\ pc' \in [Calls -> {"new", "test", "wait", "landed", "told", "done"}]
         /\ phase' \in [Calls -> {"connect", "first_byte", "body"}]
         /\ start' \in [Calls -> [call : Nat, chunk : Nat]]
         /\ target' \in [Calls -> Nat]
<1>1. now \in Nat /\ start[c] \in [call : Nat, chunk : Nat]
  BY DEF SharedOK, CallsOK
<1>2. start' = [start EXCEPT ![c] = [start[c] EXCEPT !.chunk = now]]
  BY DEF Enter
<1>4. [start[c] EXCEPT !.chunk = now] \in [call : Nat, chunk : Nat]
  BY <1>1
<1>3. start' \in [Calls -> [call : Nat, chunk : Nat]]
  BY <1>2, <1>4 DEF CallsOK
<1> QED BY <1>1, <1>3 DEF CallsOK, Enter

LEMMA VerdictType ==
  ASSUME CallsOK, NEW c \in Calls
  PROVE  Verdict(c) \in {"none", "OK", "CANCELLED", "TIMEOUT_TOTAL", "TIMEOUT_CONNECT",
                        "TIMEOUT_FIRST_BYTE", "TIMEOUT_IDLE"}
<1>1. TimeoutOf(phase[c]) \in {"TIMEOUT_CONNECT", "TIMEOUT_FIRST_BYTE", "TIMEOUT_IDLE"}
  BY DEF TimeoutOf, CallsOK
<1> QED BY <1>1, Zenon DEF Verdict

LEMMA TypeStep == TypeOK /\ [Next]_vars => TypeOK'
<1> SUFFICES ASSUME SharedOK, CallsOK, [Next]_vars PROVE SharedOK' /\ CallsOK'
  BY DEF TypeOK
<1> USE DEF perCall, seen, logs
<1>1. ASSUME NEW r \in Responses, Push(r) PROVE SharedOK' /\ CallsOK'
  <2>1. queue' \in Seq(Responses) /\ pushed' \in Seq(Responses)
    BY <1>1, AppendProperties DEF SharedOK, Push
  <2>2. CallsOK'
    BY <1>1 DEF CallsOK, Push
  <2> QED BY <1>1, <2>1, <2>2 DEF SharedOK, Push
<1>0. Grown \in Nat
  BY ScriptAssumption DEF Grown, SharedOK
<1>2. ASSUME NEW c \in Calls, Begin(c) PROVE SharedOK' /\ CallsOK'
  <2>1. log' \in Seq(Calls) /\ cap' \in Nat
    BY <1>0, <1>2 DEF SharedOK, Begin
  <2>2. CASE queue = <<>>
    <3>1. "CONNECT" \in Results /\ Return(c, "CONNECT") /\ UNCHANGED <<queue, perCall>>
      BY <1>2, <2>2 DEF Begin, Results, Statuses
    <3> QED BY <1>2, <2>1, <3>1, ReturnType DEF SharedOK, CallsOK, Begin
  <2>3. CASE queue # <<>>
    <3>0. queue' = Tail(queue)
      BY <1>2, <2>3 DEF Begin
    <3>1. Head(queue) \in Responses /\ queue' \in Seq(Responses)
      BY <2>3, <3>0, HeadTailProperties DEF SharedOK
    <3>2. Head(queue).connect_delay \in Nat
      BY <3>1, ResponseType
    <3>5. /\ resp' = [resp EXCEPT ![c] = Head(queue)]
          /\ start' = [start EXCEPT ![c] = [call |-> now, chunk |-> now]]
          /\ target' = [target EXCEPT ![c] = now + Head(queue).connect_delay]
          /\ pc' = [pc EXCEPT ![c] = "test"]
      BY <1>2, <2>3 DEF Begin
    <3>3. /\ resp' \in [Calls -> Responses \cup {Silent}]
          /\ start' \in [Calls -> [call : Nat, chunk : Nat]]
          /\ target' \in [Calls -> Nat]
          /\ pc' \in [Calls -> {"new", "test", "wait", "landed", "told", "done"}]
      <4>1. now \in Nat /\ [call |-> now, chunk |-> now] \in [call : Nat, chunk : Nat]
        BY DEF SharedOK
      <4>2. start' \in [Calls -> [call : Nat, chunk : Nat]]
        BY <3>5, <4>1 DEF CallsOK
      <4>3. target' \in [Calls -> Nat]
        BY <3>2, <3>5, <4>1 DEF CallsOK
      <4> QED BY <3>1, <3>5, <4>2, <4>3 DEF CallsOK
    <3>4. UNCHANGED <<phase, budgets, wake, result>>
      BY <1>2, <2>3 DEF Begin
    <3> QED BY <1>2, <2>1, <3>1, <3>3, <3>4 DEF SharedOK, CallsOK, Begin
  <2> QED BY <2>2, <2>3
<1>3. ASSUME NEW c \in Calls, BeginFails(c) PROVE SharedOK' /\ CallsOK'
  <2>1. "NOMEM" \in Results /\ Return(c, "NOMEM") /\ cap' \in Nat
    BY <1>0, <1>3 DEF SharedOK, BeginFails, Results, Statuses
  <2> QED BY <1>3, <2>1, ReturnType DEF SharedOK, CallsOK, BeginFails
<1>4. ASSUME NEW c \in Calls, CallStep(c) PROVE SharedOK' /\ CallsOK'
  <2>1. CASE Delay(c)
    BY <2>1, WakeTimeIs DEF SharedOK, CallsOK, Delay
  <2>2. CASE DelayEnds(c)
    BY <2>2 DEF SharedOK, CallsOK, DelayEnds
  <2>3. CASE DelayFails(c)
    <3>1. Verdict(c) \in Results
      BY VerdictType DEF Results, Statuses
    <3> QED BY <2>3, <3>1, ReturnType DEF SharedOK, CallsOK, DelayFails
  <2>4. CASE Wake(c)
    BY <2>4 DEF SharedOK, CallsOK, Wake, Return, Results
  <2>5. CASE ConnectLanded(c)
    <3>0. resp[c] \in Responses \cup {Silent}
      BY DEF CallsOK
    <3>1. resp[c].first_byte_delay \in Nat /\ resp[c].status \in Results
      BY <3>0, ResponseType DEF Results
    <3>2. CASE Return(c, resp[c].status) /\ UNCHANGED perCall
      BY <2>5, <3>1, <3>2, ReturnType DEF SharedOK, CallsOK, ConnectLanded
    <3>3. CASE Enter(c, "first_byte", resp[c].first_byte_delay) /\ UNCHANGED <<resp, budgets, wake, result>>
      BY <2>5, <3>1, <3>3, EnterType DEF SharedOK, CallsOK, ConnectLanded
    <3> QED BY <2>5, <3>2, <3>3 DEF ConnectLanded
  <2>6. ASSUME NEW refuse \in BOOLEAN, StatusLanded(c, refuse) PROVE SharedOK' /\ CallsOK'
    BY <2>6 DEF SharedOK, CallsOK, StatusLanded
  <2>7. ASSUME NEW refuse \in BOOLEAN, ChunkLanded(c, refuse) PROVE SharedOK' /\ CallsOK'
    <3>1. chunks' \in [Calls -> Nat]
      BY <2>7 DEF CallsOK, ChunkLanded
    <3> QED BY <2>7, <3>1 DEF SharedOK, CallsOK, ChunkLanded
  <2>8. CASE Proceed(c)
    <3>0. resp[c] \in Responses \cup {Silent}
      BY DEF CallsOK
    <3>1. resp[c].per_chunk_delay \in Nat /\ resp[c].status \in Results /\ "ABORTED_BY_SINK" \in Results
      BY <3>0, ResponseType DEF Results
    <3>2. ASSUME NEW ts \in {resp[c].status, "ABORTED_BY_SINK"}, Return(c, ts), UNCHANGED perCall
          PROVE  SharedOK' /\ CallsOK'
      BY <2>8, <3>1, <3>2, ReturnType DEF SharedOK, CallsOK, Proceed
    <3>3. CASE Enter(c, "body", resp[c].per_chunk_delay) /\ UNCHANGED <<resp, budgets, wake, result>>
      BY <2>8, <3>1, <3>3, EnterType DEF SharedOK, CallsOK, Proceed
    <3> QED BY <2>8, <3>2, <3>3 DEF Proceed
  <2> QED BY <1>4, <2>1, <2>2, <2>3, <2>4, <2>5, <2>6, <2>7, <2>8 DEF CallStep
<1>5. ASSUME NEW i \in 1..MaxRead, i <= Len(log), Snapshot(i) PROVE SharedOK' /\ CallsOK'
  <2>1. i \in Nat /\ i \in 1..Len(log)
    BY <1>5, ScriptAssumption
  <2>2. log[i] \in Calls
    BY <2>1 DEF SharedOK
  <2>3. snap' \in [index : Nat, call : Calls \cup {"none"}, array : Nat]
    BY <1>5, <2>1, <2>2 DEF Snapshot
  <2> QED BY <1>5, <2>3 DEF SharedOK, CallsOK, Snapshot
<1>6. ASSUME Trigger PROVE SharedOK' /\ CallsOK'
  BY <1>6 DEF SharedOK, CallsOK, Trigger
<1>7. ASSUME Tick PROVE SharedOK' /\ CallsOK'
  BY <1>7 DEF SharedOK, CallsOK, Tick
<1>8. ASSUME UNCHANGED vars PROVE SharedOK' /\ CallsOK'
  BY <1>8 DEF SharedOK, CallsOK, vars
<1> QED BY <1>1, <1>2, <1>3, <1>4, <1>5, <1>6, <1>7, <1>8 DEF Next, AllDone

LEMMA TypeInit == Init => TypeOK
<1> SUFFICES ASSUME Init PROVE SharedOK /\ CallsOK
  BY DEF TypeOK
<1>1. SharedOK
  <2>1. queue = <<>> /\ pushed = <<>> /\ log = <<>> /\ cap = 0 /\ now = 0
    BY DEF Init
  <2>2. snap \in [index : Nat, call : Calls \cup {"none"}, array : Nat]
    BY DEF Init, NoEntry
  <2>3. token \in BOOLEAN /\ (token => HasToken)
    BY DEF Init
  <2> QED BY <2>1, <2>2, <2>3, EmptySeq DEF SharedOK
<1>2. CallsOK
  BY DEF Init, CallsOK, Results
<1> QED BY <1>1, <1>2

(* script_perform, push and the snapshots keep every variable within its
   type. *)
THEOREM TypeCorrect == Spec => []TypeOK
  BY TypeInit, TypeStep, PTL DEF Spec

-----------------------------------------------------------------------------
(* The inductive invariant: what the life of each call has established.    *)

Playing == {"test", "wait", "landed", "told"}

(* The order of the callbacks, and the only ways to a result. *)
LifeInv(c) ==
  /\ result[c] = "none" <=> pc[c] # "done"
  /\ pc[c] = "new" => phase[c] = "connect" /\ ~told[c] /\ resp[c] = Silent
  /\ phase[c] # "body" => chunks[c] = 0
  /\ pc[c] \in Playing =>
       /\ told[c] <=> phase[c] = "body" \/ pc[c] = "told"
       /\ pc[c] = "told" => phase[c] # "connect"
  /\ refused[c] => HasSink /\ pc[c] \in {"told", "done"}

(* When the status line (n = 0) and the n-th chunk of r arrive, from the start
   of the call. *)
Arrives(r, n) == r.connect_delay + r.first_byte_delay + n * r.per_chunk_delay

UpTo(t, deadline) == deadline # Infinite => t <= deadline

(* The delay of a phase began when the last one was over, and nothing a
   running call waits for is behind it. *)
TimeInv(c) ==
  pc[c] \in Playing =>
    /\ phase[c] = "connect" =>
         /\ start[c].chunk = start[c].call
         /\ target[c] = start[c].call + resp[c].connect_delay
    /\ phase[c] = "first_byte" =>
         /\ start[c].chunk = start[c].call + resp[c].connect_delay
         /\ target[c] = start[c].call + Arrives(resp[c], 0)
    /\ phase[c] = "body" /\ pc[c] # "told" =>
         /\ start[c].chunk = start[c].call + Arrives(resp[c], chunks[c])
         /\ target[c] = start[c].call + Arrives(resp[c], chunks[c] + 1)
    /\ phase[c] = "body" /\ pc[c] = "told" =>
         target[c] = start[c].call + Arrives(resp[c], chunks[c])
    /\ pc[c] = "test" =>
         /\ start[c].chunk <= now /\ now <= target[c]
         /\ now = start[c].chunk \/ (UpTo(now, PhaseDeadline(c)) /\ UpTo(now, TotalDeadline(c)))
    /\ pc[c] = "wait" =>
         /\ start[c].chunk <= now /\ now <= wake[c] /\ wake[c] <= target[c]
         /\ UpTo(wake[c], PhaseDeadline(c)) /\ UpTo(wake[c], TotalDeadline(c))
    /\ pc[c] = "landed" => now = target[c] /\ ~Past(PhaseDeadline(c)) /\ ~Past(TotalDeadline(c))
    /\ pc[c] = "told" => now = target[c] /\ ~Past(TotalDeadline(c))

(* The parts of the response that came, came within their budgets. *)
PathInv(c) ==
  LET r == resp[c]
      b == budgets[c]
  IN  pc[c] \in Playing =>
        /\ phase[c] # "connect" =>
             /\ Before(r.connect_delay, b.connect) /\ Before(r.connect_delay, b.total)
             /\ r.status = "OK" \/ r.fail_after > 0
        /\ told[c] =>
             /\ Before(Arrives(r, 0), b.first_byte) /\ Before(Arrives(r, 0), b.total)
             /\ Before(Arrives(r, chunks[c]), b.total)
             /\ chunks[c] <= Body(r) /\ (pc[c] # "told" => chunks[c] < Body(r))
        /\ chunks[c] > 0 => Before(r.per_chunk_delay, b.idle)

(* EndsAsScripted, of one call. *)
EndInv(c) ==
  result[c] \notin {"none", "CANCELLED", "ABORTED_BY_SINK"} /\ resp[c] # Silent =>
    [result |-> result[c], chunks |-> chunks[c]] = Scripted(resp[c], budgets[c])

CallInv(c) == LifeInv(c) /\ TimeInv(c) /\ PathInv(c) /\ EndInv(c)

(* Who is in the log, and what the test holds of it. *)
LogInv ==
  /\ \A m, n \in DOMAIN log : log[m] = log[n] => m = n
  /\ \A n \in DOMAIN log : pc[log[n]] # "new"
  /\ snap # NoEntry => snap.array = 0 /\ snap.index \in DOMAIN log /\ log[snap.index] = snap.call

IInv == TypeOK /\ (\A c \in Calls : CallInv(c)) /\ LogInv /\ ServedInOrder

-----------------------------------------------------------------------------
(* What a step that is not its own leaves a call.                          *)

SameCall(d) ==
  /\ pc'[d] = pc[d] /\ phase'[d] = phase[d] /\ resp'[d] = resp[d] /\ budgets'[d] = budgets[d]
  /\ start'[d] = start[d] /\ target'[d] = target[d] /\ wake'[d] = wake[d]
  /\ told'[d] = told[d] /\ chunks'[d] = chunks[d] /\ refused'[d] = refused[d]
  /\ result'[d] = result[d]

LEMMA Frame ==
  ASSUME NEW d \in Calls, SameCall(d), now' = now, CallInv(d)
  PROVE  CallInv(d)'
<1> USE DEF SameCall
<1>1. LifeInv(d)'
  BY DEF CallInv, LifeInv
<1>2. TimeInv(d)'
  <2>1. PhaseDeadline(d)' = PhaseDeadline(d) /\ TotalDeadline(d)' = TotalDeadline(d)
    BY DEF PhaseDeadline, TotalDeadline, Deadline
  <2> QED BY <2>1 DEF CallInv, TimeInv, UpTo, Past, Arrives
<1>3. PathInv(d)'
  BY DEF CallInv, PathInv
<1>4. EndInv(d)'
  BY DEF CallInv, EndInv
<1> QED BY <1>1, <1>2, <1>3, <1>4 DEF CallInv

LEMMA OthersSame ==
  ASSUME CallsOK, NEW c \in Calls, Begin(c) \/ BeginFails(c) \/ CallStep(c),
         NEW d \in Calls \ {c}
  PROVE  SameCall(d) /\ now' = now
<1> USE DEF CallsOK, SameCall, perCall, seen, logs
<1>1. CASE Begin(c)
  BY <1>1 DEF Begin, Return
<1>2. CASE BeginFails(c)
  BY <1>2 DEF BeginFails, Return
<1>3. CASE Delay(c)
  BY <1>3 DEF Delay
<1>4. CASE DelayEnds(c)
  BY <1>4 DEF DelayEnds
<1>5. CASE DelayFails(c)
  BY <1>5 DEF DelayFails, Return
<1>6. CASE Wake(c)
  BY <1>6 DEF Wake, Return
<1>7. CASE ConnectLanded(c)
  BY <1>7 DEF ConnectLanded, Return, Enter
<1>8. CASE Proceed(c)
  BY <1>8 DEF Proceed, Return, Enter
<1>9. ASSUME NEW refuse \in BOOLEAN, StatusLanded(c, refuse) PROVE SameCall(d) /\ now' = now
  BY <1>9 DEF StatusLanded
<1>10. ASSUME NEW refuse \in BOOLEAN, ChunkLanded(c, refuse) PROVE SameCall(d) /\ now' = now
  BY <1>10 DEF ChunkLanded
<1> QED BY <1>1, <1>2, <1>3, <1>4, <1>5, <1>6, <1>7, <1>8, <1>9, <1>10 DEF CallStep

-----------------------------------------------------------------------------
(* What Scripted says of a response, case by case.                         *)

(* The numbers of a response and of its budgets. *)
LEMMA Numbers ==
  ASSUME NEW r \in Responses \cup {Silent}, NEW b \in Timeouts
  PROVE  /\ r.connect_delay \in Nat /\ r.first_byte_delay \in Nat /\ r.per_chunk_delay \in Nat
         /\ r.chunks \in Nat /\ r.fail_after \in Nat
         /\ Infinite \notin Int
         /\ b.connect = Infinite \/ b.connect \in Nat \ {0}
         /\ b.first_byte = Infinite \/ b.first_byte \in Nat \ {0}
         /\ b.idle = Infinite \/ b.idle \in Nat \ {0}
         /\ b.total = Infinite \/ b.total \in Nat \ {0}
  BY ResponseType, BudgetType, ScriptAssumption

LEMMA Monotone ==
  ASSUME NEW p \in Nat, NEW m \in Nat, NEW n \in Nat, m <= n
  PROVE  m * p <= n * p
<1>1. PICK k \in Nat : n = m + k
  <2>1. n - m \in Nat /\ n = m + (n - m)
    OBVIOUS
  <2> QED BY <2>1
<1>2. (m + k) * p = m * p + k * p /\ k * p \in Nat /\ m * p \in Nat
  OBVIOUS
<1> QED BY <1>1, <1>2

LEMMA ArrivesType ==
  ASSUME NEW r \in Responses \cup {Silent}
  PROVE  /\ \A n \in Nat : Arrives(r, n) \in Nat
         /\ Arrives(r, 0) = r.connect_delay + r.first_byte_delay
         /\ \A n \in Nat : Arrives(r, n + 1) = Arrives(r, n) + r.per_chunk_delay
         /\ \A m, n \in Nat : m <= n => Arrives(r, m) <= Arrives(r, n)
<1>1. r.connect_delay \in Nat /\ r.first_byte_delay \in Nat /\ r.per_chunk_delay \in Nat
  BY ResponseType
<1> DEFINE p == r.per_chunk_delay
           a == r.connect_delay + r.first_byte_delay
<1>2. p \in Nat /\ a \in Nat /\ \A n : Arrives(r, n) = a + n * p
  BY <1>1 DEF Arrives
<1> HIDE DEF p
<1>3. 0 * p = 0 /\ \A n \in Nat : n * p \in Nat
  BY <1>2
<1>4. \A n \in Nat : (n + 1) * p = n * p + p
  BY <1>2
<1>5. \A m, n \in Nat : m <= n => m * p <= n * p
  BY <1>2, Monotone
<1> HIDE DEF a
<1>6. Arrives(r, 0) = a /\ \A n \in Nat : Arrives(r, n) \in Nat
  BY <1>2, <1>3
<1>7. ASSUME NEW n \in Nat PROVE Arrives(r, n + 1) = Arrives(r, n) + p
  BY <1>2, <1>3, <1>4
<1>8. ASSUME NEW m \in Nat, NEW n \in Nat, m <= n PROVE Arrives(r, m) <= Arrives(r, n)
  <2>1. m * p \in Nat /\ n * p \in Nat /\ m * p <= n * p
    BY <1>3, <1>5, <1>8
  <2> QED BY <1>2, <2>1
<1> QED BY <1>6, <1>7, <1>8 DEF p, a

LEMMA ScriptedConnect ==
  ASSUME NEW r \in Responses \cup {Silent}, NEW b \in Timeouts
  PROVE  /\ b.connect # Infinite /\ b.connect <= r.connect_delay /\ UpTo(b.connect, b.total)
              => Scripted(r, b) = [result |-> "TIMEOUT_CONNECT", chunks |-> 0]
         /\ b.total # Infinite /\ b.total <= r.connect_delay /\ Before(b.total, b.connect)
              => Scripted(r, b) = [result |-> "TIMEOUT_TOTAL", chunks |-> 0]
         /\ Before(r.connect_delay, b.connect) /\ Before(r.connect_delay, b.total)
            /\ r.status # "OK" /\ r.fail_after = 0
              => Scripted(r, b) = [result |-> r.status, chunks |-> 0]
<1> USE Numbers DEF Before, UpTo, Least
<1>1. ASSUME b.connect # Infinite, b.connect <= r.connect_delay, UpTo(b.connect, b.total)
      PROVE  Scripted(r, b) = [result |-> "TIMEOUT_CONNECT", chunks |-> 0]
  BY <1>1 DEF Scripted
<1>2. ASSUME b.total # Infinite, b.total <= r.connect_delay, Before(b.total, b.connect)
      PROVE  Scripted(r, b) = [result |-> "TIMEOUT_TOTAL", chunks |-> 0]
  BY <1>2 DEF Scripted
<1>3. ASSUME Before(r.connect_delay, b.connect), Before(r.connect_delay, b.total),
             r.status # "OK", r.fail_after = 0
      PROVE  Scripted(r, b) = [result |-> r.status, chunks |-> 0]
  BY <1>3 DEF Scripted
<1> QED BY <1>1, <1>2, <1>3

LEMMA ScriptedFirstByte ==
  ASSUME NEW r \in Responses \cup {Silent}, NEW b \in Timeouts,
         Before(r.connect_delay, b.connect), Before(r.connect_delay, b.total),
         r.status = "OK" \/ r.fail_after > 0
  PROVE  /\ b.first_byte # Infinite /\ b.first_byte <= Arrives(r, 0) /\ UpTo(b.first_byte, b.total)
              => Scripted(r, b) = [result |-> "TIMEOUT_FIRST_BYTE", chunks |-> 0]
         /\ b.total # Infinite /\ b.total <= Arrives(r, 0) /\ Before(b.total, b.first_byte)
              => Scripted(r, b) = [result |-> "TIMEOUT_TOTAL", chunks |-> 0]
<1>1. Arrives(r, 0) = r.connect_delay + r.first_byte_delay
  BY ArrivesType
<1> USE Numbers DEF Before, UpTo, Least
<1>2. ASSUME b.first_byte # Infinite, b.first_byte <= Arrives(r, 0), UpTo(b.first_byte, b.total)
      PROVE  Scripted(r, b) = [result |-> "TIMEOUT_FIRST_BYTE", chunks |-> 0]
  BY <1>1, <1>2 DEF Scripted
<1>3. ASSUME b.total # Infinite, b.total <= Arrives(r, 0), Before(b.total, b.first_byte)
      PROVE  Scripted(r, b) = [result |-> "TIMEOUT_TOTAL", chunks |-> 0]
  BY <1>1, <1>3 DEF Scripted
<1> QED BY <1>2, <1>3

(* The chunks that come too late, and what Scripted says once the status line
   has come. *)
IdleLimit(r, b) ==
  IF Before(r.per_chunk_delay, b.idle) THEN Infinite ELSE Arrives(r, 0) + b.idle

Missed(r, b) == {n \in 1..Body(r) : ~Before(Arrives(r, n), Least(IdleLimit(r, b), b.total))}

LEMMA ScriptedBody ==
  ASSUME NEW r \in Responses \cup {Silent}, NEW b \in Timeouts,
         Before(r.connect_delay, b.connect), Before(r.connect_delay, b.total),
         r.status = "OK" \/ r.fail_after > 0,
         Before(Arrives(r, 0), b.first_byte), Before(Arrives(r, 0), b.total)
  PROVE  Scripted(r, b) =
           IF Missed(r, b) = {} THEN [result |-> r.status, chunks |-> Body(r)]
           ELSE [result |-> IF Least(IdleLimit(r, b), b.total) = IdleLimit(r, b)
                            THEN "TIMEOUT_IDLE" ELSE "TIMEOUT_TOTAL",
                 chunks |-> Minimum(Missed(r, b)) - 1]
<1> DEFINE arrival == r.connect_delay + r.first_byte_delay
           idle == IF Before(r.per_chunk_delay, b.idle) THEN Infinite ELSE arrival + b.idle
           cut == IF r.status # "OK" /\ r.fail_after < r.chunks THEN r.fail_after ELSE r.chunks
           missed == {n \in 1..cut : ~Before(arrival + n * r.per_chunk_delay, Least(idle, b.total))}
<1>1. Arrives(r, 0) = arrival
  BY ArrivesType
<1>2. idle = IdleLimit(r, b)
  BY <1>1 DEF IdleLimit
<1>3. cut = Body(r)
  BY Numbers DEF Body
<1>4. missed = Missed(r, b)
  BY <1>2, <1>3 DEF Missed, Arrives
<1>5. /\ Before(r.connect_delay, Least(b.connect, b.total))
      /\ Before(arrival, Least(b.first_byte, b.total))
      /\ ~(r.status # "OK" /\ r.fail_after = 0)
  BY <1>1, Numbers DEF Before, Least
<1>6. Scripted(r, b) =
        IF missed = {} THEN [result |-> r.status, chunks |-> cut]
        ELSE [result |-> IF Least(idle, b.total) = idle THEN "TIMEOUT_IDLE" ELSE "TIMEOUT_TOTAL",
              chunks |-> Minimum(missed) - 1]
  BY <1>5, Zenon DEF Scripted
<1> HIDE DEF idle, cut, missed
<1> QED BY <1>2, <1>3, <1>4, <1>6

LEMMA MinimumIs ==
  ASSUME NEW S \in SUBSET Nat, NEW m \in S, \A n \in S : m <= n
  PROVE  Minimum(S) = m
<1>1. Minimum(S) \in S /\ \A n \in S : Minimum(S) <= n
  BY DEF Minimum
<1>2. Minimum(S) <= m /\ m <= Minimum(S) /\ Minimum(S) \in Nat /\ m \in Nat
  BY <1>1
<1> QED BY <1>2

LEMMA BodyType == ASSUME NEW r \in Responses \cup {Silent} PROVE Body(r) \in Nat
  BY ResponseType DEF Body

(* The last chunk came: so did all the others. *)
LEMMA ScriptedWhole ==
  ASSUME NEW r \in Responses \cup {Silent}, NEW b \in Timeouts,
         Before(Arrives(r, Body(r)), b.total),
         Body(r) > 0 => Before(r.per_chunk_delay, b.idle)
  PROVE  Missed(r, b) = {}
<1> SUFFICES ASSUME NEW n \in 1..Body(r) PROVE Before(Arrives(r, n), Least(IdleLimit(r, b), b.total))
  BY DEF Missed
<1>1. Body(r) \in Nat /\ n \in Nat /\ n <= Body(r) /\ Body(r) > 0
  BY BodyType
<1>2. Arrives(r, n) <= Arrives(r, Body(r)) /\ Arrives(r, n) \in Nat /\ Arrives(r, Body(r)) \in Nat
  BY <1>1, ArrivesType
<1>3. IdleLimit(r, b) = Infinite
  BY <1>1 DEF IdleLimit
<1> QED BY <1>2, <1>3, Numbers DEF Before, Least

(* The idle budget runs out on the first chunk or never. *)
LEMMA ScriptedIdle ==
  ASSUME NEW r \in Responses \cup {Silent}, NEW b \in Timeouts, Body(r) > 0,
         b.idle # Infinite, b.idle <= r.per_chunk_delay, UpTo(Arrives(r, 0) + b.idle, b.total)
  PROVE  /\ Missed(r, b) # {} /\ Minimum(Missed(r, b)) = 1
         /\ Least(IdleLimit(r, b), b.total) = IdleLimit(r, b)
<1>1. /\ Arrives(r, 0) \in Nat /\ Arrives(r, 1) = Arrives(r, 0) + r.per_chunk_delay
      /\ Body(r) \in Nat
  <2>1. Arrives(r, 0 + 1) = Arrives(r, 0) + r.per_chunk_delay /\ Arrives(r, 0) \in Nat
    BY ArrivesType
  <2> QED BY <2>1, BodyType
<1>2. IdleLimit(r, b) = Arrives(r, 0) + b.idle
  BY Numbers DEF IdleLimit, Before
<1>3. Least(IdleLimit(r, b), b.total) = IdleLimit(r, b)
  BY <1>1, <1>2, Numbers DEF Least, UpTo
<1>4. ~Before(Arrives(r, 1), IdleLimit(r, b))
  BY <1>1, <1>2, Numbers DEF Before
<1>5. 1 \in Missed(r, b) /\ Missed(r, b) \in SUBSET Nat /\ \A n \in Missed(r, b) : 1 <= n
  BY <1>1, <1>3, <1>4 DEF Missed
<1> QED BY <1>3, <1>5, MinimumIs

(* The total budget runs out before chunk k + 1, after chunk k. *)
LEMMA ScriptedTotal ==
  ASSUME NEW r \in Responses \cup {Silent}, NEW b \in Timeouts, NEW k \in Nat, k < Body(r),
         b.total # Infinite, Arrives(r, k) < b.total, b.total <= Arrives(r, k + 1),
         Before(b.total, IdleLimit(r, b))
  PROVE  /\ Missed(r, b) # {} /\ Minimum(Missed(r, b)) = k + 1
         /\ Least(IdleLimit(r, b), b.total) # IdleLimit(r, b)
<1>0. /\ b.total \in Nat /\ Infinite \notin Int
      /\ b.idle = Infinite \/ b.idle \in Nat
  BY Numbers
<1>1. Body(r) \in Nat /\ \A n \in Nat : Arrives(r, n) \in Nat
  BY BodyType, ArrivesType
<1>2. IdleLimit(r, b) = Infinite \/ IdleLimit(r, b) \in Nat
  <2>1. b.idle # Infinite => Arrives(r, 0) + b.idle \in Nat
    BY <1>0, <1>1
  <2>2. b.idle = Infinite => Before(r.per_chunk_delay, b.idle)
    BY DEF Before
  <2> QED BY <2>1, <2>2 DEF IdleLimit
<1>3. Least(IdleLimit(r, b), b.total) = b.total /\ IdleLimit(r, b) # b.total
  BY <1>0, <1>2 DEF Least, Before
<1>4. k + 1 \in Missed(r, b)
  <2>1. ~Before(Arrives(r, k + 1), b.total)
    <3>1. Arrives(r, k + 1) \in Nat
      BY <1>1
    <3> QED BY <1>0, <3>1 DEF Before
  <2> QED BY <1>1, <1>3, <2>1 DEF Missed
<1>5. ASSUME NEW n \in Missed(r, b) PROVE n \in Nat /\ k + 1 <= n
  <2>1. n \in 1..Body(r) /\ ~Before(Arrives(r, n), b.total)
    BY <1>3 DEF Missed
  <2>2. n \in Nat /\ Arrives(r, n) \in Nat
    BY <1>1, <2>1
  <2>3. ~(Arrives(r, n) <= Arrives(r, k))
    <3>1. Arrives(r, k) \in Nat /\ b.total <= Arrives(r, n)
      BY <1>0, <1>1, <2>1, <2>2 DEF Before
    <3> QED BY <1>0, <2>2, <3>1
  <2>4. ~(n <= k)
    BY <2>2, <2>3, ArrivesType
  <2> QED BY <2>2, <2>4
<1>6. Missed(r, b) \in SUBSET Nat
  BY <1>5
<1>7. Minimum(Missed(r, b)) = k + 1
  BY <1>4, <1>5, <1>6, MinimumIs
<1> QED BY <1>3, <1>4, <1>7

-----------------------------------------------------------------------------
(* The steps of a call keep what it has established.                       *)

LEMMA CallTypes ==
  ASSUME TypeOK, NEW c \in Calls
  PROVE  /\ resp[c] \in Responses \cup {Silent} /\ budgets[c] \in Timeouts
         /\ start[c].call \in Nat /\ start[c].chunk \in Nat /\ target[c] \in Nat /\ wake[c] \in Nat
         /\ now \in Nat /\ chunks[c] \in Nat /\ told[c] \in BOOLEAN /\ refused[c] \in BOOLEAN
         /\ phase[c] \in {"connect", "first_byte", "body"}
         /\ PhaseDeadline(c) \in Nat \cup {Infinite} /\ TotalDeadline(c) \in Nat \cup {Infinite}
         /\ Infinite \notin Int
<1>1. start[c] \in [call : Nat, chunk : Nat]
  BY DEF TypeOK, CallsOK
<1>2. Infinite \notin Int
  BY ScriptAssumption
<1> QED BY <1>1, <1>2, DeadlineType DEF TypeOK, SharedOK, CallsOK

LEMMA BeginKeeps ==
  ASSUME TypeOK, NEW c \in Calls, CallInv(c), Begin(c) \/ BeginFails(c)
  PROVE  CallInv(c)'
<1>0. LifeInv(c) /\ pc[c] = "new"
  BY DEF CallInv, Begin, BeginFails
<1>1. CASE pc'[c] = "done" /\ resp'[c] = Silent /\ result'[c] # "none"
  <2>1. phase'[c] = phase[c] /\ chunks'[c] = chunks[c] /\ refused'[c] = refused[c]
    BY <1>0, <1>1 DEF Begin, BeginFails, perCall, TypeOK, CallsOK
  <2> QED BY <1>0, <1>1, <2>1 DEF CallInv, LifeInv, TimeInv, PathInv, EndInv, Playing
<1>2. CASE Begin(c) /\ queue # <<>>
  <2>1. /\ pc'[c] = "test" /\ resp'[c] = Head(queue)
        /\ start'[c] = [call |-> now, chunk |-> now] /\ target'[c] = now + Head(queue).connect_delay
        /\ phase' = phase /\ result' = result /\ chunks' = chunks /\ told' = told
        /\ refused' = refused /\ now' = now
    BY <1>2 DEF Begin, TypeOK, CallsOK
  <2>2. Head(queue) \in Responses
    BY <1>2, HeadTailProperties DEF TypeOK, SharedOK
  <2>3. Head(queue).connect_delay \in Nat /\ now \in Nat
    BY <2>2, ResponseType DEF TypeOK, SharedOK
  <2>4. phase[c] = "connect" /\ ~told[c] /\ chunks[c] = 0 /\ result[c] = "none" /\ ~refused[c]
    BY <1>0 DEF LifeInv
  <2>5. LifeInv(c)'
    BY <2>1, <2>4 DEF LifeInv, Playing
  <2>6. TimeInv(c)'
    BY <2>1, <2>3, <2>4 DEF TimeInv, Playing
  <2>7. PathInv(c)' /\ EndInv(c)'
    BY <2>1, <2>4 DEF PathInv, EndInv
  <2> QED BY <2>5, <2>6, <2>7 DEF CallInv
<1>3. ASSUME BeginFails(c) \/ (Begin(c) /\ queue = <<>>)
      PROVE  pc'[c] = "done" /\ resp'[c] = Silent /\ result'[c] # "none"
  BY <1>0, <1>3 DEF Begin, BeginFails, Return, perCall, LifeInv, TypeOK, CallsOK
<1> QED BY <1>1, <1>2, <1>3

LEMMA DelayKeeps ==
  ASSUME TypeOK, NEW c \in Calls, CallInv(c), Delay(c) \/ DelayEnds(c)
  PROVE  CallInv(c)'
<1>1. /\ pc[c] = "test" /\ UNCHANGED <<now, phase, resp, budgets, start, target, told, chunks, refused, result>>
      /\ pc'[c] = IF Delay(c) THEN "wait" ELSE "landed"
      /\ Delay(c) => wake'[c] = WakeTime(c) /\ Verdict(c) = "none"
      /\ ~Delay(c) => Verdict(c) = "OK"
  BY DEF Delay, DelayEnds, perCall, seen, TypeOK, CallsOK
<1>2. /\ ~Past(PhaseDeadline(c)) /\ ~Past(TotalDeadline(c))
      /\ Delay(c) => ~(now >= target[c])
      /\ ~Delay(c) => now >= target[c]
  <2>1. TimeoutOf(phase[c]) \notin {"none", "OK"}
    BY CallTypes DEF TimeoutOf
  <2> QED BY <1>1, <2>1 DEF Verdict
<1>3. PhaseDeadline(c)' = PhaseDeadline(c) /\ TotalDeadline(c)' = TotalDeadline(c)
  BY <1>1 DEF PhaseDeadline, TotalDeadline, Deadline
<1>4. start[c].chunk <= now /\ now <= target[c]
  BY <1>1 DEF CallInv, TimeInv, Playing
<1>5. LifeInv(c)' /\ PathInv(c)' /\ EndInv(c)'
  BY <1>1 DEF CallInv, LifeInv, PathInv, EndInv, Playing
<1>6. Past(PhaseDeadline(c))' = Past(PhaseDeadline(c)) /\ Past(TotalDeadline(c))' = Past(TotalDeadline(c))
  BY <1>1, <1>3 DEF Past
<1>7. CASE Delay(c)
  <2>1. now <= WakeTime(c) /\ WakeTime(c) <= target[c]
        /\ UpTo(WakeTime(c), PhaseDeadline(c)) /\ UpTo(WakeTime(c), TotalDeadline(c))
    <3>1. Chunk \in Nat
      BY ScriptAssumption
    <3> QED BY <1>2, <1>7, <3>1, CallTypes, WakeTimeIs DEF TypeOK, UpTo, Past
  <2>2. TimeInv(c)'
    BY <1>1, <1>3, <1>4, <1>7, <2>1 DEF CallInv, TimeInv, Playing, UpTo
  <2> QED BY <1>5, <2>2 DEF CallInv
<1>8. CASE ~Delay(c)
  <2>1. now = target[c]
    BY <1>2, <1>4, <1>8, CallTypes
  <2>2. TimeInv(c)'
    BY <1>1, <1>2, <1>6, <1>8, <2>1 DEF CallInv, TimeInv, Playing
  <2> QED BY <1>5, <2>2 DEF CallInv
<1> QED BY <1>7, <1>8

(* Where a delay stands when a deadline is behind it. *)
LEMMA DelayFailsKeeps ==
  ASSUME TypeOK, NEW c \in Calls, CallInv(c), DelayFails(c)
  PROVE  CallInv(c)'
<1> DEFINE r == resp[c]
           b == budgets[c]
           s == start[c].call
<1>1. /\ pc[c] = "test" /\ pc'[c] = "done" /\ result'[c] = Verdict(c)
      /\ Verdict(c) \notin {"none", "OK"}
      /\ UNCHANGED <<phase, resp, budgets, start, target, wake, told, chunks, refused>>
  BY DEF DelayFails, Return, perCall, TypeOK, CallsOK
<1>2. LifeInv(c)' /\ TimeInv(c)' /\ PathInv(c)'
  BY <1>1 DEF CallInv, LifeInv, TimeInv, PathInv, Playing
<1>3. /\ r \in Responses \cup {Silent} /\ b \in Timeouts /\ s \in Nat /\ chunks[c] \in Nat
      /\ now \in Nat /\ start[c].chunk \in Nat /\ Infinite \notin Int
  BY CallTypes
<1>4. /\ now <= target[c] /\ target[c] \in Nat
      /\ now = start[c].chunk \/ (UpTo(now, PhaseDeadline(c)) /\ UpTo(now, TotalDeadline(c)))
  BY <1>1, CallTypes DEF CallInv, TimeInv, Playing
<1>5. SUFFICES ASSUME Verdict(c) # "CANCELLED"
               PROVE  Scripted(r, b) = [result |-> Verdict(c), chunks |-> chunks[c]]
  <2>1. Verdict(c) = "CANCELLED" => EndInv(c)'
    BY <1>1 DEF EndInv
  <2>2. ASSUME Scripted(r, b) = [result |-> Verdict(c), chunks |-> chunks[c]] PROVE EndInv(c)'
    BY <1>1, <2>2 DEF EndInv
  <2> QED BY <1>2, <2>1, <2>2 DEF CallInv
<1>6. \/ Past(PhaseDeadline(c)) /\ Verdict(c) = TimeoutOf(phase[c])
      \/ ~Past(PhaseDeadline(c)) /\ Past(TotalDeadline(c)) /\ Verdict(c) = "TIMEOUT_TOTAL"
  BY <1>1, <1>5 DEF Verdict
<1> HIDE DEF r, b, s
<1>7. CASE phase[c] = "connect"
  <2>1. /\ PhaseDeadline(c) = IF b.connect = Infinite THEN Infinite ELSE s + b.connect
        /\ TotalDeadline(c) = IF b.total = Infinite THEN Infinite ELSE s + b.total
    BY <1>7 DEF PhaseDeadline, TotalDeadline, Deadline, b, s
  <2>2. start[c].chunk = s /\ target[c] = s + r.connect_delay /\ chunks[c] = 0
    BY <1>1, <1>7 DEF CallInv, TimeInv, LifeInv, Playing, r, s
  <2>3. \/ /\ b.connect # Infinite /\ b.connect <= r.connect_delay /\ UpTo(b.connect, b.total)
           /\ Verdict(c) = "TIMEOUT_CONNECT"
        \/ /\ b.total # Infinite /\ b.total <= r.connect_delay /\ Before(b.total, b.connect)
           /\ Verdict(c) = "TIMEOUT_TOTAL"
    <3>1. /\ r.connect_delay \in Nat
          /\ b.connect = Infinite \/ b.connect \in Nat \ {0}
          /\ b.total = Infinite \/ b.total \in Nat \ {0}
      BY <1>3, Numbers
    <3>2. TimeoutOf(phase[c]) = "TIMEOUT_CONNECT"
      BY <1>7 DEF TimeoutOf
    <3> QED BY <1>3, <1>4, <1>6, <2>1, <2>2, <3>1, <3>2 DEF Past, UpTo, Before
  <2> QED BY <1>3, <2>2, <2>3, ScriptedConnect
<1>8. CASE phase[c] = "first_byte"
  <2>1. /\ PhaseDeadline(c) = IF b.first_byte = Infinite THEN Infinite ELSE s + b.first_byte
        /\ TotalDeadline(c) = IF b.total = Infinite THEN Infinite ELSE s + b.total
    BY <1>8 DEF PhaseDeadline, TotalDeadline, Deadline, b, s
  <2>2. /\ start[c].chunk = s + r.connect_delay /\ target[c] = s + Arrives(r, 0) /\ chunks[c] = 0
        /\ Before(r.connect_delay, b.connect) /\ Before(r.connect_delay, b.total)
        /\ r.status = "OK" \/ r.fail_after > 0
    BY <1>1, <1>8 DEF CallInv, TimeInv, LifeInv, PathInv, Playing, r, s, b
  <2>3. \/ /\ b.first_byte # Infinite /\ b.first_byte <= Arrives(r, 0) /\ UpTo(b.first_byte, b.total)
           /\ Verdict(c) = "TIMEOUT_FIRST_BYTE"
        \/ /\ b.total # Infinite /\ b.total <= Arrives(r, 0) /\ Before(b.total, b.first_byte)
           /\ Verdict(c) = "TIMEOUT_TOTAL"
    <3>1. /\ r.connect_delay \in Nat /\ Arrives(r, 0) \in Nat
          /\ b.first_byte = Infinite \/ b.first_byte \in Nat \ {0}
          /\ b.total = Infinite \/ b.total \in Nat \ {0}
      BY <1>3, Numbers, ArrivesType
    <3>2. TimeoutOf(phase[c]) = "TIMEOUT_FIRST_BYTE"
      BY <1>8 DEF TimeoutOf
    <3> QED BY <1>3, <1>4, <1>6, <2>1, <2>2, <3>1, <3>2 DEF Past, UpTo, Before
  <2> QED BY <1>3, <2>2, <2>3, ScriptedFirstByte
<1>9. CASE phase[c] = "body"
  <2> DEFINE k == chunks[c]
  <2>1. /\ PhaseDeadline(c) = IF b.idle = Infinite THEN Infinite ELSE start[c].chunk + b.idle
        /\ TotalDeadline(c) = IF b.total = Infinite THEN Infinite ELSE s + b.total
    BY <1>9 DEF PhaseDeadline, TotalDeadline, Deadline, b, s
  <2>2. /\ start[c].chunk = s + Arrives(r, k) /\ target[c] = s + Arrives(r, k + 1)
        /\ Before(r.connect_delay, b.connect) /\ Before(r.connect_delay, b.total)
        /\ r.status = "OK" \/ r.fail_after > 0
        /\ Before(Arrives(r, 0), b.first_byte) /\ Before(Arrives(r, 0), b.total)
        /\ Before(Arrives(r, k), b.total) /\ k < Body(r)
        /\ k > 0 => Before(r.per_chunk_delay, b.idle)
    BY <1>1, <1>9 DEF CallInv, TimeInv, LifeInv, PathInv, Playing, r, s, b
  <2>3. /\ r.per_chunk_delay \in Nat /\ Arrives(r, 0) \in Nat /\ Arrives(r, k) \in Nat
        /\ Arrives(r, k + 1) = Arrives(r, k) + r.per_chunk_delay
        /\ b.idle = Infinite \/ b.idle \in Nat \ {0}
        /\ b.total = Infinite \/ b.total \in Nat \ {0}
        /\ Body(r) \in Nat /\ k \in Nat
    BY <1>3, Numbers, ArrivesType, BodyType
  <2>4. TimeoutOf(phase[c]) = "TIMEOUT_IDLE"
    BY <1>9 DEF TimeoutOf
  <2> HIDE DEF k
  <2>5. \/ /\ b.idle # Infinite /\ b.idle <= r.per_chunk_delay /\ UpTo(Arrives(r, k) + b.idle, b.total)
           /\ Verdict(c) = "TIMEOUT_IDLE"
        \/ /\ b.total # Infinite /\ Arrives(r, k) < b.total /\ b.total <= Arrives(r, k + 1)
           /\ b.idle = Infinite \/ b.total < Arrives(r, k) + b.idle
           /\ Verdict(c) = "TIMEOUT_TOTAL"
    BY <1>3, <1>4, <1>6, <2>1, <2>2, <2>3, <2>4 DEF Past, UpTo, Before
  <2>6. Scripted(r, b) =
           IF Missed(r, b) = {} THEN [result |-> r.status, chunks |-> Body(r)]
           ELSE [result |-> IF Least(IdleLimit(r, b), b.total) = IdleLimit(r, b)
                            THEN "TIMEOUT_IDLE" ELSE "TIMEOUT_TOTAL",
                 chunks |-> Minimum(Missed(r, b)) - 1]
    BY <1>3, <2>2, ScriptedBody
  <2>7. CASE Verdict(c) = "TIMEOUT_IDLE"
    <3>1. k = 0
      BY <1>3, <2>2, <2>3, <2>5, <2>7 DEF Before
    <3>2. /\ Missed(r, b) # {} /\ Minimum(Missed(r, b)) = 1
          /\ Least(IdleLimit(r, b), b.total) = IdleLimit(r, b)
      BY <1>3, <2>2, <2>3, <2>5, <2>7, <3>1, ScriptedIdle
    <3> QED BY <2>6, <2>7, <3>1, <3>2 DEF k
  <2>8. CASE Verdict(c) = "TIMEOUT_TOTAL"
    <3>1. Before(b.total, IdleLimit(r, b))
      <4>1. CASE k = 0
        BY <1>3, <2>3, <2>5, <2>8, <4>1 DEF IdleLimit, Before
      <4>2. CASE k # 0
        BY <2>2, <2>3, <4>2 DEF IdleLimit, Before
      <4> QED BY <4>1, <4>2
    <3>2. /\ Missed(r, b) # {} /\ Minimum(Missed(r, b)) = k + 1
          /\ Least(IdleLimit(r, b), b.total) # IdleLimit(r, b)
      BY <1>3, <2>2, <2>3, <2>5, <2>8, <3>1, ScriptedTotal
    <3>3. Minimum(Missed(r, b)) - 1 = k
      BY <2>3, <3>2
    <3> QED BY <2>6, <2>8, <3>2, <3>3 DEF k
  <2> QED BY <2>5, <2>7, <2>8
<1> QED BY <1>7, <1>8, <1>9, CallTypes

LEMMA WakeKeeps ==
  ASSUME TypeOK, NEW c \in Calls, CallInv(c), Wake(c)
  PROVE  CallInv(c)'
<1>1. /\ pc[c] = "wait"
      /\ UNCHANGED <<now, phase, resp, budgets, start, target, wake, told, chunks, refused>>
      /\ \/ pc'[c] = "done" /\ result'[c] = "CANCELLED"
         \/ now >= wake[c] /\ pc'[c] = "test" /\ result'[c] = result[c]
  BY DEF Wake, Return, perCall, TypeOK, CallsOK
<1>2. PhaseDeadline(c)' = PhaseDeadline(c) /\ TotalDeadline(c)' = TotalDeadline(c)
  BY <1>1 DEF PhaseDeadline, TotalDeadline, Deadline
<1>3. LifeInv(c)' /\ PathInv(c)' /\ EndInv(c)'
  BY <1>1 DEF CallInv, LifeInv, PathInv, EndInv, Playing
<1>4. CASE pc'[c] = "done"
  BY <1>3, <1>4 DEF CallInv, TimeInv, Playing
<1>5. CASE now >= wake[c] /\ pc'[c] = "test"
  <2>1. now = wake[c]
    BY <1>1, <1>5, CallTypes DEF CallInv, TimeInv, Playing
  <2>2. TimeInv(c)'
    BY <1>1, <1>2, <1>5, <2>1 DEF CallInv, TimeInv, Playing, UpTo
  <2> QED BY <1>3, <2>2 DEF CallInv
<1> QED BY <1>1, <1>4, <1>5

LEMMA EnterIs ==
  ASSUME TypeOK, NEW c \in Calls, NEW ph, NEW d, Enter(c, ph, d)
  PROVE  /\ pc'[c] = "test" /\ phase'[c] = ph /\ target'[c] = now + d
         /\ start'[c].chunk = now /\ start'[c].call = start[c].call
<1>1. start[c] \in [call : Nat, chunk : Nat] /\ start'[c] = [start[c] EXCEPT !.chunk = now]
  BY DEF TypeOK, CallsOK, Enter
<1>2. start'[c].chunk = now /\ start'[c].call = start[c].call
  BY <1>1
<1> QED BY <1>2 DEF TypeOK, CallsOK, Enter

LEMMA ConnectLandedKeeps ==
  ASSUME TypeOK, NEW c \in Calls, CallInv(c), ConnectLanded(c)
  PROVE  CallInv(c)'
<1> DEFINE r == resp[c]
           b == budgets[c]
<1>1. /\ pc[c] = "landed" /\ phase[c] = "connect" /\ ~told[c] /\ chunks[c] = 0 /\ ~refused[c]
      /\ UNCHANGED <<now, resp, budgets, wake, told, chunks, refused>>
      /\ now = start[c].call + r.connect_delay /\ result[c] = "none"
      /\ ~Past(PhaseDeadline(c)) /\ ~Past(TotalDeadline(c))
  BY DEF ConnectLanded, CallInv, LifeInv, TimeInv, Playing, perCall
<1>2. /\ r \in Responses \cup {Silent} /\ b \in Timeouts /\ start[c].call \in Nat /\ now \in Nat
      /\ r.connect_delay \in Nat
  BY CallTypes, Numbers
<1>3. Before(r.connect_delay, b.connect) /\ Before(r.connect_delay, b.total)
  BY <1>1, <1>2, Numbers DEF PhaseDeadline, TotalDeadline, Deadline, Past, Before
<1>4. CASE r.status # "OK" /\ r.fail_after = 0
  <2>1. pc'[c] = "done" /\ result'[c] = r.status
    BY <1>4 DEF ConnectLanded, Return, TypeOK, CallsOK
  <2>2. phase' = phase /\ r.status # "none"
    <3>1. r.status \in Statuses
      BY <1>2, ResponseType
    <3> QED BY <1>4, <3>1 DEF ConnectLanded, perCall, Statuses
  <2>3. Scripted(r, b) = [result |-> r.status, chunks |-> 0]
    BY <1>2, <1>3, <1>4, ScriptedConnect
  <2>4. LifeInv(c)' /\ TimeInv(c)' /\ PathInv(c)'
    BY <1>1, <2>1, <2>2 DEF LifeInv, TimeInv, PathInv, Playing
  <2>5. EndInv(c)'
    BY <1>1, <2>1, <2>3 DEF EndInv
  <2> QED BY <2>4, <2>5 DEF CallInv
<1>5. CASE r.status = "OK" \/ r.fail_after # 0
  <2>1. Enter(c, "first_byte", r.first_byte_delay) /\ result' = result
    BY <1>5 DEF ConnectLanded
  <2>2. /\ pc'[c] = "test" /\ phase'[c] = "first_byte" /\ target'[c] = now + r.first_byte_delay
        /\ start'[c].chunk = now /\ start'[c].call = start[c].call
    BY <2>1, EnterIs
  <2>3. r.status = "OK" \/ r.fail_after > 0
    BY <1>2, <1>5, Numbers
  <2>4. LifeInv(c)' /\ EndInv(c)'
    BY <1>1, <2>1, <2>2 DEF LifeInv, EndInv, Playing
  <2>5. PathInv(c)'
    BY <1>1, <1>3, <2>2, <2>3 DEF PathInv
  <2>6. r.first_byte_delay \in Nat /\ Arrives(r, 0) = r.connect_delay + r.first_byte_delay
    BY <1>2, Numbers, ArrivesType
  <2>7. TimeInv(c)'
    <3>1. Arrives(resp[c], 0)' = Arrives(r, 0)
      BY <1>1 DEF Arrives
    <3> QED BY <1>1, <1>2, <2>2, <2>6, <3>1 DEF TimeInv, Playing
  <2> QED BY <2>4, <2>5, <2>7 DEF CallInv
<1> QED BY <1>4, <1>5

LEMMA CallbackKeeps ==
  ASSUME TypeOK, NEW c \in Calls, CallInv(c), NEW refuse \in BOOLEAN,
         StatusLanded(c, refuse) \/ ChunkLanded(c, refuse)
  PROVE  CallInv(c)'
<1> DEFINE r == resp[c]
           b == budgets[c]
<1>1. /\ pc[c] = "landed" /\ pc'[c] = "told" /\ (refuse => HasSink) /\ refused'[c] = refuse
      /\ UNCHANGED <<now, phase, resp, budgets, start, target, wake, result>>
      /\ now = target[c] /\ ~Past(PhaseDeadline(c)) /\ ~Past(TotalDeadline(c))
  BY DEF StatusLanded, ChunkLanded, CallInv, TimeInv, Playing, perCall, TypeOK, CallsOK
<1>2. /\ r \in Responses \cup {Silent} /\ b \in Timeouts /\ start[c].call \in Nat /\ now \in Nat
      /\ chunks[c] \in Nat
  BY CallTypes
<1>3. TotalDeadline(c)' = TotalDeadline(c) /\ Past(TotalDeadline(c))' = Past(TotalDeadline(c))
  BY <1>1 DEF TotalDeadline, Deadline, Past
<1>4. CASE StatusLanded(c, refuse)
  <2>1. phase[c] = "first_byte" /\ told'[c] = TRUE /\ chunks'[c] = chunks[c] /\ chunks[c] = 0
    BY <1>4 DEF StatusLanded, CallInv, LifeInv, TypeOK, CallsOK
  <2>2. target[c] = start[c].call + Arrives(r, 0) /\ Arrives(r, 0) \in Nat
    BY <1>1, <1>2, <2>1, ArrivesType DEF CallInv, TimeInv, Playing
  <2>3. Before(Arrives(r, 0), b.first_byte) /\ Before(Arrives(r, 0), b.total)
    <3>1. /\ b.first_byte = Infinite \/ b.first_byte \in Nat
          /\ b.total = Infinite \/ b.total \in Nat
      BY <1>2, Numbers
    <3>2. /\ PhaseDeadline(c) = Deadline(start[c].call, b.first_byte)
          /\ TotalDeadline(c) = Deadline(start[c].call, b.total)
      BY <2>1 DEF PhaseDeadline, TotalDeadline
    <3>3. ASSUME NEW f, f = Infinite \/ f \in Nat, ~Past(Deadline(start[c].call, f))
          PROVE  Before(Arrives(r, 0), f)
      BY <1>1, <1>2, <2>2, <3>3, CallTypes DEF Deadline, Past, Before
    <3> QED BY <1>1, <3>1, <3>2, <3>3
  <2>4. LifeInv(c)' /\ EndInv(c)'
    BY <1>1, <2>1 DEF CallInv, LifeInv, EndInv, Playing
  <2>5. PathInv(c)'
    <3>1. Body(r) \in Nat /\ Body(resp[c])' = Body(r) /\ \A n : Arrives(resp[c], n)' = Arrives(r, n)
      BY <1>1, <1>2, BodyType DEF Body, Arrives
    <3> QED BY <1>1, <2>1, <2>3, <3>1 DEF CallInv, PathInv, Playing
  <2>6. TimeInv(c)'
    <3>1. Arrives(resp[c], 0)' = Arrives(r, 0)
      BY <1>1 DEF Arrives
    <3>2. start[c].chunk = start[c].call + r.connect_delay
      BY <1>1, <2>1 DEF CallInv, TimeInv, Playing
    <3> QED BY <1>1, <1>3, <2>1, <2>2, <3>1, <3>2 DEF TimeInv
  <2> QED BY <2>4, <2>5, <2>6 DEF CallInv
<1>5. CASE ChunkLanded(c, refuse)
  <2> DEFINE k == chunks[c]
  <2>1. phase[c] = "body" /\ told'[c] = told[c] /\ told[c] /\ chunks'[c] = k + 1
    BY <1>1, <1>5 DEF ChunkLanded, CallInv, LifeInv, TypeOK, CallsOK, Playing
  <2>2. /\ target[c] = start[c].call + Arrives(r, k + 1) /\ start[c].chunk = start[c].call + Arrives(r, k)
        /\ Arrives(r, k) \in Nat /\ Arrives(r, k + 1) = Arrives(r, k) + r.per_chunk_delay
        /\ r.per_chunk_delay \in Nat /\ Body(r) \in Nat
    BY <1>1, <1>2, <2>1, ArrivesType, BodyType, Numbers DEF CallInv, TimeInv, Playing
  <2>3. Before(Arrives(r, k + 1), b.total) /\ Before(r.per_chunk_delay, b.idle)
    BY <1>1, <1>2, <2>1, <2>2, Numbers DEF PhaseDeadline, TotalDeadline, Deadline, Past, Before
  <2>4. LifeInv(c)' /\ EndInv(c)'
    BY <1>1, <2>1 DEF CallInv, LifeInv, EndInv, Playing
  <2>5. PathInv(c)'
    <3>1. Body(resp[c])' = Body(r) /\ Arrives(resp[c], 0)' = Arrives(r, 0)
          /\ Arrives(resp[c], chunks[c])' = Arrives(r, k + 1)
      BY <1>1, <2>1 DEF Body, Arrives
    <3>2. /\ Before(r.connect_delay, b.connect) /\ Before(r.connect_delay, b.total)
          /\ r.status = "OK" \/ r.fail_after > 0
          /\ Before(Arrives(r, 0), b.first_byte) /\ Before(Arrives(r, 0), b.total)
          /\ k < Body(r)
      BY <1>1, <2>1 DEF CallInv, PathInv, Playing
    <3>3. k + 1 <= Body(r)
      BY <1>2, <2>2, <3>2
    <3> QED BY <1>1, <2>1, <2>3, <3>1, <3>2, <3>3 DEF PathInv
  <2>6. TimeInv(c)'
    <3>1. Arrives(resp[c], chunks[c])' = Arrives(r, k + 1)
      BY <1>1, <2>1 DEF Arrives
    <3> QED BY <1>1, <1>3, <2>1, <2>2, <3>1 DEF TimeInv
  <2> QED BY <2>4, <2>5, <2>6 DEF CallInv
<1> QED BY <1>4, <1>5

LEMMA ProceedKeeps ==
  ASSUME TypeOK, NEW c \in Calls, CallInv(c), Proceed(c)
  PROVE  CallInv(c)'
<1> DEFINE r == resp[c]
           b == budgets[c]
           k == chunks[c]
<1>1. /\ pc[c] = "told" /\ phase[c] # "connect" /\ told[c] /\ result[c] = "none"
      /\ UNCHANGED <<now, resp, budgets, wake, told, chunks, refused>>
      /\ now = target[c] /\ target[c] = start[c].call + Arrives(r, k) /\ (phase[c] = "first_byte" => k = 0)
  <2>1. /\ pc[c] = "told" /\ phase[c] # "connect" /\ told[c] /\ result[c] = "none" /\ now = target[c]
        /\ phase[c] = "first_byte" => k = 0
    BY DEF Proceed, CallInv, LifeInv, TimeInv, Playing
  <2>2. target[c] = start[c].call + Arrives(r, k)
    BY <2>1, CallTypes DEF CallInv, TimeInv, Playing
  <2> QED BY <2>1, <2>2 DEF Proceed, perCall
<1>2. /\ r \in Responses \cup {Silent} /\ b \in Timeouts /\ start[c].call \in Nat /\ now \in Nat
      /\ k \in Nat /\ Body(r) \in Nat
  BY CallTypes, BodyType
<1>3. /\ Before(r.connect_delay, b.connect) /\ Before(r.connect_delay, b.total)
      /\ r.status = "OK" \/ r.fail_after > 0
      /\ Before(Arrives(r, 0), b.first_byte) /\ Before(Arrives(r, 0), b.total)
      /\ Before(Arrives(r, k), b.total) /\ k <= Body(r)
      /\ k > 0 => Before(r.per_chunk_delay, b.idle)
  BY <1>1 DEF CallInv, PathInv, Playing
<1>4. ASSUME NEW ts \in {r.status, "ABORTED_BY_SINK"}, Return(c, ts), UNCHANGED perCall,
             ~refused[c] => k = Body(r) /\ ts = r.status,
             refused[c] => ts = "ABORTED_BY_SINK"
      PROVE  CallInv(c)'
  <2>1. pc'[c] = "done" /\ result'[c] = ts /\ phase' = phase
    BY <1>4 DEF Return, perCall, TypeOK, CallsOK
  <2>2. ts # "none"
    BY <1>2, ResponseType DEF Statuses
  <2>3. LifeInv(c)' /\ TimeInv(c)' /\ PathInv(c)'
    BY <1>1, <2>1, <2>2 DEF CallInv, LifeInv, TimeInv, PathInv, Playing
  <2>4. CASE refused[c]
    <3>1. EndInv(c)'
      BY <1>4, <2>1, <2>4 DEF EndInv
    <3> QED BY <2>3, <3>1 DEF CallInv
  <2>5. CASE ~refused[c]
    <3>1. k = Body(r) /\ ts = r.status
      BY <1>4, <2>5
    <3>2. Missed(r, b) = {}
      BY <1>2, <1>3, <3>1, ScriptedWhole
    <3>3. Scripted(r, b) = [result |-> r.status, chunks |-> Body(r)]
      BY <1>2, <1>3, <3>2, ScriptedBody
    <3>4. EndInv(c)'
      BY <1>1, <2>1, <3>1, <3>3 DEF EndInv
    <3> QED BY <2>3, <3>4 DEF CallInv
  <2> QED BY <2>4, <2>5
<1>5. ASSUME ~refused[c], k < Body(r), Enter(c, "body", r.per_chunk_delay), result' = result
      PROVE  CallInv(c)'
  <2>1. /\ pc'[c] = "test" /\ phase'[c] = "body" /\ target'[c] = now + r.per_chunk_delay
        /\ start'[c].chunk = now /\ start'[c].call = start[c].call
    BY <1>5, EnterIs
  <2>2. LifeInv(c)' /\ EndInv(c)'
    BY <1>1, <1>5, <2>1 DEF LifeInv, EndInv, Playing
  <2>3. /\ Body(resp[c])' = Body(r) /\ \A n : Arrives(resp[c], n)' = Arrives(r, n)
        /\ Arrives(resp[c], chunks[c])' = Arrives(r, k) /\ Arrives(resp[c], chunks[c] + 1)' = Arrives(r, k + 1)
    BY <1>1 DEF Body, Arrives
  <2>4. PathInv(c)'
    BY <1>1, <1>3, <1>5, <2>1, <2>3 DEF PathInv
  <2>5. /\ Arrives(r, k) \in Nat /\ Arrives(r, k + 1) = Arrives(r, k) + r.per_chunk_delay
        /\ r.per_chunk_delay \in Nat
    BY <1>2, ArrivesType, Numbers
  <2>6. TimeInv(c)'
    BY <1>1, <1>2, <2>1, <2>3, <2>5 DEF TimeInv, Playing
  <2> QED BY <2>2, <2>4, <2>6 DEF CallInv
<1>6. ~(k < Body(r)) => k = Body(r)
  BY <1>2, <1>3
<1> QED BY <1>4, <1>5, <1>6 DEF Proceed

(* Time passes for the calls that wait, and only to where each will look. *)
LEMMA TickKeeps ==
  ASSUME TypeOK, NEW c \in Calls, CallInv(c), Tick
  PROVE  CallInv(c)'
<1>1. now' = now + 1 /\ UNCHANGED <<pc, perCall, seen>>
      /\ (pc[c] \notin {"new", "done"} => pc[c] = "wait" /\ now < wake[c])
  BY DEF Tick, Running
<1>2. LifeInv(c)' /\ PathInv(c)' /\ EndInv(c)'
  BY <1>1 DEF CallInv, LifeInv, PathInv, EndInv, perCall, seen
<1>3. PhaseDeadline(c)' = PhaseDeadline(c) /\ TotalDeadline(c)' = TotalDeadline(c)
  BY <1>1 DEF PhaseDeadline, TotalDeadline, Deadline, perCall
<1>4. TimeInv(c)'
  <2>1. CASE pc[c] = "wait"
    <3>1. now \in Nat /\ wake[c] \in Nat /\ start[c].chunk \in Nat
      BY CallTypes
    <3>2. start[c].chunk <= now + 1 /\ now + 1 <= wake[c]
      BY <1>1, <2>1, <3>1 DEF CallInv, TimeInv, Playing
    <3>3. \A n : Arrives(resp[c], n)' = Arrives(resp[c], n)
      BY <1>1 DEF Arrives, perCall
    <3> QED BY <1>1, <1>3, <2>1, <3>2, <3>3 DEF CallInv, TimeInv, UpTo, Arrives, Playing, perCall, seen
  <2>2. CASE pc[c] # "wait"
    BY <1>1, <2>2 DEF TimeInv, Playing
  <2> QED BY <2>1, <2>2
<1> QED BY <1>2, <1>4 DEF CallInv

-----------------------------------------------------------------------------
(* The queue and the log.                                                  *)

LEMMA Counted ==
  ASSUME NEW n \in Nat, NEW S \in SUBSET (1..n)
  PROVE  Cardinality(S) \in Nat /\ Cardinality(S \cup {n + 1}) = Cardinality(S) + 1
<1>1. IsFiniteSet(S)
  <2>1. IsFiniteSet(1..n)
    BY FS_Interval
  <2> QED BY <2>1, FS_Subset
<1>2. n + 1 \notin S
  OBVIOUS
<1> QED BY <1>1, <1>2, FS_CardinalityType, FS_AddElement

(* Served and ServedInOrder of any log lg, responses rs, pushed p, queue q. *)
Count(lg, rs, n) == Cardinality({m \in 1..n : rs[lg[m]] # Silent})

InOrder(lg, rs, p, q) ==
  /\ \A n \in DOMAIN lg :
       rs[lg[n]] # Silent => Count(lg, rs, n) \in DOMAIN p /\ rs[lg[n]] = p[Count(lg, rs, n)]
  /\ Count(lg, rs, Len(lg)) <= Len(p)
  /\ q = SubSeq(p, Count(lg, rs, Len(lg)) + 1, Len(p))

LEMMA CountType == ASSUME NEW lg, NEW rs, NEW n \in Nat PROVE Count(lg, rs, n) \in Nat
  BY Counted DEF Count

(* What two logs that begin alike count, and what one more entry adds. *)
LEMMA CountSame ==
  ASSUME NEW lg, NEW rs, NEW lh, NEW rt, NEW n, \A m \in 1..n : rt[lh[m]] = rs[lg[m]]
  PROVE  Count(lh, rt, n) = Count(lg, rs, n)
  BY DEF Count

LEMMA CountNext ==
  ASSUME NEW lg, NEW rs, NEW n \in Nat
  PROVE  Count(lg, rs, n + 1) = Count(lg, rs, n) + (IF rs[lg[n + 1]] # Silent THEN 1 ELSE 0)
<1> DEFINE S == {m \in 1..n : rs[lg[m]] # Silent}
           Q == {m \in 1..(n + 1) : rs[lg[m]] # Silent}
<1>1. 1..(n + 1) = (1..n) \cup {n + 1}
  OBVIOUS
<1>2. Q = S \cup {m \in {n + 1} : rs[lg[m]] # Silent}
  BY <1>1
<1>3. Q = IF rs[lg[n + 1]] # Silent THEN S \cup {n + 1} ELSE S
  BY <1>2
<1>4. Count(lg, rs, n) = Cardinality(S) /\ Count(lg, rs, n + 1) = Cardinality(Q)
  BY DEF Count
<1>5. S \in SUBSET (1..n)
  OBVIOUS
<1> HIDE DEF S, Q
<1>6. Cardinality(S) \in Nat /\ Cardinality(S \cup {n + 1}) = Cardinality(S) + 1
  BY <1>5, Counted
<1> QED BY <1>3, <1>4, <1>6

LEMMA SuffixOf ==
  ASSUME NEW R, NEW p \in Seq(R), NEW g \in Nat, g <= Len(p)
  PROVE  LET q == SubSeq(p, g + 1, Len(p)) IN
         /\ q = <<>> <=> g = Len(p)
         /\ g # Len(p) => g + 1 \in DOMAIN p /\ Head(q) = p[g + 1] /\ Tail(q) = SubSeq(p, g + 2, Len(p))
         /\ \A r \in R : Append(q, r) = SubSeq(Append(p, r), g + 1, Len(p) + 1)
<1> DEFINE q == SubSeq(p, g + 1, Len(p))
<1>1. /\ q \in Seq(R) /\ Len(q) = Len(p) - g /\ \A i \in 1..Len(q) : q[i] = p[g + i]
      /\ Len(p) \in Nat
  BY SubSeqProperties
<1> HIDE DEF q
<1>2. q = <<>> <=> g = Len(p)
  BY <1>1, EmptySeq
<1>3. ASSUME g # Len(p)
      PROVE  g + 1 \in DOMAIN p /\ Head(q) = p[g + 1] /\ Tail(q) = SubSeq(p, g + 2, Len(p))
  <2>1. Head(q) = q[1] /\ Tail(q) \in Seq(R) /\ Len(Tail(q)) = Len(q) - 1
        /\ \A i \in 1..(Len(q) - 1) : Tail(q)[i] = q[i + 1]
    BY <1>1, <1>2, <1>3, HeadTailProperties
  <2> DEFINE t == SubSeq(p, g + 2, Len(p))
  <2>2. t \in Seq(R) /\ Len(t) = Len(p) - (g + 1) /\ \A i \in 1..Len(t) : t[i] = p[g + 1 + i]
    BY <1>1, <1>3, SubSeqProperties
  <2> HIDE DEF t
  <2>3. ASSUME NEW i \in 1..Len(t) PROVE Tail(q)[i] = t[i]
    <3>1. i \in Nat /\ i + 1 \in 1..Len(q) /\ i \in 1..(Len(q) - 1)
      BY <1>1, <2>2
    <3>2. Tail(q)[i] = p[g + (i + 1)] /\ t[i] = p[g + 1 + i]
      BY <1>1, <2>1, <2>2, <3>1
    <3>3. g + (i + 1) = g + 1 + i
      BY <3>1
    <3> QED BY <3>2, <3>3
  <2>4. Len(Tail(q)) = Len(t)
    BY <1>1, <2>1, <2>2
  <2>5. Tail(q) = t
    BY <2>1, <2>2, <2>3, <2>4, SeqEqual
  <2> QED BY <1>1, <1>3, <2>1, <2>5 DEF t
<1>4. ASSUME NEW r \in R PROVE Append(q, r) = SubSeq(Append(p, r), g + 1, Len(p) + 1)
  <2> DEFINE a == Append(p, r)
             t == SubSeq(a, g + 1, Len(p) + 1)
             u == Append(q, r)
  <2>1. a \in Seq(R) /\ Len(a) = Len(p) + 1 /\ a[Len(p) + 1] = r /\ \A i \in 1..Len(p) : a[i] = p[i]
    BY AppendProperties
  <2> HIDE DEF a
  <2>2. t \in Seq(R) /\ Len(t) = Len(p) + 1 - g /\ \A i \in 1..Len(t) : t[i] = a[g + i]
    BY <1>1, <2>1, SubSeqProperties
  <2>3. u \in Seq(R) /\ Len(u) = Len(q) + 1 /\ u[Len(q) + 1] = r /\ \A i \in 1..Len(q) : u[i] = q[i]
    BY <1>1, AppendProperties
  <2> HIDE DEF t, u
  <2>4. Len(u) = Len(t)
    BY <1>1, <2>2, <2>3
  <2>5. ASSUME NEW i \in 1..Len(t) PROVE u[i] = t[i]
    <3>1. i \in Nat /\ t[i] = a[g + i]
      BY <2>2
    <3>2. CASE i = Len(t)
      BY <1>1, <2>1, <2>2, <2>3, <3>1, <3>2
    <3>3. CASE i # Len(t)
      <4>0. i \in Nat /\ 1 <= i /\ i <= Len(p) - g
        <5>1. Len(t) \in Nat /\ i <= Len(t)
          BY <2>2
        <5> QED BY <1>1, <2>2, <3>1, <3>3, <5>1
      <4>1. i \in 1..Len(q) /\ g + i \in 1..Len(p)
        BY <1>1, <4>0
      <4> QED BY <1>1, <2>1, <2>3, <3>1, <4>1
    <3> QED BY <3>2, <3>3
  <2>6. u = t
    BY <2>2, <2>3, <2>4, <2>5, SeqEqual
  <2> QED BY <2>6 DEF u, t, a
<1> QED BY <1>2, <1>3, <1>4 DEF q

LEMMA OrderPush ==
  ASSUME NEW lg \in Seq(Calls), NEW rs, NEW p \in Seq(Responses), NEW q, NEW r \in Responses,
         InOrder(lg, rs, p, q)
  PROVE  InOrder(lg, rs, Append(p, r), Append(q, r))
<1> DEFINE a == Append(p, r)
           g == Count(lg, rs, Len(lg))
<1>1. /\ Len(a) = Len(p) + 1 /\ a \in Seq(Responses) /\ \A i \in 1..Len(p) : a[i] = p[i]
      /\ DOMAIN a = 1..(Len(p) + 1) /\ DOMAIN p = 1..Len(p) /\ Len(p) \in Nat
  BY AppendProperties
<1>2. g \in Nat /\ g <= Len(p) /\ q = SubSeq(p, g + 1, Len(p))
  <2>1. Len(lg) \in Nat
    OBVIOUS
  <2> QED BY <2>1, CountType DEF InOrder
<1> HIDE DEF g
<1>3. Append(q, r) = SubSeq(a, g + 1, Len(a))
  <2>1. Append(SubSeq(p, g + 1, Len(p)), r) = SubSeq(Append(p, r), g + 1, Len(p) + 1)
    BY <1>2, SuffixOf, Zenon
  <2> QED BY <1>1, <1>2, <2>1
<1>4. ASSUME NEW n \in DOMAIN lg, rs[lg[n]] # Silent
      PROVE  Count(lg, rs, n) \in DOMAIN a /\ rs[lg[n]] = a[Count(lg, rs, n)]
  <2>1. Count(lg, rs, n) \in DOMAIN p /\ rs[lg[n]] = p[Count(lg, rs, n)]
    BY <1>4 DEF InOrder
  <2> QED BY <1>1, <2>1
<1> HIDE DEF a
<1>5. g <= Len(a)
  BY <1>1, <1>2
<1>6. InOrder(lg, rs, a, Append(q, r))
  BY <1>3, <1>4, <1>5 DEF InOrder, g
<1> QED BY <1>6 DEF a

(* The next call takes the next response, if there is one. *)
LEMMA OrderBegin ==
  ASSUME NEW lg \in Seq(Calls), NEW rs, NEW p \in Seq(Responses), NEW q, NEW c \in Calls,
         InOrder(lg, rs, p, q), \A n \in DOMAIN lg : lg[n] # c,
         NEW rt, NEW u, \A d \in Calls \ {c} : rt[d] = rs[d],
         \/ q = <<>> /\ rt[c] = Silent /\ u = q
         \/ q # <<>> /\ rt[c] = Head(q) /\ u = Tail(q)
  PROVE  InOrder(Append(lg, c), rt, p, u)
<1> DEFINE h == Append(lg, c)
           L == Len(lg)
           g == Count(lg, rs, L)
<1>1. /\ Len(h) = L + 1 /\ DOMAIN h = 1..(L + 1) /\ h[L + 1] = c /\ \A n \in 1..L : h[n] = lg[n]
      /\ L \in Nat /\ DOMAIN lg = 1..L /\ \A n \in 1..L : lg[n] \in Calls
  BY AppendProperties
<1> HIDE DEF h, L
<1>2. g \in Nat /\ g <= Len(p) /\ q = SubSeq(p, g + 1, Len(p)) /\ Len(p) \in Nat
  BY <1>1, CountType DEF InOrder, L
<1>3. \A n \in 1..L : rt[h[n]] = rs[lg[n]]
  BY <1>1
<1>4. /\ \A n \in 0..L : Count(h, rt, n) = Count(lg, rs, n)
      /\ Count(h, rt, L + 1) = g + (IF rt[c] # Silent THEN 1 ELSE 0)
  <2>1. ASSUME NEW n \in 0..L PROVE Count(h, rt, n) = Count(lg, rs, n)
    <3>1. \A m \in 1..n : rt[h[m]] = rs[lg[m]]
      BY <1>1, <1>3
    <3> QED BY <3>1, CountSame
  <2>2. Count(h, rt, L + 1) = Count(h, rt, L) + (IF rt[h[L + 1]] # Silent THEN 1 ELSE 0)
    BY <1>1, CountNext
  <2>3. Count(h, rt, L) = g
    BY <1>1, <2>1
  <2> QED BY <1>1, <2>1, <2>2, <2>3
<1>5. ASSUME NEW n \in 1..L, rt[h[n]] # Silent
      PROVE  Count(h, rt, n) \in DOMAIN p /\ rt[h[n]] = p[Count(h, rt, n)]
  <2>1. Count(h, rt, n) = Count(lg, rs, n) /\ rt[h[n]] = rs[lg[n]] /\ n \in DOMAIN lg
    BY <1>1, <1>3, <1>4
  <2> QED BY <1>5, <2>1 DEF InOrder
<1> HIDE DEF g
<1>6. CASE q = <<>>
  <2>1. Count(h, rt, L + 1) = g /\ rt[h[L + 1]] = Silent /\ u = q
    BY <1>1, <1>2, <1>4, <1>6
  <2>2. ASSUME NEW n \in DOMAIN h, rt[h[n]] # Silent PROVE n \in 1..L
    BY <1>1, <2>1, <2>2
  <2> QED BY <1>1, <1>2, <1>5, <2>1, <2>2 DEF InOrder, h
<1>7. CASE q # <<>>
  <2>1. /\ g + 1 \in DOMAIN p /\ Head(q) = p[g + 1] /\ Tail(q) = SubSeq(p, g + 2, Len(p))
    BY <1>2, <1>7, SuffixOf
  <2>2. rt[c] = p[g + 1] /\ rt[c] # Silent /\ u = SubSeq(p, g + 2, Len(p))
    <3>1. p[g + 1] \in Responses /\ Silent \notin Responses
      BY <2>1, ScriptAssumption
    <3> QED BY <1>7, <2>1, <3>1
  <2>3. Count(h, rt, L + 1) = g + 1 /\ g + 1 + 1 = g + 2 /\ g + 1 <= Len(p)
    BY <1>2, <1>4, <2>1, <2>2
  <2>4. ASSUME NEW n \in DOMAIN h, rt[h[n]] # Silent
        PROVE  Count(h, rt, n) \in DOMAIN p /\ rt[h[n]] = p[Count(h, rt, n)]
    <3>1. CASE n = L + 1
      BY <1>1, <2>1, <2>2, <2>3, <3>1
    <3>2. CASE n \in 1..L
      BY <1>5, <2>4, <3>2
    <3> QED BY <1>1, <3>1, <3>2
  <2>5. InOrder(h, rt, p, u)
    BY <1>1, <2>2, <2>3, <2>4 DEF InOrder
  <2> QED BY <2>5 DEF h
<1> QED BY <1>6, <1>7

LEMMA OrderNow == ServedInOrder <=> InOrder(log, resp, pushed, queue) /\ HeldEntryStands
  BY DEF ServedInOrder, InOrder, Served, Count

LEMMA OrderNext == ServedInOrder' <=> InOrder(log', resp', pushed', queue') /\ HeldEntryStands'
  BY DEF ServedInOrder, InOrder, Served, Count

LEMMA HeldStands == LogInv => HeldEntryStands
  BY DEF LogInv, HeldEntryStands

LEMMA HeldStandsNext == LogInv' => HeldEntryStands'
  BY HeldStands, PTL

LEMMA PushKeeps ==
  ASSUME TypeOK, LogInv, ServedInOrder, NEW r \in Responses, Push(r)
  PROVE  LogInv' /\ ServedInOrder'
<1>1. queue' = Append(queue, r) /\ pushed' = Append(pushed, r) /\ log' = log /\ resp' = resp
      /\ UNCHANGED <<snap, pc>>
  BY DEF Push, perCall, logs
<1>2. LogInv'
  BY <1>1 DEF LogInv
<1>3. log \in Seq(Calls) /\ pushed \in Seq(Responses) /\ InOrder(log, resp, pushed, queue)
  BY OrderNow DEF TypeOK, SharedOK
<1>4. InOrder(log', resp', pushed', queue')
  BY <1>1, <1>3, OrderPush
<1> QED BY <1>2, <1>4, OrderNext, HeldStandsNext

LEMMA BeginServes ==
  ASSUME TypeOK, LogInv, ServedInOrder, NEW c \in Calls, LifeInv(c), Begin(c)
  PROVE  LogInv' /\ ServedInOrder'
<1>1. /\ pc[c] = "new" /\ resp[c] = Silent /\ log' = Append(log, c) /\ UNCHANGED <<pushed, snap>>
      /\ pc'[c] # "new" /\ \A d \in Calls \ {c} : pc'[d] = pc[d] /\ resp'[d] = resp[d]
  BY DEF Begin, LifeInv, Return, perCall, TypeOK, CallsOK
<1>2. /\ log \in Seq(Calls) /\ pushed \in Seq(Responses) /\ InOrder(log, resp, pushed, queue)
  BY OrderNow DEF TypeOK, SharedOK
<1> DEFINE L == Len(log)
<1>3. /\ L \in Nat /\ DOMAIN log = 1..L /\ DOMAIN log' = 1..(L + 1) /\ log'[L + 1] = c
      /\ \A n \in 1..L : log'[n] = log[n]
  BY <1>1, <1>2, AppendProperties
<1>4. \A n \in 1..L : log[n] \in Calls /\ log[n] # c
  BY <1>1, <1>2, <1>3 DEF LogInv
<1> HIDE DEF L
<1>5. LogInv'
  <2>1. ASSUME NEW m \in DOMAIN log', NEW n \in DOMAIN log', log'[m] = log'[n] PROVE m = n
    <3>1. ASSUME NEW i \in DOMAIN log' PROVE i = L + 1 \/ (i \in 1..L /\ log'[i] # c)
      BY <1>3, <1>4
    <3>2. CASE m = L + 1 \/ n = L + 1
      BY <1>3, <2>1, <3>1, <3>2
    <3>3. CASE m \in 1..L /\ n \in 1..L
      BY <1>3, <2>1, <3>3 DEF LogInv
    <3> QED BY <3>1, <3>2, <3>3
  <2>2. ASSUME NEW n \in DOMAIN log' PROVE pc'[log'[n]] # "new"
    <3>1. CASE n = L + 1
      BY <1>1, <1>3, <3>1
    <3>2. CASE n \in 1..L
      BY <1>1, <1>3, <1>4, <3>2 DEF LogInv
    <3> QED BY <1>3, <3>1, <3>2
  <2>3. snap # NoEntry =>
          snap.array = 0 /\ snap.index \in DOMAIN log' /\ log'[snap.index] = snap.call
    BY <1>3 DEF LogInv
  <2> QED BY <1>1, <2>1, <2>2, <2>3 DEF LogInv
<1>6. \/ queue = <<>> /\ resp'[c] = Silent /\ queue' = queue
      \/ queue # <<>> /\ resp'[c] = Head(queue) /\ queue' = Tail(queue)
  BY <1>1 DEF Begin, perCall, TypeOK, CallsOK
<1>7. InOrder(Append(log, c), resp', pushed, queue')
  <2>1. \A n \in DOMAIN log : log[n] # c
    BY <1>3, <1>4
  <2>2. \A d \in Calls \ {c} : resp'[d] = resp[d]
    BY <1>1
  <2> QED BY <1>2, <1>6, <2>1, <2>2, OrderBegin
<1>8. InOrder(log', resp', pushed', queue')
  BY <1>1, <1>7
<1> QED BY <1>5, <1>8, OrderNext, HeldStandsNext

LEMMA SnapshotKeeps ==
  ASSUME TypeOK, LogInv, ServedInOrder, NEW i \in 1..MaxRead, i <= Len(log), Snapshot(i)
  PROVE  LogInv' /\ ServedInOrder'
<1>1. /\ snap' = [index |-> i, call |-> log[i], array |-> 0] /\ UNCHANGED <<queue, pushed, pc>>
      /\ log' = log /\ resp' = resp
  BY DEF Snapshot, logs, perCall
<1>2. i \in DOMAIN log
  BY ScriptAssumption DEF TypeOK, SharedOK
<1>3. LogInv'
  BY <1>1, <1>2 DEF LogInv
<1>4. InOrder(log', resp', pushed', queue')
  BY <1>1, OrderNow
<1> QED BY <1>3, <1>4, OrderNext, HeldStandsNext

-----------------------------------------------------------------------------
LEMMA InvInit == Init => IInv
<1> SUFFICES ASSUME Init PROVE IInv
  OBVIOUS
<1>1. TypeOK
  BY TypeInit
<1>2. ASSUME NEW c \in Calls PROVE CallInv(c)
  BY DEF Init, CallInv, LifeInv, TimeInv, PathInv, EndInv, Playing
<1>3. log = <<>> /\ queue = <<>> /\ pushed = <<>> /\ snap = NoEntry
  BY DEF Init
<1>4. LogInv
  BY <1>3 DEF LogInv
<1>5. Count(log, resp, 0) = 0
  <2>1. 1..0 = {}
    OBVIOUS
  <2>2. {m \in 1..0 : resp[log[m]] # Silent} = {}
    BY <2>1
  <2> QED BY <2>2, FS_EmptySet DEF Count
<1>6. InOrder(log, resp, pushed, queue)
  <2>1. Len(<<>>) = 0 /\ DOMAIN <<>> = {} /\ SubSeq(<<>>, 0 + 1, 0) = <<>>
    BY EmptySeq, SubSeqEmpty
  <2>2. Count(log, resp, Len(log)) = 0 /\ Len(pushed) = 0
    BY <1>3, <1>5, <2>1
  <2> QED BY <1>3, <2>1, <2>2 DEF InOrder
<1> QED BY <1>1, <1>2, <1>4, <1>6, OrderNow, HeldStands DEF IInv

LEMMA InvStep == IInv /\ [Next]_vars => IInv'
<1> SUFFICES ASSUME IInv, [Next]_vars PROVE IInv'
  OBVIOUS
<1>0. TypeOK /\ LogInv /\ ServedInOrder /\ (\A c \in Calls : CallInv(c)) /\ CallsOK /\ SharedOK /\ TypeOK'
  BY TypeStep DEF IInv, TypeOK
<1>1. ASSUME NEW c \in Calls, Begin(c) \/ BeginFails(c) \/ CallStep(c)
      PROVE  \A d \in Calls : CallInv(d)'
  <2>1. ASSUME NEW d \in Calls \ {c} PROVE CallInv(d)'
    BY <1>0, <1>1, <2>1, OthersSame, Frame
  <2>2. CallInv(c)'
    <3>1. CASE Begin(c) \/ BeginFails(c)
      BY <1>0, <3>1, BeginKeeps
    <3>2. CASE CallStep(c)
      BY <1>0, <3>2, DelayKeeps, DelayFailsKeeps, WakeKeeps, ConnectLandedKeeps, CallbackKeeps,
         ProceedKeeps DEF CallStep
    <3> QED BY <1>1, <3>1, <3>2
  <2> QED BY <2>1, <2>2
<1>2. ASSUME UNCHANGED <<pc, perCall, seen, now>>
      PROVE  \A d \in Calls : CallInv(d)'
  <2>1. ASSUME NEW d \in Calls PROVE SameCall(d) /\ now' = now
    BY <1>2 DEF SameCall, perCall, seen
  <2> QED BY <1>0, <2>1, Frame
<1>3. ASSUME NEW r \in Responses, Push(r) PROVE IInv'
  <2>1. LogInv' /\ ServedInOrder'
    BY <1>0, <1>3, PushKeeps
  <2>2. UNCHANGED <<pc, perCall, seen, now>>
    BY <1>3 DEF Push
  <2> QED BY <1>0, <1>2, <2>1, <2>2 DEF IInv
<1>4. ASSUME NEW c \in Calls, Begin(c) PROVE IInv'
  <2>1. LogInv' /\ ServedInOrder'
    BY <1>0, <1>4, BeginServes DEF CallInv
  <2> QED BY <1>0, <1>1, <1>4, <2>1 DEF IInv
<1>5. ASSUME NEW c \in Calls, BeginFails(c) \/ CallStep(c) PROVE IInv'
  <2>1. UNCHANGED <<queue, pushed, snap, resp, log>>
    BY <1>5 DEF BeginFails, CallStep, Delay, DelayEnds, DelayFails, Wake, ConnectLanded, StatusLanded,
       ChunkLanded, Proceed, perCall, logs
  <2>2. pc'[c] # "new" /\ \A d \in Calls \ {c} : pc'[d] = pc[d]
    <3>1. \A d \in Calls \ {c} : pc'[d] = pc[d]
      BY <1>0, <1>5, OthersSame DEF SameCall
    <3>2. pc'[c] # "new"
      BY <1>0, <1>5 DEF BeginFails, CallStep, Delay, DelayEnds, DelayFails, Wake, ConnectLanded,
         StatusLanded, ChunkLanded, Proceed, Return, Enter, CallsOK
    <3> QED BY <3>1, <3>2
  <2>3. LogInv' /\ InOrder(log', resp', pushed', queue')
    <3>1. LogInv'
      <4>1. \A n \in DOMAIN log : log[n] \in Calls
        BY <1>0 DEF SharedOK
      <4> QED BY <1>0, <2>1, <2>2, <4>1 DEF LogInv
    <3> QED BY <1>0, <2>1, <3>1, OrderNow
  <2> QED BY <1>0, <1>1, <1>5, <2>3, OrderNext, HeldStandsNext DEF IInv
<1>6. ASSUME NEW i \in 1..MaxRead, i <= Len(log), Snapshot(i) PROVE IInv'
  <2>1. LogInv' /\ ServedInOrder'
    BY <1>0, <1>6, SnapshotKeeps
  <2>2. UNCHANGED <<pc, perCall, seen, now>>
    BY <1>6 DEF Snapshot
  <2> QED BY <1>0, <1>2, <2>1, <2>2 DEF IInv
<1>7. ASSUME UNCHANGED <<queue, pushed, logs, snap, pc, perCall, seen>>
      PROVE  LogInv' /\ ServedInOrder'
  <2>1. UNCHANGED <<queue, pushed, snap, resp, log, pc>>
    BY <1>7 DEF perCall, logs
  <2>2. LogInv'
    BY <1>0, <2>1 DEF LogInv
  <2> QED BY <1>0, <2>1, <2>2, OrderNow, OrderNext, HeldStandsNext
<1>8. ASSUME Trigger \/ UNCHANGED vars PROVE IInv'
  <2>1. UNCHANGED <<queue, pushed, logs, snap, pc, perCall, seen, now>>
    BY <1>8 DEF Trigger, vars
  <2> QED BY <1>0, <1>2, <1>7, <2>1 DEF IInv
<1>9. ASSUME Tick PROVE IInv'
  <2>1. UNCHANGED <<queue, pushed, logs, snap, pc, perCall, seen>>
    BY <1>9 DEF Tick
  <2>2. \A d \in Calls : CallInv(d)'
    BY <1>0, <1>9, TickKeeps
  <2> QED BY <1>0, <1>7, <2>1, <2>2 DEF IInv
<1> QED BY <1>3, <1>4, <1>5, <1>6, <1>8, <1>9 DEF Next, AllDone

(* The inductive invariant. *)
THEOREM InductiveInvariant == Spec => []IInv
  BY InvInit, InvStep, PTL DEF Spec

(* Whatever the threads do, whichever calls fail and however the budgets lie,
   the n-th call that got a response got the n-th one pushed and ends as that
   response and its budgets say; the record the test reads stands. *)
THEOREM PlaysScriptHolds == Spec => []PlaysScript
<1>1. IInv => PlaysScript
  BY DEF IInv, PlaysScript, EndsAsScripted, CallInv, EndInv
<1> QED BY <1>1, InductiveInvariant, PTL

-----------------------------------------------------------------------------
(* The promise of a transport, kept to every call at once.                 *)

(* A step that does not touch what call d sees. *)
LEMMA PromiseKept ==
  ASSUME NEW d \in Calls, SameCall(d), token' = token
  PROVE  UNCHANGED Promise(d)!transportVars
  BY DEF SameCall, Promise!transportVars

LEMMA StepPromises ==
  ASSUME IInv, NEW c \in Calls, Begin(c) \/ BeginFails(c) \/ CallStep(c)
  PROVE  Promise(c)!Next \/ UNCHANGED Promise(c)!transportVars
<1>1. /\ pc \in [Calls -> {"new", "test", "wait", "landed", "told", "done"}]
      /\ result \in [Calls -> Results] /\ told \in [Calls -> BOOLEAN]
      /\ refused \in [Calls -> BOOLEAN] /\ chunks \in [Calls -> Nat]
      /\ LifeInv(c) /\ TypeOK
  BY DEF IInv, TypeOK, CallsOK, CallInv
<1>2. token' = token
  BY DEF Begin, BeginFails, CallStep, Delay, DelayEnds, DelayFails, Wake, ConnectLanded, StatusLanded,
     ChunkLanded, Proceed
<1>3. ASSUME NEW ts, Return(c, ts), pc[c] # "done", UNCHANGED <<told, chunks, refused>>,
             ts \in Statuses \cup {"CANCELLED", "ABORTED_BY_SINK"},
             ts = "OK" => told[c] /\ ~refused[c],
             ts = "CANCELLED" => token,
             ts = "ABORTED_BY_SINK" => refused[c],
             refused[c] => ts \in {"ABORTED_BY_SINK", "CANCELLED"}
      PROVE  Promise(c)!Next
  <2>1. result[c] = "none" /\ result'[c] = ts
    BY <1>1, <1>3 DEF Return, LifeInv
  <2>2. ts \in Promise(c)!Failures \cup {"OK", "CANCELLED", "ABORTED_BY_SINK"}
    BY <1>3 DEF Promise!Failures, Statuses
  <2>3. Promise(c)!Return(ts)
    BY <1>2, <1>3, <2>1, <2>2 DEF Promise!Return
  <2> QED BY <2>2, <2>3 DEF Promise!Next
<1>4. ASSUME UNCHANGED <<told, chunks, refused, result>>
      PROVE  UNCHANGED Promise(c)!transportVars
  BY <1>2, <1>4 DEF Promise!transportVars
<1>5. CASE Begin(c) \/ BeginFails(c)
  <2>1. pc[c] = "new" /\ ~refused[c] /\ UNCHANGED <<told, chunks, refused>>
    BY <1>1, <1>5 DEF Begin, BeginFails, LifeInv
  <2>2. UNCHANGED result \/ Return(c, "CONNECT") \/ Return(c, "NOMEM")
    BY <1>5 DEF Begin, BeginFails
  <2> QED BY <1>3, <1>4, <2>1, <2>2 DEF Statuses
<1>6. CASE Delay(c) \/ DelayEnds(c)
  BY <1>4, <1>6 DEF Delay, DelayEnds, seen
<1>7. CASE DelayFails(c)
  <2>1. /\ pc[c] = "test" /\ ~refused[c] /\ UNCHANGED <<told, chunks, refused>>
        /\ Return(c, Verdict(c)) /\ Verdict(c) \notin {"none", "OK"}
    BY <1>1, <1>7 DEF DelayFails, LifeInv
  <2>2. Verdict(c) \in Statuses \cup {"CANCELLED"} /\ Verdict(c) # "ABORTED_BY_SINK"
    BY <1>1, <2>1, VerdictType DEF Statuses, TypeOK
  <2>3. Verdict(c) = "CANCELLED" => token
    <3>1. TimeoutOf(phase[c]) # "CANCELLED"
      BY <1>1, CallTypes DEF TimeoutOf
    <3> QED BY <3>1 DEF Verdict
  <2> QED BY <1>3, <2>1, <2>2, <2>3
<1>8. CASE Wake(c)
  <2>1. pc[c] = "wait" /\ ~refused[c] /\ UNCHANGED <<told, chunks, refused>>
    BY <1>1, <1>8 DEF Wake, LifeInv
  <2>2. UNCHANGED result \/ (token /\ Return(c, "CANCELLED"))
    BY <1>8 DEF Wake
  <2> QED BY <1>3, <1>4, <2>1, <2>2
<1>9. CASE ConnectLanded(c)
  <2>1. pc[c] = "landed" /\ ~refused[c] /\ UNCHANGED <<told, chunks, refused>>
    BY <1>1, <1>9 DEF ConnectLanded, LifeInv
  <2>2. UNCHANGED result \/ (resp[c].status # "OK" /\ Return(c, resp[c].status))
    BY <1>9 DEF ConnectLanded
  <2>3. resp[c].status \in Statuses /\ resp[c].status \notin {"CANCELLED", "ABORTED_BY_SINK"}
    BY <1>1, CallTypes, ResponseType DEF Statuses
  <2> QED BY <1>3, <1>4, <2>1, <2>2, <2>3
<1>10. ASSUME NEW refuse \in BOOLEAN, StatusLanded(c, refuse) PROVE Promise(c)!Next
  <2>1. /\ ~told[c] /\ result[c] = "none" /\ told'[c] = TRUE /\ refused'[c] = refuse
        /\ chunks'[c] = chunks[c] /\ result'[c] = result[c] /\ (refuse => HasSink)
    BY <1>1, <1>10 DEF StatusLanded, LifeInv, Playing
  <2>2. Promise(c)!Status
    BY <1>2, <2>1 DEF Promise!Status
  <2> QED BY <2>2 DEF Promise!Next
<1>11. ASSUME NEW refuse \in BOOLEAN, ChunkLanded(c, refuse) PROVE Promise(c)!Next
  <2>1. /\ told[c] /\ ~refused[c] /\ result[c] = "none" /\ told'[c] = told[c] /\ refused'[c] = refuse
        /\ chunks'[c] = chunks[c] + 1 /\ result'[c] = result[c] /\ (refuse => HasSink)
    BY <1>1, <1>11 DEF ChunkLanded, LifeInv, Playing
  <2>2. Promise(c)!Body
    BY <1>2, <2>1 DEF Promise!Body
  <2> QED BY <2>2 DEF Promise!Next
<1>12. CASE Proceed(c)
  <2>1. pc[c] = "told" /\ told[c] /\ UNCHANGED <<told, chunks, refused>>
    BY <1>1, <1>12 DEF Proceed, LifeInv, Playing
  <2>2. \/ UNCHANGED result
        \/ refused[c] /\ Return(c, "ABORTED_BY_SINK")
        \/ ~refused[c] /\ Return(c, resp[c].status)
    BY <1>12 DEF Proceed
  <2>3. resp[c].status \in Statuses /\ resp[c].status \notin {"CANCELLED", "ABORTED_BY_SINK"}
    BY <1>1, CallTypes, ResponseType DEF Statuses
  <2> QED BY <1>3, <1>4, <2>1, <2>2, <2>3
<1> QED BY <1>5, <1>6, <1>7, <1>8, <1>9, <1>10, <1>11, <1>12 DEF CallStep

(* The scripted transport implements the contract of a transport for every
   call, however many run at the same time. *)
THEOREM ScriptImplementsTransport == Spec => ImplementsTransport
<1>1. Init => \A c \in Calls : Promise(c)!Init
  BY DEF Init, Promise!Init
<1>2. IInv /\ [Next]_vars => [\A c \in Calls : Promise(c)!Next \/ UNCHANGED Promise(c)!transportVars]_vars
  <2> SUFFICES ASSUME IInv, Next, NEW d \in Calls
               PROVE  Promise(d)!Next \/ UNCHANGED Promise(d)!transportVars
    OBVIOUS
  <2>1. ASSUME NEW c \in Calls, Begin(c) \/ BeginFails(c) \/ CallStep(c)
        PROVE  Promise(d)!Next \/ UNCHANGED Promise(d)!transportVars
    <3>1. CASE c = d
      BY <2>1, <3>1, StepPromises
    <3>2. CASE c # d
      <4>1. SameCall(d)
        BY <2>1, <3>2, OthersSame DEF IInv, TypeOK
      <4>2. token' = token
        BY <2>1 DEF Begin, BeginFails, CallStep, Delay, DelayEnds, DelayFails, Wake, ConnectLanded,
           StatusLanded, ChunkLanded, Proceed
      <4> QED BY <4>1, <4>2, PromiseKept
    <3> QED BY <3>1, <3>2
  <2>2. ASSUME UNCHANGED <<seen, token>> PROVE UNCHANGED Promise(d)!transportVars
    BY <2>2 DEF seen, Promise!transportVars
  <2>3. CASE Trigger
    <3>1. Promise(d)!Trigger
      BY <2>3 DEF Trigger, seen, Promise!Trigger
    <3> QED BY <3>1 DEF Promise!Next
  <2>4. CASE Tick \/ AllDone \/ (\E r \in Responses : Push(r)) \/ \E i \in 1..MaxRead : Snapshot(i)
    <3>1. UNCHANGED <<seen, token>>
      BY <2>4 DEF Tick, AllDone, vars, Push, Snapshot
    <3> QED BY <2>2, <3>1
  <2> QED BY <2>1, <2>3, <2>4 DEF Next
<1> QED BY <1>1, <1>2, InductiveInvariant, PTL DEF Spec, ImplementsTransport
=============================================================================
