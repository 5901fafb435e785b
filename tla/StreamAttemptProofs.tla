------------------------- MODULE StreamAttemptProofs -------------------------
(***************************************************************************)
(* Proofs about StreamAttempt, for every limit, every set of payloads and  *)
(* replies, and any number of round trips.                                 *)
(***************************************************************************)
EXTENDS StreamAttempt, SequenceTheorems, TLAPS

Errors == {"OK", "TOOBIG", "NOMEM"}
Buffer == [data : Seq({attempt}), err : Errors]
Counters == [text : Nat, reasoning : Nat]
Lifted == {0, attempt}

(* A context: every byte and every field in it is of the running round
   trip. *)
Context ==
  [done : BOOLEAN, delivered : BOOLEAN, sawEvent : BOOLEAN, err : Errors, sseErr : Errors,
   rc : {"more", "stop", "cancel", "error", "OK", "MALFORMED", "EMPTY", "NOMEM"},
   lastRaw : Seq({attempt}), body : Buffer, text : Buffer, reasoning : Buffer,
   finish : Lifted, usage : [Tokens -> Lifted], model : Lifted, rawBody : Seq({attempt}),
   came : Counters, handed : Counters, asked : BOOLEAN]

(* No buffer passes the limit; a callback was handed no more than was stored,
   and the round trip knows of it. *)
Kept(c) ==
  /\ c \in Context
  /\ Len(c.text.data) <= Cap /\ Len(c.reasoning.data) <= Cap /\ Len(c.body.data) <= Cap
  /\ Accumulate =>
       /\ HasDelta => c.handed.text <= Len(c.text.data)
       /\ c.handed.reasoning <= Len(c.reasoning.data)
  /\ c.delivered <=> c.handed.text + c.handed.reasoning > 0
  /\ c.asked => c.rc = "cancel"

(* As long as nothing failed every byte that came is stored. *)
Streamed(c) ==
  /\ Kept(c)
  /\ c.rc \in {"more", "stop", "cancel", "error"}
  /\ c.done <=> c.rc = "stop"
  /\ c.rc # "error" =>
       /\ c.err = "OK" /\ c.sseErr = "OK"
       /\ Accumulate => /\ Len(c.text.data) = c.came.text
                        /\ Len(c.reasoning.data) = c.came.reasoning
  /\ c.body = Empty

-----------------------------------------------------------------------------
(* Buffers.                                                                *)

LEMMA Copies ==
  ASSUME NEW n \in Nat, NEW s \in Seq({attempt})
  PROVE  /\ s \o [k \in 1..n |-> attempt] \in Seq({attempt})
         /\ Len(s \o [k \in 1..n |-> attempt]) = Len(s) + n
<1> DEFINE t == [k \in 1..n |-> attempt]
<1>1. t \in Seq({attempt}) /\ Len(t) = n
  OBVIOUS
<1> HIDE DEF t
<1> QED BY <1>1

LEMMA Appended ==
  ASSUME NEW b \in Buffer, NEW n \in Nat, NEW d \in AppendBytes(b, n), Len(b.data) <= Cap
  PROVE  /\ d \in Buffer /\ Len(d.data) <= Cap /\ Len(b.data) <= Len(d.data)
         /\ d.err = "OK" => Len(d.data) = Len(b.data) + n
         /\ d.err # "OK" => d.data = b.data
         /\ b.err # "TOOBIG" /\ Len(b.data) + n <= Cap => d.err # "TOOBIG"
<1> USE StreamAssumption DEF Buffer, Errors
<1>1. CASE b.err # "OK"
  BY <1>1 DEF AppendBytes
<1>2. CASE b.err = "OK" /\ Len(b.data) + n > Cap
  BY <1>2 DEF AppendBytes
<1>3. CASE b.err = "OK" /\ ~(Len(b.data) + n > Cap)
  <2> DEFINE more == b.data \o [k \in 1..n |-> attempt]
  <2>1. \/ d = [b EXCEPT !.data = more]
        \/ d = [b EXCEPT !.err = "NOMEM"]
    BY <1>3 DEF AppendBytes
  <2>2. more \in Seq({attempt}) /\ Len(more) = Len(b.data) + n /\ Len(b.data) \in Nat
    BY Copies
  <2> HIDE DEF more
  <2>3. CASE d = [b EXCEPT !.data = more]
    <3>1. d.data = more /\ d.err = "OK" /\ d \in Buffer
      BY <1>3, <2>2, <2>3
    <3> QED BY <1>3, <2>2, <3>1
  <2>4. CASE d = [b EXCEPT !.err = "NOMEM"]
    <3>1. d.data = b.data /\ d.err = "NOMEM" /\ d \in Buffer
      BY <2>4
    <3> QED BY <1>3, <2>2, <3>1
  <2> QED BY <2>1, <2>3, <2>4
<1> QED BY <1>1, <1>2, <1>3

-----------------------------------------------------------------------------
(* One payload.                                                            *)

LEMMA FailKeeps ==
  ASSUME NEW c, Streamed(c), c.rc = "more", NEW why \in {"NOMEM", "TOOBIG"}
  PROVE  Streamed(Fail(c, why))
<1> DEFINE d == Fail(c, why)
<1>1. d \in Context /\ d.err = why /\ d.rc = "error"
  BY DEF Fail, Streamed, Kept, Context, Errors
<1>2. /\ d.done = c.done /\ d.delivered = c.delivered /\ d.text = c.text
      /\ d.reasoning = c.reasoning /\ d.body = c.body /\ d.handed = c.handed /\ d.asked = c.asked
  BY DEF Fail, Streamed, Kept, Context
<1> HIDE DEF d
<1>3. Streamed(d)
  BY <1>1, <1>2 DEF Streamed, Kept
<1> QED BY <1>3 DEF d

(* A step that stores nothing and hands out nothing. *)
LEMMA Unmoved ==
  ASSUME NEW c, Streamed(c), c.rc = "more", NEW d \in Context,
         d.text = c.text, d.reasoning = c.reasoning, d.body = c.body, d.came = c.came,
         d.handed = c.handed, d.delivered = c.delivered, d.err = c.err, d.sseErr = c.sseErr,
         d.rc \in {"more", "stop", "cancel"}, d.done <=> d.rc = "stop",
         d.asked => d.rc = "cancel"
  PROVE  Streamed(d)
BY DEF Streamed, Kept

LEMMA RawChunkKeeps ==
  ASSUME NEW c, Streamed(c), c.rc = "more", NEW d \in RawChunk(c)
  PROVE  Streamed(d)
<1>0. <<attempt>> \in Seq({attempt})
  OBVIOUS
<1>1. CASE d = Fail(c, "NOMEM")
  BY <1>1, FailKeeps
<1>2. CASE d = [c EXCEPT !.lastRaw = <<attempt>>]
  <2>1. d \in Context
    BY <1>0, <1>2 DEF Streamed, Kept, Context
  <2> QED BY <1>2, <2>1, Unmoved DEF Streamed, Kept, Context
<1>3. CASE d = [[c EXCEPT !.lastRaw = <<attempt>>] EXCEPT !.asked = TRUE, !.rc = "cancel"]
  <2>1. d \in Context
    BY <1>0, <1>3 DEF Streamed, Kept, Context
  <2> QED BY <1>3, <2>1, Unmoved DEF Streamed, Kept, Context
<1> QED BY <1>1, <1>2, <1>3 DEF RawChunk, Called

LEMMA SetFinishKeeps ==
  ASSUME NEW c, Streamed(c), c.rc = "more", NEW d \in SetFinish(c)
  PROVE  Streamed(d)
<1>1. CASE d = Fail(c, "NOMEM")
  BY <1>1, FailKeeps
<1>2. CASE d = [c EXCEPT !.finish = attempt]
  <2>1. d \in Context
    BY <1>2 DEF Streamed, Kept, Context, Lifted
  <2> QED BY <1>2, <2>1, Unmoved DEF Streamed, Kept, Context
<1> QED BY <1>1, <1>2 DEF SetFinish

LEMMA LiftUsageKeeps ==
  ASSUME NEW c, Streamed(c), c.rc = "more", NEW present
  PROVE  Streamed(LiftUsage(c, present)) /\ LiftUsage(c, present).rc = "more"
<1> DEFINE usage == [t \in Tokens |-> IF t \in present THEN attempt ELSE c.usage[t]]
           d == [c EXCEPT !.usage = usage]
<1>1. usage \in [Tokens -> Lifted]
  BY DEF Streamed, Kept, Context, Lifted
<1>2. LiftUsage(c, present) = d
  BY DEF LiftUsage
<1> HIDE DEF usage
<1>3. d \in Context /\ d.rc = "more"
  BY <1>1 DEF Streamed, Kept, Context
<1>4. Streamed(d)
  BY <1>3, Unmoved DEF Streamed, Kept, Context
<1> QED BY <1>2, <1>3, <1>4

LEMMA LiftModelKeeps ==
  ASSUME NEW c, Streamed(c), c.rc = "more", NEW present, NEW d \in LiftModel(c, present)
  PROVE  Streamed(d)
<1>1. CASE d = c
  BY <1>1
<1>2. CASE d = Fail(c, "NOMEM")
  BY <1>2, FailKeeps
<1>3. CASE d = [c EXCEPT !.model = attempt]
  <2>1. d \in Context
    BY <1>3 DEF Streamed, Kept, Context, Lifted
  <2> QED BY <1>3, <2>1, Unmoved DEF Streamed, Kept, Context
<1> QED BY <1>1, <1>2, <1>3 DEF LiftModel

(* What is handed over has been stored. *)
LEMMA HandKeeps ==
  ASSUME NEW c, Streamed(c), c.rc = "more", NEW field \in {"text", "reasoning"},
         NEW n \in Nat \ {0},
         Accumulate => c.handed[field] + n <= Len(c[field].data) \/ ~Callback(field),
         NEW d \in Hand(c, field, n)
  PROVE  Streamed(d)
<1>1. CASE ~Callback(field)
  BY <1>1 DEF Hand
<1>2. CASE Callback(field)
  <2> DEFINE handed == [c.handed EXCEPT ![field] = @ + n]
             told == [c EXCEPT !.delivered = TRUE, !.handed = handed]
  <2>0. handed \in Counters
    BY DEF Streamed, Kept, Context, Counters
  <2>1. told \in Context /\ told.delivered = TRUE /\ told.handed = handed
    BY <2>0 DEF Streamed, Kept, Context
  <2>2. /\ told.rc = "more" /\ told.done = c.done /\ told.asked = c.asked /\ told.err = c.err
        /\ told.sseErr = c.sseErr /\ told.text = c.text /\ told.reasoning = c.reasoning
        /\ told.body = c.body /\ told.came = c.came
    BY DEF Streamed, Kept, Context
  <2>3. d = told \/ d = [told EXCEPT !.asked = TRUE, !.rc = "cancel"]
    BY <1>2 DEF Hand, Called
  <2> HIDE DEF told, handed
  <2>4. /\ told.handed.text + told.handed.reasoning > 0
        /\ Accumulate => /\ HasDelta => told.handed.text <= Len(told.text.data)
                         /\ told.handed.reasoning <= Len(told.reasoning.data)
    <3>1. c.handed \in Counters
      BY DEF Streamed, Kept, Context
    <3>2. CASE field = "text"
      BY <1>2, <2>1, <2>2, <3>1, <3>2 DEF handed, Counters, Streamed, Kept, Callback
    <3>3. CASE field = "reasoning"
      BY <1>2, <2>1, <2>2, <3>1, <3>3 DEF handed, Counters, Streamed, Kept, Callback
    <3> QED BY <3>2, <3>3
  <2>5. Streamed(told)
    BY <2>1, <2>2, <2>4 DEF Streamed, Kept
  <2>6. CASE d = [told EXCEPT !.asked = TRUE, !.rc = "cancel"]
    <3>1. d \in Context
      BY <2>1, <2>6 DEF Context
    <3> QED BY <2>2, <2>5, <2>6, <3>1, Unmoved DEF Streamed, Kept, Context
  <2> QED BY <2>3, <2>5, <2>6
<1> QED BY <1>1, <1>2

(* A context whose buffer has taken more. *)
Put(c, field, b) == [c EXCEPT ![field] = b]

LEMMA PutType ==
  ASSUME NEW c \in Context, NEW field \in {"text", "reasoning"}, NEW b \in Buffer
  PROVE  LET d == Put(c, field, b)
         IN  /\ d \in Context /\ d[field] = b
             /\ \A f \in {"text", "reasoning"} \ {field} : d[f] = c[f]
<1>1. CASE field = "text"
  BY <1>1 DEF Context, Put
<1>2. CASE field = "reasoning"
  BY <1>2 DEF Context, Put
<1> QED BY <1>1, <1>2

(* A byte is stored, or the event fails. *)
LEMMA StoreKeeps ==
  ASSUME NEW c, Streamed(c), c.rc = "more", Accumulate, NEW field \in {"text", "reasoning"},
         NEW n \in Nat \ {0},
         NEW d \in Store([c EXCEPT !.came[field] = @ + n], field, n)
  PROVE  /\ Streamed(d)
         /\ d.rc = "more" => d.handed[field] + n <= Len(d[field].data) \/ ~Callback(field)
<1> DEFINE counts == [c.came EXCEPT ![field] = @ + n]
           came == [c EXCEPT !.came = counts]
<1>0. counts \in Counters /\ counts[field] = c.came[field] + n
  BY DEF Streamed, Kept, Context, Counters
<1>1. came \in Context /\ came.came = counts
  BY <1>0 DEF Streamed, Kept, Context
<1>2. /\ came.rc = "more" /\ came.done = c.done /\ came.asked = c.asked /\ came.err = c.err
      /\ came.sseErr = c.sseErr /\ came.text = c.text /\ came.reasoning = c.reasoning
      /\ came.body = c.body /\ came.handed = c.handed /\ came.delivered = c.delivered
  BY DEF Streamed, Kept, Context
<1>3. came[field] = c[field]
  BY <1>2
<1>4. PICK b \in AppendBytes(c[field], n) :
        d = IF b.err = "OK" THEN [came EXCEPT ![field] = b]
            ELSE Fail([came EXCEPT ![field] = b], b.err)
  BY <1>3 DEF Store
<1>5. c[field] \in Buffer /\ Len(c[field].data) <= Cap
  BY DEF Streamed, Kept, Context
<1>6. /\ b \in Buffer /\ Len(b.data) <= Cap /\ Len(c[field].data) <= Len(b.data)
      /\ b.err = "OK" => Len(b.data) = Len(c[field].data) + n
  BY <1>5, Appended
<1> DEFINE put == [came EXCEPT ![field] = b]
<1>7. /\ put \in Context /\ put[field] = b
      /\ \A f \in {"text", "reasoning"} \ {field} : put[f] = c[f]
  <2>1. put = Put(came, field, b)
    BY DEF Put
  <2>2. \A f \in {"text", "reasoning"} : came[f] = c[f]
    BY <1>2
  <2> HIDE DEF put, came
  <2> QED BY <1>1, <1>6, <2>1, <2>2, PutType
<1>8. /\ put.rc = "more" /\ put.done = c.done /\ put.asked = c.asked /\ put.err = c.err
      /\ put.sseErr = c.sseErr /\ put.body = c.body /\ put.handed = c.handed
      /\ put.delivered = c.delivered /\ put.came = counts
  BY <1>1, <1>2 DEF Context
<1> HIDE DEF put, came
<1>9. Kept(put)
  <2>1. /\ Len(put.text.data) <= Cap /\ Len(c.text.data) <= Len(put.text.data)
        /\ Len(put.reasoning.data) <= Cap /\ Len(c.reasoning.data) <= Len(put.reasoning.data)
    <3>1. \A f \in {"text", "reasoning"} :
            Len(put[f].data) <= Cap /\ Len(c[f].data) <= Len(put[f].data)
      <4>1. ASSUME NEW f \in {"text", "reasoning"} \ {field}
            PROVE  Len(put[f].data) <= Cap /\ Len(c[f].data) <= Len(put[f].data)
        <5>1. put[f] = c[f] /\ c[f] \in Buffer /\ Len(c[f].data) <= Cap
          BY <1>7 DEF Streamed, Kept, Context
        <5> QED BY <5>1 DEF Buffer
      <4> QED BY <1>6, <1>7, <4>1
    <3> QED BY <3>1
  <2>2. c.handed \in Counters /\ Len(c.text.data) \in Nat /\ Len(c.reasoning.data) \in Nat
        /\ Len(put.text.data) \in Nat /\ Len(put.reasoning.data) \in Nat
    BY <1>7 DEF Streamed, Kept, Context, Buffer
  <2>3. Accumulate =>
          /\ HasDelta => put.handed.text <= Len(put.text.data)
          /\ put.handed.reasoning <= Len(put.reasoning.data)
    <3>1. /\ HasDelta /\ Accumulate => c.handed.text <= Len(c.text.data)
          /\ Accumulate => c.handed.reasoning <= Len(c.reasoning.data)
      BY DEF Streamed, Kept
    <3>2. c.handed.text \in Nat /\ c.handed.reasoning \in Nat
      BY <2>2 DEF Counters
    <3>3. put.handed.text = c.handed.text /\ put.handed.reasoning = c.handed.reasoning
      BY <1>8
    <3>4. ASSUME HasDelta, Accumulate
          PROVE  put.handed.text <= Len(put.text.data)
      BY <2>1, <2>2, <3>1, <3>2, <3>3, <3>4
    <3>5. ASSUME Accumulate
          PROVE  put.handed.reasoning <= Len(put.reasoning.data)
      BY <2>1, <2>2, <3>1, <3>2, <3>3, <3>5
    <3> QED BY <3>4, <3>5
  <2> QED BY <1>7, <1>8, <2>1, <2>3 DEF Streamed, Kept
<1>10. CASE b.err = "OK"
  <2>1. d = put
    BY <1>4, <1>10 DEF put
  <2>2. \A f \in {"text", "reasoning"} : Len(put[f].data) = counts[f]
    <3>1. \A f \in {"text", "reasoning"} : Len(c[f].data) = c.came[f]
      BY DEF Streamed
    <3>2. \A f \in {"text", "reasoning"} \ {field} : counts[f] = c.came[f]
      BY DEF Streamed, Kept, Context, Counters
    <3> QED BY <1>0, <1>6, <1>7, <1>10, <3>1, <3>2
  <2>3. Streamed(put)
    BY <1>8, <1>9, <2>2 DEF Streamed
  <2>4. put.handed[field] + n <= Len(put[field].data) \/ ~Callback(field)
    <3>1. c.handed[field] <= Len(c[field].data) \/ ~Callback(field)
      BY DEF Streamed, Kept, Callback
    <3>2. c.handed[field] \in Nat /\ Len(c[field].data) \in Nat
      BY <1>5 DEF Streamed, Kept, Context, Counters, Buffer
    <3> QED BY <1>6, <1>7, <1>8, <1>10, <3>1, <3>2
  <2> QED BY <2>1, <2>3, <2>4
<1>11. CASE b.err # "OK"
  <2>1. d = Fail(put, b.err) /\ b.err \in Errors
    BY <1>4, <1>6, <1>11 DEF put, Buffer
  <2>2. d \in Context /\ d.err = b.err /\ d.rc = "error"
    BY <1>7, <2>1 DEF Fail, Context
  <2>3. /\ d.done = put.done /\ d.delivered = put.delivered /\ d.text = put.text
        /\ d.reasoning = put.reasoning /\ d.body = put.body /\ d.handed = put.handed
        /\ d.asked = put.asked
    BY <1>7, <2>1 DEF Fail, Context
  <2> QED BY <1>8, <1>9, <2>2, <2>3 DEF Streamed, Kept
<1> QED BY <1>10, <1>11

LEMMA DeliverKeeps ==
  ASSUME NEW c, Streamed(c), c.rc = "more", NEW field \in {"text", "reasoning"},
         NEW n \in Nat, NEW d \in Deliver(c, field, n)
  PROVE  Streamed(d)
<1>1. CASE n = 0
  BY <1>1 DEF Deliver
<1>2. CASE n # 0
  <2> DEFINE came == [c EXCEPT !.came[field] = @ + n]
             stored == IF Accumulate THEN Store(came, field, n) ELSE {came}
  <2>1. PICK e \in stored : d \in IF e.rc # "more" THEN {e} ELSE Hand(e, field, n)
    BY <1>2 DEF Deliver, Then
  <2>2. /\ Streamed(e)
        /\ e.rc = "more" /\ Accumulate => e.handed[field] + n <= Len(e[field].data) \/ ~Callback(field)
    <3>1. CASE Accumulate
      BY <1>2, <3>1, StoreKeeps
    <3>2. CASE ~Accumulate
      <4> DEFINE counts == [c.came EXCEPT ![field] = @ + n]
                 more == [c EXCEPT !.came = counts]
      <4>1. e = more
        BY <3>2
      <4>2. counts \in Counters
        BY DEF Streamed, Kept, Context, Counters
      <4>3. more \in Context
        BY <4>2 DEF Streamed, Kept, Context
      <4>4. /\ more.rc = "more" /\ more.done = c.done /\ more.asked = c.asked /\ more.err = c.err
            /\ more.sseErr = c.sseErr /\ more.text = c.text /\ more.reasoning = c.reasoning
            /\ more.body = c.body /\ more.handed = c.handed /\ more.delivered = c.delivered
        BY DEF Streamed, Kept, Context
      <4> HIDE DEF more
      <4> QED BY <3>2, <4>1, <4>3, <4>4 DEF Streamed, Kept
    <3> QED BY <3>1, <3>2
  <2> HIDE DEF stored
  <2>3. CASE e.rc = "more"
    BY <1>2, <2>1, <2>2, <2>3, HandKeeps
  <2>4. CASE e.rc # "more"
    BY <2>1, <2>2, <2>4
  <2> QED BY <2>3, <2>4
<1> QED BY <1>1, <1>2

LEMMA ChunkKeeps ==
  ASSUME NEW c, Streamed(c), c.rc = "more", NEW e \in Event, NEW d \in Chunk(c, e)
  PROVE  Streamed(d)
<1> DEFINE content   == Deliver(c, "text", e.content)
           reasoning == Then(content, LAMBDA x : Deliver(x, "reasoning", e.reasoning))
           tools     == IF e.tools THEN Then(reasoning, RawChunk) ELSE reasoning
           finish    == IF e.finish THEN Then(tools, SetFinish) ELSE tools
<1>0. e.content \in Nat /\ e.reasoning \in Nat
  BY DEF Event
<1>1. \A x \in content : Streamed(x)
  BY <1>0, DeliverKeeps
<1>2. \A x \in reasoning : Streamed(x)
  <2>1. ASSUME NEW x \in reasoning PROVE Streamed(x)
    <3>1. PICK y \in content : x \in IF y.rc # "more" THEN {y} ELSE Deliver(y, "reasoning", e.reasoning)
      BY <2>1 DEF Then
    <3> HIDE DEF content
    <3> QED BY <1>0, <1>1, <3>1, DeliverKeeps
  <2> QED BY <2>1
<1> HIDE DEF content, reasoning
<1>3. \A x \in tools : Streamed(x)
  <2>1. ASSUME NEW x \in Then(reasoning, RawChunk) PROVE Streamed(x)
    <3>1. PICK y \in reasoning : x \in IF y.rc # "more" THEN {y} ELSE RawChunk(y)
      BY <2>1 DEF Then
    <3> QED BY <1>2, <3>1, RawChunkKeeps
  <2> QED BY <1>2, <2>1
<1> HIDE DEF tools
<1>4. \A x \in finish : Streamed(x)
  <2>1. ASSUME NEW x \in Then(tools, SetFinish) PROVE Streamed(x)
    <3>1. PICK y \in tools : x \in IF y.rc # "more" THEN {y} ELSE SetFinish(y)
      BY <2>1 DEF Then
    <3> QED BY <1>3, <3>1, SetFinishKeeps
  <2> QED BY <1>3, <2>1
<1>5. PICK x \in finish : d \in IF x.rc # "more" THEN {x} ELSE LiftModel(LiftUsage(x, e.usage), e.model)
  BY DEF Chunk, Then, content, reasoning, tools
<1> HIDE DEF finish
<1>6. CASE x.rc = "more"
  <2>1. Streamed(LiftUsage(x, e.usage)) /\ LiftUsage(x, e.usage).rc = "more"
    BY <1>4, <1>6, LiftUsageKeeps
  <2>2. d \in LiftModel(LiftUsage(x, e.usage), e.model)
    BY <1>5, <1>6
  <2> QED BY <2>1, <2>2, LiftModelKeeps
<1> QED BY <1>4, <1>5, <1>6

LEMMA EventKeeps ==
  ASSUME NEW c, Streamed(c), c.rc = "more", NEW e \in Event, NEW d \in FeedEvent(c, e)
  PROVE  Streamed(d)
<1> DEFINE seen == [c EXCEPT !.sawEvent = TRUE]
<1>1. seen \in Context /\ Streamed(seen) /\ seen.rc = "more"
  <2>1. seen \in Context /\ seen.rc = "more"
    BY DEF Streamed, Kept, Context
  <2> QED BY <2>1, Unmoved DEF Streamed, Kept, Context
<1>2. CASE d \in SseFails(c)
  <2>1. PICK why \in {"TOOBIG", "NOMEM"} : d = [c EXCEPT !.sseErr = why, !.rc = "error"]
    BY <1>2 DEF SseFails
  <2>2. d \in Context /\ d.rc = "error"
    BY <2>1 DEF Streamed, Kept, Context, Errors
  <2>3. /\ d.done = c.done /\ d.delivered = c.delivered /\ d.text = c.text
        /\ d.reasoning = c.reasoning /\ d.body = c.body /\ d.handed = c.handed /\ d.asked = c.asked
    BY <2>1 DEF Streamed, Kept, Context
  <2> QED BY <2>2, <2>3 DEF Streamed, Kept
<1>3. CASE d \in sicha_stream_on_event(c, e)
  <2>1. CASE e.kind = "done"
    <3>1. d = [c EXCEPT !.done = TRUE, !.rc = "stop"]
      BY <1>3, <2>1 DEF sicha_stream_on_event
    <3>2. d \in Context
      BY <3>1 DEF Streamed, Kept, Context
    <3> QED BY <3>1, <3>2, Unmoved DEF Streamed, Kept, Context
  <2>2. CASE d \in RawChunk(c) \cup RawChunk(seen)
    BY <1>1, <2>2, RawChunkKeeps
  <2>3. CASE d \in Chunk(seen, e)
    BY <1>1, <2>3, ChunkKeeps
  <2> QED BY <1>3, <2>1, <2>2, <2>3 DEF sicha_stream_on_event, Event
<1> QED BY <1>2, <1>3 DEF FeedEvent

-----------------------------------------------------------------------------
(* The end of a streamed round trip.                                       *)

Excerpts == Seq(Nat)

Messages ==
  TransportStatus \cup {"out of memory", "http", "ok", "TOOBIG", "MALFORMED", "EMPTY"}

BodyStates == {"OK", "TOOBIG", "MALFORMED", "EMPTY"}

Outcome ==
  [ts : TransportStatus, http : {0, 200, 500}, body : BodyStates, terminal : BOOLEAN,
   delivered : BOOLEAN, excerpt : Excerpts, message : Messages]

(* What a context and an outcome say of each other when run_attempt is over. *)
Ended(c, o) ==
  /\ Kept(c) /\ o \in Outcome
  /\ o.ts \in {"ABORTED_BY_SINK", "NOMEM"} => o.terminal
  /\ ~stream => /\ o.body = "TOOBIG" => c.body.err = "TOOBIG"
                /\ c.text.err # "TOOBIG" /\ c.reasoning.err # "TOOBIG"
  /\ "NOMEM" \in {c.err, c.sseErr, c.body.err} =>
       o.terminal \/ o.ts \in {"CANCELLED", "OTHER"}
  /\ c.asked => \/ o.ts = "CANCELLED" /\ ~o.terminal
                \/ o.ts \in {"NOMEM", "OTHER"} /\ (o.terminal <=> o.ts = "NOMEM")
  /\ Complete(o) =>
       /\ stream => c.done \/ c.finish = attempt
       /\ ~stream => c.rawBody # <<>>
       /\ Accumulate \/ ~stream => /\ Len(c.text.data) = c.came.text
                                   /\ Len(c.reasoning.data) = c.came.reasoning

(* The outcome before anything is made of it. *)
Reported(ts) == [NoOutcome EXCEPT !.ts = ts, !.http = http, !.terminal = (ts = "NOMEM")]

(* An outcome in which one thing is changed. *)
WithStatus(o, ts) == [o EXCEPT !.ts = ts]
WithHttp(o, answer) == [o EXCEPT !.http = answer]
WithBody(o, body) == [o EXCEPT !.body = body]
WithTerminal(o, terminal) == [o EXCEPT !.terminal = terminal]
WithExcerpt(o, excerpt) == [o EXCEPT !.excerpt = excerpt]
WithDelivered(o, delivered) == [o EXCEPT !.delivered = delivered]
WithMessage(o, message) == [o EXCEPT !.message = message]

LEMMA StatusType ==
  ASSUME NEW o \in Outcome, NEW ts \in TransportStatus
  PROVE  LET e == WithStatus(o, ts)
         IN  /\ e \in Outcome /\ e.ts = ts
             /\ e.http = o.http /\ e.body = o.body /\ (e.terminal <=> o.terminal)
BY DEF Outcome, WithStatus

LEMMA HttpType ==
  ASSUME NEW o \in Outcome, NEW answer \in {0, 200, 500}
  PROVE  LET e == WithHttp(o, answer)
         IN  /\ e \in Outcome /\ e.http = answer
             /\ e.ts = o.ts /\ e.body = o.body /\ (e.terminal <=> o.terminal)
BY DEF Outcome, WithHttp

LEMMA BodyType ==
  ASSUME NEW o \in Outcome, NEW body \in BodyStates
  PROVE  LET e == WithBody(o, body)
         IN  /\ e \in Outcome /\ e.body = body
             /\ e.ts = o.ts /\ e.http = o.http /\ (e.terminal <=> o.terminal)
BY DEF Outcome, WithBody

LEMMA TerminalType ==
  ASSUME NEW o \in Outcome, NEW terminal \in BOOLEAN
  PROVE  LET e == WithTerminal(o, terminal)
         IN  /\ e \in Outcome /\ (e.terminal <=> terminal)
             /\ e.ts = o.ts /\ e.http = o.http /\ e.body = o.body
BY DEF Outcome, WithTerminal

LEMMA GivesUp ==
  ASSUME NEW o \in Outcome
  PROVE  LET e == WithTerminal(o, TRUE)
         IN  /\ e \in Outcome /\ e.terminal
             /\ e.ts = o.ts /\ e.http = o.http /\ e.body = o.body
BY TerminalType

LEMMA TooBigType ==
  ASSUME NEW o \in Outcome
  PROVE  LET e == WithBody(WithStatus(o, "OK"), "TOOBIG")
         IN  e \in Outcome /\ e.ts = "OK" /\ e.body = "TOOBIG"
<1>1. "OK" \in TransportStatus /\ "TOOBIG" \in BodyStates
  BY DEF TransportStatus, BodyStates
<1> QED BY <1>1, StatusType, BodyType

LEMMA ReportedType ==
  ASSUME NEW ts \in TransportStatus, http \in {0, 200, 500}
  PROVE  LET e == Reported(ts)
         IN  /\ e \in Outcome /\ e.ts = ts /\ e.http = http /\ e.body = "OK"
             /\ e.terminal <=> ts = "NOMEM"
<1>1. NoOutcome \in Outcome /\ NoOutcome.body = "OK"
  BY DEF NoOutcome, Outcome, BodyStates, Excerpts, Messages, TransportStatus
<1> DEFINE answered == WithHttp(WithStatus(NoOutcome, ts), http)
<1>2. answered \in Outcome /\ answered.ts = ts /\ answered.http = http /\ answered.body = "OK"
  BY <1>1, StatusType, HttpType
<1> DEFINE gone == ts = "NOMEM"
<1>3. Reported(ts) = WithTerminal(answered, gone)
  BY DEF Reported, WithTerminal, WithHttp, WithStatus
<1>4. gone \in BOOLEAN /\ (gone <=> ts = "NOMEM")
  OBVIOUS
<1> HIDE DEF answered, gone
<1> QED BY <1>2, <1>3, <1>4, TerminalType

LEMMA StreamEnds ==
  ASSUME StreamAssumption, stream, Streamed(io), NEW ts \in TransportStatus,
         http \in {0, 200, 500}, TransportMayReport(ts),
         NEW end \in EndStream(io, Untangle(io, Reported(ts)))
  PROVE  Ended(end.io, end.outcome)
<1> DEFINE o0 == Reported(ts)
           o == Untangle(io, o0)
<1>1. o0 \in Outcome /\ o0.ts = ts /\ o0.http = http /\ o0.body = "OK"
      /\ (o0.terminal <=> ts = "NOMEM")
  BY ReportedType
<1>2. io.body.err = "OK"
  BY DEF Streamed, Empty
<1>3. CASE Complete(o) /\ ~io.done
  <2>1. ts = "OK" /\ o = o0 /\ io.rc = "more"
    BY <1>1, <1>3 DEF Untangle, Complete, TransportMayReport, Streamed, Kept, Context, Outcome
  <2>2. PICK d \in Flush(io) : end = End(d, CheckEnd(d, Flushed(d, o)))
    BY <1>3 DEF EndStream
  <2>3. Streamed(d)
    BY <2>1, <2>2, EventKeeps, StreamAssumption DEF Flush
  <2> DEFINE f == Flushed(d, o)
             e == CheckEnd(d, f)
  <2>4. end.io = d /\ end.outcome = e
    BY <2>2 DEF End
  <2>5. d.body.err = "OK" /\ d.rc \in {"more", "stop", "cancel", "error"}
    BY <2>3 DEF Streamed, Empty
  <2>6. CASE d.rc = "cancel"
    <3>1. f = WithStatus(o0, "CANCELLED")
      BY <2>1, <2>6 DEF Flushed, WithStatus
    <3>2. f \in Outcome /\ f.ts = "CANCELLED" /\ f.terminal = FALSE
      BY <1>1, <2>1, <3>1, StatusType DEF TransportStatus
    <3>3. e = f /\ ~Complete(e)
      BY <3>2 DEF CheckEnd, Complete
    <3> QED BY <2>3, <2>4, <2>5, <2>6, <3>2, <3>3 DEF Ended, Streamed
  <2>7. CASE d.rc = "error"
    <3>1. CASE "NOMEM" \in {d.err, d.sseErr}
      <4>1. f = WithTerminal(o0, TRUE)
        BY <2>1, <2>7, <3>1 DEF Flushed, WithTerminal
      <4> HIDE DEF f
      <4>2. f \in Outcome /\ f.terminal
        BY <1>1, <4>1, GivesUp
      <4>3. f.terminal
        BY <4>2
      <4>4. e = f /\ ~Complete(e)
        BY <4>3 DEF CheckEnd, Complete
      <4> QED BY <2>3, <2>4, <2>5, <2>7, <4>2, <4>3, <4>4 DEF Ended, Streamed, Kept
    <3>2. CASE "NOMEM" \notin {d.err, d.sseErr}
      <4>1. f = WithBody(o0, "TOOBIG")
        BY <2>1, <2>7, <3>2 DEF Flushed, WithBody
      <4>2. f \in Outcome /\ f.body = "TOOBIG" /\ f.ts = "OK"
        BY <1>1, <2>1, <4>1, BodyType DEF BodyStates
      <4>3. e = f /\ ~Complete(e)
        BY <4>2 DEF CheckEnd, Complete
      <4> QED BY <2>3, <2>4, <2>5, <2>7, <3>2, <4>2, <4>3 DEF Ended, Streamed, Kept
    <3> QED BY <3>1, <3>2
  <2>8. CASE d.rc \in {"more", "stop"}
    <3>1. f = o0
      BY <2>1, <2>8 DEF Flushed
    <3>2. e \in Outcome /\ e.ts = "OK" /\ (Complete(e) => d.done \/ d.finish = attempt)
      <4>1. CASE Complete(f) /\ ~d.done /\ d.finish = 0
        <5>1. e = WithBody(o0, IF d.sawEvent THEN "MALFORMED" ELSE "EMPTY")
          BY <3>1, <4>1 DEF CheckEnd, WithBody
        <5>2. (IF d.sawEvent THEN "MALFORMED" ELSE "EMPTY") \in {"MALFORMED", "EMPTY"}
          OBVIOUS
        <5>3. e \in Outcome /\ e.ts = "OK" /\ e.body \in {"MALFORMED", "EMPTY"}
          BY <1>1, <2>1, <5>1, <5>2, BodyType DEF BodyStates
        <5> QED BY <5>3 DEF Complete
      <4>2. CASE ~(Complete(f) /\ ~d.done /\ d.finish = 0)
        <5>1. e = o0
          BY <3>1, <4>2 DEF CheckEnd
        <5>2. d.finish \in {0, attempt}
          BY <2>3 DEF Streamed, Kept, Context, Lifted
        <5> QED BY <1>1, <2>1, <3>1, <4>2, <5>1, <5>2
      <4> QED BY <4>1, <4>2
    <3> QED BY <2>3, <2>4, <2>5, <2>8, <3>2 DEF Ended, Streamed, Kept
  <2> QED BY <2>5, <2>6, <2>7, <2>8
<1>4. CASE ~(Complete(o) /\ ~io.done)
  <2>1. end.io = io /\ end.outcome = o
    <3>1. end = End(io, CheckEnd(io, o))
      BY <1>4 DEF EndStream
    <3>2. CheckEnd(io, o) = o
      BY <1>4 DEF CheckEnd
    <3> QED BY <3>1, <3>2 DEF End
  <2> HIDE DEF o
  <2>2. CASE ts # "ABORTED_BY_SINK"
    <3>1. o = o0
      BY <1>1, <2>2 DEF Untangle, o
    <3>2. ~Complete(o)
      BY <1>1, <1>4, <2>2, <3>1 DEF TransportMayReport, Complete, Streamed
    <3>3. io.rc # "more" => ts \in {"CANCELLED", "NOMEM", "OTHER"}
      BY <2>2 DEF TransportMayReport
    <3> QED BY <1>1, <1>2, <2>1, <2>2, <3>1, <3>2, <3>3 DEF Ended, Streamed, Kept
  <2>3. CASE ts = "ABORTED_BY_SINK"
    <3>1. CASE io.done
      <4>1. o = WithStatus(o0, "OK")
        BY <1>1, <2>3, <3>1 DEF Untangle, o, WithStatus
      <4>2. o \in Outcome /\ o.ts = "OK" /\ o.terminal = FALSE /\ o.body = "OK"
        <5>1. o \in Outcome /\ o.ts = "OK" /\ (o.terminal <=> o0.terminal) /\ o.body = o0.body
          <6>1. "OK" \in TransportStatus
            BY DEF TransportStatus
          <6> QED BY <1>1, <4>1, <6>1, StatusType
        <5> QED BY <1>1, <2>3, <5>1 DEF Outcome
      <4> QED BY <1>2, <2>1, <3>1, <4>2 DEF Ended, Streamed, Kept
    <3>2. CASE ~io.done /\ io.rc = "cancel"
      <4>1. o = WithStatus(o0, "CANCELLED")
        BY <1>1, <2>3, <3>2 DEF Untangle, o, WithStatus
      <4>2. o \in Outcome /\ o.ts = "CANCELLED" /\ o.terminal = FALSE
        <5>1. o \in Outcome /\ o.ts = "CANCELLED" /\ (o.terminal <=> o0.terminal)
          <6>1. "CANCELLED" \in TransportStatus
            BY DEF TransportStatus
          <6> QED BY <1>1, <4>1, <6>1, StatusType
        <5> QED BY <1>1, <2>3, <5>1 DEF Outcome
      <4> QED BY <1>2, <2>1, <3>2, <4>2 DEF Ended, Streamed, Kept, Complete
    <3>3. CASE ~io.done /\ io.rc # "cancel" /\ "NOMEM" \in {io.err, io.sseErr, io.body.err}
      <4>1. o = WithTerminal(o0, TRUE)
        BY <1>1, <2>3, <3>3 DEF Untangle, o, WithTerminal
      <4>2. o \in Outcome /\ o.terminal
        BY <1>1, <4>1, GivesUp
      <4> QED BY <1>2, <2>1, <3>3, <4>2 DEF Ended, Streamed, Kept, Complete
    <3>4. CASE ~io.done /\ io.rc # "cancel" /\ "NOMEM" \notin {io.err, io.sseErr, io.body.err}
      <4>1. o = WithBody(WithStatus(o0, "OK"), "TOOBIG")
        BY <1>1, <2>3, <3>4 DEF Untangle, o, WithBody, WithStatus
      <4>2. o \in Outcome /\ o.ts = "OK" /\ o.body = "TOOBIG"
        BY <1>1, <4>1, TooBigType
      <4> QED BY <1>2, <2>1, <3>4, <4>2 DEF Ended, Streamed, Kept, Complete
    <3> QED BY <3>1, <3>2, <3>3, <3>4
  <2> QED BY <2>2, <2>3
<1> QED BY <1>3, <1>4

-----------------------------------------------------------------------------
(* A whole body.                                                           *)

(* Nothing is handed out of a body that is not streamed, and the buffers of a
   result can only run out of memory: a body within its limit has no strings
   beyond it. *)
Quiet(c) ==
  /\ c \in Context
  /\ Len(c.text.data) <= Cap /\ Len(c.reasoning.data) <= Cap /\ Len(c.body.data) <= Cap
  /\ c.text.err # "TOOBIG" /\ c.reasoning.err # "TOOBIG"
  /\ c.err = "OK" /\ c.sseErr = "OK" /\ ~c.done
  /\ c.handed = [text |-> 0, reasoning |-> 0] /\ ~c.delivered /\ ~c.asked

(* Before the parser sees it. *)
Whole(c) ==
  /\ Quiet(c)
  /\ c.rc = IF c.body.err = "OK" THEN "more" ELSE "error"
  /\ c.text.data = <<>> /\ c.reasoning.data = <<>>
  /\ c.came = [text |-> 0, reasoning |-> 0]

(* While it is parsed. *)
Parsing(c) ==
  /\ Quiet(c)
  /\ c.body.err = "OK"
  /\ c.rc \in {"more", "OK", "MALFORMED", "EMPTY", "NOMEM"}
  /\ c.rc \in {"more", "OK"} =>
       Len(c.text.data) = c.came.text /\ Len(c.reasoning.data) = c.came.reasoning

LEMMA QuietIsKept ==
  ASSUME NEW c, Quiet(c)
  PROVE  Kept(c)
BY DEF Quiet, Kept, Context, Buffer

(* A result of the parser. *)
LEMMA ParsedKeeps ==
  ASSUME NEW c, Parsing(c), NEW state \in {"OK", "MALFORMED", "EMPTY", "NOMEM"},
         state = "OK" => c.rc \in {"more", "OK"}
  PROVE  Parsing(Parsed(c, state)) /\ Parsed(c, state).body = c.body
         /\ Parsed(c, state).rc = state
<1> DEFINE d == Parsed(c, state)
<1>1. d \in Context /\ d.rc = state
  BY DEF Parsed, Parsing, Quiet, Context
<1>2. /\ d.text = c.text /\ d.reasoning = c.reasoning /\ d.body = c.body /\ d.err = c.err
      /\ d.sseErr = c.sseErr /\ d.done = c.done /\ d.handed = c.handed
      /\ d.delivered = c.delivered /\ d.asked = c.asked /\ d.came = c.came
  BY DEF Parsed, Parsing, Quiet, Context
<1> HIDE DEF d
<1>3. Parsing(d)
  BY <1>1, <1>2 DEF Parsing, Quiet
<1> QED BY <1>1, <1>2, <1>3 DEF d

(* A string of the document is stored, or there is no memory for it. *)
LEMMA ParseFieldKeeps ==
  ASSUME NEW c, Parsing(c), c.rc = "more", NEW field \in {"text", "reasoning"},
         NEW n \in Nat, n <= Cap, c[field].data = <<>>,
         NEW d \in ParseField([c EXCEPT !.came[field] = n], field, n)
  PROVE  /\ Parsing(d) /\ d.body = c.body
         /\ \A f \in {"text", "reasoning"} \ {field} : d[f] = c[f]
<1> DEFINE counts == [c.came EXCEPT ![field] = n]
           came == [c EXCEPT !.came = counts]
<1>0. counts \in Counters /\ counts[field] = n
      /\ \A f \in {"text", "reasoning"} \ {field} : counts[f] = c.came[f]
  BY DEF Parsing, Quiet, Context, Counters
<1>1. came \in Context /\ came.came = counts
  BY <1>0 DEF Parsing, Quiet, Context
<1>2. /\ came.rc = "more" /\ came.text = c.text /\ came.reasoning = c.reasoning
      /\ came.body = c.body /\ came.err = c.err /\ came.sseErr = c.sseErr
      /\ came.done = c.done /\ came.handed = c.handed /\ came.delivered = c.delivered
      /\ came.asked = c.asked
  BY DEF Parsing, Quiet, Context
<1>3. came[field] = c[field]
  BY <1>2
<1>4. PICK b \in AppendBytes(c[field], n) :
        d = IF b.err = "OK" THEN [came EXCEPT ![field] = b]
            ELSE Parsed([came EXCEPT ![field] = b], b.err)
  BY <1>3 DEF ParseField
<1>5. c[field] \in Buffer /\ Len(c[field].data) = 0 /\ c[field].err # "TOOBIG"
  BY DEF Parsing, Quiet, Context
<1>6. /\ b \in Buffer /\ Len(b.data) <= Cap /\ b.err # "TOOBIG"
      /\ b.err = "OK" => Len(b.data) = n
  <2>1. Len(c[field].data) <= Cap /\ Len(c[field].data) + n <= Cap
    BY <1>5, StreamAssumption
  <2> QED BY <1>5, <2>1, Appended
<1> DEFINE put == [came EXCEPT ![field] = b]
<1>7. /\ put \in Context /\ put[field] = b
      /\ \A f \in {"text", "reasoning"} \ {field} : put[f] = c[f]
  <2>1. put = Put(came, field, b)
    BY DEF Put
  <2>2. \A f \in {"text", "reasoning"} : came[f] = c[f]
    BY <1>2
  <2> HIDE DEF put, came
  <2> QED BY <1>1, <1>6, <2>1, <2>2, PutType
<1>8. /\ put.rc = "more" /\ put.body = c.body /\ put.err = c.err /\ put.sseErr = c.sseErr
      /\ put.done = c.done /\ put.handed = c.handed /\ put.delivered = c.delivered
      /\ put.asked = c.asked /\ put.came = counts
  BY <1>1, <1>2 DEF Context
<1> HIDE DEF put, came
<1>9. Quiet(put)
  <2>1. \A f \in {"text", "reasoning"} : Len(put[f].data) <= Cap /\ put[f].err # "TOOBIG"
    BY <1>6, <1>7 DEF Parsing, Quiet
  <2> QED BY <1>7, <1>8, <2>1 DEF Parsing, Quiet
<1>10. CASE b.err = "OK"
  <2>1. d = put
    BY <1>4, <1>10 DEF put
  <2>2. \A f \in {"text", "reasoning"} : Len(put[f].data) = counts[f]
    <3>1. \A f \in {"text", "reasoning"} : Len(c[f].data) = c.came[f]
      BY DEF Parsing
    <3> QED BY <1>0, <1>6, <1>7, <1>10, <3>1
  <2> QED BY <1>7, <1>8, <1>9, <2>1, <2>2 DEF Parsing
<1>11. CASE b.err # "OK"
  <2>1. b.err = "NOMEM"
    BY <1>6, <1>11 DEF Buffer, Errors
  <2>2. d = Parsed(put, "NOMEM")
    BY <1>4, <2>1 DEF put
  <2>3. d \in Context /\ d.rc = "NOMEM" /\ \A f \in {"text", "reasoning"} : d[f] = put[f]
    BY <1>7, <2>2 DEF Parsed, Context
  <2>4. /\ d.body = put.body /\ d.err = put.err /\ d.sseErr = put.sseErr /\ d.done = put.done
        /\ d.handed = put.handed /\ d.delivered = put.delivered /\ d.asked = put.asked
    BY <1>7, <2>2 DEF Parsed, Context
  <2>5. Parsing(d)
    BY <1>8, <1>9, <2>3, <2>4 DEF Parsing, Quiet
  <2> QED BY <1>7, <1>8, <2>3, <2>4, <2>5
<1> QED BY <1>10, <1>11

LEMMA ParseContentKeeps ==
  ASSUME NEW c, Parsing(c), c.rc = "more", c.text.data = <<>>, NEW r \in Reply,
         r.content <= Cap, NEW d \in ParseContent(c, r)
  PROVE  Parsing(d) /\ d.body = c.body /\ d.reasoning = c.reasoning
<1>0. r.content \in Nat
  BY DEF Reply
<1>1. CASE r.text
  <2>1. d \in ParseField([c EXCEPT !.came["text"] = r.content], "text", r.content)
    BY <1>1 DEF ParseContent
  <2> QED BY <1>0, <2>1, ParseFieldKeeps
<1>2. CASE d = c
  BY <1>2
<1>3. CASE d = Parsed(c, "MALFORMED")
  <2>1. Parsing(d) /\ d.body = c.body
    BY <1>3, ParsedKeeps
  <2>2. d.reasoning = c.reasoning
    BY <1>3 DEF Parsed, Parsing, Quiet, Context
  <2> QED BY <2>1, <2>2
<1> QED BY <1>1, <1>2, <1>3 DEF ParseContent

LEMMA ParseReasoningKeeps ==
  ASSUME NEW c, Parsing(c), c.rc = "more", c.reasoning.data = <<>>, NEW r \in Reply,
         r.reasoning <= Cap, NEW d \in ParseReasoning(c, r)
  PROVE  Parsing(d) /\ d.body = c.body
<1>0. r.reasoning \in Nat
  BY DEF Reply
<1>1. CASE r.reasoning = 0
  BY <1>1 DEF ParseReasoning
<1>2. CASE r.reasoning # 0
  <2>1. d \in ParseField([c EXCEPT !.came["reasoning"] = r.reasoning], "reasoning", r.reasoning)
    BY <1>2 DEF ParseReasoning
  <2> QED BY <1>0, <2>1, ParseFieldKeeps
<1> QED BY <1>1, <1>2

(* A step of the parser that stores no string. *)
LEMMA UnmovedParsing ==
  ASSUME NEW c, Parsing(c), c.rc = "more", NEW d \in Context,
         d.text = c.text, d.reasoning = c.reasoning, d.body = c.body, d.came = c.came,
         d.handed = c.handed, d.delivered = c.delivered, d.err = c.err, d.sseErr = c.sseErr,
         d.done = c.done, d.asked = c.asked, d.rc = "more"
  PROVE  Parsing(d)
BY DEF Parsing, Quiet

LEMMA ParseFinishKeeps ==
  ASSUME NEW c, Parsing(c), c.rc = "more", NEW r, NEW d \in ParseFinish(c, r)
  PROVE  Parsing(d) /\ d.body = c.body
<1>1. CASE d = c
  BY <1>1
<1>2. CASE d = Parsed(c, "NOMEM")
  BY <1>2, ParsedKeeps
<1>3. CASE d = [c EXCEPT !.finish = attempt]
  <2>1. d \in Context
    BY <1>3 DEF Parsing, Quiet, Context, Lifted
  <2>2. /\ d.text = c.text /\ d.reasoning = c.reasoning /\ d.body = c.body /\ d.came = c.came
        /\ d.handed = c.handed /\ d.delivered = c.delivered /\ d.err = c.err
        /\ d.sseErr = c.sseErr /\ d.done = c.done /\ d.asked = c.asked /\ d.rc = "more"
    BY <1>3 DEF Parsing, Quiet, Context
  <2> QED BY <2>1, <2>2, UnmovedParsing
<1> QED BY <1>1, <1>2, <1>3 DEF ParseFinish

LEMMA ParseModelKeeps ==
  ASSUME NEW c, Parsing(c), c.rc = "more", NEW r, NEW d \in ParseModel(LiftUsage(c, r.usage), r)
  PROVE  Parsing(d) /\ d.body = c.body
<1> DEFINE usage == [t \in Tokens |-> IF t \in r.usage THEN attempt ELSE c.usage[t]]
           l == [c EXCEPT !.usage = usage]
<1>1. usage \in [Tokens -> Lifted]
  BY DEF Parsing, Quiet, Context, Lifted
<1>2. LiftUsage(c, r.usage) = l
  BY DEF LiftUsage
<1> HIDE DEF usage
<1>3. l \in Context
  BY <1>1 DEF Parsing, Quiet, Context
<1>4. /\ l.text = c.text /\ l.reasoning = c.reasoning /\ l.body = c.body /\ l.came = c.came
      /\ l.handed = c.handed /\ l.delivered = c.delivered /\ l.err = c.err
      /\ l.sseErr = c.sseErr /\ l.done = c.done /\ l.asked = c.asked /\ l.rc = "more"
  BY DEF Parsing, Quiet, Context
<1> HIDE DEF l
<1>5. Parsing(l)
  BY <1>3, <1>4, UnmovedParsing
<1>6. CASE d = l
  BY <1>4, <1>5, <1>6
<1>7. CASE d = Parsed(l, "NOMEM")
  BY <1>4, <1>5, <1>7, ParsedKeeps
<1>8. CASE d = [l EXCEPT !.model = attempt]
  <2>1. d \in Context
    BY <1>3, <1>8 DEF Context, Lifted
  <2>2. /\ d.text = l.text /\ d.reasoning = l.reasoning /\ d.body = l.body /\ d.came = l.came
        /\ d.handed = l.handed /\ d.delivered = l.delivered /\ d.err = l.err
        /\ d.sseErr = l.sseErr /\ d.done = l.done /\ d.asked = l.asked /\ d.rc = "more"
    BY <1>3, <1>4, <1>8 DEF Context
  <2> QED BY <1>4, <1>5, <2>1, <2>2, UnmovedParsing
<1> QED BY <1>2, <1>6, <1>7, <1>8 DEF ParseModel

LEMMA ParseTurnKeeps ==
  ASSUME NEW c, Parsing(c), c.rc = "more", c.text.data = <<>>, c.reasoning.data = <<>>,
         NEW r \in Reply, r.content <= Cap, r.reasoning <= Cap, NEW d \in ParseTurn(c, r)
  PROVE  Parsing(d) /\ d.body = c.body /\ d.rc # "more"
<1> DEFINE content == ParseContent(c, r)
           reasoning == Then(content, LAMBDA x : ParseReasoning(x, r))
           finish == Then(reasoning, LAMBDA x : ParseFinish(x, r))
           model == Then(finish, LAMBDA x : ParseModel(LiftUsage(x, r.usage), r))
           Good(x) == Parsing(x) /\ x.body = c.body
<1>1. \A x \in content : Good(x) /\ x.reasoning = c.reasoning
  BY ParseContentKeeps
<1>2. \A y \in reasoning : Good(y)
  <2>1. ASSUME NEW y \in reasoning
        PROVE  Good(y)
    <3>1. PICK x \in content : y \in IF x.rc # "more" THEN {x} ELSE ParseReasoning(x, r)
      BY DEF Then, reasoning
    <3> HIDE DEF content
    <3>2. CASE x.rc = "more"
      BY <1>1, <3>1, <3>2, ParseReasoningKeeps
    <3> QED BY <1>1, <3>1, <3>2
  <2> QED BY <2>1
<1>3. \A y \in finish : Good(y)
  <2>1. ASSUME NEW y \in finish
        PROVE  Good(y)
    <3>1. PICK x \in reasoning : y \in IF x.rc # "more" THEN {x} ELSE ParseFinish(x, r)
      BY DEF Then, finish
    <3> HIDE DEF reasoning
    <3>2. CASE x.rc = "more"
      BY <1>2, <3>1, <3>2, ParseFinishKeeps
    <3> QED BY <1>2, <3>1, <3>2
  <2> QED BY <2>1
<1>4. \A y \in model : Good(y)
  <2>1. ASSUME NEW y \in model
        PROVE  Good(y)
    <3>1. PICK x \in finish : y \in IF x.rc # "more" THEN {x} ELSE ParseModel(LiftUsage(x, r.usage), r)
      BY DEF Then, model
    <3> HIDE DEF finish
    <3>2. CASE x.rc = "more"
      BY <1>3, <3>1, <3>2, ParseModelKeeps
    <3> QED BY <1>3, <3>1, <3>2
  <2> QED BY <2>1
<1>5. PICK x \in model : d \in IF x.rc # "more" THEN {x} ELSE {Parsed(x, "OK")}
  BY DEF ParseTurn, Then, content, reasoning, finish, model
<1> HIDE DEF model
<1>6. CASE x.rc = "more"
  BY <1>4, <1>5, <1>6, ParsedKeeps
<1> QED BY <1>4, <1>5, <1>6

LEMMA ParserKeeps ==
  ASSUME StreamAssumption, NEW c, Whole(c), c.body.err = "OK", NEW d \in sicha_response_parse(c)
  PROVE  /\ Parsing(d) /\ d.body = c.body /\ d.rc # "more"
         /\ d.body.data = <<>> => d.rc = "EMPTY"
<1>1. Parsing(c) /\ c.rc = "more"
  BY DEF Whole, Parsing
<1>2. CASE c.body.data = <<>>
  BY <1>1, <1>2, ParsedKeeps DEF sicha_response_parse
<1>3. CASE c.body.data # <<>> /\ d = Parsed(c, "MALFORMED")
  BY <1>1, <1>3, ParsedKeeps
<1>4. CASE \E r \in Replies : c.body.data # <<>> /\ FitsIn(r, c.body) /\ d \in ParseTurn(c, r)
  <2>1. PICK r \in Replies : c.body.data # <<>> /\ FitsIn(r, c.body) /\ d \in ParseTurn(c, r)
    BY <1>4
  <2>2. r \in Reply /\ r.content <= Cap /\ r.reasoning <= Cap
    BY <2>1, StreamAssumption DEF Reply, FitsIn, Whole, Quiet, Context, Buffer
  <2>3. Parsing(d) /\ d.body = c.body /\ d.rc # "more"
    BY <1>1, <2>1, <2>2, ParseTurnKeeps DEF Whole
  <2> QED BY <2>1, <2>3
<1> QED BY <1>2, <1>3, <1>4 DEF sicha_response_parse

LEMMA WholeEnds ==
  ASSUME StreamAssumption, ~stream, Whole(io), NEW ts \in TransportStatus,
         http \in {0, 200, 500}, TransportMayReport(ts),
         NEW end \in EndWhole(io, Untangle(io, Reported(ts)))
  PROVE  Ended(end.io, end.outcome)
<1> DEFINE o0 == Reported(ts)
           o == Untangle(io, o0)
<1>1. o0 \in Outcome /\ o0.ts = ts /\ o0.http = http /\ o0.body = "OK"
      /\ (o0.terminal <=> ts = "NOMEM")
  BY ReportedType
<1>2. Quiet(io) /\ Kept(io) /\ io.body.err \in Errors
  BY QuietIsKept DEF Whole, Quiet, Context, Buffer
<1> HIDE DEF o0
<1>3. CASE ts = "ABORTED_BY_SINK"
  <2>1. io.rc = "error" /\ io.body.err \in {"TOOBIG", "NOMEM"}
    BY <1>2, <1>3 DEF TransportMayReport, Whole, Errors
  <2>2. CASE io.body.err = "NOMEM"
    <3>1. o = WithTerminal(o0, TRUE)
      BY <1>1, <1>2, <1>3, <2>1, <2>2 DEF Untangle, Quiet, WithTerminal
    <3> HIDE DEF o
    <3>2. o \in Outcome /\ o.terminal /\ o.body = "OK"
      <4>1. o \in Outcome /\ o.terminal /\ o.body = o0.body
        <5>1. o0 \in Outcome
          BY <1>1
        <5> QED BY <3>1, <5>1, GivesUp
      <4> QED BY <1>1, <4>1
    <3>3. end = End(io, o)
      BY <3>2 DEF EndWhole, Complete, o, o0
    <3>4. end.io = io /\ end.outcome = o
      BY <3>3 DEF End
    <3> QED BY <1>2, <2>2, <3>2, <3>4 DEF Ended, Quiet, Complete
  <2>3. CASE io.body.err = "TOOBIG"
    <3>1. o = WithBody(WithStatus(o0, "OK"), "TOOBIG")
      BY <1>1, <1>2, <1>3, <2>1, <2>3 DEF Untangle, Quiet, WithBody, WithStatus
    <3> HIDE DEF o
    <3>2. o \in Outcome /\ o.ts = "OK" /\ o.body = "TOOBIG"
      BY <1>1, <3>1, TooBigType
    <3>3. end = End(io, o)
      BY <3>2 DEF EndWhole, Complete, o, o0
    <3>4. end.io = io /\ end.outcome = o
      BY <3>3 DEF End
    <3> QED BY <1>2, <2>3, <3>2, <3>4 DEF Ended, Quiet, Complete
  <2> QED BY <2>1, <2>2, <2>3
<1>4. CASE ts # "ABORTED_BY_SINK"
  <2>1. o = o0
    BY <1>1, <1>4 DEF Untangle
  <2> HIDE DEF o
  <2>2. CASE ~Complete(o0)
    <3>1. end = End(io, o0)
      BY <2>1, <2>2 DEF EndWhole, o, o0
    <3>2. end.io = io /\ end.outcome = o0
      BY <3>1 DEF End
    <3>3. io.body.err # "OK" => ts \in {"CANCELLED", "NOMEM", "OTHER"}
      BY <1>4 DEF TransportMayReport, Whole
    <3> QED BY <1>1, <1>2, <1>4, <2>2, <3>2, <3>3 DEF Ended, Quiet
  <2>3. CASE Complete(o0)
    <3>1. ts = "OK" /\ io.body.err = "OK" /\ ~o0.terminal
      BY <1>1, <1>2, <2>3 DEF Complete, TransportMayReport, Whole
    <3>2. PICK c \in sicha_response_parse(io) : end \in Settle(c, o0)
      BY <2>1, <2>3 DEF EndWhole, o, o0
    <3>3. /\ Parsing(c) /\ c.body = io.body /\ c.rc # "more"
          /\ c.body.data = <<>> => c.rc = "EMPTY"
      BY <3>1, <3>2, ParserKeeps
    <3>4. Quiet(c) /\ Kept(c) /\ c.body.err = "OK"
      BY <3>3, QuietIsKept DEF Parsing
    <3>5. CASE c.rc = "NOMEM"
      <4> DEFINE e == WithTerminal(o0, TRUE)
      <4>1. end.io = c /\ end.outcome = e
        BY <3>2, <3>5 DEF Settle, End, WithTerminal
      <4>2. e \in Outcome /\ e.terminal /\ e.body = "OK"
        <5>1. o0 \in Outcome /\ o0.body = "OK"
          BY <1>1
        <5>2. e \in Outcome /\ e.terminal /\ e.body = o0.body
          BY <5>1, GivesUp
        <5> HIDE DEF e
        <5> QED BY <5>1, <5>2
      <4> HIDE DEF e
      <4> QED BY <3>4, <4>1, <4>2 DEF Ended, Quiet, Complete
    <3>6. CASE c.rc # "NOMEM"
      <4> DEFINE e == WithBody(o0, c.rc)
                 taken == [c EXCEPT !.rawBody = c.body.data, !.body = Empty]
                 full == WithTerminal(e, TRUE)
      <4>1. c.rc \in {"OK", "MALFORMED", "EMPTY"}
        BY <3>3, <3>6 DEF Parsing
      <4>7. c.rc \in BodyStates
        BY <4>1 DEF BodyStates
      <4>2. e \in Outcome /\ (e.terminal <=> o0.terminal) /\ e.body = c.rc /\ e.ts = ts
        BY <1>1, <4>1, <4>7, BodyType
      <4>0. end \in TakeBody(c, e)
        BY <3>2, <3>6 DEF Settle, WithBody
      <4> HIDE DEF e
      <4>3. end = End(taken, e) \/ (c.body.data = <<>> /\ end = End(c, full))
        BY <4>0 DEF TakeBody, WithTerminal
      <4>4. full \in Outcome /\ full.terminal /\ full.body = c.rc
        <5>0. e \in Outcome
          BY <4>2
        <5>1. full \in Outcome /\ full.terminal /\ full.body = e.body
          BY <5>0, GivesUp
        <5> QED BY <4>2, <5>1
      <4>5. CASE end = End(taken, e)
        <5>1. Empty \in Buffer /\ Len(Empty.data) = 0 /\ Empty.err = "OK"
          BY DEF Empty, Buffer, Errors
        <5>2. taken \in Context /\ taken.body = Empty /\ taken.rawBody = c.body.data
          <6>1. c \in Context /\ c.body.data \in Seq({attempt})
            BY <3>4 DEF Quiet, Context, Buffer
          <6> DEFINE bytes == c.body.data
          <6>2. bytes \in Seq({attempt})
            BY <6>1
          <6> HIDE DEF bytes
          <6> DEFINE kept == [c EXCEPT !.rawBody = bytes]
          <6>3. kept \in Context /\ kept.rawBody = bytes
            BY <6>1, <6>2 DEF Context
          <6>4. taken = [kept EXCEPT !.body = Empty]
            BY <6>1 DEF bytes, Context
          <6> HIDE DEF kept, taken
          <6>5. Empty \in Buffer
            BY <5>1
          <6> QED BY <6>3, <6>4, <6>5 DEF bytes, Context
        <5>3. /\ taken.text = c.text /\ taken.reasoning = c.reasoning /\ taken.came = c.came
              /\ taken.err = c.err /\ taken.sseErr = c.sseErr /\ taken.handed = c.handed
              /\ taken.delivered = c.delivered /\ taken.asked = c.asked /\ taken.done = c.done
          BY <3>4 DEF Quiet, Context
        <5> HIDE DEF taken
        <5>4. Quiet(taken)
          BY <3>4, <5>1, <5>2, <5>3, StreamAssumption DEF Quiet
        <5>5. Kept(taken)
          BY <5>4, QuietIsKept
        <5>6. c.rc = "OK" => Len(c.text.data) = c.came.text
                             /\ Len(c.reasoning.data) = c.came.reasoning
          BY <3>3 DEF Parsing
        <5>7. end.io = taken /\ end.outcome = e
          BY <4>5 DEF End
        <5>8. taken.body.err = "OK" /\ (c.rc = "OK" => taken.rawBody # <<>>)
          BY <3>3, <5>1, <5>2
        <5> QED BY <3>1, <4>1, <4>2, <5>3, <5>4, <5>5, <5>6, <5>7, <5>8
                DEF Ended, Quiet, Complete
      <4>6. CASE end = End(c, full)
        <5>1. end.io = c /\ end.outcome = full
          BY <4>6 DEF End
        <5> HIDE DEF full
        <5> QED BY <3>4, <4>1, <4>4, <5>1 DEF Ended, Quiet, Complete
      <4> QED BY <4>3, <4>5, <4>6
    <3> QED BY <3>5, <3>6
  <2> QED BY <2>2, <2>3
<1> QED BY <1>3, <1>4

LEMMA PieceKeeps ==
  ASSUME StreamAssumption, NEW c, Whole(c), c.rc = "more", NEW d \in AppendPiece(c)
  PROVE  Whole(d)
<1>1. c.body \in Buffer /\ Len(c.body.data) <= Cap
  BY DEF Whole, Quiet, Context
<1>2. PICK b \in UNION {AppendBytes(c.body, n) : n \in 1..2} :
        d = [c EXCEPT !.body = b, !.rc = IF b.err = "OK" THEN "more" ELSE "error"]
  BY DEF AppendPiece
<1>3. b \in Buffer /\ Len(b.data) <= Cap
  <2>1. PICK n \in 1..2 : b \in AppendBytes(c.body, n)
    BY <1>2
  <2> QED BY <1>1, <2>1, Appended
<1>4. d \in Context /\ d.body = b /\ d.rc = IF b.err = "OK" THEN "more" ELSE "error"
  BY <1>2, <1>3 DEF Whole, Quiet, Context
<1>5. /\ d.text = c.text /\ d.reasoning = c.reasoning /\ d.came = c.came /\ d.err = c.err
      /\ d.sseErr = c.sseErr /\ d.done = c.done /\ d.handed = c.handed
      /\ d.delivered = c.delivered /\ d.asked = c.asked
  BY <1>2 DEF Whole, Quiet, Context
<1> QED BY <1>3, <1>4, <1>5 DEF Whole, Quiet

-----------------------------------------------------------------------------
(* The record of a round trip.                                             *)

LEMMA ExcerptFits ==
  ASSUME StreamAssumption, NEW c \in Context, NEW o
  PROVE  Excerpt(c, o) \in Seq({attempt}) /\ Len(Excerpt(c, o)) <= ExcerptMax
<1>1. ASSUME NEW bytes \in Seq({attempt})
      PROVE  /\ outcome_borrow_excerpt(bytes) \in Seq({attempt})
             /\ Len(outcome_borrow_excerpt(bytes)) <= ExcerptMax
  <2> DEFINE n == IF Len(bytes) > ExcerptMax THEN ExcerptMax ELSE Len(bytes)
  <2>1. n \in Nat /\ n <= ExcerptMax /\ n <= Len(bytes)
    BY StreamAssumption
  <2>2. outcome_borrow_excerpt(bytes) = SubSeq(bytes, 1, n)
    BY DEF outcome_borrow_excerpt
  <2> HIDE DEF n
  <2>3. \A i \in 1..n : bytes[i] \in {attempt}
    BY <2>1
  <2>4. /\ SubSeq(bytes, 1, n) \in Seq({attempt})
        /\ Len(SubSeq(bytes, 1, n)) = IF 1 <= n THEN n - 1 + 1 ELSE 0
    BY <2>1, <2>3, SubSeqProperties
  <2> QED BY <2>1, <2>2, <2>4, StreamAssumption
<1>2. /\ c.lastRaw \in Seq({attempt}) /\ c.text.data \in Seq({attempt})
      /\ c.rawBody \in Seq({attempt}) /\ c.body.data \in Seq({attempt})
  BY DEF Context, Buffer
<1>3. <<>> \in Seq({attempt}) /\ Len(<<>>) <= ExcerptMax
  BY StreamAssumption
<1> QED BY <1>1, <1>2, <1>3 DEF Excerpt

(* What is kept of a round trip once it has been judged. *)
Judged(c, o) ==
  /\ Ended(c, o)
  /\ o.excerpt \in Seq({attempt}) /\ Len(o.excerpt) <= ExcerptMax
  /\ o.delivered <=> c.delivered
  /\ o.message = outcome_message(o)

LEMMA ExcerptType ==
  ASSUME NEW o \in Outcome, NEW excerpt \in Excerpts
  PROVE  WithExcerpt(o, excerpt) \in Outcome
BY DEF Outcome, WithExcerpt

LEMMA DeliveredType ==
  ASSUME NEW o \in Outcome, NEW delivered \in BOOLEAN
  PROVE  WithDelivered(o, delivered) \in Outcome
BY DEF Outcome, WithDelivered

LEMMA TextType ==
  ASSUME NEW o \in Outcome, NEW message \in Messages
  PROVE  WithMessage(o, message) \in Outcome
BY DEF Outcome, WithMessage

LEMMA MessageIs ==
  ASSUME NEW o
  PROVE  /\ o.terminal => outcome_message(o) = "out of memory"
         /\ ~o.terminal /\ o.ts # "OK" => outcome_message(o) = o.ts
         /\ ~o.terminal /\ o.ts = "OK" /\ o.http # 200 => outcome_message(o) = "http"
         /\ ~o.terminal /\ o.ts = "OK" /\ o.http = 200 =>
              outcome_message(o) = IF o.body = "OK" THEN "ok" ELSE o.body
BY DEF outcome_message

LEMMA MessageType ==
  ASSUME NEW o \in Outcome
  PROVE  outcome_message(o) \in Messages
<1>1. o.ts \in TransportStatus /\ o.body \in BodyStates
  BY DEF Outcome
<1> QED BY <1>1, MessageIs DEF Messages, BodyStates

Recorded(c, o) == [o EXCEPT !.excerpt = Excerpt(c, o), !.delivered = c.delivered,
                            !.message = outcome_message(o)]

LEMMA RecordIsJudged ==
  ASSUME StreamAssumption, attempt \in Nat, NEW c, NEW o, Ended(c, o)
  PROVE  Judged(c, Recorded(c, o))
<1> DEFINE excerpt == Excerpt(c, o)
           message == outcome_message(o)
           e == [o EXCEPT !.excerpt = excerpt, !.delivered = c.delivered, !.message = message]
<1>1. c \in Context /\ o \in Outcome /\ c.delivered \in BOOLEAN
  BY DEF Ended, Kept, Context
<1>2. excerpt \in Seq({attempt}) /\ Len(excerpt) <= ExcerptMax
  BY <1>1, ExcerptFits
<1>3. excerpt \in Excerpts
  <2>1. {attempt} \subseteq Nat
    OBVIOUS
  <2> HIDE DEF excerpt
  <2> QED BY <1>2, <2>1 DEF Excerpts
<1>4. message \in Messages
  BY <1>1, MessageType
<1> HIDE DEF excerpt, message
<1>5. e \in Outcome
  <2>1. e = WithMessage(WithDelivered(WithExcerpt(o, excerpt), c.delivered), message)
    BY DEF WithMessage, WithDelivered, WithExcerpt
  <2> HIDE DEF e
  <2> QED BY <1>1, <1>3, <1>4, <2>1, ExcerptType, DeliveredType, TextType
<1>6. e.excerpt = excerpt /\ e.delivered = c.delivered /\ e.message = message
  BY <1>1 DEF Outcome
<1>7. e.ts = o.ts /\ e.http = o.http /\ e.body = o.body /\ e.terminal = o.terminal
  BY <1>1 DEF Outcome
<1> HIDE DEF e
<1>8. message = outcome_message(e)
  BY <1>7 DEF outcome_message, message
<1>9. Complete(e) = Complete(o)
  BY <1>7 DEF Complete
<1>10. Ended(c, e)
  BY <1>5, <1>7, <1>9 DEF Ended
<1>11. Judged(c, e)
  BY <1>2, <1>6, <1>8, <1>10 DEF Judged
<1> QED BY <1>11 DEF e, excerpt, message, Recorded

-----------------------------------------------------------------------------
(* Theorems.                                                               *)

TypeInv ==
  /\ stream \in BOOLEAN /\ phase \in {"idle", "flight", "judged"}
  /\ attempt \in Nat /\ http \in {0, 200, 500}

(* The promises of a context that is read back only once it is judged hold
   from one end of the call to the other. *)
CallInv ==
  /\ TypeInv
  /\ phase = "idle" => io = Fresh /\ attempt = 0
  /\ phase = "flight" => IF stream THEN Streamed(io) ELSE Whole(io)
  /\ phase = "judged" => Judged(io, outcome)

LEMMA FreshType ==
  ASSUME attempt \in Nat
  PROVE  Fresh \in Context
BY DEF Fresh, Empty, Context, Buffer, Errors, Lifted, Counters

(* A round trip starts from nothing but the errors of the buffers. *)
LEMMA ResetKeeps ==
  ASSUME CallInv, Begin
  PROVE  IF stream THEN Streamed(io)' ELSE Whole(io)'
<1> DEFINE text == ResetBytes(io.text)
           reasoning == ResetBytes(io.reasoning)
           d == [Fresh EXCEPT !.text = text, !.reasoning = reasoning]
<1>1. io' = d /\ attempt' \in Nat /\ stream' = stream
  BY DEF Begin, ResetContent, CallInv, TypeInv
<1>2. io \in Context /\ (~stream => io.text.err # "TOOBIG" /\ io.reasoning.err # "TOOBIG")
  <2>1. CASE phase = "idle"
    <3>1. io = Fresh /\ Fresh \in Context
      BY <2>1, FreshType DEF CallInv, TypeInv
    <3>2. Fresh.text.err = "OK" /\ Fresh.reasoning.err = "OK"
      BY DEF Fresh, Empty
    <3> QED BY <3>1, <3>2
  <2>2. CASE phase = "judged"
    BY <2>2 DEF CallInv, Judged, Ended, Kept
  <2> QED BY <2>1, <2>2 DEF Begin
<1>3. io.text \in Buffer /\ io.reasoning \in Buffer
  BY <1>2 DEF Context
<1>4. /\ text \in [data : Seq({attempt'}), err : Errors] /\ text.data = <<>>
      /\ reasoning \in [data : Seq({attempt'}), err : Errors] /\ reasoning.data = <<>>
      /\ text.err = io.text.err /\ reasoning.err = io.reasoning.err
  <2>1. ASSUME NEW b \in Buffer
        PROVE  ResetBytes(b) = [data |-> <<>>, err |-> b.err] /\ b.err \in Errors
    BY DEF ResetBytes, Buffer
  <2>2. <<>> \in Seq({attempt'})
    OBVIOUS
  <2>3. ASSUME NEW b \in Buffer
        PROVE  /\ ResetBytes(b) \in [data : Seq({attempt'}), err : Errors]
               /\ ResetBytes(b).data = <<>> /\ ResetBytes(b).err = b.err
    <3>1. ASSUME NEW s \in Seq({attempt'}), NEW x \in Errors
          PROVE  [data |-> s, err |-> x] \in [data : Seq({attempt'}), err : Errors]
      OBVIOUS
    <3> DEFINE none == [data |-> <<>>, err |-> b.err]
    <3>2. none \in [data : Seq({attempt'}), err : Errors]
      BY <2>1, <2>2, <3>1
    <3>3. none.data = <<>> /\ none.err = b.err /\ ResetBytes(b) = none
      BY <2>1
    <3> HIDE DEF none
    <3> QED BY <3>2, <3>3
  <2> QED BY <1>3, <2>3
<1> HIDE DEF text, reasoning
<1>5. (Fresh \in Context)'
  BY <1>1 DEF Fresh, Empty, Context, Buffer, Errors, Lifted, Counters
<1>6. /\ d.text = text /\ d.reasoning = reasoning /\ d.rc = "more" /\ d.body = Empty
      /\ d.came = [text |-> 0, reasoning |-> 0] /\ d.handed = [text |-> 0, reasoning |-> 0]
      /\ d.done = FALSE /\ d.delivered = FALSE /\ d.asked = FALSE
      /\ d.err = "OK" /\ d.sseErr = "OK"
  BY DEF Fresh
<1>7. (io \in Context)'
  BY <1>1, <1>4, <1>5 DEF Context, Buffer
<1> HIDE DEF d
<1>8. Empty.data = <<>> /\ Empty.err = "OK" /\ Cap \in Nat \ {0}
  BY StreamAssumption DEF Empty
<1>9. /\ Len(d.text.data) = 0 /\ Len(d.reasoning.data) = 0 /\ Len(d.body.data) = 0
  BY <1>4, <1>6, <1>8
<1>10. CASE stream
  <2>1. Kept(io)'
    BY <1>1, <1>6, <1>7, <1>8, <1>9 DEF Kept
  <2> QED BY <1>1, <1>6, <1>8, <1>9, <1>10, <2>1 DEF Streamed
<1>11. CASE ~stream
  <2>1. Quiet(io)'
    BY <1>1, <1>2, <1>4, <1>6, <1>7, <1>8, <1>9, <1>11 DEF Quiet
  <2> QED BY <1>1, <1>4, <1>6, <1>8, <1>11, <2>1 DEF Whole
<1> QED BY <1>10, <1>11

LEMMA CallInvInit == Init => CallInv
BY StreamAssumption DEF Init, CallInv, TypeInv

LEMMA CallInvStep == CallInv /\ [Next]_vars => CallInv'
<1> SUFFICES ASSUME CallInv, [Next]_vars
             PROVE  CallInv'
  OBVIOUS
<1>1. CASE Begin
  <2>1. IF stream THEN Streamed(io)' ELSE Whole(io)'
    BY <1>1, ResetKeeps
  <2> QED BY <1>1, <2>1 DEF Begin, CallInv, TypeInv
<1>2. CASE OnStatus
  <2>1. IF stream THEN Streamed(io)' ELSE Whole(io)'
    BY <1>2 DEF OnStatus, CallInv, Streamed, Whole, Kept, Quiet, Context, Buffer, Lifted
  <2> QED BY <1>2, <2>1 DEF OnStatus, CallInv, TypeInv
<1>3. CASE OnBody
  <2>1. /\ phase = "flight" /\ io.rc = "more" /\ attempt' = attempt
        /\ UNCHANGED <<stream, phase, http>>
        /\ IF stream THEN \E e \in Events : io' \in FeedEvent(io, e) ELSE io' \in AppendPiece(io)
    BY <1>3 DEF OnBody
  <2>2. CASE stream
    <3>1. Streamed(io)
      BY <2>1, <2>2 DEF CallInv
    <3>2. PICK d : Streamed(d) /\ io' = d
      BY <2>1, <2>2, <3>1, EventKeeps, StreamAssumption
    <3>3. Streamed(io)'
      BY <2>1, <3>2 DEF Streamed, Kept, Context, Buffer, Lifted
    <3> QED BY <2>1, <2>2, <3>3 DEF CallInv, TypeInv
  <2>3. CASE ~stream
    <3>1. Whole(io)
      BY <2>1, <2>3 DEF CallInv
    <3>2. PICK d : Whole(d) /\ io' = d
      BY <2>1, <2>3, <3>1, PieceKeeps, StreamAssumption
    <3>3. Whole(io)'
      BY <2>1, <3>2 DEF Whole, Quiet, Context, Buffer, Lifted
    <3> QED BY <2>1, <2>3, <3>3 DEF CallInv, TypeInv
  <2> QED BY <2>2, <2>3
<1>4. CASE Perform
  <2>1. PICK ts \in TransportStatus : Judge(ts)
    BY <1>4 DEF Perform
  <2>2. phase = "flight" /\ TransportMayReport(ts) /\ phase' = "judged"
        /\ UNCHANGED <<stream, attempt, http>>
    BY <2>1 DEF Judge
  <2> DEFINE o == Untangle(io, Reported(ts))
  <2>3. PICK end \in (IF stream THEN EndStream(io, o) ELSE EndWhole(io, o)) :
          /\ io' = end.io
          /\ outcome' = Recorded(end.io, end.outcome)
    BY <2>1 DEF Judge, Reported, Recorded
  <2>4. attempt \in Nat /\ http \in {0, 200, 500} /\ stream \in BOOLEAN
    BY DEF CallInv, TypeInv
  <2>5. Ended(end.io, end.outcome)
    <3>1. CASE stream
      BY <2>2, <2>3, <2>4, <3>1, StreamEnds, StreamAssumption DEF CallInv
    <3>2. CASE ~stream
      BY <2>2, <2>3, <2>4, <3>2, WholeEnds, StreamAssumption DEF CallInv
    <3> QED BY <3>1, <3>2
  <2>6. PICK c, e : Judged(c, e) /\ io' = c /\ outcome' = e
    <3>1. Judged(end.io, Recorded(end.io, end.outcome))
      BY <2>4, <2>5, RecordIsJudged, StreamAssumption
    <3> QED BY <2>3, <3>1
  <2>7. Judged(io, outcome)'
    BY <2>2, <2>6 DEF Judged, Ended, Kept, Context, Buffer, Lifted
  <2> QED BY <2>2, <2>4, <2>7 DEF CallInv, TypeInv
<1>5. CASE UNCHANGED vars
  BY <1>5 DEF vars, CallInv, TypeInv, Streamed, Whole, Quiet, Judged, Ended, Kept, Context,
              Buffer, Lifted
<1> QED BY <1>1, <1>2, <1>3, <1>4, <1>5 DEF Next

LEMMA CallInvHolds == Spec => []CallInv
<1>1. Init => CallInv
  BY CallInvInit
<1>2. CallInv /\ [Next]_vars => CallInv'
  BY CallInvStep
<1> QED BY <1>1, <1>2, PTL DEF Spec

(* run_attempt leaves the result of a success with the bytes and fields of its
   last round trip alone, and of all of them, because every round trip begins
   with sicha_result_reset_content and a buffer in error fails the attempt; and
   copies at most SICHA_EXCERPT_MAX bytes of a failed one into its record. *)
THEOREM LastAnswerHolds == Spec => []ResultIsLastAnswer
<1>1. CallInv => ResultIsLastAnswer
  <2> SUFFICES ASSUME CallInv
               PROVE  ResultIsLastAnswer
    OBVIOUS
  <2>1. CASE phase = "idle"
    BY <2>1 DEF CallInv, ResultIsLastAnswer, Succeeded, Read, Inert, Fresh, Empty
  <2>2. CASE phase = "flight"
    BY <2>2 DEF ResultIsLastAnswer, Succeeded
  <2>3. CASE phase = "judged"
    <3>1. Judged(io, outcome) /\ Ended(io, outcome) /\ io \in Context
      BY <2>3 DEF CallInv, Judged, Ended, Kept
    <3>2. /\ Range(outcome.excerpt) \subseteq {attempt}
          /\ Len(outcome.excerpt) <= ExcerptMax
      BY <3>1 DEF Judged, Range
    <3>3. ASSUME Complete(outcome)
          PROVE  /\ stream => io.done \/ io.finish = attempt
                 /\ ~stream => io.rawBody # <<>>
                 /\ Accumulate \/ ~stream =>
                      /\ io.text.data = [k \in 1..io.came.text |-> attempt]
                      /\ io.reasoning.data = [k \in 1..io.came.reasoning |-> attempt]
      <4>1. /\ io.text.data \in Seq({attempt}) /\ io.reasoning.data \in Seq({attempt})
            /\ io.came.text \in Nat /\ io.came.reasoning \in Nat
        BY <3>1 DEF Context, Buffer, Counters
      <4>2. ASSUME NEW s \in Seq({attempt}), NEW n \in Nat, Len(s) = n
            PROVE  s = [k \in 1..n |-> attempt]
        BY <4>2
      <4> QED BY <3>1, <3>3, <4>1, <4>2 DEF Ended
    <3>4. /\ {io.finish, io.model} \cup Range(io.usage) \subseteq {0, attempt}
          /\ Range(io.rawBody) \subseteq {attempt}
      <4>1. io.finish \in Lifted /\ io.model \in Lifted /\ io.usage \in [Tokens -> Lifted]
        BY <3>1 DEF Context
      <4>2. io.rawBody \in Seq({attempt})
        BY <3>1 DEF Context
      <4> QED BY <4>1, <4>2 DEF Range, Lifted
    <3> QED BY <2>3, <3>2, <3>3, <3>4 DEF ResultIsLastAnswer, Succeeded, Read
  <2> QED BY <2>1, <2>2, <2>3 DEF CallInv, TypeInv
<1> QED BY <1>1, CallInvHolds, PTL

(* On every path out of run_attempt an abort by its own sink is told apart, the
   message agrees with the outcome, and no append went past the limit. *)
THEOREM AbortExplainedHolds == Spec => []AbortIsExplained
<1>1. CallInv => AbortIsExplained
  <2> SUFFICES ASSUME CallInv, phase = "judged"
               PROVE  AbortIsExplained
    BY DEF AbortIsExplained
  <2>1. /\ Judged(io, outcome) /\ Ended(io, outcome) /\ Kept(io) /\ outcome \in Outcome
    BY DEF CallInv, Judged, Ended
  <2>2. /\ outcome.ts \in TransportStatus
        /\ outcome.body \in BodyStates
    BY <2>1 DEF Outcome
  <2> DEFINE message == outcome_message(outcome)
  <2>3. /\ outcome.terminal => message = "out of memory"
        /\ ~outcome.terminal /\ outcome.ts # "OK" => message = outcome.ts
        /\ ~outcome.terminal /\ outcome.ts = "OK" /\ outcome.http # 200 => message = "http"
        /\ ~outcome.terminal /\ outcome.ts = "OK" /\ outcome.http = 200 =>
             message = IF outcome.body = "OK" THEN "ok" ELSE outcome.body
    BY MessageIs
  <2>4. outcome.message = message
    BY <2>1 DEF Judged
  <2> HIDE DEF message
  <2>5. message = "ok" <=> Complete(outcome)
    BY <2>2, <2>3 DEF Complete, TransportStatus, BodyStates
  <2>6. message # "ABORTED_BY_SINK"
    BY <2>1, <2>2, <2>3 DEF Ended, TransportStatus, BodyStates
  <2>7. "NOMEM" \in {io.err, io.sseErr, io.body.err} =>
          message \in {"out of memory", "CANCELLED", "OTHER"}
    BY <2>1, <2>3 DEF Ended
  <2>8. (outcome.message = "ok") = Complete(outcome)
    BY <2>4, <2>5 DEF Complete
  <2> QED BY <2>1, <2>4, <2>6, <2>7, <2>8 DEF AbortIsExplained, Ended, Kept
<1> QED BY <1>1, CallInvHolds, PTL

(* deliver stores before it calls back and records the delivery whatever the
   callback returns, and the abort a nonzero return asks for is found before
   any other reason to stop. *)
THEOREM CallbackHeededHolds == Spec => []CallbackIsHeeded
<1>1. CallInv => CallbackIsHeeded
  <2> SUFFICES ASSUME CallInv
               PROVE  CallbackIsHeeded
    OBVIOUS
  <2>1. Kept(io)
    <3>1. CASE phase = "idle"
      <4>1. Kept(Fresh)
        BY <3>1, FreshType, StreamAssumption DEF CallInv, TypeInv, Kept, Fresh, Empty
      <4> QED BY <3>1, <4>1 DEF CallInv
    <3>2. CASE phase = "flight"
      BY <3>2, QuietIsKept DEF CallInv, Streamed, Whole
    <3>3. CASE phase = "judged"
      BY <3>3 DEF CallInv, Judged, Ended
    <3> QED BY <3>1, <3>2, <3>3 DEF CallInv, TypeInv
  <2>2. ASSUME phase = "judged"
        PROVE  /\ outcome.delivered <=> io.handed.text + io.handed.reasoning > 0
               /\ io.asked =>
                    \/ outcome.ts = "CANCELLED" /\ ~outcome.terminal
                    \/ /\ outcome.ts \in {"NOMEM", "OTHER"}
                       /\ outcome.terminal = (outcome.ts = "NOMEM")
    <3>1. Judged(io, outcome) /\ Ended(io, outcome) /\ outcome \in Outcome
      BY <2>2 DEF CallInv, Judged, Ended
    <3>2. outcome.terminal \in BOOLEAN
      BY <3>1 DEF Outcome
    <3> QED BY <2>1, <3>1, <3>2 DEF Judged, Ended, Kept
  <2> QED BY <2>1, <2>2 DEF CallbackIsHeeded, Kept
<1> QED BY <1>1, CallInvHolds, PTL
=============================================================================
