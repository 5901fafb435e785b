----------------------------- MODULE DemosProofs -----------------------------
(***************************************************************************)
(* Proofs about the two demos, for every size of history, buffers, queue   *)
(* and chain, and any number of messages and requests; and about what a    *)
(* client sends and what the chat demo is given and types (RequestCheck),  *)
(* for every description, text and row of arguments.                       *)
(***************************************************************************)
EXTENDS Demos, RequestCheck, SequenceTheorems, FiniteSetTheorems, WellFoundedInduction,
        TLAPS

-----------------------------------------------------------------------------
(* demo/chat.c                                                             *)

Turn == [role : {"user", "assistant"}, of : Nat]
CallStatus == {"OK", "CANCELLED", "FAILED"}

(* The values of what the proofs are about. *)
ChatType ==
  /\ ui \in {"keys", "send", "drain", "join", "unwind", "unwind_join", "free", "closed"}
  /\ worker \in {"none", "call", "returned", "exited"}
  /\ turns \in Seq(Turn) /\ Len(turns) <= MaxTurns
  /\ warg \in [msgs : Seq(Turn), token : Nat]
  /\ failed \in [known : BOOLEAN, msgs : Seq(Turn)]
  /\ ret \in [st : CallStatus, result : Nat]
  /\ ioStatus \in CallStatus
  /\ sends \in Nat /\ cancel \in Nat /\ ioResult \in Nat

(* The one worker owns the objects: its token while it lives, the result once
   the call returned; the history it reads stands still. *)
LifeInv ==
  /\ ui \in {"send", "free", "closed"} => worker = "none"
  /\ ui = "keys" /\ wantSend => worker = "none"
  /\ ui \in {"join", "unwind_join"} => worker # "none"
  /\ client = (ui # "closed")
  /\ worker = "none" => liveTokens = {}
  /\ worker # "none" => /\ liveTokens = {cancel} \ {0}
                        /\ warg.token = cancel
                        /\ warg.msgs = turns
  /\ worker \in {"none", "call"} => liveResults = {}
  /\ worker = "returned" => liveResults = {ret.result} \ {0}
  /\ worker = "exited" => liveResults = {ioResult} \ {0}

AllButLast(s) == SubSeq(s, 1, Len(s) - 1)

(* After a failure the history is what the failed request had before its own
   turn, and so short that the next turn pushes nothing out. *)
RetryInv ==
  failed.known /\ ~lost =>
    /\ worker = "none" /\ ui \notin {"free", "closed"} =>
         turns = AllButLast(failed.msgs) /\ Len(turns) < MaxTurns
    /\ worker # "none" => AllButLast(warg.msgs) = AllButLast(failed.msgs)

ChatInv == ChatType /\ LifeInv /\ RetryInv

LEMMA Pushed ==
  ASSUME NEW ts \in Seq(Turn), NEW turn \in Turn, Len(ts) <= MaxTurns, NEW allocated \in BOOLEAN
  PROVE  /\ turns_push(ts, turn, allocated) \in Seq(Turn)
         /\ Len(turns_push(ts, turn, allocated)) <= MaxTurns
<1> USE ChatAssumption
<1>1. MakeRoom(ts) \in Seq(Turn) /\ Len(MakeRoom(ts)) < MaxTurns
  <2>1. CASE Len(ts) = MaxTurns
    <3>1. SubSeq(ts, 3, Len(ts)) \in Seq(Turn) /\ Len(SubSeq(ts, 3, Len(ts))) = Len(ts) - 2
      BY <2>1, SubSeqProperties
    <3> QED BY <2>1, <3>1 DEF MakeRoom
  <2>2. CASE Len(ts) # MaxTurns
    BY <2>2 DEF MakeRoom
  <2> QED BY <2>1, <2>2
<1>2. Append(MakeRoom(ts), turn) \in Seq(Turn)
      /\ Len(Append(MakeRoom(ts), turn)) = Len(MakeRoom(ts)) + 1
  BY <1>1, AppendProperties
<1> QED BY <1>1, <1>2 DEF turns_push

LEMMA WithoutLast ==
  ASSUME NEW ts \in Seq(Turn)
  PROVE  /\ AllButLast(ts) \in Seq(Turn)
         /\ Len(ts) <= MaxTurns => Len(AllButLast(ts)) < MaxTurns
         /\ \A turn \in Turn : AllButLast(Append(ts, turn)) = ts
<1> USE ChatAssumption DEF AllButLast
<1>1. CASE ts = <<>>
  BY <1>1
<1>2. CASE ts # <<>>
  BY <1>2, SubSeqProperties
<1>3. ASSUME NEW turn \in Turn PROVE AllButLast(Append(ts, turn)) = ts
  <2>1. Append(ts, turn) \in Seq(Turn) /\ Len(Append(ts, turn)) = Len(ts) + 1
        /\ \A k \in 1..Len(ts) : Append(ts, turn)[k] = ts[k]
    BY AppendProperties
  <2> QED BY <2>1, SubSeqProperties, SeqEqual
<1> QED BY <1>1, <1>2, <1>3

LEMMA ChatTypeStep ==
  ASSUME ChatType, [ChatNext]_chatVars
  PROVE  ChatType'
<1> USE ChatAssumption DEF ChatType, objects, past
<1>1. CASE Keys
  BY <1>1 DEF Keys, KeyEsc, KeyEnter, KeyEdit, Typing, io, autoVars
<1>2. CASE EndKeys
  BY <1>2 DEF EndKeys, io
<1>3. CASE Send
  <2> DEFINE k == sends + 1
  <2>1. PICK allocated \in BOOLEAN, token \in {0, k}, started \in BOOLEAN :
          /\ turns' = turns_push(turns, User(k), allocated)
          /\ warg' = [msgs |-> turns', token |-> token]
          /\ worker' = IF started THEN "call" ELSE worker
          /\ cancel' = IF started THEN token ELSE 0
          /\ failed' = IF started THEN failed ELSE NoFailure
    BY <1>3 DEF Send
  <2>2. k \in Nat /\ User(k) \in Turn
    BY DEF User, Turn
  <2>3. turns' \in Seq(Turn) /\ Len(turns') <= MaxTurns
    BY <2>1, <2>2, Pushed
  <2>4. failed' \in [known : BOOLEAN, msgs : Seq(Turn)] /\ warg' \in [msgs : Seq(Turn), token : Nat]
    BY <2>1, <2>2, <2>3 DEF NoFailure
  <2>5. worker' \in {"none", "call", "returned", "exited"} /\ cancel' \in Nat
    BY <2>1, <2>2
  <2> QED BY <1>3, <2>2, <2>3, <2>4, <2>5 DEF Send
<1>4. CASE \E size \in DeltaSizes : OnDelta(size)
  BY <1>4 DEF OnDelta
<1>5. CASE ChatReturns
  BY <1>5 DEF ChatReturns, io, CallStatus
<1>6. CASE Report
  BY <1>6 DEF Report, NoReturn, CallStatus
<1>7. CASE Drain
  BY <1>7 DEF Drain
<1>8. CASE Settle
  <2>1. PICK allocated \in BOOLEAN : turns' = AfterReply(turns, ioStatus, allocated)
    BY <1>8 DEF Settle
  <2>2. turns' \in Seq(Turn) /\ Len(turns') <= MaxTurns
    <3>1. CASE ioStatus = "OK"
      BY <2>1, <3>1, Pushed DEF AfterReply, Assistant, Turn
    <3>2. CASE ioStatus = "CANCELLED"
      BY <2>1, <3>2 DEF AfterReply
    <3>3. CASE ioStatus = "FAILED"
      BY <2>1, <3>3, WithoutLast, SMTT(30) DEF AfterReply, AllButLast
    <3> QED BY <3>1, <3>2, <3>3 DEF CallStatus
  <2>3. failed' \in [known : BOOLEAN, msgs : Seq(Turn)] /\ warg' \in [msgs : Seq(Turn), token : Nat]
    BY <1>8 DEF Settle, NoFailure, NoCall
  <2> QED BY <1>8, <2>2, <2>3 DEF Settle
<1>9. CASE Unwind
  BY <1>9 DEF Unwind, io
<1>10. CASE UnwindJoin
  BY <1>10 DEF UnwindJoin
<1>11. CASE Free
  BY <1>11 DEF Free, io
<1>12. CASE UNCHANGED chatVars
  BY <1>12 DEF chatVars, io
<1> QED BY <1>1, <1>2, <1>3, <1>4, <1>5, <1>6, <1>7, <1>8, <1>9, <1>10, <1>11, <1>12
        DEF ChatNext, Frame, Worker

LEMMA LifeStep ==
  ASSUME ChatType, LifeInv, [ChatNext]_chatVars
  PROVE  LifeInv'
<1> USE DEF LifeInv, objects, past, keyVars, WorkerActive
<1>1. CASE Keys
  BY <1>1 DEF Keys, KeyEsc, KeyEnter, KeyEdit, Typing, io, autoVars, WorkerActive
<1>2. CASE EndKeys
  BY <1>2 DEF EndKeys, io
<1>3. CASE Send
  <2> DEFINE k == sends + 1
  <2>1. PICK allocated \in BOOLEAN, token \in {0, k}, started \in BOOLEAN :
          /\ turns' = turns_push(turns, User(k), allocated)
          /\ warg' = [msgs |-> turns', token |-> token]
          /\ worker' = IF started THEN "call" ELSE worker
          /\ cancel' = IF started THEN token ELSE 0
          /\ liveTokens' = IF started THEN liveTokens \cup ({token} \ {0}) ELSE liveTokens
    BY <1>3 DEF Send
  <2>2. /\ worker = "none" /\ ui' = "drain" /\ liveTokens = {} /\ liveResults = {} /\ client
        /\ liveResults' = liveResults /\ client' = client /\ ioResult' = 0
    BY <1>3 DEF Send
  <2>3. worker' # "none" => /\ liveTokens' = {cancel'} \ {0}
                            /\ warg'.token = cancel' /\ warg'.msgs = turns'
    BY <2>1, <2>2
  <2>4. worker' \in {"none", "call"} /\ (worker' = "none" => liveTokens' = {})
    BY <2>1, <2>2
  <2> QED BY <2>2, <2>3, <2>4
<1>4. CASE \E size \in DeltaSizes : OnDelta(size)
  BY <1>4 DEF OnDelta
<1>5. CASE ChatReturns
  <2>1. PICK st \in {"OK", "CANCELLED", "FAILED"}, result \in {0, sends} :
          ret' = [st |-> st, result |-> result] /\ liveResults' = liveResults \cup ({result} \ {0})
    BY <1>5 DEF ChatReturns
  <2> QED BY <1>5, <2>1 DEF ChatReturns, io
<1>6. CASE Report
  BY <1>6 DEF Report
<1>7. CASE Drain
  BY <1>7 DEF Drain
<1>8. CASE Settle
  BY <1>8 DEF Settle
<1>9. CASE Unwind
  BY <1>9 DEF Unwind, io
<1>10. CASE UnwindJoin
  BY <1>10 DEF UnwindJoin
<1>11. CASE Free
  BY <1>11 DEF Free, io
<1>12. CASE UNCHANGED chatVars
  BY <1>12 DEF chatVars, io
<1> QED BY <1>1, <1>2, <1>3, <1>4, <1>5, <1>6, <1>7, <1>8, <1>9, <1>10, <1>11, <1>12
        DEF ChatNext, Frame, Worker

LEMMA RetryStep ==
  ASSUME ChatType, LifeInv, RetryInv, [ChatNext]_chatVars
  PROVE  RetryInv'
<1> USE DEF RetryInv, objects, past
<1>1. CASE Keys
  BY <1>1 DEF Keys, KeyEsc, KeyEnter, KeyEdit, Typing, io, autoVars
<1>2. CASE EndKeys
  BY <1>2 DEF EndKeys, io
<1>3. CASE Send
  <2> DEFINE k == sends + 1
  <2>1. PICK allocated \in BOOLEAN, token \in {0, k}, started \in BOOLEAN :
          /\ turns' = turns_push(turns, User(k), allocated)
          /\ lost' = (lost \/ ~allocated)
          /\ warg' = [msgs |-> turns', token |-> token]
          /\ worker' = IF started THEN "call" ELSE worker
          /\ failed' = IF started THEN failed ELSE NoFailure
    BY <1>3 DEF Send
  <2>2. worker = "none" /\ ui = "send"
    BY <1>3 DEF Send, LifeInv
  <2>3. CASE failed'.known /\ ~lost'
    <3>1. /\ started /\ allocated /\ ~lost /\ failed' = failed /\ failed.known
          /\ worker' = "call"
      BY <2>1, <2>3 DEF NoFailure
    <3>2. turns = AllButLast(failed.msgs) /\ Len(turns) < MaxTurns
      BY <2>2, <3>1
    <3>3. turns' = Append(turns, User(k)) /\ User(k) \in Turn /\ turns \in Seq(Turn)
      BY <2>1, <3>1, <3>2 DEF turns_push, MakeRoom, ChatType, User, Turn
    <3>4. warg'.msgs = turns' /\ AllButLast(turns') = turns
      BY <2>1, <3>3, WithoutLast
    <3> QED BY <3>1, <3>2, <3>4
  <2> QED BY <2>3
<1>4. CASE \E size \in DeltaSizes : OnDelta(size)
  BY <1>4 DEF OnDelta
<1>5. CASE ChatReturns
  BY <1>5 DEF ChatReturns
<1>6. CASE Report
  BY <1>6 DEF Report
<1>7. CASE Drain
  BY <1>7 DEF Drain
<1>8. CASE Settle
  <2>1. worker' = "none" /\ warg.msgs = turns
        /\ failed' = IF ioStatus = "FAILED" THEN [known |-> TRUE, msgs |-> warg.msgs] ELSE NoFailure
    BY <1>8 DEF Settle, LifeInv
  <2>2. CASE ioStatus = "FAILED"
    <3>1. turns' = AllButLast(turns)
      BY <1>8, <2>2 DEF Settle, AfterReply, AllButLast
    <3> QED BY <2>1, <2>2, <3>1, WithoutLast DEF ChatType
  <2>3. CASE ioStatus # "FAILED"
    BY <2>1, <2>3 DEF NoFailure
  <2> QED BY <2>2, <2>3
<1>9. CASE Unwind
  BY <1>9 DEF Unwind
<1>10. CASE UnwindJoin
  BY <1>10 DEF UnwindJoin
<1>11. CASE Free
  BY <1>11 DEF Free, LifeInv
<1>12. CASE UNCHANGED chatVars
  BY <1>12 DEF chatVars
<1> QED BY <1>1, <1>2, <1>3, <1>4, <1>5, <1>6, <1>7, <1>8, <1>9, <1>10, <1>11, <1>12
        DEF ChatNext, Frame, Worker

-----------------------------------------------------------------------------
(* demo/chat.c: the history and the transcript.                            *)

(* Each turn behind those of earlier sends, an answer behind its question
   unless it is the oldest turn. *)
Ordered(ts) ==
  /\ \A k \in DOMAIN ts :
       ts[k].role = "assistant" => k = 1 \/ ts[k - 1] = User(ts[k].of)
  /\ \A j, k \in DOMAIN ts : j < k =>
       ts[j].of < ts[k].of \/ (ts[j].of = ts[k].of /\ ts[k].role = "assistant")

Alternating(ts) ==
  \A k \in DOMAIN ts : ts[k].role = IF k % 2 = 1 THEN "user" ELSE "assistant"

(* The request in flight is the last turn, and where all were answered it is
   the odd one out. *)
TurnsInv ==
  ~lost =>
    /\ \A k \in DOMAIN turns : turns[k].of <= sends
    /\ worker # "none" => turns # <<>> /\ turns[Len(turns)] = User(sends)
    /\ Ordered(turns)
    /\ ~unanswered => Alternating(turns)
    /\ ~unanswered /\ ui \notin {"free", "closed"} => (Len(turns) % 2 = 0 <=> worker = "none")

(* A window that joins its worker found it done and drew its last deltas. *)
DeltaInv ==
  /\ heard \in Nat /\ dropped \subseteq 1..heard
  /\ pending \in Seq(Nat) /\ shown \in Seq(Nat)
  /\ InOrder(shown \o pending, (1..heard) \ dropped)
  /\ ioDone /\ ui \notin {"free", "closed"} => worker = "exited"
  /\ ui = "join" => worker = "exited" /\ pending = <<>>
  /\ worker = "none" /\ ui \notin {"free", "closed"} => pending = <<>>

(* The history with a turn pushed: the old one without its first d turns, and
   the new turn behind them. *)
LEMMA PushedTurns ==
  ASSUME NEW ts \in Seq(Turn), NEW turn \in Turn, Len(ts) <= MaxTurns
  PROVE  \E d \in {0, 2} :
           /\ d <= Len(ts)
           /\ Len(turns_push(ts, turn, TRUE)) = Len(ts) - d + 1
           /\ \A k \in 1..(Len(ts) - d) : turns_push(ts, turn, TRUE)[k] = ts[k + d]
           /\ turns_push(ts, turn, TRUE)[Len(ts) - d + 1] = turn
<1> USE ChatAssumption
<1> DEFINE room == MakeRoom(ts)
<1>1. PICK d \in {0, 2} : /\ d <= Len(ts)
                          /\ room \in Seq(Turn) /\ Len(room) = Len(ts) - d
                          /\ \A k \in 1..(Len(ts) - d) : room[k] = ts[k + d]
  <2>1. CASE Len(ts) = MaxTurns
    <3>1. /\ SubSeq(ts, 3, Len(ts)) \in Seq(Turn) /\ Len(SubSeq(ts, 3, Len(ts))) = Len(ts) - 2
          /\ \A k \in 1..(Len(ts) - 2) : SubSeq(ts, 3, Len(ts))[k] = ts[k + 2]
      BY <2>1, SubSeqProperties
    <3> QED BY <2>1, <3>1 DEF MakeRoom
  <2>2. CASE Len(ts) # MaxTurns
    BY <2>2 DEF MakeRoom
  <2> QED BY <2>1, <2>2
<1>2. turns_push(ts, turn, TRUE) = Append(room, turn)
  BY DEF turns_push
<1> HIDE DEF room
<1>3. /\ Len(Append(room, turn)) = Len(room) + 1
      /\ \A k \in 1..Len(room) : Append(room, turn)[k] = room[k]
      /\ Append(room, turn)[Len(room) + 1] = turn
  BY <1>1, AppendProperties
<1> QED BY <1>1, <1>2, <1>3

LEMMA LastOrBefore ==
  ASSUME NEW n \in Nat, NEW k \in 1..n
  PROVE  (k < n \/ k = n) /\ n \in 1..n
OBVIOUS

(* Pushing a question of a later send, or the answer to the last question,
   keeps the history in order and in pairs. *)
LEMMA PushedInOrder ==
  ASSUME NEW ts \in Seq(Turn), NEW turn \in Turn, Len(ts) <= MaxTurns, Ordered(ts),
         \/ turn = User(turn.of) /\ \A k \in DOMAIN ts : ts[k].of < turn.of
         \/ turn = Assistant(turn.of) /\ ts # <<>> /\ ts[Len(ts)] = User(turn.of)
  PROVE  /\ Ordered(turns_push(ts, turn, TRUE))
         /\ turns_push(ts, turn, TRUE) # <<>>
         /\ turns_push(ts, turn, TRUE)[Len(turns_push(ts, turn, TRUE))] = turn
         /\ Len(turns_push(ts, turn, TRUE)) % 2 = (Len(ts) + 1) % 2
         /\ Alternating(ts) /\ (turn.role = "user" <=> Len(ts) % 2 = 0)
              => Alternating(turns_push(ts, turn, TRUE))
         /\ \A n \in Nat : (turn.of <= n /\ \A k \in DOMAIN ts : ts[k].of <= n)
              => \A k \in DOMAIN turns_push(ts, turn, TRUE) : turns_push(ts, turn, TRUE)[k].of <= n
<1> USE ChatAssumption
<1> DEFINE ps == turns_push(ts, turn, TRUE)
<1>1. ps \in Seq(Turn)
  BY Pushed
<1>2. PICK d \in {0, 2} : /\ d <= Len(ts) /\ Len(ps) = Len(ts) - d + 1
                          /\ \A k \in 1..(Len(ts) - d) : ps[k] = ts[k + d]
                          /\ ps[Len(ts) - d + 1] = turn
  BY PushedTurns
<1> HIDE DEF ps
<1>3. DOMAIN ps = 1..Len(ps) /\ DOMAIN ts = 1..Len(ts) /\ Len(ts) \in Nat /\ Len(ps) \in Nat
  BY <1>1
<1>4. \A k \in 1..Len(ts) : ts[k].of \in Nat /\ ts[k].role \in {"user", "assistant"}
  <2>1. \A k \in 1..Len(ts) : ts[k] \in Turn
    OBVIOUS
  <2> QED BY <2>1 DEF Turn
<1>5. turn.of \in Nat /\ (turn = User(turn.of) => turn.role = "user")
      /\ (turn = Assistant(turn.of) => turn.role = "assistant")
  BY DEF Turn, User, Assistant
<1>6. \A k \in 1..(Len(ps) - 1) : ps[k] = ts[k + d] /\ k + d \in 1..Len(ts)
  BY <1>2, <1>3
<1>7. ps[Len(ps)] = turn /\ ps # <<>>
  BY <1>2, <1>3
<1>8. Len(ps) % 2 = (Len(ts) + 1) % 2
  <2>1. \A n \in Nat : n >= 2 => (n - 2 + 1) % 2 = (n + 1) % 2 /\ n - 0 + 1 = n + 1
    OBVIOUS
  <2>2. CASE d = 2
    BY <1>2, <1>3, <2>1, <2>2
  <2>3. CASE d = 0
    BY <1>2, <1>3, <2>3
  <2> QED BY <2>2, <2>3
<1>9. ASSUME NEW k \in 1..Len(ps), ps[k].role = "assistant"
      PROVE  k = 1 \/ ps[k - 1] = User(ps[k].of)
  <2>1. CASE k < Len(ps)
    <3>1. ps[k] = ts[k + d] /\ k + d \in 1..Len(ts) /\ (k # 1 => ps[k - 1] = ts[k + d - 1])
      BY <1>3, <1>6, <2>1
    <3>2. k + d = 1 \/ ts[k + d - 1] = User(ts[k + d].of)
      BY <1>3, <1>9, <3>1 DEF Ordered
    <3> QED BY <3>1, <3>2
  <2>2. CASE k = Len(ps) /\ k # 1
    <3>1. ps[k - 1] = ts[Len(ts)] /\ ps[k] = turn
      BY <1>2, <1>3, <1>6, <1>7, <2>2
    <3>2. turn = Assistant(turn.of)
      BY <1>5, <1>9, <3>1
    <3>3. turn # User(turn.of)
      BY <1>5, <3>2
    <3> QED BY <3>1, <3>3
  <2>3. k < Len(ps) \/ k = Len(ps)
    BY <1>3, LastOrBefore, Zenon
  <2> QED BY <2>1, <2>2, <2>3
<1>10. ASSUME NEW j \in 1..Len(ps), NEW k \in 1..Len(ps), j < k
       PROVE  ps[j].of < ps[k].of \/ (ps[j].of = ps[k].of /\ ps[k].role = "assistant")
  <2>1. ps[j] = ts[j + d] /\ j + d \in 1..Len(ts)
    BY <1>3, <1>6, <1>10
  <2>2. CASE k < Len(ps)
    <3>1. ps[k] = ts[k + d] /\ k + d \in 1..Len(ts)
      BY <1>3, <1>6, <2>2
    <3> QED BY <1>3, <1>10, <2>1, <3>1 DEF Ordered
  <2>3. CASE k = Len(ps)
    <3>1. ps[k] = turn
      BY <1>7, <2>3
    <3>2. CASE turn = User(turn.of) /\ \A n \in DOMAIN ts : ts[n].of < turn.of
      BY <1>3, <2>1, <3>1, <3>2
    <3>3. CASE turn = Assistant(turn.of) /\ ts # <<>> /\ ts[Len(ts)] = User(turn.of)
      <4>1. ts[Len(ts)].of = turn.of /\ ts[Len(ts)].role = "user" /\ turn.role = "assistant"
        BY <1>5, <3>3 DEF User
      <4>2. ts[j + d].of <= turn.of
        <5>1. CASE j + d = Len(ts)
          BY <1>4, <1>5, <2>1, <4>1, <5>1
        <5>2. CASE j + d # Len(ts)
          <6>1. j + d < Len(ts) /\ Len(ts) \in 1..Len(ts)
            BY <1>3, <2>1, <5>2, LastOrBefore, Zenon
          <6>2. ts[j + d].of < ts[Len(ts)].of
            BY <1>3, <2>1, <4>1, <6>1, Zenon DEF Ordered
          <6> QED BY <1>4, <1>5, <2>1, <4>1, <6>1, <6>2
        <5> QED BY <5>1, <5>2
      <4> QED BY <1>4, <1>5, <2>1, <3>1, <4>1, <4>2
    <3> QED BY <3>2, <3>3
  <2>4. k < Len(ps) \/ k = Len(ps)
    BY <1>3, LastOrBefore, Zenon
  <2> QED BY <2>2, <2>3, <2>4
<1>11. Ordered(ps)
  BY <1>3, <1>9, <1>10 DEF Ordered
<1>12. ASSUME Alternating(ts), turn.role = "user" <=> Len(ts) % 2 = 0
       PROVE  Alternating(ps)
  <2> SUFFICES ASSUME NEW k \in 1..Len(ps)
               PROVE  ps[k].role = IF k % 2 = 1 THEN "user" ELSE "assistant"
    BY <1>3 DEF Alternating
  <2>1. CASE k < Len(ps)
    <3>1. ps[k] = ts[k + d] /\ k + d \in 1..Len(ts)
      BY <1>3, <1>6, <2>1
    <3>2. (k + d) % 2 = k % 2
      OBVIOUS
    <3> QED BY <1>3, <1>12, <3>1, <3>2 DEF Alternating
  <2>2. CASE k = Len(ps)
    <3>1. ps[k] = turn /\ turn.role \in {"user", "assistant"}
      BY <1>7, <2>2 DEF Turn
    <3>2. k % 2 = 1 <=> Len(ts) % 2 = 0
      BY <1>3, <1>8, <2>2
    <3> QED BY <1>12, <3>1, <3>2
  <2>3. k < Len(ps) \/ k = Len(ps)
    BY <1>3, LastOrBefore, Zenon
  <2> QED BY <2>1, <2>2, <2>3
<1>13. ASSUME NEW n \in Nat, turn.of <= n, \A k \in DOMAIN ts : ts[k].of <= n
       PROVE  \A k \in DOMAIN ps : ps[k].of <= n
  BY <1>3, <1>6, <1>7, <1>13
<1> QED BY <1>7, <1>8, <1>11, <1>12, <1>13 DEF ps

(* So does dropping the last turn. *)
LEMMA DroppedInOrder ==
  ASSUME NEW ts \in Seq(Turn), ts # <<>>, Ordered(ts)
  PROVE  /\ Ordered(AllButLast(ts))
         /\ Alternating(ts) => Alternating(AllButLast(ts))
         /\ Len(AllButLast(ts)) = Len(ts) - 1
         /\ \A n \in Nat : (\A k \in DOMAIN ts : ts[k].of <= n)
              => \A k \in DOMAIN AllButLast(ts) : AllButLast(ts)[k].of <= n
<1> DEFINE ps == AllButLast(ts)
<1>1. Len(ts) \in Nat /\ Len(ts) > 0
  OBVIOUS
<1>2. /\ ps \in Seq(Turn) /\ Len(ps) = Len(ts) - 1
      /\ \A k \in 1..(Len(ts) - 1) : ps[k] = ts[k]
  <2>1. \A k \in 1..(Len(ts) - 1) : ts[k] \in Turn
    BY <1>1
  <2>2. /\ ps \in Seq(Turn)
        /\ Len(ps) = IF 1 <= Len(ts) - 1 THEN Len(ts) - 1 - 1 + 1 ELSE 0
        /\ \A k \in 1..(Len(ts) - 1 - 1 + 1) : ps[k] = ts[1 + k - 1]
    BY <1>1, <2>1, SubSeqProperties DEF AllButLast
  <2> HIDE DEF ps
  <2>3. Len(ps) = Len(ts) - 1
    <3>1. \A n \in Nat : n > 0 => (IF 1 <= n - 1 THEN n - 1 - 1 + 1 ELSE 0) = n - 1
      OBVIOUS
    <3> QED BY <1>1, <2>2, <3>1, Zenon
  <2>4. ASSUME NEW k \in 1..(Len(ts) - 1) PROVE ps[k] = ts[k]
    <3>1. k \in 1..(Len(ts) - 1 - 1 + 1) /\ 1 + k - 1 = k
      BY <1>1
    <3> QED BY <2>2, <3>1
  <2> QED BY <2>2, <2>3, <2>4
<1> HIDE DEF ps
<1>3. \A k \in DOMAIN ps :
        k \in Nat /\ k \in DOMAIN ts /\ ps[k] = ts[k] /\ (k # 1 => ps[k - 1] = ts[k - 1])
  BY <1>1, <1>2
<1>4. Ordered(ps)
  <2>1. ASSUME NEW k \in DOMAIN ps, ps[k].role = "assistant"
        PROVE  k = 1 \/ ps[k - 1] = User(ps[k].of)
    <3>1. k \in DOMAIN ts /\ ps[k] = ts[k] /\ (k # 1 => ps[k - 1] = ts[k - 1])
      BY <1>3
    <3>2. ts[k].role = "assistant" => k = 1 \/ ts[k - 1] = User(ts[k].of)
      BY <3>1 DEF Ordered
    <3> QED BY <2>1, <3>1, <3>2
  <2>2. ASSUME NEW j \in DOMAIN ps, NEW k \in DOMAIN ps, j < k
        PROVE  ps[j].of < ps[k].of \/ (ps[j].of = ps[k].of /\ ps[k].role = "assistant")
    <3>1. j \in DOMAIN ts /\ ps[j] = ts[j] /\ k \in DOMAIN ts /\ ps[k] = ts[k]
      BY <1>3
    <3>2. ts[j].of < ts[k].of \/ (ts[j].of = ts[k].of /\ ts[k].role = "assistant")
      BY <2>2, <3>1 DEF Ordered
    <3> QED BY <3>1, <3>2
  <2> QED BY <2>1, <2>2 DEF Ordered
<1>5. Alternating(ts) => Alternating(ps)
  BY <1>3 DEF Alternating
<1> QED BY <1>2, <1>3, <1>4, <1>5 DEF ps

LEMMA AppendedInOrder ==
  ASSUME NEW n \in Nat, NEW deltas \in SUBSET (1..n), NEW s \in Seq(Nat), InOrder(s, deltas)
  PROVE  InOrder(Append(s, n + 1), deltas \cup {n + 1})
<1> DEFINE more == Append(s, n + 1)
<1>1. /\ more \in Seq(Nat) /\ Len(more) = Len(s) + 1
      /\ \A k \in 1..Len(s) : more[k] = s[k]
      /\ more[Len(s) + 1] = n + 1
  BY AppendProperties
<1> HIDE DEF more
<1>2. DOMAIN more = 1..(Len(s) + 1) /\ DOMAIN s = 1..Len(s) /\ Len(s) \in Nat
  BY <1>1
<1>3. \A k \in 1..Len(s) : s[k] \in deltas /\ s[k] \in 1..n
  BY <1>2 DEF InOrder
<1>4. {more[k] : k \in DOMAIN more} = deltas \cup {n + 1}
  <2>1. ASSUME NEW d \in deltas PROVE \E k \in DOMAIN more : more[k] = d
    <3>1. PICK k \in DOMAIN s : s[k] = d
      BY DEF InOrder
    <3> QED BY <1>1, <1>2, <3>1
  <2>2. ASSUME NEW k \in DOMAIN more PROVE more[k] \in deltas \cup {n + 1}
    <3>1. CASE k \in 1..Len(s)
      BY <1>1, <1>3, <3>1
    <3>2. CASE k = Len(s) + 1
      BY <1>1, <3>2
    <3> QED BY <1>2, <3>1, <3>2
  <2>3. n + 1 \in {more[k] : k \in DOMAIN more}
    BY <1>1, <1>2
  <2> QED BY <2>1, <2>2, <2>3
<1>5. ASSUME NEW j \in DOMAIN more, NEW k \in DOMAIN more, j < k
      PROVE  more[j] < more[k]
  <2>1. j \in 1..Len(s) /\ more[j] = s[j]
    BY <1>1, <1>2, <1>5
  <2>2. CASE k \in 1..Len(s)
    BY <1>1, <1>2, <1>5, <2>1, <2>2 DEF InOrder
  <2>3. CASE k = Len(s) + 1
    BY <1>1, <1>3, <2>1, <2>3
  <2> QED BY <1>2, <2>2, <2>3
<1> QED BY <1>4, <1>5 DEF InOrder, more

LEMMA NothingInOrder == InOrder(<<>> \o <<>>, (1..0) \ {})
<1>1. <<>> \o <<>> = <<>> /\ <<>> \in Seq(Nat)
  BY ConcatEmptySeq
<1>2. (1..0) \ {} = {} /\ DOMAIN <<>> = {}
  OBVIOUS
<1> QED BY <1>1, <1>2 DEF InOrder

LEMMA DeltaStep ==
  ASSUME ChatType, LifeInv, DeltaInv, [ChatNext]_chatVars
  PROVE  DeltaInv'
<1> USE DEF DeltaInv, objects, past
<1>1. CASE Keys
  <2>1. UNCHANGED <<ui, worker, ioDone, heard, dropped, shown, pending>>
    BY <1>1 DEF Keys, KeyEsc, KeyEnter, KeyEdit, io
  <2> QED BY <2>1
<1>2. CASE EndKeys
  BY <1>2 DEF EndKeys, io
<1>3. CASE Send
  BY <1>3, NothingInOrder DEF Send
<1>4. CASE \E size \in DeltaSizes : OnDelta(size)
  <2>1. PICK size \in DeltaSizes :
          /\ worker = "call" /\ heard' = heard + 1
          /\ \/ pending' = Append(pending, heard') /\ dropped' = dropped
             \/ dropped' = dropped \cup {heard'} /\ pending' = pending
          /\ UNCHANGED <<ui, worker, ioDone, shown>>
    BY <1>4 DEF OnDelta
  <2>2. ui # "join" /\ worker # "none" /\ ~(ioDone /\ ui \notin {"free", "closed"})
    BY <2>1
  <2>3. CASE dropped' = dropped \cup {heard'} /\ pending' = pending
    <3>1. (1..heard') \ dropped' = (1..heard) \ dropped /\ dropped' \subseteq 1..heard'
      BY <2>1, <2>3
    <3>2. InOrder(shown' \o pending', (1..heard') \ dropped')
      BY <2>1, <2>3, <3>1
    <3> QED BY <2>1, <2>2, <2>3, <3>1, <3>2
  <2>4. CASE pending' = Append(pending, heard') /\ dropped' = dropped
    <3>1. (1..heard') \ dropped' = ((1..heard) \ dropped) \cup {heard + 1}
      BY <2>1, <2>4
    <3>2. shown \o pending \in Seq(Nat) /\ pending' \in Seq(Nat)
      BY <2>1, <2>4
    <3>3. shown \o Append(pending, heard + 1) = Append(shown \o pending, heard + 1)
      OBVIOUS
    <3>4. InOrder(Append(shown \o pending, heard + 1), ((1..heard) \ dropped) \cup {heard + 1})
      BY <3>2, AppendedInOrder
    <3>5. InOrder(shown' \o pending', (1..heard') \ dropped')
      BY <2>1, <2>4, <3>1, <3>3, <3>4
    <3>6. dropped' \subseteq 1..heard'
      BY <2>1, <2>4
    <3> QED BY <2>1, <2>2, <3>2, <3>5, <3>6
  <2> QED BY <2>1, <2>3, <2>4
<1>5. CASE ChatReturns
  BY <1>5 DEF ChatReturns, io
<1>6. CASE Report
  BY <1>6 DEF Report
<1>7. CASE Drain
  <2>1. shown \o pending \in Seq(Nat) /\ (shown \o pending) \o <<>> = shown \o pending
    BY ConcatEmptySeq
  <2>2. ui' = "join" => worker = "exited"
    BY <1>7 DEF Drain
  <2> QED BY <1>7, <2>1, <2>2 DEF Drain
<1>8. CASE Settle
  BY <1>8, NothingInOrder DEF Settle
<1>9. CASE Unwind
  BY <1>9 DEF Unwind, io
<1>10. CASE UnwindJoin
  BY <1>10 DEF UnwindJoin
<1>11. CASE Free
  BY <1>11 DEF Free, io
<1>12. CASE UNCHANGED chatVars
  BY <1>12 DEF chatVars, io
<1> QED BY <1>1, <1>2, <1>3, <1>4, <1>5, <1>6, <1>7, <1>8, <1>9, <1>10, <1>11, <1>12
        DEF ChatNext, Frame, Worker

LEMMA TurnsStep ==
  ASSUME ChatType, LifeInv, TurnsInv, DeltaInv, [ChatNext]_chatVars
  PROVE  TurnsInv'
<1>1. CASE UNCHANGED <<turns, sends, worker, ui, past>>
  BY <1>1 DEF TurnsInv, past
<1>2. CASE Keys
  BY <1>1, <1>2 DEF Keys, KeyEsc, KeyEnter, KeyEdit, past
<1>3. CASE EndKeys
  BY <1>3 DEF EndKeys, TurnsInv, past
<1>4. CASE Send
  <2> DEFINE k == sends + 1
  <2>1. PICK allocated \in BOOLEAN, token \in {0, k}, started \in BOOLEAN :
          /\ turns' = turns_push(turns, User(k), allocated)
          /\ lost' = (lost \/ ~allocated)
          /\ unanswered' = (unanswered \/ ~started)
          /\ worker' = IF started THEN "call" ELSE worker
    BY <1>4 DEF Send
  <2>2. /\ worker = "none" /\ ui = "send" /\ ui' = "drain" /\ sends' = k
        /\ turns \in Seq(Turn) /\ Len(turns) <= MaxTurns /\ sends \in Nat
    BY <1>4 DEF Send, LifeInv, ChatType
  <2> SUFFICES ASSUME ~lost'
               PROVE  /\ \A n \in DOMAIN turns' : turns'[n].of <= k
                      /\ turns' # <<>> /\ turns'[Len(turns')] = User(k)
                      /\ Ordered(turns')
                      /\ ~unanswered' => Alternating(turns')
                      /\ ~unanswered' => (Len(turns') % 2 = 0 <=> worker' = "none")
    BY <2>2 DEF TurnsInv
  <2>3. turns' = turns_push(turns, User(k), TRUE) /\ ~lost
    BY <2>1
  <2>4. /\ User(k) \in Turn /\ User(k).of = k /\ User(k).role = "user" /\ k \in Nat
        /\ \A n \in DOMAIN turns : turns[n].of <= sends /\ turns[n] \in Turn
    <3>1. k \in Nat
      BY <2>2
    <3> HIDE DEF k
    <3>2. User(k) \in Turn /\ User(k).of = k /\ User(k).role = "user"
      BY <3>1 DEF User, Turn
    <3>3. \A n \in DOMAIN turns : turns[n].of <= sends
      BY <2>3 DEF TurnsInv
    <3> QED BY <2>2, <3>1, <3>2, <3>3
  <2>5. \A n \in DOMAIN turns : turns[n].of < k /\ turns[n].of <= k
    BY <2>2, <2>4 DEF Turn
  <2>6. /\ Ordered(turns')
        /\ turns' # <<>> /\ turns'[Len(turns')] = User(k)
        /\ Len(turns') % 2 = (Len(turns) + 1) % 2
        /\ Alternating(turns) /\ Len(turns) % 2 = 0 => Alternating(turns')
        /\ \A n \in DOMAIN turns' : turns'[n].of <= k
    <3> HIDE DEF k
    <3>1. Ordered(turns)
      BY <2>3 DEF TurnsInv
    <3>2. User(k) = User(User(k).of) /\ User(k).of <= k
      BY <2>4
    <3>3. \/ User(k) = User(User(k).of) /\ \A n \in DOMAIN turns : turns[n].of < User(k).of
          \/ /\ User(k) = Assistant(User(k).of) /\ turns # <<>>
             /\ turns[Len(turns)] = User(User(k).of)
      BY <2>4, <2>5, <3>2
    <3> DEFINE ps == turns_push(turns, User(k), TRUE)
    <3>4. /\ Ordered(ps) /\ ps # <<>> /\ ps[Len(ps)] = User(k)
          /\ Len(ps) % 2 = (Len(turns) + 1) % 2
          /\ Alternating(turns) /\ (User(k).role = "user" <=> Len(turns) % 2 = 0) => Alternating(ps)
          /\ \A i \in Nat : (User(k).of <= i /\ \A n \in DOMAIN turns : turns[n].of <= i)
               => \A n \in DOMAIN ps : ps[n].of <= i
      BY <2>2, <2>4, <3>1, <3>3, PushedInOrder, Zenon
    <3>5. ps = turns'
      BY <2>3
    <3> HIDE DEF ps
    <3> QED BY <2>4, <2>5, <3>2, <3>4, <3>5
  <2>7. CASE unanswered'
    BY <2>6, <2>7
  <2>8. CASE ~unanswered'
    <3>1. ~unanswered /\ worker' = "call"
      BY <2>1, <2>8
    <3>2. Alternating(turns) /\ Len(turns) % 2 = 0
      BY <2>2, <2>3, <3>1 DEF TurnsInv
    <3>3. Len(turns') % 2 # 0
      BY <2>2, <2>6, <3>2
    <3> QED BY <2>6, <3>1, <3>2, <3>3
  <2> QED BY <2>7, <2>8
<1>5. CASE \E size \in DeltaSizes : OnDelta(size)
  BY <1>1, <1>5 DEF OnDelta, objects, past
<1>6. CASE ChatReturns
  BY <1>6 DEF ChatReturns, TurnsInv, past
<1>7. CASE Report
  BY <1>7 DEF Report, TurnsInv, past
<1>8. CASE Drain
  BY <1>8 DEF Drain, TurnsInv, past
<1>9. CASE Settle
  <2>1. PICK allocated \in BOOLEAN : /\ turns' = AfterReply(turns, ioStatus, allocated)
                                     /\ lost' = (lost \/ ~allocated)
    BY <1>9 DEF Settle
  <2>2. /\ worker = "exited" /\ worker' = "none" /\ ui = "join" /\ ui' = "keys" /\ sends' = sends
        /\ unanswered' = (unanswered \/ ioStatus = "CANCELLED")
        /\ turns \in Seq(Turn) /\ Len(turns) <= MaxTurns /\ sends \in Nat
        /\ ioStatus \in {"OK", "CANCELLED", "FAILED"}
    BY <1>9 DEF Settle, ChatType, CallStatus
  <2> SUFFICES ASSUME ~lost'
               PROVE  /\ \A n \in DOMAIN turns' : turns'[n].of <= sends
                      /\ Ordered(turns')
                      /\ ~unanswered' => Alternating(turns')
                      /\ ~unanswered' => Len(turns') % 2 = 0
    BY <2>2 DEF TurnsInv
  <2>3. /\ turns' = AfterReply(turns, ioStatus, TRUE)
        /\ \A n \in DOMAIN turns : turns[n].of <= sends
        /\ turns # <<>> /\ turns[Len(turns)] = User(sends)
        /\ Ordered(turns)
        /\ ~unanswered => Alternating(turns) /\ Len(turns) % 2 # 0
    BY <2>1, <2>2 DEF TurnsInv
  <2>4. CASE ioStatus = "OK"
    <3>1. turns' = turns_push(turns, Assistant(sends), TRUE)
      BY <2>3, <2>4 DEF AfterReply
    <3>2. /\ Assistant(sends) \in Turn /\ Assistant(sends).of = sends
          /\ Assistant(sends).role # "user" /\ sends <= sends
      BY <2>2 DEF Assistant, Turn
    <3>3. /\ Ordered(turns') /\ Len(turns') % 2 = (Len(turns) + 1) % 2
          /\ Alternating(turns) /\ Len(turns) % 2 # 0 => Alternating(turns')
          /\ \A n \in DOMAIN turns' : turns'[n].of <= sends
      <4>1. Assistant(sends) = Assistant(Assistant(sends).of) /\ Assistant(sends).of <= sends
        BY <3>2
      <4> QED BY <2>2, <2>3, <3>1, <3>2, <4>1, PushedInOrder
    <3>4. Len(turns) % 2 # 0 => (Len(turns) + 1) % 2 = 0
      BY <2>2
    <3> QED BY <2>2, <2>3, <3>3, <3>4
  <2>5. CASE ioStatus = "CANCELLED"
    BY <2>2, <2>3, <2>5 DEF AfterReply
  <2>6. CASE ioStatus = "FAILED"
    <3>1. turns' = AllButLast(turns)
      BY <2>3, <2>6 DEF AfterReply, AllButLast
    <3>2. /\ Ordered(turns') /\ Len(turns') = Len(turns) - 1
          /\ Alternating(turns) => Alternating(turns')
          /\ \A n \in DOMAIN turns' : turns'[n].of <= sends
      BY <2>2, <2>3, <3>1, DroppedInOrder
    <3>3. Len(turns) % 2 # 0 => (Len(turns) - 1) % 2 = 0
      BY <2>2
    <3> QED BY <2>2, <2>3, <3>2, <3>3
  <2> QED BY <2>2, <2>4, <2>5, <2>6
<1>10. CASE Unwind
  BY <1>10 DEF Unwind, TurnsInv, past, LifeInv
<1>11. CASE UnwindJoin
  BY <1>11 DEF UnwindJoin, TurnsInv, past
<1>12. CASE Free
  <2>1. turns' = <<>> /\ worker' = "none" /\ ui' = "closed" /\ DOMAIN turns' = {}
    BY <1>12 DEF Free, LifeInv
  <2>2. Ordered(turns') /\ Alternating(turns')
    BY <2>1 DEF Ordered, Alternating
  <2> QED BY <2>1, <2>2 DEF TurnsInv
<1>13. CASE UNCHANGED chatVars
  BY <1>1, <1>13 DEF chatVars, past
<1> QED BY <1>2, <1>3, <1>4, <1>5, <1>6, <1>7, <1>8, <1>9, <1>10, <1>11, <1>12, <1>13
        DEF ChatNext, Frame, Worker

-----------------------------------------------------------------------------
(* demo/fallback.c                                                         *)

Queueable == Letters \cup {"r", "5", "t", "o"}

WireType ==
  /\ fui \in {"selftest", "keys", "draw", "join", "unwind", "unwind_join", "free", "closed"}
  /\ fworker \in {"none", "top", "trip", "counted", "returned", "exited"}
  /\ wire \in Seq(Queueable)
  /\ nQueued \in 0..QueueCap
  /\ {consumed, fires, built, uncounted, unmatched} \subseteq Nat
  /\ event \in Queueable \cup {"refused", "nocall", "nomem", "cancelled"}

(* A request is fired by a window without a worker; client, transport and
   tokens are live until the window, which waited for the worker, closes. *)
HoldInv ==
  /\ fui \in {"free", "closed"} => fworker = "none"
  /\ fui = "keys" /\ fire => fworker = "none"
  /\ fui \in {"draw", "join"} => ~fire
  /\ fworker # "none" => uses = fclient
  /\ fworker = "trip" /\ event = "refused" => wire = <<>>
  /\ fui = "selftest" => ftoken = 0 /\ uses # 0
  /\ liveClients = IF fui = "closed" THEN {} ELSE {fclient} \ {0}
  /\ liveScripts = IF fui = "closed" THEN {} ELSE {fscript} \ {0}
  /\ liveFTokens = IF fui = "closed" THEN madeFTokens \ {ftoken} ELSE madeFTokens
  /\ ftoken \in madeFTokens \cup {0} /\ 0 \notin madeFTokens
  /\ ~twice

(* Events the running request took and counted, or will count. *)
Taken == consumed + (IF fworker = "trip" /\ Took THEN 1 ELSE 0)

(* The queue shrinks by the events taken, down to none: attempts beyond that
   were refused. *)
CountInv ==
  fui \notin {"selftest", "free", "closed"} =>
    IF fworker = "none"
    THEN nQueued <= Len(wire) + uncounted /\ Len(wire) <= nQueued + unmatched
    ELSE /\ nQueued <= Len(wire) + uncounted + Taken
         /\ wire # <<>> => Len(wire) + Taken <= nQueued + unmatched

WireInv == WireType /\ HoldInv /\ CountInv

LEMMA QueueingFits ==
  ASSUME NEW S, NEW story \in Seq(S), NEW room \in Nat, NEW q \in Queueing(story, room)
  PROVE  q \in Seq(S) /\ Len(q) <= room
<1>1. PICK n \in 0..Lesser(Len(story), room) :
        q \in {[k \in 1..n |-> story[pick[k]]] : pick \in Increasing(n, Len(story))}
  BY DEF Queueing
<1>2. PICK pick \in Increasing(n, Len(story)) : q = [k \in 1..n |-> story[pick[k]]]
  BY <1>1
<1>3. n \in Nat /\ n <= room
  BY <1>1 DEF Lesser
<1>4. \A k \in 1..n : story[pick[k]] \in S
  BY <1>2, <1>3 DEF Increasing
<1> QED BY <1>2, <1>3, <1>4

(* What EndFallbackKeys adds to the queue fits in. *)
LEMMA StoryFits ==
  ASSUME NEW n \in 0..QueueCap, nQueued = n, NEW story \in Queueing(Scenario, Room)
  PROVE  /\ story \in Seq(Queueable)
         /\ n + Len(story) \in 0..QueueCap
<1> USE FallbackAssumption
<1>1. Scenario \in Seq(Queueable)
  BY DEF Queueable
<1>2. Room \in Nat /\ n + Room <= QueueCap
  BY DEF Room
<1>3. story \in Seq(Queueable) /\ Len(story) <= Room
  BY <1>1, <1>2, QueueingFits
<1>4. Len(story) \in Nat
  BY <1>3
<1> QED BY <1>2, <1>3, <1>4

(* One frame's input: nothing happens, or the showcase queues its events and a
   request is launched. *)
LEMMA FrameSteps ==
  ASSUME WireInv, EndFallbackKeys
  PROVE  /\ fui = "keys" /\ UNCHANGED <<wires, event, amiss>>
         /\ \/ /\ fui' = "unwind"
               /\ UNCHANGED <<wire, nQueued, fworker, consumed, uses, tokens, fires, fire>>
            \/ /\ fui' = "draw" /\ ~fire'
               /\ UNCHANGED <<wire, nQueued, fworker, consumed, uses, tokens, fires>>
            \/ /\ fui' = "draw" /\ ~fire' /\ fworker = "none"
               /\ wire' \in Seq(Queueable) /\ nQueued' \in 0..QueueCap
               /\ Len(wire') - Len(wire) = nQueued' - nQueued
               /\ fworker' \in {"none", "top"} /\ consumed' = 0 /\ fires' = fires + 1
               /\ uses' = fclient
               /\ \E made \in SUBSET {fires + 1} : liveFTokens' = liveFTokens \cup made
                                                  /\ madeFTokens' = madeFTokens \cup made
               /\ ftoken' \in madeFTokens' \cup {0} /\ 0 \notin madeFTokens'
<1> USE FallbackAssumption
<1>1. CASE fui' = "unwind"
  BY <1>1 DEF EndFallbackKeys, engineVars, tokens
<1>2. CASE fui' # "unwind"
  <2>1. PICK story \in Queueing(Scenario, Room) :
          /\ fui = "keys" /\ fui' = "draw" /\ fire' = FALSE /\ UNCHANGED <<wires, amiss>>
          /\ wire' = wire \o story /\ nQueued' = nQueued + Len(story)
          /\ IF fire \/ Showcase
             THEN Launch(fires + 1) /\ fires' = fires + 1 /\ event' = event
             ELSE UNCHANGED <<fworker, engineVars, tokens, consumed, uses, fires>>
    BY <1>2 DEF EndFallbackKeys
  <2>2. CASE ~(fire \/ Showcase)
    <3>1. story \in Seq(Queueable) /\ Len(story) <= 0
      <4>1. Room = 0 /\ Scenario \in Seq(Queueable)
        BY <2>2 DEF Room, Queueable
      <4> QED BY <4>1, QueueingFits
    <3>2. wire' = wire /\ nQueued' = nQueued
      BY <2>1, <3>1 DEF WireInv, WireType
    <3> QED BY <2>1, <2>2, <3>2 DEF engineVars
  <2>3. CASE fire \/ Showcase
    <3>1. fworker = "none"
      BY <2>1, <2>3 DEF WireInv, HoldInv, Showcase, FWorkerActive
    <3>2. story \in Seq(Queueable) /\ nQueued + Len(story) \in 0..QueueCap
      BY <2>1, StoryFits DEF WireInv, WireType
    <3>3. wire' \in Seq(Queueable) /\ Len(wire') = Len(wire) + Len(story)
      BY <2>1, <3>2 DEF WireInv, WireType
    <3>4. Len(wire') - Len(wire) = nQueued' - nQueued /\ nQueued' \in 0..QueueCap
      BY <2>1, <3>2, <3>3 DEF WireInv, WireType
    <3>5. PICK token \in {0, fires + 1}, started \in BOOLEAN :
            /\ consumed' = 0
            /\ ftoken' = IF started THEN token ELSE 0
            /\ liveFTokens' = IF started THEN liveFTokens \cup ({token} \ {0}) ELSE liveFTokens
            /\ madeFTokens' = IF started THEN madeFTokens \cup ({token} \ {0}) ELSE madeFTokens
            /\ fworker' = IF started THEN "top" ELSE fworker
            /\ uses' = fclient
      BY <2>1, <2>3 DEF Launch
    <3>6. fworker' \in {"none", "top"} /\ ftoken' \in madeFTokens' \cup {0}
      BY <3>1, <3>5
    <3>7. fires + 1 # 0 /\ 0 \notin madeFTokens
      BY DEF WireInv, HoldInv, WireType
    <3>8. \E made \in SUBSET {fires + 1} : liveFTokens' = liveFTokens \cup made
                                          /\ madeFTokens' = madeFTokens \cup made
      <4>1. CASE started /\ token # 0
        BY <3>5, <4>1
      <4>2. CASE ~(started /\ token # 0)
        <5>1. liveFTokens' = liveFTokens \cup {} /\ madeFTokens' = madeFTokens \cup {}
          BY <3>5, <4>2
        <5> QED BY <5>1, Zenon
      <4> QED BY <4>1, <4>2
    <3>9. 0 \notin madeFTokens'
      BY <3>7, <3>8
    <3>10. /\ fui' = "draw" /\ ~fire' /\ UNCHANGED <<wires, event, amiss>> /\ fires' = fires + 1
           /\ fui = "keys"
      BY <2>1, <2>3
    <3> QED BY <3>1, <3>3, <3>4, <3>5, <3>6, <3>8, <3>9, <3>10
  <2> QED BY <2>2, <2>3
<1> QED BY <1>1, <1>2

(* The worker's variables change, the window's and what it holds do not. *)
LEMMA WorkerOnly ==
  ASSUME WireInv, fworker # "none", fworker' \in {"trip", "top", "counted", "returned", "exited"},
         UNCHANGED <<fui, fire, nQueued, uses, wires, tokens, fires>>,
         event' \in Queueable \cup {"refused", "nocall", "nomem", "cancelled"},
         {consumed', uncounted', unmatched'} \subseteq Nat,
         wire' \in Seq(Queueable), fworker' = "trip" /\ event' = "refused" => wire' = <<>>
  PROVE  WireType' /\ HoldInv'
<1>1. WireType'
  BY DEF WireInv, WireType, wires
<1>2. HoldInv'
  BY DEF WireInv, HoldInv, wires, tokens
<1> QED BY <1>1, <1>2

LEMMA RebuildStep ==
  ASSUME WireInv, KeyClear
  PROVE  WireInv'
<1>1. /\ fui = "keys" /\ fui' = "keys" /\ fire' = fire /\ fworker = "none" /\ fworker' = "none"
      /\ twice' = (twice \/ Gone(fclient, liveClients) \/ Gone(fscript, liveScripts))
      /\ liveClients' = (liveClients \ {fclient}) \cup ({fclient'} \ {0})
      /\ liveScripts' = (liveScripts \ {fscript}) \cup ({fscript'} \ {0})
      /\ built' = built + 1
      /\ wire' = <<>> /\ nQueued' = 0 /\ consumed' = 0 /\ uncounted' = 0 /\ unmatched' = 0
      /\ UNCHANGED <<event, uses, ftoken, liveFTokens, madeFTokens, fires>>
  BY DEF KeyClear, Rebuild, Reading, FWorkerActive, uiVars, engineVars, tokens
<1>2. WireType'
  BY <1>1, FallbackAssumption DEF WireInv, WireType
<1>3. liveClients' = {fclient'} \ {0} /\ liveScripts' = {fscript'} \ {0}
  BY <1>1 DEF WireInv, HoldInv
<1>4. ~twice'
  BY <1>1 DEF Gone, WireInv, HoldInv
<1>5. HoldInv'
  BY <1>1, <1>3, <1>4 DEF WireInv, HoldInv
<1>6. CountInv'
  BY <1>1 DEF CountInv
<1> QED BY <1>2, <1>5, <1>6 DEF WireInv

(* How the window's count and the queue move together. *)
LEMMA CountsMove ==
  ASSUME NEW n \in Nat, NEW l \in Nat, NEW u \in Nat, NEW m \in Nat, NEW t \in Nat
  PROVE  /\ n <= l + u => n + 1 <= (l + 1) + u
         /\ l <= n + m => l + 1 <= (n + 1) + m
         /\ n <= l + u + t /\ l # 0 => n <= (l - 1) + u + (t + 1)
         /\ l + t <= n + m => (l - 1) + (t + 1) <= n + m
         /\ n <= l + u + t => (IF t >= n THEN 0 ELSE n - t) <= l + u
         /\ l + t <= n + m => l <= (IF t >= n THEN 0 ELSE n - t) + m
         /\ l = 0 => l <= (IF t >= n THEN 0 ELSE n - t) + m
OBVIOUS

(* A round trip ends: counted on_attempt, or without a record. *)
LEMMA LandStep ==
  ASSUME WireInv, NEW how \in Ends, Land(how) \/ LandUnrecorded(how)
  PROVE  WireInv'
<1>1. /\ fworker = "trip" /\ fworker' \in {"counted", "returned"} /\ event' = how
      /\ UNCHANGED <<fui, fire, wire, nQueued, uses, wires, tokens, fires>>
  BY DEF Land, LandUnrecorded, TripEnds, CallReturns, uiVars
<1>2. /\ event \in Queueable \cup {"refused", "nocall", "nomem", "cancelled"}
      /\ how \in Queueable \cup {"refused", "nocall", "nomem", "cancelled"}
      /\ {consumed, uncounted, unmatched} \subseteq Nat /\ nQueued \in Nat /\ Len(wire) \in Nat
      /\ wire \in Seq(Queueable)
  BY FallbackAssumption DEF WireInv, WireType, Ends
<1>3. \/ /\ consumed' = consumed + 1 /\ uncounted' = uncounted
         /\ unmatched' = IF event = "nocall" THEN unmatched + 1 ELSE unmatched
      \/ /\ consumed' = consumed /\ unmatched' = unmatched
         /\ uncounted' = IF Took THEN uncounted + 1 ELSE uncounted
  BY DEF Land, LandUnrecorded
<1>4. {consumed', uncounted', unmatched'} \subseteq Nat
  BY <1>2, <1>3
<1>5. WireType' /\ HoldInv'
  BY <1>1, <1>2, <1>4, WorkerOnly
<1>6. CountInv'
  <2> SUFFICES ASSUME fui' \notin {"selftest", "free", "closed"}
               PROVE  /\ nQueued' <= Len(wire') + uncounted' + Taken'
                      /\ wire' # <<>> => Len(wire') + Taken' <= nQueued' + unmatched'
    BY <1>1 DEF CountInv
  <2>1. /\ nQueued <= Len(wire) + uncounted + Taken
        /\ wire # <<>> => Len(wire) + Taken <= nQueued + unmatched
    BY <1>1 DEF WireInv, CountInv
  <2>2. Taken = consumed + (IF Took THEN 1 ELSE 0) /\ Taken' = consumed' + 0
    BY <1>1 DEF Taken
  <2>3. CASE Took
    BY <1>1, <1>2, <1>3, <2>1, <2>2, <2>3 DEF Took
  <2>4. CASE event = "nocall"
    BY <1>1, <1>2, <1>3, <2>1, <2>2, <2>4 DEF Took
  <2>5. CASE event = "refused"
    <3>1. wire = <<>>
      BY <1>1, <2>5 DEF WireInv, HoldInv
    <3> QED BY <1>1, <1>2, <1>3, <2>1, <2>2, <2>5, <3>1 DEF Took
  <2> QED BY <2>3, <2>4, <2>5 DEF Took
<1> QED BY <1>5, <1>6 DEF WireInv

LEMMA WireStep ==
  ASSUME WireInv, [FallbackNext]_fallbackVars
  PROVE  WireInv'
<1> USE FallbackAssumption
        DEF WireInv, engineVars, fview, uiVars, wires, tokens, amiss, FWorkerActive, Reading
<1>1. CASE KeyQuit \/ KeyFire \/ KeyCancel
  <2>1. /\ fui = "keys" /\ fui' = "keys"
        /\ UNCHANGED <<wire, nQueued, fworker, event, consumed, amiss, uses, wires, tokens, fires>>
    BY <1>1 DEF KeyQuit, KeyFire, KeyCancel
  <2>2. fire' => fworker = "none"
    BY <1>1, <2>1 DEF KeyQuit, KeyFire, KeyCancel, HoldInv
  <2> QED BY <2>1, <2>2 DEF WireType, HoldInv, CountInv, Taken, Took
<1>2. CASE KeyClear
  BY <1>2, RebuildStep
<1>3. CASE KeyEvent
  <2>1. PICK letter \in Letters : wire' = Append(wire, letter) /\ nQueued' = nQueued + 1
    BY <1>3 DEF KeyEvent
  <2>2. wire' \in Seq(Queueable) /\ Len(wire') = Len(wire) + 1
    BY <2>1 DEF WireType, Queueable
  <2>3. UNCHANGED <<fui, fire, fworker, event, consumed, amiss, uses, wires, tokens, fires>>
        /\ fui = "keys" /\ fworker = "none" /\ nQueued < QueueCap
    BY <1>3 DEF KeyEvent
  <2>4. Len(wire) \in Nat /\ nQueued \in Nat /\ nQueued' \in 0..QueueCap
    BY <2>1, <2>3 DEF WireType
  <2>5. WireType' /\ HoldInv'
    BY <2>2, <2>3, <2>4 DEF WireType, HoldInv
  <2>6. CountInv'
    <3>1. uncounted \in Nat /\ unmatched \in Nat
      BY DEF WireType
    <3>2. nQueued <= Len(wire) + uncounted /\ Len(wire) <= nQueued + unmatched
      BY <2>3 DEF CountInv
    <3>3. /\ nQueued + 1 <= (Len(wire) + 1) + uncounted
          /\ Len(wire) + 1 <= (nQueued + 1) + unmatched
      BY <2>4, <3>1, <3>2, CountsMove
    <3> QED BY <2>1, <2>2, <2>3, <3>3 DEF CountInv
  <2> QED BY <2>5, <2>6
<1>4. CASE EndFallbackKeys
  <2>1. CASE fui' = "unwind" /\ UNCHANGED <<wire, nQueued, fworker, consumed, uses, tokens, fires, fire>>
    BY <1>4, <2>1, FrameSteps DEF WireType, HoldInv, CountInv, Taken, Took
  <2>2. CASE fui' = "draw" /\ ~fire' /\ UNCHANGED <<wire, nQueued, fworker, consumed, uses, tokens, fires>>
    BY <1>4, <2>2, FrameSteps DEF WireType, HoldInv, CountInv, Taken, Took
  <2>3. CASE /\ fui' = "draw" /\ ~fire' /\ fworker = "none"
             /\ wire' \in Seq(Queueable) /\ nQueued' \in 0..QueueCap
             /\ Len(wire') - Len(wire) = nQueued' - nQueued
             /\ fworker' \in {"none", "top"} /\ consumed' = 0 /\ fires' = fires + 1
             /\ uses' = fclient
             /\ \E made \in SUBSET {fires + 1} : liveFTokens' = liveFTokens \cup made
                                                /\ madeFTokens' = madeFTokens \cup made
             /\ ftoken' \in madeFTokens' \cup {0} /\ 0 \notin madeFTokens'
    <3>1. fui = "keys" /\ UNCHANGED <<wires, event, amiss>>
      BY <1>4, FrameSteps
    <3>2. WireType'
      BY <2>3, <3>1 DEF WireType
    <3>3. liveFTokens' = madeFTokens'
      BY <2>3, <3>1 DEF HoldInv
    <3>4. HoldInv'
      BY <2>3, <3>1, <3>3 DEF HoldInv
    <3>5. nQueued <= Len(wire) + uncounted /\ Len(wire) <= nQueued + unmatched
      BY <2>3, <3>1 DEF CountInv
    <3>6. {nQueued, Len(wire), nQueued', Len(wire'), uncounted, unmatched} \subseteq Nat
      <4>1. wire \in Seq(Queueable) /\ {nQueued, uncounted, unmatched} \subseteq Nat
        BY DEF WireType
      <4>2. Len(wire) \in Nat /\ Len(wire') \in Nat /\ nQueued' \in Nat
        BY <2>3, <4>1
      <4> QED BY <4>1, <4>2
    <3>7. nQueued' <= Len(wire') + uncounted /\ Len(wire') <= nQueued' + unmatched
      BY <2>3, <3>5, <3>6
    <3>8. Taken' = 0
      BY <2>3 DEF Taken
    <3>9. nQueued' <= Len(wire') + uncounted' /\ Len(wire') <= nQueued' + unmatched'
      BY <3>1, <3>7
    <3>10. nQueued' <= Len(wire') + uncounted' + Taken' /\ Len(wire') + Taken' <= nQueued' + unmatched'
      <4>1. {uncounted', unmatched'} \subseteq Nat
        BY <3>1, <3>6
      <4> HIDE DEF WireInv
      <4> QED BY <3>6, <3>8, <3>9, <4>1
    <3>11. CountInv'
      BY <3>9, <3>10 DEF CountInv
    <3> QED BY <3>2, <3>4, <3>11
  <2> QED BY <1>4, <2>1, <2>2, <2>3, FrameSteps
<1>5. CASE NoClient \/ StopForToken \/ NothingToSend \/ FReport \/ \E read \in BOOLEAN : OnFallbackDelta(read)
  <2>1. /\ fworker # "none" /\ fworker' \in {"trip", "returned", "exited"}
        /\ fworker' = "trip" <=> fworker = "trip"
        /\ UNCHANGED <<fui, fire, wire, nQueued, event, consumed, uses, wires, tokens, fires, amiss>>
    BY <1>5 DEF NoClient, StopForToken, NothingToSend, FReport, OnFallbackDelta, CallReturns, AtTop
  <2>2. WireType' /\ HoldInv'
    BY <2>1 DEF WireType, HoldInv
  <2>3. Taken' = Taken
    BY <2>1 DEF Taken, Took
  <2>4. CountInv'
    BY <2>1, <2>3 DEF CountInv
  <2> QED BY <2>2, <2>4
<1>6. CASE Trip
  <2>1. /\ fworker = "top" /\ fworker' = "trip"
        /\ wire' = IF wire = <<>> THEN <<>> ELSE Tail(wire)
        /\ event' = IF wire = <<>> THEN "refused" ELSE Head(wire)
        /\ UNCHANGED <<fui, fire, nQueued, amiss, consumed, wires, uses, tokens, fires>>
    BY <1>6 DEF Trip, AtTop
  <2>2. wire \in Seq(Queueable) /\ {consumed, uncounted, unmatched, nQueued} \subseteq Nat
    BY DEF WireType
  <2>3. CASE wire = <<>>
    <3>1. wire' = <<>> /\ event' = "refused" /\ Taken' = consumed + 0 /\ Taken = consumed + 0
      BY <2>1, <2>3 DEF Taken, Took
    <3>2. WireType' /\ HoldInv'
      BY <2>1, <2>2, <3>1 DEF WireType, HoldInv
    <3>3. CountInv'
      BY <2>1, <2>2, <2>3, <3>1 DEF CountInv
    <3> QED BY <3>2, <3>3
  <2>4. CASE wire # <<>>
    <3>1. wire' \in Seq(Queueable) /\ event' \in Queueable /\ Len(wire') = Len(wire) - 1
          /\ Len(wire) \in Nat
      BY <2>1, <2>2, <2>4
    <3>2. event' \notin {"refused", "nocall"}
      BY <3>1 DEF Queueable, Retried, Advanced
    <3>3. Taken' = consumed + 1 /\ Taken = consumed + 0
      BY <2>1, <3>2 DEF Taken, Took
    <3>4. WireType' /\ HoldInv'
      BY <2>1, <2>2, <3>1, <3>2 DEF WireType, HoldInv
    <3>5. CountInv'
      <4>1. nQueued \in Nat /\ consumed \in Nat /\ uncounted \in Nat /\ unmatched \in Nat /\ Len(wire) # 0
        BY <2>2, <2>4
      <4>2. Taken = consumed /\ Taken' = consumed + 1
        BY <3>3, <4>1
      <4> SUFFICES ASSUME fui' \notin {"selftest", "free", "closed"}
                   PROVE  /\ nQueued' <= Len(wire') + uncounted' + Taken'
                          /\ Len(wire') + Taken' <= nQueued' + unmatched'
        BY <2>1 DEF CountInv
      <4>3. nQueued <= Len(wire) + uncounted + consumed /\ Len(wire) + consumed <= nQueued + unmatched
        BY <2>1, <2>4, <4>2 DEF CountInv
      <4>4. /\ nQueued <= (Len(wire) - 1) + uncounted + (consumed + 1)
            /\ (Len(wire) - 1) + (consumed + 1) <= nQueued + unmatched
        BY <3>1, <4>1, <4>3, CountsMove
      <4> QED BY <2>1, <3>1, <4>2, <4>4
    <3> QED BY <3>4, <3>5
  <2> QED BY <2>3, <2>4
<1>7. CASE TripWithoutMemory
  <2>1. /\ fworker = "top" /\ fworker' = "trip" /\ event' = "nocall"
        /\ UNCHANGED <<fui, fire, wire, nQueued, amiss, consumed, wires, uses, tokens, fires>>
    BY <1>7 DEF TripWithoutMemory, AtTop
  <2>2. Taken' = Taken
    BY <2>1 DEF Taken, Took
  <2> QED BY <2>1, <2>2 DEF WireType, HoldInv, CountInv
<1>8. CASE \E how \in Ends : Land(how) \/ LandUnrecorded(how)
  BY <1>8, LandStep
<1>9. CASE Decide
  <2>1. /\ fworker = "counted" /\ fworker' \in {"returned", "top"}
        /\ UNCHANGED <<fui, fire, wire, nQueued, amiss, consumed, wires, uses, tokens, fires, event>>
    <3>1. event \in {"o", "a", "cancelled", "nomem", "nocall"} \cup Advanced \cup Retried
      BY DEF WireType, Queueable, Advanced, Retried
    <3>2. DOMAIN Final = {"o", "a", "cancelled", "nomem", "nocall"}
      BY DEF Final
    <3>3. fworker' \in {"returned", "top"}
      <4>1. CASE event \in DOMAIN Final
        BY <1>9, <3>2, <4>1 DEF Decide, CallReturns, Advanced, Retried
      <4>2. CASE event \in Advanced
        BY <1>9, <3>2, <4>2 DEF Decide, CallReturns, NextBackend, Advanced
      <4>3. CASE event \in Retried
        BY <1>9, <3>2, <4>3 DEF Decide, CallReturns, NextBackend, Advanced, Retried
      <4> QED BY <3>1, <3>2, <4>1, <4>2, <4>3
    <3> QED BY <1>9, <3>3 DEF Decide
  <2> QED BY <2>1 DEF WireType, HoldInv, CountInv, Taken
<1>10. CASE Draw
  BY <1>10 DEF Draw, WireType, HoldInv, CountInv, Taken, Took
<1>11. CASE FSettle
  <2>1. /\ fui = "join" /\ fui' = "keys" /\ fworker = "exited" /\ fworker' = "none"
        /\ nQueued' = nQueued - Lesser(consumed, nQueued) /\ event' = "refused"
        /\ UNCHANGED <<fire, wire, wires, uses, tokens, consumed, fires, amiss>>
    BY <1>11 DEF FSettle
  <2>2. {consumed, uncounted, unmatched, nQueued, Len(wire)} \subseteq Nat /\ nQueued \in 0..QueueCap
    BY DEF WireType
  <2>3. nQueued' \in 0..QueueCap
        /\ nQueued' = IF consumed >= nQueued THEN 0 ELSE nQueued - consumed
    BY <2>1, <2>2 DEF Lesser
  <2>4. WireType' /\ HoldInv'
    BY <2>1, <2>3 DEF WireType, HoldInv
  <2>5. /\ nQueued <= Len(wire) + uncounted + consumed
        /\ wire # <<>> => Len(wire) + consumed <= nQueued + unmatched
        /\ wire = <<>> => Len(wire) = 0
    <3>1. Taken = consumed
      BY <2>1, <2>2 DEF Taken
    <3> QED BY <2>1, <3>1 DEF CountInv
  <2>6. nQueued' <= Len(wire) + uncounted /\ Len(wire) <= nQueued' + unmatched
    <3>1. nQueued \in Nat /\ consumed \in Nat /\ uncounted \in Nat /\ unmatched \in Nat /\ Len(wire) \in Nat
      BY <2>2
    <3>2. nQueued' <= Len(wire) + uncounted
      BY <2>3, <2>5, <3>1, CountsMove
    <3>3. Len(wire) <= nQueued' + unmatched
      <4>1. CASE wire = <<>>
        BY <2>3, <2>5, <3>1, <4>1, CountsMove
      <4>2. CASE wire # <<>>
        BY <2>3, <2>5, <3>1, <4>2, CountsMove
      <4> QED BY <4>1, <4>2
    <3> QED BY <3>2, <3>3
  <2>7. CountInv'
    BY <2>1, <2>6 DEF CountInv
  <2> QED BY <2>4, <2>7
<1>12. CASE FUnwind \/ FUnwindJoin
  <2>1. CASE FUnwind
    <3>1. /\ fui = "unwind" /\ fui' = (IF fworker # "none" THEN "unwind_join" ELSE "free")
          /\ UNCHANGED <<fire, wires, wire, nQueued, fworker, event, uses, tokens, consumed, fires,
                         amiss>>
      BY <2>1 DEF FUnwind
    <3>2. Taken' = Taken
      BY <3>1 DEF Taken, Took
    <3>3. WireType' /\ HoldInv'
      BY <3>1 DEF WireType, HoldInv
    <3>4. CountInv'
      BY <3>1, <3>2 DEF CountInv
    <3> QED BY <3>3, <3>4
  <2>2. CASE FUnwindJoin
    BY <2>2 DEF FUnwindJoin, WireType, HoldInv, CountInv
  <2> QED BY <1>12, <2>1, <2>2
<1>13. CASE FFree \/ SelfTestEnds
  <2>1. /\ fui \in {"free", "selftest"} /\ fui' = "closed" /\ fworker' = "none"
        /\ twice' = (twice \/ Gone(ftoken, liveFTokens) \/ Gone(fclient, liveClients)
                           \/ Gone(fscript, liveScripts))
        /\ liveFTokens' = liveFTokens \ {ftoken}
        /\ liveClients' = liveClients \ {fclient} /\ liveScripts' = liveScripts \ {fscript}
        /\ UNCHANGED <<fire, fclient, fscript, built, wire, nQueued, event, uses, ftoken,
                       madeFTokens, consumed, fires, amiss>>
    BY <1>13 DEF FFree, SelfTestEnds, Destroy, HoldInv
  <2>2. ~twice'
    BY <2>1 DEF HoldInv, Gone
  <2> QED BY <2>1, <2>2 DEF WireType, HoldInv, CountInv
<1>14. CASE UNCHANGED fallbackVars
  BY <1>14 DEF fallbackVars, WireType, HoldInv, CountInv, Taken, Took
<1> QED BY <1>1, <1>2, <1>3, <1>4, <1>5, <1>6, <1>7, <1>8, <1>9, <1>10, <1>11, <1>12, <1>13, <1>14
        DEF FallbackNext, FKeys, FFrame, Call

-----------------------------------------------------------------------------
(* demo/fallback.c: the lines of the log and the reply shown.              *)

LogLine == [fire : Nat, backend : Nat, tryOf : Nat]
Line == [fire |-> fires, backend |-> backend, tryOf |-> tryOf]

(* f is the line of the attempt after that of e. *)
Behind(e, f) ==
  \/ f = [e EXCEPT !.tryOf = @ + 1]
  \/ f.fire = e.fire /\ f.backend = e.backend + 1 /\ f.tryOf = 0
  \/ f.fire > e.fire /\ f.backend = 1 /\ f.tryOf = 0

(* The lines of a request that logged count attempts: the last ones. *)
EndsWithLinesOf(log, k, count) ==
  /\ count \in Nat
  /\ Lesser(LogLines, count) <= Len(log)
  /\ \A n \in DOMAIN log : log[n].fire = k <=> n > Len(log) - Lesser(LogLines, count)

(* Attempts of the running request that have their line. *)
Logged == consumed - (IF fworker = "counted" THEN 1 ELSE 0)

LogInv ==
  /\ flog \in Seq(LogLine) /\ Len(flog) <= LogLines
  /\ backend \in Nat /\ tryOf \in Nat /\ curBackend \in Nat
  /\ \A n \in DOMAIN flog : flog[n].fire <= fires
  /\ \A n \in 2..Len(flog) : Behind(flog[n - 1], flog[n])
  /\ FWorkerActive =>
       /\ EndsWithLinesOf(flog, fires, Logged)
       /\ curBackend = IF fworker = "counted" THEN backend
                       ELSE IF Logged = 0 THEN 0 ELSE flog[Len(flog)].backend
  /\ fworker \in {"top", "trip", "counted"} =>
       IF Logged = 0 THEN backend = 1 /\ tryOf = 0 ELSE Behind(flog[Len(flog)], Line)

(* new is log with entry behind it, without its first entry if log is full. *)
Shifted(log, new, d, entry) ==
  /\ d = 1 <=> Len(log) = LogLines
  /\ Len(new) = Len(log) - d + 1 /\ Len(new) <= LogLines
  /\ \A k \in 1..(Len(log) - d) : new[k] = log[k + d]
  /\ new[Len(log) - d + 1] = entry

(* entry is what comes behind log, of a request with count lines in it. *)
ComesNext(log, entry, count) ==
  /\ EndsWithLinesOf(log, entry.fire, count)
  /\ \A n \in DOMAIN log : log[n].fire <= entry.fire
  /\ \A n \in 2..Len(log) : Behind(log[n - 1], log[n])
  /\ count = 0 => entry.backend = 1 /\ entry.tryOf = 0
  /\ count # 0 => Behind(log[Len(log)], entry)

LEMMA PushedLines ==
  ASSUME NEW log \in Seq(LogLine), NEW entry \in LogLine, Len(log) <= LogLines, NEW new,
         new = Append(IF Len(log) = LogLines THEN Tail(log) ELSE log, entry)
  PROVE  /\ new \in Seq(LogLine)
         /\ \E d \in {0, 1} : Shifted(log, new, d, entry)
<1> USE FallbackAssumption DEF Shifted
<1>1. CASE Len(log) = LogLines
  <2>1. log # <<>>
    BY <1>1
  <2>2. /\ Tail(log) \in Seq(LogLine) /\ Len(Tail(log)) = Len(log) - 1
        /\ \A k \in 1..(Len(log) - 1) : Tail(log)[k] = log[k + 1]
    BY <2>1, HeadTailProperties
  <2>3. /\ new \in Seq(LogLine) /\ Len(new) = Len(Tail(log)) + 1
        /\ \A k \in 1..Len(Tail(log)) : new[k] = Tail(log)[k]
        /\ new[Len(Tail(log)) + 1] = entry
    BY <1>1, <2>2, AppendProperties
  <2> QED BY <1>1, <2>2, <2>3
<1>2. CASE Len(log) # LogLines
  <2>1. /\ new \in Seq(LogLine) /\ Len(new) = Len(log) + 1
        /\ \A k \in 1..Len(log) : new[k] = log[k]
        /\ new[Len(log) + 1] = entry
    BY <1>2, AppendProperties
  <2> QED BY <1>2, <2>1
<1> QED BY <1>1, <1>2

(* The entry of the next attempt is put behind those of the others. *)
LEMMA PushedInPlace ==
  ASSUME NEW log \in Seq(LogLine), NEW entry \in LogLine, NEW count, NEW new \in Seq(LogLine),
         NEW d \in {0, 1}, Shifted(log, new, d, entry), ComesNext(log, entry, count)
  PROVE  /\ new[Len(new)] = entry
         /\ \A n \in DOMAIN new : new[n].fire <= entry.fire
         /\ \A n \in 2..Len(new) : Behind(new[n - 1], new[n])
         /\ EndsWithLinesOf(new, entry.fire, count + 1)
<1>1. LogLines \in Nat /\ LogLines > 0
  BY FallbackAssumption
<1>2. d \in Nat /\ Len(new) = Len(log) - d + 1 /\ Len(new) <= LogLines
      /\ (d = 1 <=> Len(log) = LogLines)
  BY DEF Shifted
<1>3. Len(log) \in Nat /\ Len(new) \in Nat
  OBVIOUS
<1>10. DOMAIN new = 1..Len(new) /\ DOMAIN log = 1..Len(log)
  OBVIOUS
<1>4. ASSUME NEW k \in 1..(Len(new) - 1) PROVE new[k] = log[k + d] /\ k + d \in 1..Len(log)
  <2>1. k \in 1..(Len(log) - d) /\ k + d \in 1..Len(log)
    BY <1>2, <1>3
  <2> QED BY <2>1 DEF Shifted
<1>5. new[Len(new)] = entry /\ Len(new) > 0
  <2>1. Len(new) > 0
    BY <1>1, <1>2, <1>3
  <2> QED BY <1>2, <2>1 DEF Shifted
<1>6. entry.fire \in Nat /\ \A n \in 1..Len(log) : log[n].fire \in Nat
  <2>1. \A n \in 1..Len(log) : log[n] \in LogLine
    OBVIOUS
  <2> QED BY <2>1 DEF LogLine
<1>7. ASSUME NEW n \in DOMAIN new PROVE new[n].fire <= entry.fire
  <2>1. CASE n = Len(new)
    BY <1>5, <1>6, <2>1
  <2>2. CASE n # Len(new)
    <3>1. n \in 1..(Len(new) - 1)
      BY <1>3, <1>10, <2>2
    <3> QED BY <1>10, <1>4, <3>1 DEF ComesNext
  <2> QED BY <2>1, <2>2
<1>8. ASSUME NEW n \in 2..Len(new) PROVE Behind(new[n - 1], new[n])
  <2>1. CASE n # Len(new)
    <3>1. n \in 1..(Len(new) - 1) /\ n - 1 \in 1..(Len(new) - 1) /\ n - 1 + d = n + d - 1
      BY <1>2, <1>3, <2>1
    <3>2. new[n - 1] = log[n + d - 1] /\ new[n] = log[n + d] /\ n + d \in 1..Len(log)
      BY <1>4, <3>1
    <3>3. n + d \in 2..Len(log)
      BY <1>2, <1>3, <3>2
    <3> QED BY <3>2, <3>3 DEF ComesNext
  <2>2. CASE n = Len(new)
    <3>1. n - 1 \in 1..(Len(new) - 1) /\ n - 1 + d = Len(log)
      BY <1>2, <1>3, <2>2
    <3>2. new[n - 1] = log[Len(log)] /\ new[n] = entry /\ Len(log) \in 1..Len(log)
      BY <1>4, <1>5, <2>2, <3>1
    <3>3. CASE count # 0
      BY <3>2, <3>3 DEF ComesNext
    <3>4. CASE count = 0
      <4>1. Lesser(LogLines, count) = 0
        BY <1>1, <3>4 DEF Lesser
      <4>2. log[Len(log)].fire # entry.fire
        <5>1. Len(log) > Len(log) - 0 <=> FALSE
          BY <1>3
        <5>2. log[Len(log)].fire = entry.fire <=> Len(log) > Len(log) - Lesser(LogLines, count)
          BY <1>10, <3>2 DEF EndsWithLinesOf, ComesNext
        <5> QED BY <4>1, <5>1, <5>2
      <4>3. log[Len(log)].fire < entry.fire
        BY <1>6, <1>10, <3>2, <4>2 DEF ComesNext
      <4> QED BY <1>6, <3>2, <3>4, <4>3 DEF Behind, ComesNext
    <3> QED BY <3>3, <3>4
  <2> QED BY <2>1, <2>2
<1>9. EndsWithLinesOf(new, entry.fire, count + 1)
  <2> DEFINE had == Lesser(LogLines, count)  has == Lesser(LogLines, count + 1)
  <2>1. count \in Nat /\ LogLines \in Nat /\ had \in Nat /\ had <= Len(log)
    BY <1>1 DEF EndsWithLinesOf, Lesser, ComesNext
  <2>2. has \in Nat /\ has <= Len(new) /\ has >= 1
        /\ (has = had + 1 \/ (has = had /\ had = LogLines))
    BY <1>1, <1>2, <1>3, <2>1 DEF Lesser
  <2>3. \A n \in DOMAIN log : log[n].fire = entry.fire <=> n > Len(log) - had
    BY DEF EndsWithLinesOf, ComesNext
  <2> HIDE DEF had, has
  <2>4. ASSUME NEW n \in DOMAIN new
        PROVE  new[n].fire = entry.fire <=> n > Len(new) - has
    <3>1. CASE n = Len(new)
      BY <1>3, <1>5, <2>2, <3>1
    <3>2. CASE n # Len(new)
      <4>1. n \in 1..(Len(new) - 1)
        BY <1>3, <1>10, <3>2
      <4>2. new[n].fire = entry.fire <=> n + d > Len(log) - had
        BY <1>4, <1>10, <2>3, <4>1
      <4>3. CASE has = had + 1
        <5>1. Len(new) - has = Len(log) - had - d
          BY <1>2, <1>3, <2>1, <2>2, <4>3
        <5>2. n + d > Len(log) - had <=> n > Len(log) - had - d
          <6>1. n \in Int /\ d \in Int /\ Len(log) \in Int /\ had \in Int
            BY <1>2, <1>3, <2>1, <4>1
          <6> QED BY <6>1
        <5> QED BY <4>2, <5>1, <5>2
      <4>4. CASE has = had /\ had = LogLines
        <5>1. n + d > Len(log) - had /\ n > Len(new) - has
          BY <1>2, <1>3, <2>1, <2>2, <4>1, <4>4
        <5> QED BY <4>2, <5>1
      <4> QED BY <2>2, <4>3, <4>4
    <3> QED BY <3>1, <3>2
  <2>5. count + 1 \in Nat
    BY <2>1
  <2> QED BY <2>2, <2>4, <2>5 DEF EndsWithLinesOf, has
<1> QED BY <1>5, <1>7, <1>8, <1>9

(* What the engine does next follows from the event alone. *)
LEMMA Decided ==
  ASSUME WireType, Decide
  PROVE  \/ /\ event = "o" /\ fworker' = "returned" /\ status' = "OK"
            /\ UNCHANGED <<backend, tryOf>>
         \/ /\ event \in {"a", "cancelled"} /\ fworker' = "returned" /\ status' # "OK"
            /\ UNCHANGED <<backend, tryOf>>
         \/ /\ event \in {"nomem", "nocall"} /\ fworker' = "returned" /\ status' = "NOMEM"
            /\ UNCHANGED <<backend, tryOf>>
         \/ /\ event \in Retried /\ tryOf + 1 < Tries /\ fworker' = "top"
            /\ tryOf' = tryOf + 1 /\ backend' = backend
         \/ /\ event \in Advanced \/ (event \in Retried /\ ~(tryOf + 1 < Tries))
            /\ backend = NBackends /\ fworker' = "returned" /\ status' = "EXHAUSTED"
            /\ UNCHANGED <<backend, tryOf>>
         \/ /\ event \in Advanced \/ (event \in Retried /\ ~(tryOf + 1 < Tries))
            /\ backend # NBackends /\ fworker' = "top"
            /\ backend' = backend + 1 /\ tryOf' = 0
<1>1. event \in {"o", "a", "cancelled", "nomem", "nocall"} \cup Advanced \cup Retried
  BY FallbackAssumption DEF WireType, Queueable, Advanced, Retried
<1>2. DOMAIN Final = {"o", "a", "cancelled", "nomem", "nocall"}
  BY DEF Final
<1>3. ASSUME event \in DOMAIN Final
      PROVE  fworker' = "returned" /\ status' = Final[event] /\ UNCHANGED <<backend, tryOf>>
  <2>1. event \notin Advanced /\ event \notin Retried
    BY <1>2, <1>3 DEF Advanced, Retried
  <2> QED BY <1>3, <2>1 DEF Decide, CallReturns
<1>4. /\ Final["o"] = "OK" /\ Final["a"] = "ABORTED" /\ Final["cancelled"] = "CANCELLED"
      /\ Final["nomem"] = "NOMEM" /\ Final["nocall"] = "NOMEM"
  BY DEF Final
<1>7. CASE event \in {"o", "a", "cancelled", "nomem", "nocall"}
  BY <1>2, <1>3, <1>4, <1>7
<1>5. CASE event \in Advanced
  <2>1. NextBackend
    BY <1>2, <1>5 DEF Decide, Advanced, Retried
  <2> QED BY <1>5, <2>1 DEF NextBackend, CallReturns
<1>6. CASE event \in Retried
  <2>1. IF tryOf + 1 < Tries
        THEN fworker' = "top" /\ tryOf' = tryOf + 1 /\ UNCHANGED <<backend, status>>
        ELSE NextBackend
    BY <1>2, <1>6 DEF Decide, Advanced, Retried
  <2> QED BY <1>6, <2>1 DEF NextBackend, CallReturns
<1> QED BY <1>1, <1>5, <1>6, <1>7

(* A request that is launched has no line yet. *)
LEMMA NoLineYet ==
  ASSUME NEW log \in Seq(LogLine), NEW k \in Nat, \A n \in DOMAIN log : log[n].fire <= k
  PROVE  /\ EndsWithLinesOf(log, k + 1, 0)
         /\ \A n \in DOMAIN log : log[n].fire <= k + 1
<1>1. Lesser(LogLines, 0) = 0
  BY FallbackAssumption DEF Lesser
<1>2. \A n \in DOMAIN log : log[n].fire \in Nat /\ n \in Nat /\ n <= Len(log)
  <2>1. \A n \in DOMAIN log : log[n] \in LogLine
    OBVIOUS
  <2> QED BY <2>1 DEF LogLine
<1>3. \A n \in DOMAIN log : log[n].fire # k + 1 /\ ~(n > Len(log) - 0)
  BY <1>2
<1> QED BY <1>1, <1>2, <1>3 DEF EndsWithLinesOf

(* With the worker gone only the lines matter. *)
LEMMA LogAtRest ==
  ASSUME LogInv, fworker' = "none", UNCHANGED <<flog, fires>>,
         backend' \in Nat, tryOf' \in Nat, curBackend' \in Nat
  PROVE  LogInv'
BY DEF LogInv, FWorkerActive

(* Nor does the rest of a round trip change them. *)
LEMMA LogStands ==
  ASSUME LogInv, UNCHANGED <<flog, fires, backend, tryOf, curBackend, consumed>>,
         fworker # "none", fworker' # "none", fworker # "counted", fworker' # "counted",
         fworker' \in {"top", "trip"} => fworker \in {"top", "trip"}
  PROVE  LogInv'
<1>1. Logged' = Logged
  BY DEF Logged
<1>2. Line' = Line
  BY DEF Line
<1> QED BY <1>1, <1>2 DEF LogInv, FWorkerActive

LEMMA DecideLog ==
  ASSUME WireInv, LogInv, Decide
  PROVE  LogInv'
<1> USE FallbackAssumption
<1>1. /\ fworker = "counted" /\ UNCHANGED <<fires, consumed, curBackend>>
      /\ flog' = Append(IF Len(flog) = LogLines THEN Tail(flog) ELSE flog, Line)
  BY DEF Decide, log_push, Line
<1>2. /\ flog \in Seq(LogLine) /\ Len(flog) <= LogLines
      /\ backend \in Nat /\ tryOf \in Nat /\ fires \in Nat /\ consumed \in Nat
      /\ fires' = fires /\ curBackend = backend
  BY <1>1 DEF LogInv, WireInv, WireType, FWorkerActive
<1>3. Line \in LogLine /\ Line.fire = fires /\ Line.backend = backend /\ Line.tryOf = tryOf
  BY <1>2 DEF Line, LogLine
<1>4. ComesNext(flog, Line, Logged)
  BY <1>1, <1>2, <1>3 DEF LogInv, ComesNext, FWorkerActive
<1>5. flog' \in Seq(LogLine) /\ \E d \in {0, 1} : Shifted(flog, flog', d, Line)
  BY <1>1, <1>2, <1>3, PushedLines
<1>6. Len(flog') <= LogLines
  BY <1>5 DEF Shifted
<1>7. /\ flog'[Len(flog')] = Line
      /\ \A n \in DOMAIN flog' : flog'[n].fire <= fires
      /\ \A n \in 2..Len(flog') : Behind(flog'[n - 1], flog'[n])
      /\ EndsWithLinesOf(flog', fires, Logged + 1)
  BY <1>2, <1>3, <1>4, <1>5, PushedInPlace
<1>8. Logged = consumed - 1 /\ Logged \in Nat
  BY <1>1, <1>4 DEF Logged, ComesNext, EndsWithLinesOf
<1>9. /\ backend' \in Nat /\ tryOf' \in Nat /\ fworker' \in {"returned", "top"}
      /\ fworker' = "top" => \/ tryOf' = tryOf + 1 /\ backend' = backend
                             \/ backend' = backend + 1 /\ tryOf' = 0
  BY <1>2, Decided DEF WireInv
<1>10. Logged' = Logged + 1 /\ Logged' # 0
  BY <1>1, <1>2, <1>8, <1>9 DEF Logged
<1>11. fworker' = "top" => Behind(Line, Line')
  <2>1. Line' = [fire |-> fires, backend |-> backend', tryOf |-> tryOf']
    BY <1>2 DEF Line
  <2>2. CASE tryOf' = tryOf + 1 /\ backend' = backend
    <3>1. Line' = [Line EXCEPT !.tryOf = @ + 1]
      BY <2>1, <2>2 DEF Line
    <3> QED BY <3>1 DEF Behind
  <2>3. CASE backend' = backend + 1 /\ tryOf' = 0
    BY <1>3, <2>1, <2>3 DEF Behind
  <2> QED BY <1>9, <2>2, <2>3
<1>12. curBackend' = flog'[Len(flog')].backend
  BY <1>1, <1>2, <1>3, <1>7
<1>13. EndsWithLinesOf(flog', fires', Logged')
  BY <1>2, <1>7, <1>10
<1>14. fworker' \in {"top", "trip", "counted"} => Behind(flog'[Len(flog')], Line')
  BY <1>7, <1>9, <1>11
<1>15. fworker' # "counted" /\ curBackend' \in Nat
  BY <1>1, <1>2, <1>9
<1> QED BY <1>2, <1>5, <1>6, <1>7, <1>9, <1>10, <1>12, <1>13, <1>14, <1>15 DEF LogInv

LEMMA LogStep ==
  ASSUME WireInv, LogInv, [FallbackNext]_fallbackVars
  PROVE  LogInv'
<1> USE FallbackAssumption DEF uiVars, engineVars, fview
<1>1. CASE UNCHANGED <<flog, fires, backend, tryOf, curBackend, consumed, fworker>>
  <2>1. Logged' = Logged /\ Line' = Line
    BY <1>1 DEF Logged, Line
  <2> QED BY <1>1, <2>1 DEF LogInv, FWorkerActive
<1>2. CASE KeyQuit \/ KeyFire \/ KeyCancel \/ KeyEvent
  BY <1>1, <1>2 DEF KeyQuit, KeyFire, KeyCancel, KeyEvent
<1>3. CASE KeyClear
  BY <1>3, LogAtRest DEF KeyClear, Rebuild, FWorkerActive, LogInv
<1>4. CASE EndFallbackKeys
  <2>1. CASE fui' = "unwind" \/ ~(fire \/ Showcase)
    BY <1>1, <1>4, <2>1 DEF EndFallbackKeys
  <2>2. CASE fui' # "unwind" /\ (fire \/ Showcase)
    <3>1. /\ Launch(fires + 1) /\ fires' = fires + 1 /\ backend' = 1 /\ tryOf' = 0
          /\ curBackend' = 0 /\ flog' = flog /\ fui = "keys"
      BY <1>4, <2>2 DEF EndFallbackKeys
    <3>2. fworker = "none"
      BY <2>2, <3>1 DEF WireInv, HoldInv, Showcase, FWorkerActive
    <3>3. fworker' \in {"none", "top"} /\ consumed' = 0
      BY <3>1, <3>2 DEF Launch
    <3>4. Logged' = 0
      <4>1. consumed' - (IF fworker' = "counted" THEN 1 ELSE 0) = 0 - 0
        BY <3>3
      <4> QED BY <4>1 DEF Logged
    <3>5. /\ flog \in Seq(LogLine) /\ Len(flog) <= LogLines /\ fires \in Nat
          /\ \A n \in DOMAIN flog : flog[n].fire <= fires
          /\ \A n \in 2..Len(flog) : Behind(flog[n - 1], flog[n])
      BY DEF LogInv, WireInv, WireType
    <3>6. EndsWithLinesOf(flog', fires', Logged') /\ \A n \in DOMAIN flog' : flog'[n].fire <= fires'
      BY <3>1, <3>4, <3>5, NoLineYet
    <3> QED BY <3>1, <3>3, <3>4, <3>5, <3>6 DEF LogInv
  <2> QED BY <2>1, <2>2
<1>5. CASE NoClient \/ StopForToken \/ NothingToSend
  BY <1>5, LogStands DEF NoClient, StopForToken, NothingToSend, CallReturns, AtTop
<1>6. CASE Trip \/ TripWithoutMemory
  BY <1>6, LogStands DEF Trip, TripWithoutMemory, AtTop
<1>7. CASE \E read \in BOOLEAN : OnFallbackDelta(read)
  BY <1>1, <1>7 DEF OnFallbackDelta
<1>8. CASE \E how \in Ends : Land(how)
  <2>1. /\ fworker = "trip" /\ fworker' = "counted" /\ consumed' = consumed + 1
        /\ curBackend' = backend /\ UNCHANGED <<flog, fires, backend, tryOf>>
    BY <1>8 DEF Land, TripEnds
  <2>2. Logged' = Logged
    BY <2>1 DEF Logged, WireInv, WireType
  <2>3. Line' = Line
    BY <2>1 DEF Line
  <2> QED BY <2>1, <2>2, <2>3 DEF LogInv, FWorkerActive
<1>14. CASE \E how \in Ends : LandUnrecorded(how)
  BY <1>14, LogStands DEF LandUnrecorded, TripEnds, CallReturns
<1>9. CASE Decide
  BY <1>9, DecideLog
<1>10. CASE FReport
  BY <1>10, LogStands DEF FReport
<1>11. CASE Draw \/ FUnwind \/ FFree
  BY <1>1, <1>11 DEF Draw, FUnwind, FFree, Destroy
<1>12. CASE FSettle \/ FUnwindJoin \/ SelfTestEnds
  BY <1>12, LogAtRest DEF FSettle, FUnwindJoin, SelfTestEnds, Destroy, LogInv
<1>13. CASE UNCHANGED fallbackVars
  BY <1>1, <1>13 DEF fallbackVars
<1> QED BY <1>2, <1>3, <1>4, <1>5, <1>6, <1>7, <1>8, <1>9, <1>10, <1>11, <1>12, <1>13, <1>14
        DEF FallbackNext, FKeys, FFrame, Call

LEMMA LogIsInOrder ==
  ASSUME WireInv, LogInv
  PROVE  LogInOrder
<1> USE FallbackAssumption
<1>1. ASSUME FWorkerActive
      PROVE  LET mine == {n \in DOMAIN flog : flog[n].fire = fires}
             IN  /\ Cardinality(mine) = Lesser(LogLines, Logged)
                 /\ curBackend = IF fworker = "counted" THEN backend
                                 ELSE IF mine = {} THEN 0 ELSE flog[Len(flog)].backend
  <2> DEFINE mine == {n \in DOMAIN flog : flog[n].fire = fires}
             size == Lesser(LogLines, Logged)
  <2>1. /\ Logged \in Nat /\ size <= Len(flog)
        /\ \A n \in DOMAIN flog : flog[n].fire = fires <=> n > Len(flog) - size
        /\ curBackend = IF fworker = "counted" THEN backend
                        ELSE IF Logged = 0 THEN 0 ELSE flog[Len(flog)].backend
    BY <1>1 DEF LogInv, EndsWithLinesOf
  <2>2. size \in Nat /\ (size = 0 <=> Logged = 0)
    BY <2>1 DEF Lesser
  <2>3. Len(flog) \in Nat /\ DOMAIN flog = 1..Len(flog)
    BY DEF LogInv
  <2> HIDE DEF size
  <2>4. mine = (Len(flog) - size + 1)..Len(flog)
    BY <2>1, <2>2, <2>3
  <2>5. Cardinality(mine) = size
    <3>1. Len(flog) - size + 1 \in Int /\ Len(flog) \in Int
      BY <2>2, <2>3
    <3>2. Cardinality(mine) = IF Len(flog) - size + 1 > Len(flog) THEN 0
                              ELSE Len(flog) - (Len(flog) - size + 1) + 1
      BY <2>4, <3>1, FS_Interval
    <3> QED BY <2>1, <2>2, <2>3, <3>2
  <2>6. mine = {} <=> size = 0
    <3>1. CASE size = 0
      BY <2>3, <2>4, <3>1
    <3>2. CASE size # 0
      <4>1. Len(flog) \in mine
        BY <2>1, <2>2, <2>3, <2>4, <3>2
      <4> QED BY <3>2, <4>1
    <3> QED BY <3>1, <3>2
  <2> HIDE DEF mine
  <2>7. curBackend = IF fworker = "counted" THEN backend
                     ELSE IF mine = {} THEN 0 ELSE flog[Len(flog)].backend
    BY <2>1, <2>2, <2>6
  <2> QED BY <2>5, <2>7 DEF mine, size
<1>2. \A n \in 2..Len(flog) : Behind(flog[n - 1], flog[n])
  BY DEF LogInv
<1> QED BY <1>1, <1>2 DEF LogInOrder, Logged, Behind

(* What is shown of the reply is what the running trip gave and could be read;
   a request that goes on has shown nothing. *)
ReplyInv ==
  /\ given \in Nat /\ unread \in Nat /\ streamLen \in Nat
  /\ fworker = "top" => streamLen = 0
  /\ fworker = "trip" => /\ streamLen = IF event = "o" THEN given - unread ELSE 0
                         /\ event = "o" => given <= ReplyDeltas
  /\ fworker = "counted" /\ event \notin {"cancelled", "nomem"} =>
       streamLen = IF event = "o" THEN ReplyDeltas - unread ELSE 0
  /\ fworker \in {"returned", "exited"} => (status = "OK" => streamLen = ReplyDeltas - unread)

(* The queue of the self-test after n events, and the place of the n-th. *)
Left(n) == CASE n = 0 -> <<"r", "5", "t", "o">> [] n = 1 -> <<"5", "t", "o">>
             [] n = 2 -> <<"t", "o">> [] n = 3 -> <<"o">> [] n = 4 -> <<>>

AtEvent(n, b, tries) ==
  \/ n = 1 /\ b = 1 /\ tries = 0
  \/ n = 2 /\ b = 1 /\ tries = 1
  \/ n = 3 /\ b = 2 /\ tries = 0
  \/ n = 4 /\ b = 3 /\ tries = 0

Event(n) == CASE n = 1 -> "r" [] n = 2 -> "5" [] n = 3 -> "t" [] n = 4 -> "o"

(* The self-test goes through its events one by one, while there is memory. *)
OnCourse ==
  /\ fworker = "top" => consumed \in 0..3 /\ wire = Left(consumed) /\ AtEvent(consumed + 1, backend, tryOf)
  /\ fworker = "trip" /\ event # "nocall" =>
       /\ consumed \in 0..3 /\ wire = Left(consumed + 1)
       /\ AtEvent(consumed + 1, backend, tryOf) /\ event = Event(consumed + 1)
  /\ fworker = "counted" /\ event \notin {"nocall", "nomem"} =>
       /\ consumed \in 1..4 /\ wire = Left(consumed)
       /\ AtEvent(consumed, backend, tryOf) /\ event = Event(consumed)
  /\ fworker \in {"returned", "exited"} =>
       status = "NOMEM" \/ (consumed = 4 /\ status = "OK" /\ curBackend = 3)

SelfTestInv ==
  fui = "selftest" =>
    /\ ~ftriggered /\ fworker # "none"
    /\ Len(flog) = Lesser(Logged, LogLines)
    /\ fworker = "exited" => fdone
    /\ pushed = Len(SelfTestWire) => OnCourse

LEMMA ReplyStep ==
  ASSUME WireInv, ReplyInv, [FallbackNext]_fallbackVars
  PROVE  ReplyInv'
<1> USE FallbackAssumption DEF uiVars, engineVars, fview
<1>1. CASE UNCHANGED <<given, unread, streamLen, event, status, fworker>>
  BY <1>1 DEF ReplyInv
<1>2. CASE fworker' = "none" /\ {given', unread'} \subseteq Nat /\ UNCHANGED streamLen
  BY <1>2 DEF ReplyInv
<1>3. CASE FKeys
  BY <1>1, <1>3 DEF FKeys, KeyQuit, KeyFire, KeyCancel, KeyEvent, KeyClear, Rebuild
<1>4. CASE EndFallbackKeys
  <2>1. CASE fui' = "unwind" \/ ~(fire \/ Showcase)
    BY <1>1, <1>4, <2>1 DEF EndFallbackKeys
  <2>2. CASE fui' # "unwind" /\ (fire \/ Showcase)
    <3>1. /\ Launch(fires + 1) /\ streamLen' = 0 /\ given' = given /\ unread' = unread
          /\ status' = "none"
      BY <1>4, <2>2 DEF EndFallbackKeys
    <3>2. fworker' = "top" \/ fworker' = fworker
      BY <3>1 DEF Launch
    <3>3. fworker' \in {"top", "none"}
      <4>1. fui = "keys"
        BY <1>4 DEF EndFallbackKeys
      <4>2. fworker = "none"
        BY <2>2, <4>1 DEF Showcase, FWorkerActive, WireInv, HoldInv
      <4> QED BY <3>2, <4>2
    <3> QED BY <3>1, <3>3 DEF ReplyInv
  <2> QED BY <2>1, <2>2
<1>5. CASE NoClient \/ StopForToken \/ NothingToSend
  BY <1>5 DEF NoClient, StopForToken, NothingToSend, CallReturns, ReplyInv
<1>6. CASE Trip
  BY <1>6 DEF Trip, AtTop, ReplyInv
<1>7. CASE TripWithoutMemory
  BY <1>7 DEF TripWithoutMemory, AtTop, ReplyInv
<1>8. CASE \E read \in BOOLEAN : OnFallbackDelta(read)
  <2>1. PICK read \in BOOLEAN : OnFallbackDelta(read)
    BY <1>8
  <2>2. /\ fworker = "trip" /\ event = "o" /\ given < ReplyDeltas /\ given' = given + 1
        /\ fworker' = fworker /\ event' = event
        /\ unread' = IF read THEN unread ELSE unread + 1
        /\ streamLen' = IF read /\ streamLen + 1 < StreamCap THEN streamLen + 1 ELSE streamLen
    BY <2>1 DEF OnFallbackDelta
  <2>3. streamLen = given - unread /\ {given, unread, streamLen} \subseteq Nat
    BY <2>2 DEF ReplyInv
  <2>4. {given', unread', streamLen'} \subseteq Nat /\ streamLen' = given' - unread'
        /\ given' <= ReplyDeltas
    BY <2>2, <2>3, MakeClientAssumption
  <2> QED BY <2>2, <2>4 DEF ReplyInv
<1>9. CASE \E how \in Ends : Land(how)
  <2>1. /\ fworker = "trip" /\ fworker' = "counted" /\ UNCHANGED <<given, unread, streamLen>>
        /\ \/ event' \in {"cancelled", "nomem"}
           \/ event' = event /\ (event = "o" => given = ReplyDeltas)
    BY <1>9 DEF Land, TripEnds
  <2> QED BY <2>1 DEF ReplyInv
<1>15. CASE \E how \in Ends : LandUnrecorded(how)
  BY <1>15 DEF LandUnrecorded, TripEnds, CallReturns, ReplyInv
<1>10. CASE Decide
  <2>1. fworker = "counted" /\ UNCHANGED <<given, unread, streamLen, event>>
    BY <1>10 DEF Decide
  <2>2. {"o", "cancelled", "nomem"} \cap (Advanced \cup Retried) = {}
    BY DEF Advanced, Retried
  <2>3. \/ event = "o" /\ fworker' = "returned"
        \/ fworker' = "returned" /\ status' # "OK"
        \/ fworker' = "top" /\ event \notin {"o", "cancelled", "nomem"}
    BY <1>10, <2>2, Decided DEF WireInv
  <2> QED BY <2>1, <2>3 DEF ReplyInv
<1>11. CASE FReport
  BY <1>11 DEF FReport, ReplyInv
<1>12. CASE Draw \/ FUnwind \/ FFree
  BY <1>1, <1>12 DEF Draw, FUnwind, FFree, Destroy
<1>13. CASE FSettle \/ FUnwindJoin \/ SelfTestEnds
  <2>1. {given, unread} \subseteq Nat
    BY DEF ReplyInv
  <2>2. /\ fworker' = "none" /\ streamLen' = streamLen
        /\ (given' = given /\ unread' = unread) \/ (given' = 0 /\ unread' = 0)
    BY <1>13 DEF FSettle, FUnwindJoin, SelfTestEnds, Destroy
  <2> QED BY <1>2, <2>1, <2>2
<1>14. CASE UNCHANGED fallbackVars
  BY <1>1, <1>14 DEF fallbackVars
<1> QED BY <1>3, <1>4, <1>5, <1>6, <1>7, <1>8, <1>9, <1>10, <1>11, <1>12, <1>13, <1>14, <1>15
        DEF FallbackNext, FFrame, Call

LEMMA NextOfSelfTest ==
  ASSUME NEW n \in 0..3
  PROVE  Left(n) # <<>> /\ Head(Left(n)) = Event(n + 1) /\ Tail(Left(n)) = Left(n + 1)
<1>1. CASE n = 0
  BY <1>1 DEF Left, Event
<1>2. CASE n = 1
  BY <1>2 DEF Left, Event
<1>3. CASE n = 2
  BY <1>3 DEF Left, Event
<1>4. CASE n = 3
  BY <1>4 DEF Left, Event
<1> QED BY <1>1, <1>2, <1>3, <1>4

LEMMA SelfTestDecides ==
  ASSUME WireInv, LogInv, OnCourse, Decide
  PROVE  OnCourse'
<1> USE MakeClientAssumption
<1>1. /\ fworker = "counted" /\ UNCHANGED <<wire, consumed, curBackend, event>>
      /\ curBackend = backend
  BY DEF Decide, LogInv, FWorkerActive
<1>2. CASE event \in {"nocall", "nomem"}
  <2>1. fworker' = "returned" /\ status' = "NOMEM"
    <3>1. {"nocall", "nomem"} \cap (Advanced \cup Retried) = {}
      BY DEF Advanced, Retried
    <3> QED BY <1>2, <3>1, Decided DEF WireInv
  <2> QED BY <2>1 DEF OnCourse
<1>3. CASE event \notin {"nocall", "nomem"}
  <2>1. /\ consumed \in 1..4 /\ wire = Left(consumed)
        /\ AtEvent(consumed, backend, tryOf) /\ event = Event(consumed)
    BY <1>1, <1>3 DEF OnCourse
  <2>2. "o" \notin Advanced /\ "o" \notin Retried /\ "t" \in Advanced /\ "t" \notin Retried
        /\ "r" \in Retried /\ "r" \notin Advanced /\ "5" \in Retried /\ "5" \notin Advanced
    BY DEF Advanced, Retried
  <2>3. \/ /\ consumed = 4 /\ fworker' = "returned" /\ status' = "OK" /\ backend = 3
        \/ /\ consumed \in 1..3 /\ fworker' = "top" /\ AtEvent(consumed + 1, backend', tryOf')
    <3>1. CASE consumed = 1
      <4>1. event = "r" /\ backend = 1 /\ tryOf = 0
        BY <2>1, <3>1 DEF AtEvent, Event
      <4>2. fworker' = "top" /\ tryOf' = 1 /\ backend' = 1
        BY <2>2, <4>1, Decided DEF WireInv
      <4> QED BY <2>1, <3>1, <4>2 DEF AtEvent
    <3>2. CASE consumed = 2
      <4>1. event = "5" /\ backend = 1 /\ tryOf = 1
        BY <2>1, <3>2 DEF AtEvent, Event
      <4>2. fworker' = "top" /\ tryOf' = 0 /\ backend' = 2
        BY <2>2, <4>1, Decided DEF WireInv
      <4> QED BY <2>1, <3>2, <4>2 DEF AtEvent
    <3>3. CASE consumed = 3
      <4>1. event = "t" /\ backend = 2 /\ tryOf = 0
        BY <2>1, <3>3 DEF AtEvent, Event
      <4>2. fworker' = "top" /\ tryOf' = 0 /\ backend' = 3
        BY <2>2, <4>1, Decided DEF WireInv
      <4> QED BY <2>1, <3>3, <4>2 DEF AtEvent
    <3>4. CASE consumed = 4
      <4>1. event = "o" /\ backend = 3
        BY <2>1, <3>4 DEF AtEvent, Event
      <4> QED BY <2>2, <3>4, <4>1, Decided DEF WireInv
    <3> QED BY <2>1, <3>1, <3>2, <3>3, <3>4
  <2>4. CASE consumed = 4 /\ fworker' = "returned" /\ status' = "OK" /\ backend = 3
    BY <1>1, <2>4 DEF OnCourse
  <2>5. CASE consumed \in 1..3 /\ fworker' = "top" /\ AtEvent(consumed + 1, backend', tryOf')
    <3>1. AtEvent(consumed' + 1, backend', tryOf')
      BY <1>1, <2>5 DEF AtEvent
    <3>2. consumed' \in 0..3 /\ wire' = Left(consumed')
      BY <1>1, <2>1, <2>5
    <3> QED BY <2>5, <3>1, <3>2 DEF OnCourse
  <2> QED BY <2>3, <2>4, <2>5
<1> QED BY <1>2, <1>3

(* One line for each attempt logged, as long as there is room. *)
LEMMA DecideLines ==
  ASSUME WireInv, LogInv, Decide, Len(flog) = Lesser(Logged, LogLines)
  PROVE  Len(flog') = Lesser(Logged', LogLines)
<1> USE FallbackAssumption
<1>1. /\ fworker = "counted" /\ consumed' = consumed /\ fworker' # "counted"
      /\ flog' = Append(IF Len(flog) = LogLines THEN Tail(flog) ELSE flog, Line)
  BY Decided DEF Decide, log_push, Line, WireInv
<1>2. Line \in LogLine /\ flog \in Seq(LogLine) /\ Len(flog) <= LogLines
  BY DEF LogInv, Line, LogLine, WireInv, WireType
<1>3. PICK d \in {0, 1} : Shifted(flog, flog', d, Line)
  BY <1>1, <1>2, PushedLines
<1>4. (d = 1 <=> Len(flog) = LogLines) /\ Len(flog') = Len(flog) - d + 1
  BY <1>3 DEF Shifted
<1>5. Logged \in Nat /\ Logged' = Logged + 1
  <2>1. Logged \in Nat
    BY <1>1 DEF LogInv, FWorkerActive, EndsWithLinesOf
  <2>2. consumed \in Nat
    BY DEF WireInv, WireType
  <2> QED BY <1>1, <2>1, <2>2 DEF Logged
<1>6. LogLines \in Nat /\ LogLines > 0
  OBVIOUS
<1> QED BY <1>4, <1>5, <1>6 DEF Lesser

LEMMA SelfTestStep ==
  ASSUME WireInv, LogInv, SelfTestInv, [FallbackNext]_fallbackVars
  PROVE  SelfTestInv'
<1> USE FallbackAssumption DEF uiVars, engineVars, fview, AtTop
<1> SUFFICES ASSUME fui' = "selftest"
             PROVE  /\ ~ftriggered' /\ fworker' # "none"
                    /\ Len(flog') = Lesser(Logged', LogLines)
                    /\ fworker' = "exited" => fdone'
                    /\ pushed' = Len(SelfTestWire) => OnCourse'
  BY DEF SelfTestInv
<1>1. fui = "selftest"
  <2>1. \/ fui' = fui \/ fui' \in {"draw", "unwind", "join", "keys", "unwind_join", "free", "closed"}
    BY DEF FallbackNext, FKeys, KeyQuit, KeyFire, KeyCancel, KeyEvent, KeyClear, Rebuild, FFrame,
       EndFallbackKeys, Draw, FSettle, FUnwind, FUnwindJoin, FFree, SelfTestEnds, Destroy, Call,
       NoClient, StopForToken, NothingToSend, Trip, TripWithoutMemory, OnFallbackDelta, TripEnds,
       Land, LandUnrecorded, Decide, FReport, fallbackVars
  <2> QED BY <2>1
<1>2. /\ ~ftriggered /\ fworker # "none" /\ Len(flog) = Lesser(Logged, LogLines)
      /\ fworker = "exited" => fdone
      /\ pushed = Len(SelfTestWire) => OnCourse
  BY <1>1 DEF SelfTestInv
<1>3. uses # 0
  BY <1>1 DEF WireInv, HoldInv
<1>4. ~FKeys /\ ~FFrame /\ ~NoClient /\ ~StopForToken
  BY <1>1, <1>2, <1>3 DEF FKeys, KeyQuit, KeyFire, KeyCancel, KeyEvent, KeyClear, Reading,
     FFrame, EndFallbackKeys, Draw, FSettle, FUnwind, FUnwindJoin, FFree, SelfTestEnds, Destroy,
     NoClient, StopForToken
<1>5. \/ Trip \/ TripWithoutMemory \/ NothingToSend \/ Decide \/ FReport
      \/ \E how \in Ends : Land(how) \/ LandUnrecorded(how)
      \/ (\E read \in BOOLEAN : OnFallbackDelta(read)) \/ UNCHANGED fallbackVars
  BY <1>4 DEF FallbackNext, Call
<1>6. CASE Trip
  <2>1. /\ fworker = "top" /\ fworker' = "trip" /\ ftriggered' = ftriggered /\ pushed' = pushed
        /\ UNCHANGED <<flog, consumed, backend, tryOf>>
        /\ event' = IF wire = <<>> THEN "refused" ELSE Head(wire)
        /\ wire' = IF wire = <<>> THEN <<>> ELSE Tail(wire)
    BY <1>6 DEF Trip
  <2>2. Logged' = Logged
    BY <2>1 DEF Logged
  <2>3. ASSUME pushed = Len(SelfTestWire) PROVE OnCourse'
    <3>1. consumed \in 0..3 /\ wire = Left(consumed) /\ AtEvent(consumed + 1, backend, tryOf)
      BY <1>2, <2>1, <2>3 DEF OnCourse
    <3>2. wire' = Left(consumed + 1) /\ event' = Event(consumed + 1)
      BY <2>1, <3>1, NextOfSelfTest
    <3>3. AtEvent(consumed + 1, backend', tryOf')
      BY <2>1, <3>1 DEF AtEvent
    <3>4. AtEvent(consumed' + 1, backend', tryOf')
      BY <2>1, <3>3 DEF AtEvent
    <3> QED BY <2>1, <3>1, <3>2, <3>4 DEF OnCourse
  <2> QED BY <1>2, <2>1, <2>2, <2>3
<1>7. CASE TripWithoutMemory
  <2>1. /\ fworker = "top" /\ fworker' = "trip" /\ ftriggered' = ftriggered
        /\ event' = "nocall" /\ UNCHANGED <<flog, consumed>>
    BY <1>7 DEF TripWithoutMemory
  <2>2. Logged' = Logged /\ OnCourse'
    BY <2>1 DEF Logged, OnCourse
  <2> QED BY <1>2, <2>1, <2>2
<1>8. CASE NothingToSend
  <2>1. /\ fworker = "top" /\ fworker' = "returned" /\ ftriggered' = ftriggered
        /\ status' = "NOMEM" /\ UNCHANGED <<flog, consumed>>
    BY <1>8 DEF NothingToSend, CallReturns
  <2>2. Logged' = Logged /\ OnCourse'
    BY <2>1 DEF Logged, OnCourse
  <2> QED BY <1>2, <2>1, <2>2
<1>9. CASE (\E read \in BOOLEAN : OnFallbackDelta(read)) \/ UNCHANGED fallbackVars
  <2>1. UNCHANGED <<flog, consumed, backend, tryOf, curBackend, fdone, fworker, wire, event,
                    status, pushed, ftriggered>>
    BY <1>9 DEF OnFallbackDelta, fallbackVars
  <2>2. Logged' = Logged
    BY <2>1 DEF Logged
  <2>3. OnCourse => OnCourse'
    BY <2>1 DEF OnCourse, AtEvent
  <2> QED BY <1>2, <2>1, <2>2, <2>3
<1>10. CASE \E how \in Ends : Land(how)
  <2>1. /\ fworker = "trip" /\ fworker' = "counted" /\ ftriggered' = ftriggered /\ pushed' = pushed
        /\ consumed' = consumed + 1 /\ (event' = event \/ event' = "nomem")
        /\ UNCHANGED <<flog, backend, tryOf, wire>>
    BY <1>2, <1>10 DEF Land, TripEnds
  <2>2. Logged' = Logged
    BY <2>1 DEF Logged, WireInv, WireType
  <2>3. ASSUME pushed = Len(SelfTestWire), event' \notin {"nocall", "nomem"} PROVE OnCourse'
    <3>1. /\ consumed \in 0..3 /\ wire = Left(consumed + 1)
          /\ AtEvent(consumed + 1, backend, tryOf) /\ event = Event(consumed + 1)
      BY <1>2, <2>1, <2>3 DEF OnCourse
    <3>2. AtEvent(consumed', backend', tryOf') /\ consumed' \in 1..4
      BY <2>1, <3>1 DEF AtEvent
    <3> QED BY <2>1, <2>3, <3>1, <3>2 DEF OnCourse
  <2>4. event' \in {"nocall", "nomem"} => OnCourse'
    BY <2>1 DEF OnCourse
  <2> QED BY <1>2, <2>1, <2>2, <2>3, <2>4
<1>11. CASE \E how \in Ends : LandUnrecorded(how)
  <2>1. /\ fworker = "trip" /\ fworker' = "returned" /\ ftriggered' = ftriggered
        /\ status' = "NOMEM" /\ UNCHANGED <<flog, consumed>>
    BY <1>11 DEF LandUnrecorded, TripEnds, CallReturns
  <2>2. Logged' = Logged /\ OnCourse'
    BY <2>1 DEF Logged, OnCourse
  <2> QED BY <1>2, <2>1, <2>2
<1>12. CASE Decide
  <2>1. ftriggered' = ftriggered /\ pushed' = pushed
    BY <1>12 DEF Decide
  <2>2. fworker' \notin {"none", "exited"}
    BY <1>12, Decided DEF WireInv
  <2> QED BY <1>2, <1>12, <2>1, <2>2, SelfTestDecides, DecideLines
<1>13. CASE FReport
  <2>1. /\ fworker = "returned" /\ fworker' = "exited" /\ fdone' = TRUE
        /\ UNCHANGED <<flog, consumed, curBackend, status, pushed, ftriggered>>
    BY <1>13 DEF FReport
  <2>2. Logged' = Logged
    BY <2>1 DEF Logged
  <2>3. OnCourse => OnCourse'
    BY <2>1 DEF OnCourse
  <2> QED BY <1>2, <2>1, <2>2, <2>3
<1> QED BY <1>5, <1>6, <1>7, <1>8, <1>9, <1>10, <1>11, <1>12, <1>13

-----------------------------------------------------------------------------
(* Theorems.                                                               *)

Inv == ChatInv /\ TurnsInv /\ DeltaInv /\ WireInv /\ LogInv /\ ReplyInv /\ SelfTestInv

LEMMA StartChat ==
  ASSUME NEW start \in {"keys", "closed"}, ChatStart(start)
  PROVE  ChatInv /\ TurnsInv /\ DeltaInv
<1> USE ChatAssumption DEF ChatStart
<1>1. ChatType
  BY DEF ChatType, Turn, CallStatus, NoCall, NoFailure, NoReturn
<1>2. LifeInv /\ RetryInv
  BY DEF LifeInv, RetryInv, NoFailure
<1>3. TurnsInv
  <2>1. turns = <<>> /\ DOMAIN turns = {} /\ worker = "none" /\ Len(turns) = 0
    OBVIOUS
  <2>2. Ordered(turns) /\ Alternating(turns)
    BY <2>1 DEF Ordered, Alternating
  <2> QED BY <2>1, <2>2 DEF TurnsInv
<1>4. DeltaInv
  BY NothingInOrder DEF DeltaInv
<1> QED BY <1>1, <1>2, <1>3, <1>4 DEF ChatInv

(* All four events could be pushed. *)
LEMMA WholeStory ==
  ASSUME NEW room, NEW q \in Queueing(SelfTestWire, room), Len(q) = Len(SelfTestWire)
  PROVE  q = <<"r", "5", "t", "o">>
<1>1. Len(SelfTestWire) = 4
  BY DEF SelfTestWire
<1>2. PICK n \in 0..Lesser(4, room) :
        q \in {[k \in 1..n |-> SelfTestWire[pick[k]]] : pick \in Increasing(n, 4)}
  BY <1>1 DEF Queueing
<1>3. PICK pick \in Increasing(n, 4) : q = [k \in 1..n |-> SelfTestWire[pick[k]]]
  BY <1>2
<1>4. n = 4
  BY <1>1, <1>2, <1>3
<1>5. pick \in [1..4 -> 1..4] /\ pick[1] < pick[2] /\ pick[2] < pick[3] /\ pick[3] < pick[4]
  BY <1>3, <1>4 DEF Increasing
<1>6. pick[1] = 1 /\ pick[2] = 2 /\ pick[3] = 3 /\ pick[4] = 4
  <2>1. pick[1] \in 1..4 /\ pick[2] \in 1..4 /\ pick[3] \in 1..4 /\ pick[4] \in 1..4
    BY <1>5
  <2> QED BY <1>5, <2>1
<1>7. \A k \in 1..4 : pick[k] = k
  BY <1>6
<1>8. q = [k \in 1..4 |-> SelfTestWire[k]]
  BY <1>3, <1>4, <1>7
<1> QED BY <1>8 DEF SelfTestWire

LEMMA StartFallback ==
  ASSUME NEW start \in {"keys", "closed", "selftest"}, FallbackStart(start)
  PROVE  WireInv /\ LogInv /\ ReplyInv /\ SelfTestInv
<1> USE FallbackAssumption DEF FallbackStart
<1>1. wire \in Seq(Queueable) /\ (start # "selftest" => Len(wire) = 0)
  <2>1. SelfTestWire \in Seq(Queueable)
    BY DEF Queueable, SelfTestWire
  <2> DEFINE room == IF start = "selftest" /\ fscript # 0 THEN 4 ELSE 0
  <2>2. wire \in Queueing(SelfTestWire, room) /\ room \in Nat /\ (start # "selftest" => room = 0)
    OBVIOUS
  <2> HIDE DEF room
  <2>3. wire \in Seq(Queueable) /\ Len(wire) <= room
    BY <2>1, <2>2, QueueingFits
  <2> QED BY <2>2, <2>3
<1>2. WireType /\ HoldInv /\ CountInv
  <2>1. WireType
    BY <1>1 DEF WireType
  <2>2. HoldInv
    BY DEF HoldInv
  <2>3. CountInv
    BY <1>1 DEF CountInv
  <2> QED BY <2>1, <2>2, <2>3
<1>3. flog = <<>> /\ Len(flog) = 0 /\ DOMAIN flog = {} /\ flog \in Seq(LogLine)
  OBVIOUS
<1>4. Logged = 0 /\ Lesser(LogLines, 0) = 0 /\ Lesser(0, LogLines) = 0
  <2>1. fworker # "counted" /\ consumed = 0
    OBVIOUS
  <2>2. Logged = 0
    <3>1. Logged = consumed - 0
      BY <2>1, Zenon DEF Logged
    <3>2. 0 - 0 = 0
      OBVIOUS
    <3> QED BY <2>1, <3>1, <3>2, Zenon
  <2>3. LogLines \in Nat /\ LogLines > 0
    OBVIOUS
  <2>4. Lesser(LogLines, 0) = 0 /\ Lesser(0, LogLines) = 0
    BY <2>3 DEF Lesser
  <2> QED BY <2>2, <2>4
<1>5. LogInv
  <2>1. fires \in Nat
    OBVIOUS
  <2> QED BY <1>3, <1>4, <2>1 DEF LogInv, EndsWithLinesOf, FWorkerActive
<1>6. ReplyInv
  BY DEF ReplyInv
<1>7. SelfTestInv
  <2> SUFFICES ASSUME start = "selftest", Len(wire) = Len(SelfTestWire) PROVE wire = Left(0)
    BY <1>3, <1>4 DEF SelfTestInv, OnCourse, AtEvent
  <2>1. wire \in Queueing(SelfTestWire, IF fscript # 0 THEN 4 ELSE 0)
    OBVIOUS
  <2> QED BY <2>1, WholeStory DEF Left
<1> QED BY <1>2, <1>5, <1>6, <1>7 DEF WireInv

LEMMA InitInv == Init => Inv
BY StartChat, StartFallback DEF Init, Inv

LEMMA StepInv == Inv /\ [Next]_demoVars => Inv'
<1> SUFFICES ASSUME Inv, [Next]_demoVars PROVE Inv'
  OBVIOUS
<1>1. [ChatNext]_chatVars /\ [FallbackNext]_fallbackVars
  BY DEF Next, demoVars
<1>2. ChatInv' /\ TurnsInv' /\ DeltaInv'
  BY <1>1, ChatTypeStep, LifeStep, RetryStep, TurnsStep, DeltaStep DEF Inv, ChatInv
<1>3. WireInv' /\ LogInv' /\ ReplyInv' /\ SelfTestInv'
  BY <1>1, WireStep, LogStep, ReplyStep, SelfTestStep DEF Inv, WireInv
<1> QED BY <1>2, <1>3 DEF Inv

THEOREM InductiveInvariant == Spec => []Inv
BY InitInv, StepInv, PTL DEF Spec

(* For every size of history and queue: what a worker of either demo uses is
   alive until it is joined; a closed window of the chat has no worker and
   leaves nothing behind; of the fallback demo nothing is destroyed twice, and
   all that a closed window leaves behind are the tokens of its requests before
   the last one, whose only pointer the next request overwrites. *)
THEOREM OwnershipHolds == Spec => []Ownership
<1>1. Inv => Ownership
  <2> SUFFICES ASSUME Inv PROVE Ownership
    OBVIOUS
  <2>1. ChatOwnership
    BY DEF Inv, ChatInv, ChatType, LifeInv, ChatOwnership
  <2>2. FallbackOwnership
    <3>1. HoldInv
      BY DEF Inv, WireInv
    <3> QED BY <3>1 DEF HoldInv, FallbackOwnership
  <2> QED BY <2>1, <2>2 DEF Ownership
<1> QED BY <1>1, InductiveInvariant, PTL

(* For every size of history, chain and queue: the request after a failed one
   carries the same messages before its own turn, and the window of the
   fallback demo counts the events its transport holds although it sees
   nothing of them but attempts: too many by no more than the events taken by
   attempts that could not be recorded, too few by no more than the attempts
   whose call could not be recorded and that took none. *)
THEOREM BelievedHolds == Spec => []BelievedIsSo
<1>1. Inv => BelievedIsSo
  <2> SUFFICES ASSUME Inv PROVE BelievedIsSo
    OBVIOUS
  <2>1. RetryRebuildsPrompt
    BY DEF Inv, ChatInv, RetryInv, RetryRebuildsPrompt, WorkerActive, AllButLast
  <2>2. QueueIsCounted
    BY DEF Inv, WireInv, CountInv, QueueIsCounted, FWorkerActive
  <2> QED BY <2>1, <2>2 DEF BelievedIsSo
<1> QED BY <1>1, InductiveInvariant, PTL

(* For every size of history, buffers and log: what the chat shows are the
   deltas of the reply in the order they came, each once; its history has each
   answer behind its question; the log of the fallback demo has the last
   attempts in the order they were made, of each request from its first; the
   reply it shows once a request succeeded has every delta whose event could be
   read, and no part of another reply; and the self-test, its four events
   queued, finds what it looks for or is out of memory. *)
THEOREM ShownAsSaidHolds == Spec => []ShownAsSaid
<1>1. Inv => ShownAsSaid
  <2> SUFFICES ASSUME Inv PROVE ShownAsSaid
    OBVIOUS
  <2>1. Transcript
    BY DEF Inv, DeltaInv, Transcript
  <2>2. HistoryInOrder
    BY DEF Inv, TurnsInv, HistoryInOrder, Ordered, Alternating
  <2>3. LogInOrder
    BY LogIsInOrder DEF Inv
  <2>4. ReplyShown
    <3>1. /\ fworker = "returned" => (status = "OK" => streamLen = ReplyDeltas - unread)
          /\ fworker = "trip" => streamLen = IF event = "o" THEN given - unread ELSE 0
      BY DEF Inv, ReplyInv
    <3>2. ASSUME fui = "selftest", fworker = "exited", pushed = Len(SelfTestWire)
          PROVE  /\ fdone /\ status \in {"OK", "NOMEM"}
                 /\ status = "OK" => /\ consumed = 4 /\ curBackend = 3
                                     /\ streamLen = ReplyDeltas - unread
                                     /\ Len(flog) = Lesser(4, LogLines)
      <4>1. /\ OnCourse /\ fdone /\ Logged = consumed /\ Len(flog) = Lesser(Logged, LogLines)
        BY <3>2 DEF Inv, SelfTestInv, Logged, WireInv, WireType
      <4>2. status = "OK" => streamLen = ReplyDeltas - unread
        BY <3>2 DEF Inv, ReplyInv
      <4> QED BY <3>2, <4>1, <4>2 DEF OnCourse
    <3> QED BY <3>1, <3>2 DEF ReplyShown
  <2> QED BY <2>1, <2>2, <2>3, <2>4 DEF ShownAsSaid
<1> QED BY <1>1, InductiveInvariant, PTL

(* A nonempty set of naturals has a least element. *)
LEMMA LeastNat ==
  ASSUME NEW T \in SUBSET Nat, T # {}
  PROVE  \E x \in T : \A y \in T : x <= y
<1>1. PICK x \in T : \A y \in T : ~(<<y, x>> \in OpToRel(<, Nat))
  BY NatLessThanWellFounded, WFMin, Zenon
<1>2. \A y \in T : ~(y < x)
  BY <1>1 DEF OpToRel
<1> QED BY <1>2

-----------------------------------------------------------------------------
(* A text that parses is cut into segments: both the scan of               *)
(* sicha_utf8_valid, from the front, and the definition of WellFormed,     *)
(* from the end, look for such cuts.                                       *)

Piece(s, p, q) == q - p \in 1..4 /\ Segment(SubSeq(s, p + 1, q))

IsCut(s, a, b, P) ==
  /\ P \subseteq a..b /\ a \in P /\ b \in P
  /\ \A p, q \in P : p < q /\ (\A x \in P : x <= p \/ q <= x) => Piece(s, p, q)

Parses(s, a, b) == \E P \in SUBSET (a..b) : IsCut(s, a, b, P)

LEMMA ParsesNothing ==
  ASSUME NEW s, NEW a \in Nat
  PROVE  Parses(s, a, a)
<1>1. IsCut(s, a, a, {a})
  BY DEF IsCut
<1>2. {a} \in SUBSET (a..a)
  OBVIOUS
<1> QED BY <1>1, <1>2 DEF Parses

(* One piece less in front. *)
LEMMA ParsesFront ==
  ASSUME NEW s, NEW a \in Nat, NEW b \in Nat, a < b
  PROVE  Parses(s, a, b) <=> \E c \in (a + 1)..b : Piece(s, a, c) /\ Parses(s, c, b)
<1>1. ASSUME Parses(s, a, b) PROVE \E c \in (a + 1)..b : Piece(s, a, c) /\ Parses(s, c, b)
  <2>1. PICK P \in SUBSET (a..b) : IsCut(s, a, b, P)
    BY <1>1 DEF Parses
  <2>2. P \ {a} # {} /\ P \ {a} \in SUBSET Nat
    BY <2>1 DEF IsCut
  <2>3. PICK c \in P \ {a} : \A y \in P \ {a} : c <= y
    BY <2>2, LeastNat
  <2>4. c \in (a + 1)..b
    BY <2>1, <2>3 DEF IsCut
  <2>5. Piece(s, a, c)
    <3>1. a \in P /\ c \in P /\ a < c /\ \A x \in P : x <= a \/ c <= x
      BY <2>1, <2>3, <2>4 DEF IsCut
    <3> QED BY <2>1, <3>1 DEF IsCut
  <2>6. IsCut(s, c, b, P \ {a})
    <3>1. P \ {a} \subseteq c..b /\ c \in P \ {a} /\ b \in P \ {a}
      BY <2>1, <2>3, <2>4 DEF IsCut
    <3>2. ASSUME NEW p \in P \ {a}, NEW q \in P \ {a}, p < q,
                 \A x \in P \ {a} : x <= p \/ q <= x
          PROVE  Piece(s, p, q)
      <4>1. a <= p
        BY <3>1, <2>4
      <4>2. \A x \in P : x <= p \/ q <= x
        BY <3>2, <4>1
      <4> QED BY <2>1, <3>2, <4>2 DEF IsCut
    <3> QED BY <3>1, <3>2 DEF IsCut
  <2>7. P \ {a} \in SUBSET (c..b)
    BY <2>6 DEF IsCut
  <2> QED BY <2>4, <2>5, <2>6, <2>7 DEF Parses
<1>2. ASSUME NEW c \in (a + 1)..b, Piece(s, a, c), Parses(s, c, b) PROVE Parses(s, a, b)
  <2>1. PICK P \in SUBSET (c..b) : IsCut(s, c, b, P)
    BY <1>2 DEF Parses
  <2>2. IsCut(s, a, b, P \cup {a})
    <3>1. P \cup {a} \subseteq a..b /\ b \in P \cup {a}
      BY <2>1 DEF IsCut
    <3>2. ASSUME NEW p \in P \cup {a}, NEW q \in P \cup {a}, p < q,
                 \A x \in P \cup {a} : x <= p \/ q <= x
          PROVE  Piece(s, p, q)
      <4>1. q \in P /\ c \in P
        BY <2>1, <3>1, <3>2 DEF IsCut
      <4>2. CASE p = a
        <5>1. q = c
          BY <2>1, <3>2, <4>1, <4>2 DEF IsCut
        <5> QED BY <1>2, <4>2, <5>1
      <4>3. CASE p # a
        BY <2>1, <3>2, <4>1, <4>3 DEF IsCut
      <4> QED BY <4>2, <4>3
    <3> QED BY <3>1, <3>2 DEF IsCut
  <2>3. P \cup {a} \in SUBSET (a..b)
    BY <2>2 DEF IsCut
  <2> QED BY <2>2, <2>3 DEF Parses
<1> QED BY <1>1, <1>2

(* One piece less at the end. *)
LEMMA ParsesBack ==
  ASSUME NEW s, NEW a \in Nat, NEW b \in Nat, a < b
  PROVE  Parses(s, a, b) <=> \E c \in a..(b - 1) : Piece(s, c, b) /\ Parses(s, a, c)
<1>1. ASSUME Parses(s, a, b) PROVE \E c \in a..(b - 1) : Piece(s, c, b) /\ Parses(s, a, c)
  <2>1. PICK P \in SUBSET (a..b) : IsCut(s, a, b, P)
    BY <1>1 DEF Parses
  <2> DEFINE D == {b - p : p \in P \ {b}}
  <2>2. D # {} /\ D \in SUBSET Nat
    <3>1. a \in P /\ a # b
      BY <1>1, <2>1 DEF IsCut
    <3>2. b - a \in D
      BY <3>1
    <3>3. ASSUME NEW p \in P \ {b} PROVE b - p \in Nat
      <4>1. p \in a..b
        OBVIOUS
      <4> QED BY <4>1
    <3> QED BY <3>2, <3>3
  <2>3. PICK d \in D : \A y \in D : d <= y
    <3> HIDE DEF D
    <3> QED BY <2>2, LeastNat
  <2>4. PICK c \in P \ {b} : \A y \in P \ {b} : y <= c
    BY <2>3
  <2>5. c \in a..(b - 1)
    <3>1. c \in a..b /\ c # b
      BY <2>1 DEF IsCut
    <3> QED BY <3>1
  <2>6. Piece(s, c, b)
    <3>1. c \in P /\ b \in P /\ c < b /\ \A x \in P : x <= c \/ b <= x
      BY <2>1, <2>4, <2>5 DEF IsCut
    <3> QED BY <2>1, <3>1 DEF IsCut
  <2>7. IsCut(s, a, c, P \ {b})
    <3>1. P \ {b} \subseteq a..c /\ c \in P \ {b} /\ a \in P \ {b}
      <4>1. a \in P /\ a # b
        BY <1>1, <2>1 DEF IsCut
      <4>2. ASSUME NEW p \in P \ {b} PROVE p \in a..c
        <5>1. p \in a..b /\ p <= c
          BY <2>4
        <5> QED BY <2>5, <5>1
      <4> QED BY <4>1, <4>2
    <3>2. ASSUME NEW p \in P \ {b}, NEW q \in P \ {b}, p < q,
                 \A x \in P \ {b} : x <= p \/ q <= x
          PROVE  Piece(s, p, q)
      <4>1. q <= b
        BY <3>1, <2>5
      <4>2. \A x \in P : x <= p \/ q <= x
        BY <3>2, <4>1
      <4> QED BY <2>1, <3>2, <4>2 DEF IsCut
    <3> QED BY <3>1, <3>2 DEF IsCut
  <2>8. P \ {b} \in SUBSET (a..c)
    BY <2>7 DEF IsCut
  <2> QED BY <2>5, <2>6, <2>7, <2>8 DEF Parses
<1>2. ASSUME NEW c \in a..(b - 1), Piece(s, c, b), Parses(s, a, c) PROVE Parses(s, a, b)
  <2>1. PICK P \in SUBSET (a..c) : IsCut(s, a, c, P)
    BY <1>2 DEF Parses
  <2>2. IsCut(s, a, b, P \cup {b})
    <3>1. P \cup {b} \subseteq a..b /\ a \in P \cup {b}
      BY <2>1 DEF IsCut
    <3>2. ASSUME NEW p \in P \cup {b}, NEW q \in P \cup {b}, p < q,
                 \A x \in P \cup {b} : x <= p \/ q <= x
          PROVE  Piece(s, p, q)
      <4>1. p \in P /\ c \in P
        BY <2>1, <3>1, <3>2 DEF IsCut
      <4>2. CASE q = b
        <5>1. p = c
          BY <2>1, <3>2, <4>1, <4>2 DEF IsCut
        <5> QED BY <1>2, <4>2, <5>1
      <4>3. CASE q # b
        BY <2>1, <3>2, <4>1, <4>3 DEF IsCut
      <4> QED BY <4>2, <4>3
    <3> QED BY <3>1, <3>2 DEF IsCut
  <2>3. P \cup {b} \in SUBSET (a..b)
    BY <2>2 DEF IsCut
  <2> QED BY <2>2, <2>3 DEF Parses
<1> QED BY <1>1, <1>2

-----------------------------------------------------------------------------
(* A piece is what CharLen finds: a lead byte and the right number of      *)
(* continuations make a number that is no overlong form and no surrogate.  *)

Sixty(v, b) == v * 64 + (b - 128)
Spelling == INSTANCE FoldFacts WITH Op <- Sixty

Between(b, lo, hi) == lo <= b /\ b <= hi

(* What the fold makes of the last byte. *)
LEMMA SixtyLast ==
  ASSUME NEW u, NEW n \in Nat, NEW t \in Seq(Octet), Len(t) = n + 1
  PROVE  \E w \in Seq(Octet) :
           /\ Len(w) = n /\ (\A k \in 1..n : w[k] = t[k])
           /\ Spelling!Fold(u, t) = Sixty(Spelling!Fold(u, w), t[n + 1])
<1>1. PICK w \in Seq(Octet), x \in Octet : t = Append(w, x)
  BY SequenceEmptyOrAppend, EmptySeq
<1>2. Len(w) = n /\ (\A k \in 1..n : w[k] = t[k]) /\ t[n + 1] = x
  BY <1>1, AppendProperties
<1>3. Spelling!Fold(u, Append(w, x)) = Sixty(Spelling!Fold(u, w), x)
  BY Spelling!FoldAppend
<1> QED BY <1>1, <1>2, <1>3

LEMMA SixtyIs ==
  ASSUME NEW u, NEW t \in Seq(Octet)
  PROVE  /\ Len(t) = 0 => Spelling!Fold(u, t) = u
         /\ Len(t) = 1 => Spelling!Fold(u, t) = Sixty(u, t[1])
         /\ Len(t) = 2 => Spelling!Fold(u, t) = Sixty(Sixty(u, t[1]), t[2])
         /\ Len(t) = 3 => Spelling!Fold(u, t) = Sixty(Sixty(Sixty(u, t[1]), t[2]), t[3])
<1>1. ASSUME NEW w \in Seq(Octet), Len(w) = 0 PROVE Spelling!Fold(u, w) = u
  <2>1. w = <<>>
    BY <1>1, EmptySeq
  <2> QED BY <2>1, Spelling!FoldEmpty
<1>2. ASSUME NEW w \in Seq(Octet), Len(w) = 1 PROVE Spelling!Fold(u, w) = Sixty(u, w[1])
  <2>1. PICK v \in Seq(Octet) :
          Len(v) = 0 /\ Spelling!Fold(u, w) = Sixty(Spelling!Fold(u, v), w[0 + 1])
    <3>1. 0 \in Nat /\ Len(w) = 0 + 1
      BY <1>2
    <3> QED BY <3>1, SixtyLast
  <2>2. Spelling!Fold(u, v) = u
    BY <1>1, <2>1
  <2>3. 0 + 1 = 1
    OBVIOUS
  <2> QED BY <2>1, <2>2, <2>3
<1>3. ASSUME NEW w \in Seq(Octet), Len(w) = 2
      PROVE  Spelling!Fold(u, w) = Sixty(Sixty(u, w[1]), w[2])
  <2>1. PICK v \in Seq(Octet) :
          /\ Len(v) = 1 /\ \A k \in 1..1 : v[k] = w[k]
          /\ Spelling!Fold(u, w) = Sixty(Spelling!Fold(u, v), w[1 + 1])
    <3>1. 1 \in Nat /\ Len(w) = 1 + 1
      BY <1>3
    <3> QED BY <3>1, SixtyLast
  <2> QED BY <1>2, <2>1
<1>4. ASSUME NEW w \in Seq(Octet), Len(w) = 3
      PROVE  Spelling!Fold(u, w) = Sixty(Sixty(Sixty(u, w[1]), w[2]), w[3])
  <2>1. PICK v \in Seq(Octet) :
          /\ Len(v) = 2 /\ \A k \in 1..2 : v[k] = w[k]
          /\ Spelling!Fold(u, w) = Sixty(Spelling!Fold(u, v), w[2 + 1])
    <3>1. 2 \in Nat /\ Len(w) = 2 + 1
      BY <1>4
    <3> QED BY <3>1, SixtyLast
  <2> QED BY <1>3, <2>1
<1> QED BY <1>1, <1>2, <1>3, <1>4

LEMMA SpelledIs ==
  ASSUME NEW seg \in Seq(Octet)
  PROVE  LET u(n) == seg[1] - LeadBits(n) IN
         /\ Len(seg) = 1 => Spelled(seg) = u(1)
         /\ Len(seg) = 2 => Spelled(seg) = Sixty(u(2), seg[2])
         /\ Len(seg) = 3 => Spelled(seg) = Sixty(Sixty(u(3), seg[2]), seg[3])
         /\ Len(seg) = 4 => Spelled(seg) = Sixty(Sixty(Sixty(u(4), seg[2]), seg[3]), seg[4])
<1> DEFINE u(n) == seg[1] - LeadBits(n)
           t == Tail(seg)
<1>1. Spelled(seg) = Spelling!Fold(u(Len(seg)), t)
  BY DEF Spelled, Sixty, Spelling!Fold, Spelling!FoldLeft, FoldLeft, Spelling!MapThenFoldSet,
         MapThenFoldSet, Spelling!Max, Max
<1>2. ASSUME Len(seg) >= 1
      PROVE  t \in Seq(Octet) /\ Len(t) = Len(seg) - 1
             /\ \A k \in 1..(Len(seg) - 1) : t[k] = seg[k + 1]
  BY <1>2
<1> HIDE DEF u, t
<1>3. CASE Len(seg) = 1
  <2>1. t \in Seq(Octet) /\ Len(t) = 0
    BY <1>2, <1>3
  <2>2. Spelling!Fold(u(1), t) = u(1)
    BY <2>1, SixtyIs
  <2> QED BY <1>1, <1>3, <2>2 DEF u
<1>4. CASE Len(seg) = 2
  <2>1. t \in Seq(Octet) /\ Len(t) = 1 /\ t[1] = seg[2]
    BY <1>2, <1>4
  <2> QED BY <1>1, <1>4, <2>1, SixtyIs DEF u
<1>5. CASE Len(seg) = 3
  <2>1. t \in Seq(Octet) /\ Len(t) = 2 /\ t[1] = seg[2] /\ t[2] = seg[3]
    BY <1>2, <1>5
  <2> QED BY <1>1, <1>5, <2>1, SixtyIs DEF u
<1>6. CASE Len(seg) = 4
  <2>1. t \in Seq(Octet) /\ Len(t) = 3 /\ t[1] = seg[2] /\ t[2] = seg[3] /\ t[3] = seg[4]
    BY <1>2, <1>6
  <2> QED BY <1>1, <1>6, <2>1, SixtyIs DEF u
<1> QED BY <1>3, <1>4, <1>5, <1>6 DEF u

LEMMA ByteIs ==
  ASSUME NEW seg \in Seq(Octet)
  PROVE  \A k \in 1..Len(seg) : seg[k] \in Nat
<1>1. ASSUME NEW b \in Octet PROVE b \in Nat
  BY DEF Octet
<1> QED BY <1>1

(* What the numbers of segments of one to four bytes demand of the bytes: v spells
   one of n bytes, of which the first is a. *)
Leads(a, n) == a >= LeadBits(n) /\ a < LeadBits(n) + LeadRange(n)
SpellsAs(v, n) == v >= SmallestOf(n) /\ Scalar(v)
Trails(b) == Between(b, 128, 191)

LEMMA OneByte ==
  ASSUME NEW a \in Nat
  PROVE  Leads(a, 1) /\ SpellsAs(a - LeadBits(1), 1) <=> a < 128
<1>1. LeadBits(1) = 0 /\ LeadRange(1) = 128 /\ SmallestOf(1) = 0
  BY DEF LeadBits, LeadRange, SmallestOf
<1> QED BY <1>1, SMT DEF Scalar, Leads, SpellsAs

LEMMA TwoBytes ==
  ASSUME NEW a \in Nat, NEW b \in Nat
  PROVE  Leads(a, 2) /\ Trails(b) /\ SpellsAs(Sixty(a - LeadBits(2), b), 2)
           <=> Between(a, 194, 223) /\ Trails(b)
<1>1. LeadBits(2) = 192 /\ LeadRange(2) = 32 /\ SmallestOf(2) = 128
  BY DEF LeadBits, LeadRange, SmallestOf
<1> QED BY <1>1, SMT DEF Scalar, Leads, SpellsAs, Sixty, Trails, Between

LEMMA ThreeBytes ==
  ASSUME NEW a \in Nat, NEW b \in Nat, NEW c \in Nat
  PROVE  Leads(a, 3) /\ Trails(b) /\ Trails(c) /\ SpellsAs(Sixty(Sixty(a - LeadBits(3), b), c), 3)
           <=> /\ Between(a, 224, 239) /\ Trails(c)
               /\ Between(b, SecondOfThree(a).lo, SecondOfThree(a).hi)
<1> DEFINE v == Sixty(Sixty(a - LeadBits(3), b), c)
           lo == SecondOfThree(a).lo
           hi == SecondOfThree(a).hi
<1>1. LeadBits(3) = 224 /\ LeadRange(3) = 16 /\ SmallestOf(3) = 2048
  BY DEF LeadBits, LeadRange, SmallestOf
<1>2. lo = (IF a = 224 THEN 160 ELSE 128) /\ hi = (IF a = 237 THEN 159 ELSE 191)
  BY DEF SecondOfThree
<1>3. v = 4096 * (a - 224) + 64 * (b - 128) + (c - 128)
  BY <1>1, SMT DEF Sixty
<1> HIDE DEF v, lo, hi
<1> SUFFICES ASSUME 224 <= a, a <= 239, 128 <= b, b <= 191, 128 <= c, c <= 191
             PROVE  v >= 2048 /\ Scalar(v) <=> lo <= b /\ b <= hi
  BY <1>1, <1>2, SMT DEF Leads, Trails, SpellsAs, Between, v, lo, hi
<1>4. v \in Nat /\ v <= 65535
  BY <1>3, SMT
<1>5. v >= 2048 <=> lo <= b
  BY <1>2, <1>3, SMT
<1>6. 55296 <= v /\ v <= 57343 <=> a = 237 /\ b >= 160
  BY <1>3, SMT
<1> QED BY <1>2, <1>4, <1>5, <1>6, SMT DEF Scalar

LEMMA FourBytes ==
  ASSUME NEW a \in Nat, NEW b \in Nat, NEW c \in Nat, NEW d \in Nat
  PROVE  (/\ Leads(a, 4) /\ Trails(b) /\ Trails(c) /\ Trails(d)
          /\ SpellsAs(Sixty(Sixty(Sixty(a - LeadBits(4), b), c), d), 4))
           <=> (/\ Between(a, 240, 244) /\ Trails(c) /\ Trails(d)
                /\ Between(b, SecondOfFour(a).lo, SecondOfFour(a).hi))
<1> DEFINE v == Sixty(Sixty(Sixty(a - LeadBits(4), b), c), d)
           lo == SecondOfFour(a).lo
           hi == SecondOfFour(a).hi
<1>1. LeadBits(4) = 240 /\ LeadRange(4) = 8 /\ SmallestOf(4) = 65536
  BY SMT DEF LeadBits, LeadRange, SmallestOf
<1>2. lo = (IF a = 240 THEN 144 ELSE 128) /\ hi = (IF a = 244 THEN 143 ELSE 191)
  BY DEF SecondOfFour
<1>3. v = 262144 * (a - 240) + 4096 * (b - 128) + 64 * (c - 128) + (d - 128)
  BY <1>1, SMT DEF Sixty
<1> HIDE DEF v, lo, hi
<1> SUFFICES ASSUME 240 <= a, a <= 247, 128 <= b, b <= 191, 128 <= c, c <= 191,
                    128 <= d, d <= 191
             PROVE  v >= 65536 /\ Scalar(v) <=> a <= 244 /\ lo <= b /\ b <= hi
  BY <1>1, <1>2, SMT DEF Leads, Trails, SpellsAs, Between, v, lo, hi
<1>4. v \in Int
  BY <1>3, SMT
<1>5. v >= 65536 <=> lo <= b
  BY <1>2, <1>3, SMT
<1>6. v <= 1114111 <=> a <= 244 /\ b <= hi
  BY <1>2, <1>3, SMT
<1> QED BY <1>4, <1>5, <1>6, SMT DEF Scalar

(* A segment by its bytes. *)
LEMMA SegmentIs ==
  ASSUME NEW seg \in Seq(Octet)
  PROVE  LET a == seg[1]
             b == seg[2]
         IN /\ Len(seg) = 1 => (Segment(seg) <=> a < 128)
            /\ Len(seg) = 2 => (Segment(seg) <=> Between(a, 194, 223) /\ Trails(b))
            /\ Len(seg) = 3 =>
                 (Segment(seg) <=>
                    /\ Between(a, 224, 239) /\ Trails(seg[3])
                    /\ Between(b, SecondOfThree(a).lo, SecondOfThree(a).hi))
            /\ Len(seg) = 4 =>
                 (Segment(seg) <=>
                    /\ Between(a, 240, 244) /\ Trails(seg[3]) /\ Trails(seg[4])
                    /\ Between(b, SecondOfFour(a).lo, SecondOfFour(a).hi))
<1>1. \A k \in 1..Len(seg) : seg[k] \in Nat
  BY ByteIs
<1>2. Segment(seg) <=> /\ Leads(seg[1], Len(seg))
                       /\ \A k \in 2..Len(seg) : Trails(seg[k])
                       /\ SpellsAs(Spelled(seg), Len(seg))
  <2>1. ASSUME NEW k \in 2..Len(seg) PROVE seg[k] >= 128 /\ seg[k] < 192 <=> Trails(seg[k])
    BY <1>1 DEF Trails, Between
  <2> QED BY <2>1 DEF Segment, Leads, SpellsAs
<1>3. CASE Len(seg) = 1
  <2>1. seg[1] \in Nat
    BY <1>1, <1>3
  <2>2. Spelled(seg) = seg[1] - LeadBits(1)
    BY <1>3, SpelledIs
  <2>3. \A k \in 2..Len(seg) : Trails(seg[k])
    BY <1>3
  <2>4. Segment(seg) <=> /\ Leads(seg[1], 1)
                         /\ SpellsAs(seg[1] - LeadBits(1), 1)
    BY <1>2, <1>3, <2>2, <2>3
  <2> QED BY <1>3, <2>1, <2>4, OneByte
<1>4. CASE Len(seg) = 2
  <2>1. seg[1] \in Nat /\ seg[2] \in Nat
    BY <1>1, <1>4
  <2>2. Spelled(seg) = Sixty(seg[1] - LeadBits(2), seg[2])
    BY <1>4, SpelledIs
  <2>3. (\A k \in 2..Len(seg) : Trails(seg[k])) <=> Trails(seg[2])
    BY <1>4
  <2>4. Segment(seg) <=> /\ Leads(seg[1], 2)
                         /\ Trails(seg[2])
                         /\ SpellsAs(Sixty(seg[1] - LeadBits(2), seg[2]), 2)
    BY <1>2, <1>4, <2>2, <2>3
  <2> QED BY <1>4, <2>1, <2>4, TwoBytes
<1>5. CASE Len(seg) = 3
  <2>1. seg[1] \in Nat /\ seg[2] \in Nat /\ seg[3] \in Nat
    BY <1>1, <1>5
  <2>2. Spelled(seg) = Sixty(Sixty(seg[1] - LeadBits(3), seg[2]), seg[3])
    BY <1>5, SpelledIs
  <2>3. (\A k \in 2..Len(seg) : Trails(seg[k])) <=> Trails(seg[2]) /\ Trails(seg[3])
    BY <1>5
  <2>4. Segment(seg) <=> /\ Leads(seg[1], 3)
                         /\ Trails(seg[2]) /\ Trails(seg[3])
                         /\ SpellsAs(Sixty(Sixty(seg[1] - LeadBits(3), seg[2]), seg[3]), 3)
    BY <1>2, <1>5, <2>2, <2>3
  <2> QED BY <1>5, <2>1, <2>4, ThreeBytes
<1>6. CASE Len(seg) = 4
  <2>1. seg[1] \in Nat /\ seg[2] \in Nat /\ seg[3] \in Nat /\ seg[4] \in Nat
    BY <1>1, <1>6
  <2>2. Spelled(seg) = Sixty(Sixty(Sixty(seg[1] - LeadBits(4), seg[2]), seg[3]), seg[4])
    BY <1>6, SpelledIs
  <2>3. (\A k \in 2..Len(seg) : Trails(seg[k])) <=> Trails(seg[2]) /\ Trails(seg[3]) /\ Trails(seg[4])
    BY <1>6
  <2>4. Segment(seg) <=> /\ Leads(seg[1], 4)
                         /\ Trails(seg[2]) /\ Trails(seg[3]) /\ Trails(seg[4])
                         /\ SpellsAs(Sixty(Sixty(Sixty(seg[1] - LeadBits(4), seg[2]), seg[3]), seg[4]), 4)
    BY <1>2, <1>6, <2>2, <2>3
  <2> QED BY <1>6, <2>1, <2>4, FourBytes
<1> QED BY <1>3, <1>4, <1>5, <1>6

(* The k bytes from i on. *)
Slice(s, i, k, seg) ==
  /\ seg \in Seq(Octet) /\ Len(seg) = k /\ seg[1] = s[i]
  /\ (k >= 2 => seg[2] = s[i + 1]) /\ (k >= 3 => seg[3] = s[i + 2])
  /\ (k >= 4 => seg[4] = s[i + 3])

LEMMA SliceIs ==
  ASSUME NEW s \in Seq(Octet), NEW i \in 1..Len(s), NEW k \in 1..4, i + k - 1 <= Len(s)
  PROVE  Slice(s, i, k, SubSeq(s, i, i + k - 1))
<1> DEFINE n == i + k - 1
           seg == SubSeq(s, i, n)
<1>1. i \in Int /\ n \in Int /\ n - i + 1 = k /\ i <= n
  OBVIOUS
<1>2. \A j \in i..n : s[j] \in Octet
  <2>1. \A j \in i..n : j \in 1..Len(s)
    BY <1>1
  <2> QED BY <2>1
<1> HIDE DEF n
<1>3. /\ seg \in Seq(Octet)
      /\ Len(seg) = IF i <= n THEN n - i + 1 ELSE 0
      /\ \A j \in 1..(n - i + 1) : seg[j] = s[i + j - 1]
  BY <1>1, <1>2, SubSeqProperties
<1> HIDE DEF seg
<1>4. seg \in Seq(Octet) /\ Len(seg) = k /\ \A j \in 1..k : seg[j] = s[i + j - 1]
  BY <1>1, <1>3
<1>5. /\ seg[1] = s[i]
      /\ (k >= 2 => seg[2] = s[i + 1]) /\ (k >= 3 => seg[3] = s[i + 2])
      /\ (k >= 4 => seg[4] = s[i + 3])
  <2>1. 1 \in 1..k /\ i + 1 - 1 = i
    OBVIOUS
  <2>2. k >= 2 => 2 \in 1..k /\ i + 2 - 1 = i + 1
    OBVIOUS
  <2>3. k >= 3 => 3 \in 1..k /\ i + 3 - 1 = i + 2
    OBVIOUS
  <2>4. k >= 4 => 4 \in 1..k /\ i + 4 - 1 = i + 3
    OBVIOUS
  <2> QED BY <1>4, <2>1, <2>2, <2>3, <2>4
<1>6. Slice(s, i, k, seg)
  BY <1>4, <1>5 DEF Slice
<1> QED BY <1>6 DEF seg, n

(* A character is a segment that is there. *)
LEMMA CharIs ==
  ASSUME NEW s \in Seq(Octet), NEW i \in 1..Len(s)
  PROVE  /\ CharLen(s, i) \in 0..4
         /\ \A k \in 1..4 : CharLen(s, i) = k <=> /\ i + k - 1 <= Len(s)
                                                  /\ Segment(SubSeq(s, i, i + k - 1))
<1> DEFINE b == s[i]
           Two == Between(b, 194, 223) /\ Continues(s, i + 1)
           Three == /\ Between(b, 224, 239) /\ Continues(s, i + 2)
                    /\ ByteIn(s, i + 1, SecondOfThree(b).lo, SecondOfThree(b).hi)
           Four == /\ Between(b, 240, 244) /\ Continues(s, i + 2) /\ Continues(s, i + 3)
                   /\ ByteIn(s, i + 1, SecondOfFour(b).lo, SecondOfFour(b).hi)
<1>1. \A k \in 1..Len(s) : s[k] \in Nat
  BY ByteIs
<1>2. b \in Nat
  BY <1>1
<1>3. /\ CharLen(s, i) \in 0..4
      /\ CharLen(s, i) = 1 <=> b < 128
      /\ CharLen(s, i) = 2 <=> Two
      /\ CharLen(s, i) = 3 <=> Three
      /\ CharLen(s, i) = 4 <=> Four
  <2>1. \A lo, hi : ByteIn(s, i, lo, hi) <=> Between(b, lo, hi)
    BY DEF ByteIn, Between
  <2> DEFINE x == CharLen(s, i)
  <2>2. /\ b < 128 => x = 1
        /\ Two => x = 2
        /\ Three => x = 3
        /\ Four => x = 4
        /\ ~(b < 128) /\ ~Two /\ ~Three /\ ~Four => x = 0
    <3>1. CASE b < 128
      BY <1>2, <2>1, <3>1 DEF CharLen, Between
    <3>2. CASE Two
      BY <1>2, <2>1, <3>2 DEF CharLen, Between
    <3>3. CASE Three
      BY <1>2, <2>1, <3>3 DEF CharLen, Between
    <3>4. CASE Four
      BY <1>2, <2>1, <3>4 DEF CharLen, Between
    <3>5. CASE ~(b < 128) /\ ~Two /\ ~Three /\ ~Four
      BY <2>1, <3>5 DEF CharLen
    <3> QED BY <3>1, <3>2, <3>3, <3>4, <3>5
  <2>3. /\ b < 128 => ~Two /\ ~Three /\ ~Four
        /\ Two => ~Three /\ ~Four
        /\ Three => ~Four
    BY <1>2 DEF Between
  <2> HIDE DEF Two, Three, Four, b
  <2> QED BY <2>2, <2>3
<1>4. \A k \in 1..4 : i + k - 1 <= Len(s) => Slice(s, i, k, SubSeq(s, i, i + k - 1))
  BY SliceIs
<1>5. \A k : Continues(s, k) <=> k \in 1..Len(s) /\ Trails(s[k])
  BY DEF Continues, ByteIn, Trails, Between
<1>6. b < 128 <=> i + 1 - 1 <= Len(s) /\ Segment(SubSeq(s, i, i + 1 - 1))
  <2> DEFINE seg == SubSeq(s, i, i + 1 - 1)
  <2>1. seg \in Seq(Octet) /\ Len(seg) = 1 /\ seg[1] = b
    <3>1. Slice(s, i, 1, seg)
      BY <1>4
    <3> HIDE DEF seg
    <3> QED BY <3>1 DEF Slice
  <2>2. Segment(seg) <=> b < 128
    <3> HIDE DEF seg, b
    <3> QED BY <2>1, SegmentIs
  <2>3. i + 1 - 1 <= Len(s)
    OBVIOUS
  <2> HIDE DEF b
  <2> QED BY <2>2, <2>3
<1>7. Two <=> i + 2 - 1 <= Len(s) /\ Segment(SubSeq(s, i, i + 2 - 1))
  <2> DEFINE seg == SubSeq(s, i, i + 2 - 1)
  <2>1. Continues(s, i + 1) <=> i + 2 - 1 <= Len(s) /\ Trails(s[i + 1])
    BY <1>5
  <2>2. ASSUME i + 2 - 1 <= Len(s)
        PROVE  seg \in Seq(Octet) /\ Len(seg) = 2 /\ seg[1] = b /\ seg[2] = s[i + 1]
    <3>1. Slice(s, i, 2, seg)
      BY <1>4, <2>2
    <3> HIDE DEF seg
    <3> QED BY <3>1 DEF Slice
  <2>3. ASSUME i + 2 - 1 <= Len(s)
        PROVE  Segment(seg) <=> Between(b, 194, 223) /\ Trails(s[i + 1])
    <3> HIDE DEF seg, b
    <3> QED BY <2>2, <2>3, SegmentIs
  <2> HIDE DEF seg, b
  <2> QED BY <2>1, <2>3 DEF seg
<1>8. Three <=> i + 3 - 1 <= Len(s) /\ Segment(SubSeq(s, i, i + 3 - 1))
  <2> DEFINE seg == SubSeq(s, i, i + 3 - 1)
             lo == SecondOfThree(b).lo
             hi == SecondOfThree(b).hi
  <2>1. /\ Continues(s, i + 2) <=> i + 3 - 1 <= Len(s) /\ Trails(s[i + 2])
        /\ i + 3 - 1 <= Len(s) => (ByteIn(s, i + 1, lo, hi) <=> Between(s[i + 1], lo, hi))
    BY <1>5 DEF ByteIn, Between
  <2>2. ASSUME i + 3 - 1 <= Len(s)
        PROVE  /\ seg \in Seq(Octet) /\ Len(seg) = 3
               /\ seg[1] = b /\ seg[2] = s[i + 1] /\ seg[3] = s[i + 2]
    <3>1. Slice(s, i, 3, seg)
      BY <1>4, <2>2
    <3> HIDE DEF seg
    <3> QED BY <3>1 DEF Slice
  <2>3. ASSUME i + 3 - 1 <= Len(s)
        PROVE  Segment(seg) <=> /\ Between(b, 224, 239) /\ Trails(s[i + 2])
                                /\ Between(s[i + 1], lo, hi)
    <3> HIDE DEF seg, b
    <3>1. Segment(seg) <=>
            /\ Between(seg[1], 224, 239) /\ Trails(seg[3])
            /\ Between(seg[2], SecondOfThree(seg[1]).lo, SecondOfThree(seg[1]).hi)
      <4>1. seg \in Seq(Octet) /\ Len(seg) = 3
        BY <2>2, <2>3
      <4> QED BY <4>1, SegmentIs
    <3> QED BY <2>2, <2>3, <3>1
  <2> HIDE DEF seg, b, lo, hi
  <2> QED BY <2>1, <2>3 DEF seg, lo, hi
<1>9. Four <=> i + 4 - 1 <= Len(s) /\ Segment(SubSeq(s, i, i + 4 - 1))
  <2> DEFINE seg == SubSeq(s, i, i + 4 - 1)
             lo == SecondOfFour(b).lo
             hi == SecondOfFour(b).hi
  <2>1. /\ Continues(s, i + 3) <=> i + 4 - 1 <= Len(s) /\ Trails(s[i + 3])
        /\ i + 4 - 1 <= Len(s) => /\ Continues(s, i + 2) <=> Trails(s[i + 2])
                                  /\ ByteIn(s, i + 1, lo, hi) <=> Between(s[i + 1], lo, hi)
    BY <1>5 DEF ByteIn, Between
  <2>2. ASSUME i + 4 - 1 <= Len(s)
        PROVE  /\ seg \in Seq(Octet) /\ Len(seg) = 4
               /\ seg[1] = b /\ seg[2] = s[i + 1] /\ seg[3] = s[i + 2] /\ seg[4] = s[i + 3]
    <3>1. Slice(s, i, 4, seg)
      BY <1>4, <2>2
    <3> HIDE DEF seg
    <3> QED BY <3>1 DEF Slice
  <2>3. ASSUME i + 4 - 1 <= Len(s)
        PROVE  Segment(seg) <=> /\ Between(b, 240, 244) /\ Trails(s[i + 2]) /\ Trails(s[i + 3])
                                /\ Between(s[i + 1], lo, hi)
    <3> HIDE DEF seg, b
    <3>1. Segment(seg) <=>
            /\ Between(seg[1], 240, 244) /\ Trails(seg[3]) /\ Trails(seg[4])
            /\ Between(seg[2], SecondOfFour(seg[1]).lo, SecondOfFour(seg[1]).hi)
      <4>1. seg \in Seq(Octet) /\ Len(seg) = 4
        BY <2>2, <2>3
      <4> QED BY <4>1, SegmentIs
    <3> QED BY <2>2, <2>3, <3>1
  <2> HIDE DEF seg, b, lo, hi
  <2> QED BY <2>1, <2>3 DEF seg, lo, hi
<1>10. ASSUME NEW k \in 1..4
       PROVE  CharLen(s, i) = k <=> i + k - 1 <= Len(s) /\ Segment(SubSeq(s, i, i + k - 1))
  <2>1. k = 1 \/ k = 2 \/ k = 3 \/ k = 4
    OBVIOUS
  <2> HIDE DEF Two, Three, Four, b
  <2>2. CASE k = 1
    BY <1>3, <1>6, <2>2, Zenon
  <2>3. CASE k = 2
    BY <1>3, <1>7, <2>3, Zenon
  <2>4. CASE k = 3
    BY <1>3, <1>8, <2>4, Zenon
  <2>5. CASE k = 4
    BY <1>3, <1>9, <2>5, Zenon
  <2> QED BY <2>1, <2>2, <2>3, <2>4, <2>5
<1> QED BY <1>3, <1>10

-----------------------------------------------------------------------------
(* The scan and the definition.                                            *)

IsScan(s, f) ==
  f = [i \in 1..(Len(s) + 1) |->
         \/ i = Len(s) + 1
         \/ CharLen(s, i) > 0 /\ f[i + CharLen(s, i)]]

IsUpto(s, f) ==
  f = [n \in 0..Len(s) |->
         n = 0 \/ \E k \in 1..4 : k <= n /\ f[n - k] /\ Segment(SubSeq(s, n - k + 1, n))]

LEMMA ScanStep ==
  ASSUME NEW s \in Seq(Octet), NEW i \in 1..Len(s)
  PROVE  /\ CharLen(s, i) \in 0..4
         /\ CharLen(s, i) > 0 => i + CharLen(s, i) <= Len(s) + 1
         /\ Parses(s, i - 1, Len(s)) <=> /\ CharLen(s, i) > 0
                                         /\ Parses(s, i + CharLen(s, i) - 1, Len(s))
<1> DEFINE x == CharLen(s, i)
<1>1. /\ x \in 0..4
      /\ \A k \in 1..4 : x = k <=> i + k - 1 <= Len(s) /\ Segment(SubSeq(s, i, i + k - 1))
  BY CharIs
<1> HIDE DEF x
<1>2. \A c \in i..Len(s) : Piece(s, i - 1, c) <=> x = c - i + 1
  <2> SUFFICES ASSUME NEW c \in i..Len(s) PROVE Piece(s, i - 1, c) <=> x = c - i + 1
    OBVIOUS
  <2>1. i - 1 + 1 = i /\ c - (i - 1) = c - i + 1 /\ i + (c - i + 1) - 1 = c
    OBVIOUS
  <2>2. Piece(s, i - 1, c) <=> c - i + 1 \in 1..4 /\ Segment(SubSeq(s, i, c))
    BY <2>1 DEF Piece
  <2>3. CASE c - i + 1 \in 1..4
    <3>1. x = c - i + 1 <=> Segment(SubSeq(s, i, c))
      BY <1>1, <2>1, <2>3
    <3> QED BY <2>2, <2>3, <3>1
  <2>4. CASE c - i + 1 \notin 1..4
    BY <1>1, <2>2, <2>4
  <2> QED BY <2>3, <2>4
<1>3. x > 0 => x \in 1..4 /\ i + x - 1 <= Len(s)
  BY <1>1
<1>4. Parses(s, i - 1, Len(s)) <=> \E c \in i..Len(s) : Piece(s, i - 1, c) /\ Parses(s, c, Len(s))
  <2>1. i - 1 \in Nat /\ Len(s) \in Nat /\ i - 1 < Len(s) /\ i - 1 + 1 = i
    OBVIOUS
  <2> QED BY <2>1, ParsesFront
<1>5. Parses(s, i - 1, Len(s)) <=> x > 0 /\ Parses(s, i + x - 1, Len(s))
  <2>1. ASSUME Parses(s, i - 1, Len(s)) PROVE x > 0 /\ Parses(s, i + x - 1, Len(s))
    <3>1. PICK c \in i..Len(s) : Piece(s, i - 1, c) /\ Parses(s, c, Len(s))
      BY <1>4, <2>1
    <3>2. x = c - i + 1
      BY <1>2, <3>1
    <3>3. x > 0 /\ i + x - 1 = c
      BY <3>2
    <3> QED BY <3>1, <3>3
  <2>2. ASSUME x > 0, Parses(s, i + x - 1, Len(s)) PROVE Parses(s, i - 1, Len(s))
    <3>1. i + x - 1 \in i..Len(s) /\ x = (i + x - 1) - i + 1
      BY <1>3, <2>2
    <3> QED BY <1>2, <1>4, <2>2, <3>1
  <2> QED BY <2>1, <2>2
<1> QED BY <1>1, <1>3, <1>5 DEF x

LEMMA UptoStep ==
  ASSUME NEW s \in Seq(Octet), NEW n \in 1..Len(s)
  PROVE  Parses(s, 0, n) <=>
           \E k \in 1..4 : k <= n /\ Parses(s, 0, n - k) /\ Segment(SubSeq(s, n - k + 1, n))
<1>1. Parses(s, 0, n) <=> \E c \in 0..(n - 1) : Piece(s, c, n) /\ Parses(s, 0, c)
  <2>1. 0 \in Nat /\ n \in Nat /\ 0 < n
    OBVIOUS
  <2> QED BY <2>1, ParsesBack
<1>2. ASSUME NEW c \in 0..(n - 1), Piece(s, c, n), Parses(s, 0, c)
      PROVE  \E k \in 1..4 : k <= n /\ Parses(s, 0, n - k) /\ Segment(SubSeq(s, n - k + 1, n))
  <2>1. n - c \in 1..4 /\ n - c <= n /\ n - (n - c) = c
    BY <1>2 DEF Piece
  <2>2. Segment(SubSeq(s, c + 1, n))
    BY <1>2 DEF Piece
  <2>3. /\ n - c <= n /\ Parses(s, 0, n - (n - c))
        /\ Segment(SubSeq(s, n - (n - c) + 1, n))
    BY <1>2, <2>1, <2>2
  <2> QED BY <2>1, <2>3
<1>3. ASSUME NEW k \in 1..4, k <= n, Parses(s, 0, n - k), Segment(SubSeq(s, n - k + 1, n))
      PROVE  \E c \in 0..(n - 1) : Piece(s, c, n) /\ Parses(s, 0, c)
  <2>1. n - k \in 0..(n - 1) /\ n - (n - k) = k
    BY <1>3
  <2>2. Piece(s, n - k, n)
    BY <1>3, <2>1 DEF Piece
  <2> QED BY <1>3, <2>1, <2>2
<1> QED BY <1>1, <1>2, <1>3

LEMMA ValidIsParses ==
  ASSUME NEW s \in Seq(Octet)
  PROVE  sicha_utf8_valid(s) <=> Parses(s, 0, Len(s))
<1> DEFINE L == Len(s)
           g == [i \in 1..(L + 1) |-> Parses(s, i - 1, L)]
<1>0. \A i \in 1..(L + 1) : g[i] <=> Parses(s, i - 1, L)
  OBVIOUS
<1>1. IsScan(s, g)
  <2>1. ASSUME NEW i \in 1..(L + 1)
        PROVE  g[i] <=> i = L + 1 \/ (CharLen(s, i) > 0 /\ g[i + CharLen(s, i)])
    <3>1. CASE i = L + 1
      <4>1. i - 1 = L /\ L \in Nat
        BY <3>1
      <4>2. Parses(s, L, L)
        BY <4>1, ParsesNothing
      <4> QED BY <3>1, <4>1, <4>2
    <3>2. CASE i # L + 1
      <4>1. i \in 1..Len(s)
        BY <3>2
      <4> DEFINE x == CharLen(s, i)
      <4>2. /\ x \in 0..4 /\ (x > 0 => i + x <= L + 1)
            /\ Parses(s, i - 1, L) <=> x > 0 /\ Parses(s, i + x - 1, L)
        BY <4>1, ScanStep
      <4> HIDE DEF x
      <4>3. ASSUME x > 0 PROVE g[i + x] <=> Parses(s, i + x - 1, L)
        <5>1. i + x \in 1..(L + 1)
          BY <4>2, <4>3
        <5> DEFINE y == i + x
        <5>2. g[y] <=> Parses(s, y - 1, L)
          <6> HIDE DEF g
          <6> QED BY <1>0, <5>1
        <5>3. y - 1 = i + x - 1
          BY <4>1, <4>2
        <5> HIDE DEF g
        <5> QED BY <5>2, <5>3
      <4>4. g[i] <=> Parses(s, i - 1, L)
        OBVIOUS
      <4> HIDE DEF g
      <4> QED BY <3>2, <4>2, <4>3, <4>4 DEF x
    <3> QED BY <3>1, <3>2
  <2>2. \A i \in 1..(L + 1) :
          g[i] = (i = L + 1 \/ (CharLen(s, i) > 0 /\ g[i + CharLen(s, i)]))
    <3>1. \A i \in 1..(L + 1) : g[i] \in BOOLEAN
      BY DEF Parses
    <3> HIDE DEF g
    <3> QED BY <2>1, <3>1, Zenon
  <2>3. g = [i \in 1..(L + 1) |-> g[i]]
    OBVIOUS
  <2> HIDE DEF g
  <2> QED BY <2>2, <2>3 DEF IsScan
<1> DEFINE f == CHOOSE h : IsScan(s, h)
<1>2. IsScan(s, f)
  BY <1>1, Zenon
<1>3. sicha_utf8_valid(s) = f[1]
  BY Zenon DEF sicha_utf8_valid, IsScan
<1> HIDE DEF g, f
<1>4. \A i \in 1..(L + 1) :
        f[i] <=> i = L + 1 \/ (CharLen(s, i) > 0 /\ f[i + CharLen(s, i)])
  BY <1>2 DEF IsScan
<1> DEFINE D == {n \in 0..L : ~(f[L + 1 - n] <=> Parses(s, L - n, L))}
<1>5. D = {}
  <2> SUFFICES ASSUME D # {} PROVE FALSE
    OBVIOUS
  <2>1. D \in SUBSET Nat
    OBVIOUS
  <2>2. PICK n \in D : \A m \in D : n <= m
    <3> HIDE DEF D
    <3> QED BY <2>1, LeastNat
  <2>3. n \in 0..L /\ ~(f[L + 1 - n] <=> Parses(s, L - n, L))
    OBVIOUS
  <2> DEFINE i == L + 1 - n
  <2>4. i \in 1..(L + 1) /\ i - 1 = L - n /\ L \in Nat
    BY <2>3
  <2>5. CASE n = 0
    <3>1. i = L + 1 /\ L - n = L
      BY <2>5
    <3>2. Parses(s, L, L)
      BY <2>4, ParsesNothing
    <3>3. f[i]
      BY <1>4, <2>4, <3>1
    <3> QED BY <2>3, <3>1, <3>2, <3>3
  <2>6. CASE n # 0
    <3>1. i \in 1..Len(s) /\ i # L + 1
      BY <2>3, <2>6
    <3> DEFINE x == CharLen(s, i)
    <3> HIDE DEF i
    <3>2. /\ x \in 0..4 /\ (x > 0 => i + x <= L + 1)
          /\ Parses(s, i - 1, L) <=> x > 0 /\ Parses(s, i + x - 1, L)
      BY <3>1, ScanStep
    <3>3. f[i] <=> x > 0 /\ f[i + x]
      BY <1>4, <2>4, <3>1
    <3> HIDE DEF x
    <3>4. ASSUME x > 0 PROVE f[i + x] <=> Parses(s, i + x - 1, L)
      <4>1. i = L + 1 - n
        BY DEF i
      <4>2. /\ n - x \in 0..L /\ n - x < n
            /\ L + 1 - (n - x) = i + x /\ L - (n - x) = i + x - 1
        BY <2>3, <3>2, <3>4, <4>1
      <4>3. n - x \notin D
        BY <2>2, <2>3, <4>2
      <4> QED BY <4>2, <4>3
    <3>5. f[i] <=> Parses(s, i - 1, L)
      BY <3>2, <3>3, <3>4
    <3> QED BY <2>3, <2>4, <3>5 DEF i
  <2> QED BY <2>5, <2>6
<1>6. f[1] <=> Parses(s, 0, L)
  <2>1. L \in 0..L /\ L + 1 - L = 1 /\ L - L = 0
    OBVIOUS
  <2> QED BY <1>5, <2>1
<1> QED BY <1>3, <1>6

LEMMA WellFormedIsParses ==
  ASSUME NEW s \in Seq(Octet)
  PROVE  WellFormed(s) <=> Parses(s, 0, Len(s))
<1> DEFINE L == Len(s)
           g == [n \in 0..L |-> Parses(s, 0, n)]
           Earlier(h, n) == \E k \in 1..4 : /\ k <= n /\ h[n - k]
                                            /\ Segment(SubSeq(s, n - k + 1, n))
<1>1. IsUpto(s, g)
  <2>1. ASSUME NEW n \in 0..L PROVE g[n] <=> n = 0 \/ Earlier(g, n)
    <3>1. CASE n = 0
      BY <3>1, ParsesNothing
    <3>2. CASE n # 0
      <4>1. n \in 1..Len(s)
        BY <3>2
      <4>2. g[n] <=> Parses(s, 0, n)
        OBVIOUS
      <4>3. \A k \in 1..4 : k <= n => (g[n - k] <=> Parses(s, 0, n - k))
        OBVIOUS
      <4> HIDE DEF g
      <4> QED BY <3>2, <4>1, <4>2, <4>3, UptoStep
    <3> QED BY <3>1, <3>2
  <2>2. \A n \in 0..L : g[n] = (n = 0 \/ Earlier(g, n))
    <3>1. \A n \in 0..L : g[n] \in BOOLEAN
      BY DEF Parses
    <3> HIDE DEF g
    <3> QED BY <2>1, <3>1, Zenon
  <2>3. g = [n \in 0..L |-> g[n]]
    OBVIOUS
  <2> HIDE DEF g
  <2> QED BY <2>2, <2>3 DEF IsUpto
<1> DEFINE f == CHOOSE h : IsUpto(s, h)
<1>2. IsUpto(s, f)
  BY <1>1, Zenon
<1>3. WellFormed(s) = f[Len(s)]
  BY Zenon DEF WellFormed, IsUpto
<1> HIDE DEF g, f
<1>4. \A n \in 0..L : f[n] <=> n = 0 \/ Earlier(f, n)
  BY <1>2 DEF IsUpto
<1> DEFINE D == {n \in 0..L : ~(f[n] <=> Parses(s, 0, n))}
<1>5. D = {}
  <2> SUFFICES ASSUME D # {} PROVE FALSE
    OBVIOUS
  <2>1. D \in SUBSET Nat
    OBVIOUS
  <2>2. PICK n \in D : \A m \in D : n <= m
    <3> HIDE DEF D
    <3> QED BY <2>1, LeastNat
  <2>3. n \in 0..L /\ ~(f[n] <=> Parses(s, 0, n))
    OBVIOUS
  <2>4. CASE n = 0
    BY <1>4, <2>3, <2>4, ParsesNothing
  <2>5. CASE n # 0
    <3>1. n \in 1..Len(s)
      BY <2>3, <2>5
    <3>2. \A k \in 1..4 : k <= n => (f[n - k] <=> Parses(s, 0, n - k))
      <4>1. ASSUME NEW k \in 1..4, k <= n PROVE f[n - k] <=> Parses(s, 0, n - k)
        <5>1. n - k \in 0..L /\ n - k < n
          BY <2>3, <4>1
        <5>2. n - k \notin D
          BY <2>2, <2>3, <5>1
        <5> QED BY <5>1, <5>2
      <4> QED BY <4>1
    <3>3. f[n] <=> Parses(s, 0, n)
      <4>1. f[n] <=> Earlier(f, n)
        BY <1>4, <2>3, <2>5
      <4> HIDE DEF D
      <4> QED BY <3>1, <3>2, <4>1, UptoStep
    <3> QED BY <2>3, <3>3
  <2> QED BY <2>4, <2>5
<1>6. f[L] <=> Parses(s, 0, L)
  <2>1. L \in 0..L
    OBVIOUS
  <2> QED BY <1>5, <2>1
<1> QED BY <1>3, <1>6

-----------------------------------------------------------------------------
(* What is typed.                                                          *)

(* A text of one to four bytes that are a segment's but for its number. *)
LEMMA TypedIs ==
  ASSUME NEW seg \in Seq(Octet), Len(seg) \in 1..4,
         Leads(seg[1], Len(seg)), \A k \in 2..Len(seg) : Trails(seg[k]),
         Spelled(seg) >= SmallestOf(Len(seg))
  PROVE  sicha_utf8_valid(seg) <=> Scalar(Spelled(seg))
<1> DEFINE n == Len(seg)
<1>1. Segment(seg) <=> Scalar(Spelled(seg))
  <2>1. \A k \in 1..n : seg[k] \in Nat
    BY ByteIs
  <2>2. \A k \in 2..n : seg[k] >= 128 /\ seg[k] < 192
    BY <2>1 DEF Trails, Between
  <2> QED BY <2>2 DEF Segment, Leads
<1>2. Parses(seg, 0, n) <=> Segment(seg)
  <2>1. SubSeq(seg, 1, n) = seg
    OBVIOUS
  <2>2. Piece(seg, 0, n) <=> Segment(seg)
    <3>1. 0 + 1 = 1 /\ n - 0 = n /\ n \in 1..4
      OBVIOUS
    <3> QED BY <2>1, <3>1 DEF Piece
  <2>3. ASSUME Segment(seg) PROVE Parses(seg, 0, n)
    <3>1. 0 \in Nat /\ n \in Nat /\ 0 < n /\ n \in (0 + 1)..n
      OBVIOUS
    <3>2. Parses(seg, n, n)
      BY <3>1, ParsesNothing
    <3> QED BY <2>2, <2>3, <3>1, <3>2, ParsesFront
  <2>4. ASSUME Parses(seg, 0, n) PROVE Segment(seg)
    <3>1. 0 \in Nat /\ n \in Nat /\ 0 < n /\ 1 \in 1..n /\ 0 + 1 = 1
      OBVIOUS
    <3>2. PICK c \in 1..n : Piece(seg, 0, c)
      BY <2>4, <3>1, ParsesFront
    <3>3. CharLen(seg, 1) = c
      <4>1. /\ 1 \in 1..Len(seg) /\ c \in 1..4 /\ 1 + c - 1 = c /\ 0 + 1 = 1 /\ c <= n
        BY <3>1, <3>2
      <4>2. Segment(SubSeq(seg, 1, 1 + c - 1))
        BY <3>2, <4>1 DEF Piece
      <4> QED BY <4>1, <4>2, CharIs
    <3>4. c = n
      <4> DEFINE a == seg[1]
      <4>1. a \in Nat
        BY <3>1, ByteIs
      <4>2. /\ LeadBits(1) = 0 /\ LeadBits(2) = 192 /\ LeadBits(3) = 224 /\ LeadBits(4) = 240
            /\ LeadRange(1) = 128 /\ LeadRange(2) = 32 /\ LeadRange(3) = 16
            /\ LeadRange(4) = 8
        BY DEF LeadBits, LeadRange
      <4>3. /\ n = 1 => a < 128
            /\ n = 2 => 192 <= a /\ a < 224
            /\ n = 3 => 224 <= a /\ a < 240
            /\ n = 4 => 240 <= a
        <5>1. a >= LeadBits(n) /\ a < LeadBits(n) + LeadRange(n)
          BY DEF Leads
        <5> HIDE DEF a, n
        <5> QED BY <4>1, <4>2, <5>1
      <4>4. /\ c = 1 => a < 128
            /\ c = 2 => 194 <= a /\ a <= 223
            /\ c = 3 => 224 <= a /\ a <= 239
            /\ c = 4 => 240 <= a /\ a <= 244
        BY <3>3, <4>1 DEF CharLen, ByteIn
      <4>5. c \in 1..4 /\ n \in 1..4
        OBVIOUS
      <4> HIDE DEF a, n
      <4> QED BY <4>1, <4>3, <4>4, <4>5
    <3> QED BY <2>2, <3>2, <3>4
  <2> QED BY <2>3, <2>4
<1> QED BY <1>1, <1>2, ValidIsParses

(* The bytes of a code point: the quotients and remainders that the editor
   shifts and masks out of it. *)
OfTwo(cp) == 128 <= cp /\ cp < 2048
OfThree(cp) == 2048 <= cp /\ cp < 65536
OfFour(cp) == 65536 <= cp

LEMMA TypedUtf8 ==
  ASSUME NEW cp \in Nat, CodePoint(cp)
  PROVE  LET s == utf8_encode(cp) IN
         (sicha_utf8_valid(s) <=> Scalar(cp)) /\ Spelled(s) = cp
<1> DEFINE s == utf8_encode(cp)
           q == cp \div 64
           r == q \div 64
           t == r \div 64
           u == cp % 64
           v == q % 64
           w == r % 64
<1>1. /\ LeadBits(1) = 0 /\ LeadBits(2) = 192 /\ LeadBits(3) = 224 /\ LeadBits(4) = 240
      /\ LeadRange(1) = 128 /\ LeadRange(2) = 32 /\ LeadRange(3) = 16 /\ LeadRange(4) = 8
  BY DEF LeadBits, LeadRange
<1>2. ASSUME NEW x \in Nat
      PROVE  /\ x % 64 \in Nat /\ x % 64 < 64 /\ x \div 64 \in Nat
             /\ x = 64 * (x \div 64) + (x % 64)
  <2>1. x \div 64 \in Nat
    BY SMT
  <2>2. x % 64 = x - 64 * (x \div 64)
    BY SMT
  <2>3. 64 * (x \div 64) <= x
    BY SMT
  <2>4. x < 64 * (x \div 64) + 64
    BY SMT
  <2> DEFINE y == x % 64
             z == x \div 64
  <2> HIDE DEF y, z
  <2>5. z \in Nat /\ y = x - 64 * z /\ 64 * z <= x /\ x < 64 * z + 64
    BY <2>1, <2>2, <2>3, <2>4 DEF y, z
  <2>6. y \in Nat /\ y < 64 /\ z \in Nat /\ x = 64 * z + y
    BY <2>5, SMT
  <2> QED BY <2>6, Zenon DEF y, z
<1>3. /\ q \in Nat /\ u \in Nat /\ u < 64 /\ cp = 64 * q + u
      /\ r \in Nat /\ v \in Nat /\ v < 64 /\ q = 64 * r + v
      /\ t \in Nat /\ w \in Nat /\ w < 64 /\ r = 64 * t + w
  <2>1. q \in Nat /\ u \in Nat /\ u < 64 /\ cp = 64 * q + u
    BY <1>2
  <2>2. r \in Nat /\ v \in Nat /\ v < 64 /\ q = 64 * r + v
    <3> HIDE DEF q
    <3> QED BY <1>2, <2>1 DEF r, v
  <2>3. t \in Nat /\ w \in Nat /\ w < 64 /\ r = 64 * t + w
    <3> HIDE DEF q, r
    <3> QED BY <1>2, <2>2 DEF t, w
  <2> QED BY <2>1, <2>2, <2>3
<1> HIDE DEF q, r, t, u, v, w
<1>4. r = cp \div 4096
  <2>1. 4096 * r <= cp /\ cp < 4096 * r + 4096
    BY <1>3, SMT
  <2> QED BY <1>3, <2>1, SMT
<1>5. t = cp \div 262144
  <2>1. 262144 * t <= cp /\ cp < 262144 * t + 262144
    BY <1>3, SMT
  <2> QED BY <1>3, <2>1, SMT
<1> DEFINE C(y) == 128 + y
<1>6. \A y \in Nat : y < 64 => C(y) \in Octet /\ Trails(C(y)) /\ C(y) - 128 = y
  BY DEF Octet, Trails, Between
<1> HIDE DEF C
(* One of n bytes: what is left to show of each length. *)
<1>7. ASSUME s \in Seq(Octet), Len(s) \in 1..4, Leads(s[1], Len(s)),
             \A k \in 2..Len(s) : Trails(s[k]), Spelled(s) = cp, cp >= SmallestOf(Len(s))
      PROVE  (sicha_utf8_valid(s) <=> Scalar(cp)) /\ Spelled(s) = cp
  <2> HIDE DEF s
  <2> QED BY <1>7, TypedIs
<1>8. CASE cp < 128
  <2>1. s = <<cp>> /\ cp \in Octet
    BY <1>8, SMT DEF utf8_encode, Octet
  <2> HIDE DEF s
  <2>2. s \in Seq(Octet) /\ Len(s) = 1 /\ s[1] = cp
    BY <2>1
  <2>3. Spelled(s) = cp
    <3>1. Spelled(s) = s[1] - LeadBits(1)
      BY <2>2, SpelledIs
    <3> QED BY <1>1, <2>2, <3>1
  <2>4. Leads(s[1], Len(s)) /\ cp >= SmallestOf(Len(s)) /\ Len(s) \in 1..4
    BY <1>1, <1>8, <2>2 DEF Leads, SmallestOf
  <2>5. \A k \in 2..Len(s) : Trails(s[k])
    BY <2>2
  <2> QED BY <1>7, <2>2, <2>3, <2>4, <2>5 DEF s
<1>9. CASE OfTwo(cp)
  <2>1. s = <<192 + q, C(u)>>
    BY <1>9, SMT DEF utf8_encode, C, OfTwo, q, u
  <2>2. 192 + q \in Octet /\ 192 + q < 224
    BY <1>3, <1>9, SMT DEF Octet, OfTwo
  <2> HIDE DEF s
  <2>3. s \in Seq(Octet) /\ Len(s) = 2 /\ s[1] = 192 + q /\ s[2] = C(u)
    BY <1>3, <1>6, <2>1, <2>2
  <2>4. Spelled(s) = cp
    <3>1. Spelled(s) = Sixty(s[1] - LeadBits(2), s[2])
      BY <2>3, SpelledIs
    <3>2. s[1] - LeadBits(2) = q /\ s[2] - 128 = u
      BY <1>1, <1>3, <1>6, <2>3
    <3>3. Sixty(s[1] - LeadBits(2), s[2]) = q * 64 + u
      BY <3>2 DEF Sixty
    <3> QED BY <1>3, <3>1, <3>3
  <2>5. Leads(s[1], Len(s)) /\ cp >= SmallestOf(Len(s)) /\ Len(s) \in 1..4
    <3>1. cp >= SmallestOf(2)
      BY <1>9, SMT DEF SmallestOf, OfTwo
    <3> QED BY <1>1, <1>3, <2>2, <2>3, <3>1 DEF Leads
  <2>6. \A k \in 2..Len(s) : Trails(s[k])
    BY <1>3, <1>6, <2>3
  <2> QED BY <1>7, <2>3, <2>4, <2>5, <2>6 DEF s
<1>10. CASE OfThree(cp)
  <2>1. s = <<224 + r, C(v), C(u)>>
    <3>1. s = <<224 + (cp \div 4096), 128 + ((cp \div 64) % 64), 128 + (cp % 64)>>
      BY <1>10, SMT DEF utf8_encode, OfThree
    <3>2. v = (cp \div 64) % 64 /\ u = cp % 64
      BY DEF q, u, v
    <3> HIDE DEF s
    <3> QED BY <1>4, <3>1, <3>2, SMT DEF C
  <2>2. 224 + r \in Octet /\ 224 + r < 240
    BY <1>3, <1>10, SMT DEF Octet, OfThree
  <2> HIDE DEF s
  <2>3. s \in Seq(Octet) /\ Len(s) = 3 /\ s[1] = 224 + r /\ s[2] = C(v) /\ s[3] = C(u)
    BY <1>3, <1>6, <2>1, <2>2
  <2>4. Spelled(s) = cp
    <3>1. Spelled(s) = Sixty(Sixty(s[1] - LeadBits(3), s[2]), s[3])
      BY <2>3, SpelledIs
    <3>2. s[1] - LeadBits(3) = r /\ s[2] - 128 = v /\ s[3] - 128 = u
      BY <1>1, <1>3, <1>6, <2>3
    <3>3. Sixty(s[1] - LeadBits(3), s[2]) = r * 64 + v
      BY <3>2 DEF Sixty
    <3>4. Sixty(Sixty(s[1] - LeadBits(3), s[2]), s[3]) = q * 64 + u
      <4>1. r * 64 + v = q
        BY <1>3
      <4> QED BY <3>2, <3>3, <4>1 DEF Sixty
    <3> QED BY <1>3, <3>1, <3>4
  <2>5. Leads(s[1], Len(s)) /\ cp >= SmallestOf(Len(s)) /\ Len(s) \in 1..4
    <3>1. cp >= SmallestOf(3)
      BY <1>10, SMT DEF SmallestOf, OfThree
    <3> QED BY <1>1, <1>3, <2>2, <2>3, <3>1 DEF Leads
  <2>6. \A k \in 2..Len(s) : Trails(s[k])
    BY <1>3, <1>6, <2>3
  <2> QED BY <1>7, <2>3, <2>4, <2>5, <2>6 DEF s
<1>11. CASE OfFour(cp)
  <2>1. s = <<240 + t, C(w), C(v), C(u)>>
    <3>1. s = <<240 + (cp \div 262144), 128 + ((cp \div 4096) % 64),
                128 + ((cp \div 64) % 64), 128 + (cp % 64)>>
      BY <1>11, SMT DEF utf8_encode, OfFour
    <3>2. v = (cp \div 64) % 64 /\ u = cp % 64
      BY DEF q, u, v
    <3> HIDE DEF s
    <3> QED BY <1>4, <1>5, <3>1, <3>2, SMT DEF C, w
  <2>2. 240 + t \in Octet /\ 240 + t < 248
    BY <1>3, <1>11, SMT DEF Octet, CodePoint, OfFour
  <2> HIDE DEF s
  <2>3. /\ s \in Seq(Octet) /\ Len(s) = 4
        /\ s[1] = 240 + t /\ s[2] = C(w) /\ s[3] = C(v) /\ s[4] = C(u)
    BY <1>3, <1>6, <2>1, <2>2
  <2>4. Spelled(s) = cp
    <3>1. Spelled(s) = Sixty(Sixty(Sixty(s[1] - LeadBits(4), s[2]), s[3]), s[4])
      BY <2>3, SpelledIs
    <3>2. /\ s[1] - LeadBits(4) = t /\ s[2] - 128 = w /\ s[3] - 128 = v
          /\ s[4] - 128 = u
      BY <1>1, <1>3, <1>6, <2>3
    <3>3. Sixty(s[1] - LeadBits(4), s[2]) = t * 64 + w
      BY <3>2 DEF Sixty
    <3>4. Sixty(Sixty(s[1] - LeadBits(4), s[2]), s[3]) = r * 64 + v
      <4>1. t * 64 + w = r
        BY <1>3
      <4> QED BY <3>2, <3>3, <4>1 DEF Sixty
    <3>5. Sixty(Sixty(Sixty(s[1] - LeadBits(4), s[2]), s[3]), s[4]) = q * 64 + u
      <4>1. r * 64 + v = q
        BY <1>3
      <4> QED BY <3>2, <3>4, <4>1 DEF Sixty
    <3> QED BY <1>3, <3>1, <3>5
  <2>5. Leads(s[1], Len(s)) /\ cp >= SmallestOf(Len(s)) /\ Len(s) \in 1..4
    <3>1. cp >= SmallestOf(4)
      BY <1>11, SMT DEF SmallestOf, OfFour
    <3> QED BY <1>1, <1>3, <2>2, <2>3, <3>1 DEF Leads
  <2>6. \A k \in 2..Len(s) : Trails(s[k])
    BY <1>3, <1>6, <2>3
  <2> QED BY <1>7, <2>3, <2>4, <2>5, <2>6 DEF s
<1> QED
  <2>1. cp < 128 \/ OfTwo(cp) \/ OfThree(cp) \/ OfFour(cp)
    BY SMT DEF OfTwo, OfThree, OfFour
  <2> QED BY <1>8, <1>9, <1>10, <1>11, <2>1

-----------------------------------------------------------------------------
(* The arguments of the chat demo.                                         *)

Arguing == INSTANCE FoldFacts WITH Op <- ArgStep

Ident(n) == [k \in 1..n |-> k]

EnvKeys == {"base_url", "model", "api_key"}
CfgKeys == {"base_url", "model", "api_key", "kobold", "--auto", "--demo-seconds"}

StartOf(env, args) ==
  [args |-> args, skip |-> FALSE, n_pos |-> 0,
   cfg |-> [k \in DOMAIN env \cup {"kobold"} \cup Valued |->
              IF k \in DOMAIN env THEN env[k] ELSE IF k = "kobold" THEN FALSE ELSE Null]]

(* The state of the loop after n words. *)
After(env, args, n) == Arguing!Fold(StartOf(env, args), Ident(n))

LEMMA AfterSteps ==
  ASSUME NEW env, NEW args
  PROVE  /\ After(env, args, 0) = StartOf(env, args)
         /\ \A n \in Nat : After(env, args, n + 1) = ArgStep(After(env, args, n), n + 1)
<1>1. Ident(0) = <<>>
  BY DEF Ident
<1>2. After(env, args, 0) = StartOf(env, args)
  BY <1>1, Arguing!FoldEmpty DEF After
<1>3. ASSUME NEW n \in Nat
      PROVE  After(env, args, n + 1) = ArgStep(After(env, args, n), n + 1)
  <2>1. Ident(n) \in Seq(Nat) /\ n + 1 \in Nat
    BY DEF Ident
  <2>2. Ident(n + 1) = Append(Ident(n), n + 1)
    BY DEF Ident
  <2> DEFINE s == Ident(n)
             b == StartOf(env, args)
  <2> HIDE DEF s, b
  <2>3. Arguing!Fold(b, Append(s, n + 1)) = ArgStep(Arguing!Fold(b, s), n + 1)
    BY <2>1, Arguing!FoldAppend DEF s
  <2> QED BY <2>2, <2>3 DEF After, s, b
<1> QED BY <1>2, <1>3

(* What one word does. *)
ConfigLike(c) == DOMAIN c = CfgKeys /\ c = [k \in CfgKeys |-> c[k]]

StateIs(o, args, skip, p, c) == o = [args |-> args, skip |-> skip, n_pos |-> p, cfg |-> c]

Place(p) == Places[IF p < 2 THEN p + 1 ELSE 3]

LEMMA ArgStepIs ==
  ASSUME NEW o, NEW args \in Seq(STRING), NEW n \in DOMAIN args, NEW c, ConfigLike(c),
         NEW skip \in BOOLEAN, NEW p \in Nat, StateIs(o, args, skip, p, c)
  PROVE  LET s == ArgStep(o, n) IN
         /\ skip => StateIs(s, args, FALSE, p, c)
         /\ ~skip /\ args[n] = "--kobold" =>
              StateIs(s, args, FALSE, p, [c EXCEPT !["kobold"] = TRUE])
         /\ ~skip /\ args[n] \in Valued /\ n < Len(args) =>
              StateIs(s, args, TRUE, p, [c EXCEPT ![args[n]] = args[n + 1]])
         /\ ~skip /\ ~IsOption(args, n) =>
              StateIs(s, args, FALSE, p + 1, [c EXCEPT ![Place(p)] = args[n]])
<1> DEFINE word == args[n]
           place == Place(p)
<1> USE DEF StateIs
<1>1. "--kobold" \notin Valued
  BY DEF Valued
<1>2. CASE skip
  <2>1. ArgStep(o, n) = [o EXCEPT !.skip = FALSE]
    BY <1>2 DEF ArgStep
  <2> QED BY <1>2, <2>1
<1>3. CASE ~skip /\ word = "--kobold"
  <2>1. ArgStep(o, n) = [o EXCEPT !.cfg.kobold = TRUE]
    BY <1>1, <1>3 DEF ArgStep
  <2> QED BY <1>1, <1>3, <2>1 DEF IsOption
<1>4. CASE ~skip /\ word \in Valued /\ n < Len(args)
  <2>1. ArgStep(o, n) = [o EXCEPT !.skip = TRUE, !.cfg[word] = args[n + 1]]
    BY <1>1, <1>4 DEF ArgStep
  <2> HIDE DEF word
  <2> QED BY <1>1, <1>4, <2>1 DEF IsOption, word
<1>5. CASE ~skip /\ ~IsOption(args, n)
  <2>1. ArgStep(o, n) = Position(o, word)
    BY <1>5 DEF ArgStep, IsOption
  <2>2. Position(o, word) = [o EXCEPT !.n_pos = @ + 1, !.cfg[place] = word]
    BY DEF Position, Place
  <2> HIDE DEF word, place
  <2> QED BY <1>5, <2>1, <2>2 DEF IsOption, word, place
<1> QED BY <1>1, <1>2, <1>3, <1>4, <1>5 DEF IsOption

-----------------------------------------------------------------------------
(* The trace of the loop tells which words are values of options, so there *)
(* is the function OptionValues chooses.                                   *)
IsValues(args, v) ==
  v = [n \in 0..Len(args) |-> n > 1 /\ args[n - 1] \in Valued /\ ~v[n - 1]]

Skipping(o) ==
  /\ ConfigLike(o.cfg) /\ o.skip \in BOOLEAN /\ o.n_pos \in Nat
  /\ o = [args |-> o.args, skip |-> o.skip, n_pos |-> o.n_pos, cfg |-> o.cfg]

Carries(c, env) == \A k \in EnvKeys : c[k] = env[k]

LEMMA StartIs ==
  ASSUME NEW env \in [EnvKeys -> STRING \cup {Null}], NEW args
  PROVE  LET o == StartOf(env, args) IN
         /\ Skipping(o) /\ o.args = args /\ ~o.skip /\ o.n_pos = 0
         /\ o.cfg.kobold = FALSE /\ Carries(o.cfg, env)
<1> DEFINE o == StartOf(env, args)
           c == o.cfg
<1>1. c = [k \in CfgKeys |->
              IF k \in EnvKeys THEN env[k] ELSE IF k = "kobold" THEN FALSE ELSE Null]
  BY DEF StartOf, CfgKeys, EnvKeys, Valued
<1>2. "kobold" \in CfgKeys /\ "kobold" \notin EnvKeys /\ EnvKeys \subseteq CfgKeys
  BY DEF CfgKeys, EnvKeys
<1>3. o = [args |-> args, skip |-> FALSE, n_pos |-> 0, cfg |-> c]
  BY DEF StartOf
<1> HIDE DEF o, c
<1>4. c.kobold = FALSE /\ Carries(c, env) /\ ConfigLike(c)
  BY <1>1, <1>2 DEF ConfigLike, Carries
<1>5. o.args = args /\ o.cfg = c /\ o.skip = FALSE /\ o.n_pos = 0
  BY <1>3
<1> QED BY <1>3, <1>4, <1>5 DEF Skipping, o

LEMMA StepKeepsShape ==
  ASSUME NEW o, NEW args \in Seq(STRING), NEW n \in DOMAIN args, Skipping(o), o.args = args
  PROVE  LET s == ArgStep(o, n) IN
         /\ Skipping(s) /\ s.args = args
         /\ s.skip <=> ~o.skip /\ args[n] \in Valued /\ n < Len(args)
<1> DEFINE c == o.cfg
           skip == o.skip
           p == o.n_pos
           s == ArgStep(o, n)
           word == args[n]
           Is(sk, ps, cf) == StateIs(s, args, sk, ps, cf)
<1>1. /\ ConfigLike(c) /\ skip \in BOOLEAN /\ p \in Nat
      /\ StateIs(o, args, skip, p, c)
  BY DEF Skipping, StateIs
<1> HIDE DEF c, skip, p
<1>2. /\ skip => Is(FALSE, p, c)
      /\ ~skip /\ word = "--kobold" => Is(FALSE, p, [c EXCEPT !["kobold"] = TRUE])
      /\ ~skip /\ word \in Valued /\ n < Len(args) =>
           Is(TRUE, p, [c EXCEPT ![word] = args[n + 1]])
      /\ ~skip /\ ~IsOption(args, n) => Is(FALSE, p + 1, [c EXCEPT ![Place(p)] = word])
  BY <1>1, ArgStepIs
<1> HIDE DEF s
<1>3. ASSUME NEW cf, NEW sk \in BOOLEAN, NEW ps \in Nat, Is(sk, ps, cf), ConfigLike(cf)
      PROVE  Skipping(s) /\ s.args = args /\ s.skip = sk
  BY <1>3 DEF Skipping, StateIs
<1>4. \A k, x : ConfigLike([c EXCEPT ![k] = x])
  BY <1>1 DEF ConfigLike
<1>5. "--kobold" \notin Valued
  BY DEF Valued
<1>6. CASE skip
  BY <1>1, <1>2, <1>3, <1>6 DEF skip, s
<1>7. CASE ~skip /\ word = "--kobold"
  <2>1. Is(FALSE, p, [c EXCEPT !["kobold"] = TRUE])
    BY <1>2, <1>7
  <2> QED BY <1>1, <1>3, <1>4, <1>5, <1>7, <2>1 DEF skip, s
<1>8. CASE ~skip /\ word \in Valued /\ n < Len(args)
  <2>1. Is(TRUE, p, [c EXCEPT ![word] = args[n + 1]])
    BY <1>2, <1>8
  <2>2. Skipping(s) /\ s.args = args /\ s.skip = TRUE
    BY <1>1, <1>3, <1>4, <2>1
  <2> QED BY <1>8, <2>2 DEF skip, s
<1>9. CASE ~skip /\ ~IsOption(args, n)
  <2>1. Is(FALSE, p + 1, [c EXCEPT ![Place(p)] = word])
    BY <1>2, <1>9
  <2>2. p + 1 \in Nat
    BY <1>1
  <2>3. Skipping(s) /\ s.args = args /\ s.skip = FALSE
    BY <1>3, <1>4, <2>1, <2>2
  <2> QED BY <1>9, <2>3 DEF skip, s, IsOption
<1> QED BY <1>6, <1>7, <1>8, <1>9 DEF IsOption

LEMMA TraceIs ==
  ASSUME NEW env \in [EnvKeys -> STRING \cup {Null}], NEW args \in Seq(STRING)
  PROVE  \A n \in 0..Len(args) : Skipping(After(env, args, n)) /\ After(env, args, n).args = args
<1> DEFINE Good(n) == Skipping(After(env, args, n)) /\ After(env, args, n).args = args
           D == {n \in 0..Len(args) : ~Good(n)}
<1> SUFFICES ASSUME D # {} PROVE FALSE
  OBVIOUS
<1>1. PICK n \in D : \A m \in D : n <= m
  <2>1. D \in SUBSET Nat
    OBVIOUS
  <2> HIDE DEF D
  <2> QED BY <2>1, LeastNat
<1>2. n # 0
  <2>1. Good(0)
    <3>1. Skipping(StartOf(env, args)) /\ StartOf(env, args).args = args
      BY StartIs, Zenon
    <3> QED BY <3>1, AfterSteps
  <2> QED BY <1>1, <2>1
<1>3. n - 1 \in 0..Len(args) /\ n \in DOMAIN args /\ n - 1 \in Nat /\ n - 1 + 1 = n
  BY <1>2
<1>4. Good(n - 1)
  BY <1>1, <1>3
<1>5. After(env, args, n) = ArgStep(After(env, args, n - 1), n)
  BY <1>3, AfterSteps
<1> DEFINE o == After(env, args, n - 1)
<1> HIDE DEF o
<1>6. Skipping(ArgStep(o, n)) /\ ArgStep(o, n).args = args
  BY <1>3, <1>4, StepKeepsShape DEF o
<1> QED BY <1>1, <1>5, <1>6 DEF o

LEMMA SkipsNext ==
  ASSUME NEW env \in [EnvKeys -> STRING \cup {Null}], NEW args \in Seq(STRING),
         NEW n \in 1..Len(args)
  PROVE  /\ After(env, args, n) = ArgStep(After(env, args, n - 1), n)
         /\ After(env, args, n).skip <=> /\ ~After(env, args, n - 1).skip
                                         /\ args[n] \in Valued /\ n < Len(args)
<1>1. n - 1 \in 0..Len(args) /\ n - 1 \in Nat /\ n - 1 + 1 = n /\ n \in DOMAIN args
  OBVIOUS
<1>2. After(env, args, n) = ArgStep(After(env, args, n - 1), n)
  BY <1>1, AfterSteps
<1> DEFINE o == After(env, args, n - 1)
<1>3. Skipping(o) /\ o.args = args
  BY <1>1, TraceIs
<1> HIDE DEF o
<1>4. ArgStep(o, n).skip <=> ~o.skip /\ args[n] \in Valued /\ n < Len(args)
  BY <1>1, <1>3, StepKeepsShape
<1> QED BY <1>2, <1>4 DEF o

LEMMA ValuesExist ==
  ASSUME NEW env \in [EnvKeys -> STRING \cup {Null}], NEW args \in Seq(STRING)
  PROVE  IsValues(args, OptionValues(args))
<1> DEFINE v == [n \in 0..Len(args) |-> n >= 1 /\ After(env, args, n - 1).skip]
<1>1. \A n \in 0..Len(args) : v[n] \in BOOLEAN /\ (v[n] <=> n >= 1 /\ After(env, args, n - 1).skip)
  OBVIOUS
<1>2. ASSUME NEW n \in 0..Len(args) PROVE v[n] <=> n > 1 /\ args[n - 1] \in Valued /\ ~v[n - 1]
  <2>1. CASE n = 0
    <3>1. ~v[n] /\ ~(n > 1)
      <4> HIDE DEF v
      <4> QED BY <1>1, <2>1
    <3> QED BY <3>1, Zenon
  <2>2. CASE n = 1
    <3>1. ~After(env, args, 0).skip
      <4>1. ~StartOf(env, args).skip
        BY StartIs, Zenon
      <4> QED BY <4>1, AfterSteps
    <3> HIDE DEF v
    <3> QED BY <1>1, <2>2, <3>1
  <2>3. CASE n > 1
    <3>1. n - 1 \in 1..Len(args) /\ n - 1 \in 0..Len(args) /\ n - 1 >= 1 /\ n - 1 < Len(args)
      BY <2>3
    <3> DEFINE m == n - 1
    <3> HIDE DEF v, m
    <3>2. After(env, args, m).skip <=> ~After(env, args, m - 1).skip /\ args[m] \in Valued
      BY <3>1, SkipsNext DEF m
    <3>3. v[m] <=> After(env, args, m - 1).skip
      BY <1>1, <3>1 DEF m
    <3>4. v[n] <=> After(env, args, m).skip
      BY <1>1, <2>3 DEF m
    <3> QED BY <2>3, <3>2, <3>3, <3>4 DEF m
  <2> QED BY <2>1, <2>2, <2>3
<1>3. \A n \in 0..Len(args) : v[n] = (n > 1 /\ args[n - 1] \in Valued /\ ~v[n - 1])
  <2> HIDE DEF v
  <2> QED BY <1>1, <1>2, Zenon
<1>4. v = [n \in 0..Len(args) |-> v[n]]
  OBVIOUS
<1>5. IsValues(args, v)
  <2> HIDE DEF v
  <2> QED BY <1>3, <1>4 DEF IsValues
<1> HIDE DEF v
<1>6. OptionValues(args) = CHOOSE w : IsValues(args, w)
  BY Zenon DEF OptionValues, IsValues
<1> QED BY <1>5, <1>6, Zenon

-----------------------------------------------------------------------------
(* The first words, and the places of the positionals among them.          *)
Upto(args, n) == Positionals(args) \cap 1..n

Rank(P, m) == Cardinality({k \in P : k <= m})

LEMMA RankGrows ==
  ASSUME NEW n \in Nat, NEW P \in SUBSET (1..n)
  PROVE  LET Q == P \cup {n + 1} IN
         /\ IsFiniteSet(P) /\ Cardinality(P) \in Nat /\ Cardinality(Q) = Cardinality(P) + 1
         /\ \A m \in P : Rank(Q, m) = Rank(P, m) /\ Rank(P, m) \in 1..Cardinality(P)
         /\ Rank(Q, n + 1) = Cardinality(P) + 1
<1> DEFINE Q == P \cup {n + 1}
<1>1. IsFiniteSet(P)
  <2>1. IsFiniteSet(1..n)
    BY FS_Interval
  <2> QED BY <2>1, FS_Subset
<1>2. Cardinality(P) \in Nat
  BY <1>1, FS_CardinalityType
<1>3. Cardinality(Q) = Cardinality(P) + 1
  <2>1. n + 1 \notin P
    OBVIOUS
  <2> QED BY <1>1, <2>1, FS_AddElement
<1>4. ASSUME NEW m \in P PROVE Rank(Q, m) = Rank(P, m) /\ Rank(P, m) \in 1..Cardinality(P)
  <2> DEFINE S == {k \in P : k <= m}
  <2>1. {k \in Q : k <= m} = S
    OBVIOUS
  <2>2. S \subseteq P /\ m \in S
    OBVIOUS
  <2> HIDE DEF S
  <2>3. IsFiniteSet(S) /\ Cardinality(S) <= Cardinality(P)
    BY <1>1, <2>2, FS_Subset
  <2>4. Cardinality(S) \in Nat /\ Cardinality(S) # 0
    BY <2>2, <2>3, FS_CardinalityType, FS_EmptySet
  <2>5. Cardinality(S) \in 1..Cardinality(P)
    BY <1>2, <2>3, <2>4
  <2> QED BY <2>1, <2>5 DEF Rank, S
<1>5. Rank(Q, n + 1) = Cardinality(P) + 1
  <2>1. \A k \in Q : k <= n + 1
    OBVIOUS
  <2>2. {k \in Q : k <= n + 1} = Q
    <3> HIDE DEF Q
    <3> QED BY <2>1
  <2> QED BY <1>3, <2>2 DEF Rank
<1> QED BY <1>1, <1>2, <1>3, <1>4, <1>5

LEMMA UptoNext ==
  ASSUME NEW args, NEW n \in Nat, n + 1 \in DOMAIN args
  PROVE  /\ OptionValues(args)[n + 1] \/ IsOption(args, n + 1) => Upto(args, n + 1) = Upto(args, n)
         /\ ~OptionValues(args)[n + 1] /\ ~IsOption(args, n + 1) =>
              Upto(args, n + 1) = Upto(args, n) \cup {n + 1}
<1> DEFINE P == Positionals(args)
<1>1. n + 1 \in P <=> ~OptionValues(args)[n + 1] /\ ~IsOption(args, n + 1)
  BY DEF Positionals
<1>2. 1..(n + 1) = 1..n \cup {n + 1}
  OBVIOUS
<1> HIDE DEF P
<1> QED BY <1>1, <1>2 DEF Upto, P

(* Every place up to the number of positionals is taken. *)
LEMMA RanksTaken ==
  ASSUME NEW args
  PROVE  \A n \in Nat : \A r \in 1..Cardinality(Upto(args, n)) :
           \E m \in Upto(args, n) : Rank(Upto(args, n), m) = r
<1> DEFINE Good(n) == \A r \in 1..Cardinality(Upto(args, n)) :
                        \E m \in Upto(args, n) : Rank(Upto(args, n), m) = r
           T == {n \in Nat : Good(n)}
<1>1. 0 \in T
  <2>1. Upto(args, 0) = {}
    BY DEF Upto
  <2> QED BY <2>1, FS_EmptySet
<1>2. ASSUME NEW n \in Nat, n \in T PROVE n + 1 \in T
  <2> DEFINE P == Upto(args, n)
             Q == Upto(args, n + 1)
  <2>1. P \in SUBSET (1..n) /\ Good(n)
    BY <1>2 DEF Upto
  <2>2. Q = P \/ Q = P \cup {n + 1}
    <3>1. 1..(n + 1) = 1..n \cup {n + 1}
      OBVIOUS
    <3> QED BY <3>1 DEF Upto
  <2> HIDE DEF P, Q
  <2>3. CASE Q = P
    BY <2>1, <2>3 DEF P, Q
  <2>4. CASE Q = P \cup {n + 1}
    <3>1. /\ Cardinality(P) \in Nat /\ Cardinality(Q) = Cardinality(P) + 1
          /\ \A m \in P : Rank(Q, m) = Rank(P, m)
          /\ Rank(Q, n + 1) = Cardinality(P) + 1
      BY <2>1, <2>4, RankGrows
    <3>2. ASSUME NEW r \in 1..Cardinality(Q) PROVE \E m \in Q : Rank(Q, m) = r
      <4>1. CASE r = Cardinality(P) + 1
        BY <2>4, <3>1, <4>1
      <4>2. CASE r # Cardinality(P) + 1
        <5>1. r \in 1..Cardinality(P)
          BY <3>1, <4>2
        <5>2. PICK m \in P : Rank(P, m) = r
          BY <2>1, <5>1 DEF P
        <5> QED BY <2>4, <3>1, <5>2
      <4> QED BY <4>1, <4>2
    <3> QED BY <3>2 DEF Q
  <2> QED BY <2>2, <2>3, <2>4
<1> HIDE DEF T
<1>3. Nat \subseteq T
  BY <1>1, <1>2, Arguing!Inductive
<1> QED BY <1>3 DEF T

-----------------------------------------------------------------------------
(* What the loop knows after n words. *)
Tells(x, r, e, args, P) ==
  /\ Cardinality(P) < r => x = e
  /\ \A m \in P : Rank(P, m) = r => x = args[m]

TellsLast(x, e, args, P) ==
  /\ Cardinality(P) < 3 => x = e
  /\ \A m \in P : Rank(P, m) >= 3 /\ Rank(P, m) = Cardinality(P) => x = args[m]

Kobold(args, n) == \E k \in 1..n : ~OptionValues(args)[k] /\ args[k] = "--kobold"

ArgsInv(env, args, n, o) ==
  LET P == Upto(args, n) IN
  /\ o.skip <=> n < Len(args) /\ OptionValues(args)[n + 1]
  /\ o.n_pos = Cardinality(P)
  /\ o.cfg.kobold \in BOOLEAN /\ (o.cfg.kobold <=> Kobold(args, n))
  /\ Tells(o.cfg.base_url, 1, env.base_url, args, P)
  /\ Tells(o.cfg.model, 2, env.model, args, P)
  /\ TellsLast(o.cfg.api_key, env.api_key, args, P)
  /\ \A k \in 1..Len(args) : k <= n + 1 /\ OptionValues(args)[k] =>
       \E key \in Valued : o.cfg[key] # Null

LEMMA ValuesAre ==
  ASSUME NEW env \in [EnvKeys -> STRING \cup {Null}], NEW args \in Seq(STRING)
  PROVE  LET V == OptionValues(args) IN
         /\ 1 \in DOMAIN args => ~V[1]
         /\ \A n \in 1..Len(args) :
              V[n] <=> n > 1 /\ args[n - 1] \in Valued /\ ~V[n - 1]
<1> DEFINE V == OptionValues(args)
<1>1. V = [n \in 0..Len(args) |-> n > 1 /\ args[n - 1] \in Valued /\ ~V[n - 1]]
  BY ValuesExist DEF IsValues
<1> HIDE DEF V
<1>2. \A n \in 1..Len(args) : V[n] <=> n > 1 /\ args[n - 1] \in Valued /\ ~V[n - 1]
  <2> SUFFICES ASSUME NEW n \in 1..Len(args)
               PROVE  V[n] <=> n > 1 /\ args[n - 1] \in Valued /\ ~V[n - 1]
    OBVIOUS
  <2>1. n \in 0..Len(args)
    OBVIOUS
  <2>2. V[n] = (n > 1 /\ args[n - 1] \in Valued /\ ~V[n - 1])
    BY <1>1, <2>1, Zenon
  <2> QED BY <2>2, Zenon
<1>3. ASSUME 1 \in DOMAIN args PROVE ~V[1]
  BY <1>2, <1>3
<1> QED BY <1>2, <1>3 DEF V

LEMMA ArgsInvStart ==
  ASSUME NEW env \in [EnvKeys -> STRING \cup {Null}], NEW args \in Seq(STRING)
  PROVE  ArgsInv(env, args, 0, StartOf(env, args))
<1> DEFINE o == StartOf(env, args)
           V == OptionValues(args)
<1>1. /\ ~o.skip /\ o.n_pos = 0 /\ o.cfg.kobold = FALSE /\ Carries(o.cfg, env)
  BY StartIs, Zenon
<1>2. Upto(args, 0) = {} /\ Cardinality(Upto(args, 0)) = 0
  BY FS_EmptySet DEF Upto
<1>3. 1 \in DOMAIN args => ~V[1]
  BY ValuesAre, Zenon
<1> HIDE DEF o, V
<1>4. o.cfg.base_url = env.base_url /\ o.cfg.model = env.model /\ o.cfg.api_key = env.api_key
  BY <1>1 DEF EnvKeys, Carries
<1>5. Kobold(args, 0) = FALSE
  BY DEF Kobold
<1>6. \A k \in 1..Len(args) : k <= 0 + 1 => ~V[k]
  BY <1>3
<1>7. ~(0 < Len(args) /\ V[0 + 1])
  BY <1>3
<1> QED BY <1>1, <1>2, <1>4, <1>5, <1>6, <1>7 DEF ArgsInv, Tells, TellsLast, V, o

(* What a further positional makes of what is known. *)
LEMMA TellsNext ==
  ASSUME NEW n \in Nat, NEW P \in SUBSET (1..n), NEW args, NEW x, NEW y, NEW e, NEW r \in Nat,
         Tells(x, r, e, args, P), y = IF Cardinality(P) + 1 = r THEN args[n + 1] ELSE x
  PROVE  Tells(y, r, e, args, P \cup {n + 1})
<1> DEFINE Q == P \cup {n + 1}
<1>1. /\ Cardinality(P) \in Nat /\ Cardinality(Q) = Cardinality(P) + 1
      /\ \A m \in P : Rank(Q, m) = Rank(P, m) /\ Rank(P, m) \in 1..Cardinality(P)
      /\ Rank(Q, n + 1) = Cardinality(P) + 1
  BY RankGrows
<1>2. Cardinality(Q) < r => y = e
  BY <1>1 DEF Tells
<1>3. ASSUME NEW m \in Q, Rank(Q, m) = r PROVE y = args[m]
  <2>1. CASE m = n + 1
    BY <1>1, <1>3, <2>1
  <2>2. CASE m \in P
    <3>1. Rank(P, m) = r /\ r <= Cardinality(P)
      BY <1>1, <1>3, <2>2
    <3> QED BY <1>1, <2>2, <3>1 DEF Tells
  <2> QED BY <2>1, <2>2
<1> QED BY <1>2, <1>3 DEF Tells

LEMMA TellsLastNext ==
  ASSUME NEW n \in Nat, NEW P \in SUBSET (1..n), NEW args, NEW x, NEW y, NEW e,
         TellsLast(x, e, args, P), y = IF Cardinality(P) < 2 THEN x ELSE args[n + 1]
  PROVE  TellsLast(y, e, args, P \cup {n + 1})
<1> DEFINE Q == P \cup {n + 1}
<1>1. /\ Cardinality(P) \in Nat /\ Cardinality(Q) = Cardinality(P) + 1
      /\ \A m \in P : Rank(Q, m) = Rank(P, m) /\ Rank(P, m) \in 1..Cardinality(P)
      /\ Rank(Q, n + 1) = Cardinality(P) + 1
  BY RankGrows
<1>2. Cardinality(Q) < 3 => y = e
  BY <1>1 DEF TellsLast
<1>3. ASSUME NEW m \in Q, Rank(Q, m) >= 3, Rank(Q, m) = Cardinality(Q) PROVE y = args[m]
  <2>1. m = n + 1
    <3>1. m \notin P
      BY <1>1, <1>3
    <3> QED BY <3>1
  <2> QED BY <1>1, <1>3, <2>1
<1> QED BY <1>2, <1>3 DEF TellsLast

LEMMA PlaceIs ==
  ASSUME NEW p \in Nat
  PROVE  /\ Place(p) = "base_url" <=> p = 0
         /\ Place(p) = "model" <=> p = 1
         /\ Place(p) = "api_key" <=> p >= 2
         /\ Place(p) \in EnvKeys
<1>1. Places[1] = "base_url" /\ Places[2] = "model" /\ Places[3] = "api_key"
  BY DEF Places
<1>2. p = 0 \/ p = 1 \/ p >= 2
  OBVIOUS
<1> QED BY <1>1, <1>2 DEF Place, EnvKeys

LEMMA ArgsInvStep ==
  ASSUME NEW env \in [EnvKeys -> STRING \cup {Null}], NEW args \in Seq(STRING),
         Null \notin STRING, NEW n \in Nat, n + 1 \in DOMAIN args,
         NEW o, Skipping(o), o.args = args, ArgsInv(env, args, n, o)
  PROVE  ArgsInv(env, args, n + 1, ArgStep(o, n + 1))
<1> DEFINE j == n + 1
           P == Upto(args, n)
           Q == Upto(args, j)
           V == OptionValues(args)
           c == o.cfg
           s == ArgStep(o, j)
           d == s.cfg
           p == o.n_pos
           w == args[j]
<1>1. /\ o.skip <=> n < Len(args) /\ V[j]
      /\ p = Cardinality(P) /\ c.kobold \in BOOLEAN /\ (c.kobold <=> Kobold(args, n))
      /\ Tells(c.base_url, 1, env.base_url, args, P)
      /\ Tells(c.model, 2, env.model, args, P)
      /\ TellsLast(c.api_key, env.api_key, args, P)
      /\ \A k \in 1..Len(args) : k <= j /\ V[k] => \E key \in Valued : c[key] # Null
  BY Zenon DEF ArgsInv
<1>2. j \in 1..Len(args) /\ j \in DOMAIN args /\ w \in STRING /\ w # Null /\ n < Len(args)
      /\ j \in Nat
  OBVIOUS
<1>3. j < Len(args) => (V[j + 1] <=> w \in Valued /\ ~V[j])
  <2> SUFFICES ASSUME j < Len(args) PROVE V[j + 1] <=> w \in Valued /\ ~V[j]
    OBVIOUS
  <2>1. j + 1 \in 1..Len(args) /\ j + 1 > 1 /\ j + 1 - 1 = j
    BY <1>2
  <2> DEFINE i == j + 1
  <2> HIDE DEF i, V
  <2>2. V[i] <=> i > 1 /\ args[i - 1] \in Valued /\ ~V[i - 1]
    BY <2>1, ValuesAre DEF i, V
  <2> QED BY <2>1, <2>2 DEF i
<1>4. /\ ConfigLike(c) /\ o.skip \in BOOLEAN /\ p \in Nat /\ StateIs(o, args, o.skip, p, c)
  BY DEF Skipping, StateIs
<1>5. s.skip <=> ~o.skip /\ w \in Valued /\ j < Len(args)
  BY <1>2, StepKeepsShape
<1>6. /\ V[j] \/ IsOption(args, j) => Q = P
      /\ ~V[j] /\ ~IsOption(args, j) => Q = P \cup {j}
  BY <1>2, UptoNext
<1>7. /\ o.skip => StateIs(s, args, FALSE, p, c)
      /\ ~o.skip /\ w = "--kobold" => StateIs(s, args, FALSE, p, [c EXCEPT !["kobold"] = TRUE])
      /\ ~o.skip /\ w \in Valued /\ j < Len(args) =>
           StateIs(s, args, TRUE, p, [c EXCEPT ![w] = args[j + 1]])
      /\ ~o.skip /\ ~IsOption(args, j) => StateIs(s, args, FALSE, p + 1, [c EXCEPT ![Place(p)] = w])
  BY <1>2, <1>4, ArgStepIs
<1>8. Kobold(args, j) <=> Kobold(args, n) \/ (~V[j] /\ w = "--kobold")
  <2>1. 1..j = 1..n \cup {j}
    BY <1>2
  <2> HIDE DEF j
  <2> QED BY <2>1 DEF Kobold
<1>9. DOMAIN c = CfgKeys /\ EnvKeys \subseteq CfgKeys /\ Valued \subseteq CfgKeys
      /\ "kobold" \in CfgKeys /\ "kobold" \notin EnvKeys /\ "kobold" \notin Valued
      /\ \A k \in Valued : k \notin EnvKeys
  BY <1>4 DEF ConfigLike, CfgKeys, EnvKeys, Valued
<1>10. {"base_url", "model", "api_key"} = EnvKeys
  BY DEF EnvKeys
<1>11. P \in SUBSET (1..n)
  BY DEF Upto
<1> HIDE DEF j, P, Q, V, c, s, d, p, w
(* What is left to show in each case. *)
<1>13. ASSUME s.n_pos = Cardinality(Q),
              d.kobold \in BOOLEAN, d.kobold <=> c.kobold \/ (~V[j] /\ w = "--kobold"),
              Tells(d.base_url, 1, env.base_url, args, Q),
              Tells(d.model, 2, env.model, args, Q),
              TellsLast(d.api_key, env.api_key, args, Q),
              \A key \in Valued : c[key] # Null => d[key] # Null,
              j < Len(args) /\ V[j + 1] => \E key \in Valued : d[key] # Null
       PROVE  ArgsInv(env, args, j, s)
  <2>1. s.skip <=> j < Len(args) /\ V[j + 1]
    BY <1>1, <1>2, <1>3, <1>5
  <2>2. d.kobold <=> Kobold(args, j)
    BY <1>1, <1>8, <1>13
  <2>3. ASSUME NEW k \in 1..Len(args), k <= j + 1, V[k] PROVE \E key \in Valued : d[key] # Null
    <3>1. CASE k <= j
      BY <1>1, <1>13, <2>3, <3>1
    <3>2. CASE k = j + 1
      <4>1. j < Len(args)
        BY <1>2, <2>3, <3>2
      <4> QED BY <1>13, <2>3, <3>2, <4>1
    <3> QED BY <1>2, <2>3, <3>1, <3>2
  <2> QED BY <1>13, <2>1, <2>2, <2>3 DEF ArgsInv, Q, V, d
<1>14. CASE V[j]
  <2>1. StateIs(s, args, FALSE, p, c) /\ Q = P
    BY <1>1, <1>2, <1>6, <1>7, <1>14
  <2>2. s.n_pos = p /\ d = c
    BY <2>1 DEF StateIs, d
  <2>3. s.n_pos = Cardinality(Q)
    BY <1>1, <2>1, <2>2
  <2>4. d.kobold \in BOOLEAN /\ (d.kobold <=> c.kobold \/ (~V[j] /\ w = "--kobold"))
    BY <1>1, <1>14, <2>2
  <2>5. /\ Tells(d.base_url, 1, env.base_url, args, Q)
        /\ Tells(d.model, 2, env.model, args, Q)
        /\ TellsLast(d.api_key, env.api_key, args, Q)
    BY <1>1, <2>1, <2>2
  <2>6. \A key \in Valued : c[key] # Null => d[key] # Null
    BY <2>2
  <2>7. j < Len(args) /\ V[j + 1] => \E key \in Valued : d[key] # Null
    BY <1>3, <1>14
  <2> QED BY <1>13, <2>3, <2>4, <2>5, <2>6, <2>7, Zenon DEF j, s
<1>15. CASE ~V[j] /\ w = "--kobold"
  <2>1. StateIs(s, args, FALSE, p, [c EXCEPT !["kobold"] = TRUE])
    BY <1>1, <1>7, <1>15
  <2>2. Q = P
    BY <1>6, <1>15 DEF IsOption, w
  <2>3. s.n_pos = p /\ d = [c EXCEPT !["kobold"] = TRUE]
    BY <2>1 DEF StateIs, d
  <2>4. /\ d.kobold = TRUE /\ \A k \in EnvKeys \cup Valued : d[k] = c[k]
    BY <1>9, <2>3
  <2>5. d.base_url = c.base_url /\ d.model = c.model /\ d.api_key = c.api_key
    BY <1>10, <2>4
  <2>6. w \notin Valued
    BY <1>15 DEF Valued
  <2>7. s.n_pos = Cardinality(Q)
    BY <1>1, <2>2, <2>3
  <2>8. d.kobold \in BOOLEAN /\ (d.kobold <=> c.kobold \/ (~V[j] /\ w = "--kobold"))
    BY <1>15, <2>4
  <2>9. /\ Tells(d.base_url, 1, env.base_url, args, Q)
        /\ Tells(d.model, 2, env.model, args, Q)
        /\ TellsLast(d.api_key, env.api_key, args, Q)
    BY <1>1, <2>2, <2>5
  <2>10. \A key \in Valued : c[key] # Null => d[key] # Null
    BY <2>4
  <2>11. j < Len(args) /\ V[j + 1] => \E key \in Valued : d[key] # Null
    BY <1>3, <2>6
  <2> QED BY <1>13, <2>7, <2>8, <2>9, <2>10, <2>11, Zenon DEF j, s
<1>16. CASE ~V[j] /\ w \in Valued /\ j < Len(args)
  <2>1. StateIs(s, args, TRUE, p, [c EXCEPT ![w] = args[j + 1]])
    BY <1>1, <1>7, <1>16
  <2>2. Q = P
    BY <1>6, <1>16 DEF IsOption, w
  <2>3. s.n_pos = p /\ d = [c EXCEPT ![w] = args[j + 1]]
    BY <2>1 DEF StateIs, d
  <2>4. args[j + 1] \in STRING
    BY <1>2, <1>16
  <2>5. d[w] # Null /\ \A k \in CfgKeys : k # w => d[k] = c[k]
    BY <1>9, <1>16, <2>3, <2>4
  <2>6. d.base_url = c.base_url /\ d.model = c.model /\ d.api_key = c.api_key
        /\ d.kobold = c.kobold
    BY <1>9, <1>10, <1>16, <2>5
  <2>7. \A key \in Valued : c[key] # Null => d[key] # Null
    BY <1>9, <2>5
  <2>8. w # "--kobold"
    BY <1>16 DEF Valued
  <2>9. \E key \in Valued : d[key] # Null
    BY <1>16, <2>5
  <2>10. s.n_pos = Cardinality(Q)
    BY <1>1, <2>2, <2>3
  <2>11. d.kobold \in BOOLEAN /\ (d.kobold <=> c.kobold \/ (~V[j] /\ w = "--kobold"))
    BY <1>1, <2>6, <2>8
  <2>12. /\ Tells(d.base_url, 1, env.base_url, args, Q)
        /\ Tells(d.model, 2, env.model, args, Q)
        /\ TellsLast(d.api_key, env.api_key, args, Q)
    BY <1>1, <2>2, <2>6
  <2>13. \A key \in Valued : c[key] # Null => d[key] # Null
    BY <2>7
  <2>14. j < Len(args) /\ V[j + 1] => \E key \in Valued : d[key] # Null
    BY <2>9
  <2> QED BY <1>13, <2>10, <2>11, <2>12, <2>13, <2>14, Zenon DEF j, s
<1>17. CASE ~V[j] /\ ~IsOption(args, j)
  <2>1. StateIs(s, args, FALSE, p + 1, [c EXCEPT ![Place(p)] = w])
    BY <1>1, <1>7, <1>17
  <2>2. Q = P \cup {n + 1} /\ j = n + 1
    BY <1>6, <1>17 DEF j
  <2>3. s.n_pos = p + 1 /\ d = [c EXCEPT ![Place(p)] = w]
    BY <2>1 DEF StateIs, d
  <2>4. s.n_pos = Cardinality(Q)
    BY <1>1, <1>11, <2>2, <2>3, RankGrows
  <2>5. Place(p) \in EnvKeys
    BY <1>4, PlaceIs
  <2>6. \A k \in CfgKeys : d[k] = IF k = Place(p) THEN w ELSE c[k]
    BY <1>9, <2>3, <2>5
  <2>7. /\ d.base_url = IF p = 0 THEN w ELSE c.base_url
        /\ d.model = IF p = 1 THEN w ELSE c.model
        /\ d.api_key = IF p >= 2 THEN w ELSE c.api_key
    BY <1>4, <1>9, <1>10, <2>6, PlaceIs
  <2>8. d.kobold = c.kobold /\ \A k \in Valued : d[k] = c[k]
    BY <1>9, <2>5, <2>6
  <2>9. w = args[n + 1] /\ p \in Nat /\ p = Cardinality(P)
    BY <1>1, <1>4 DEF w, j
  <2>10. Tells(d.base_url, 1, env.base_url, args, Q)
    <3>1. d.base_url = IF Cardinality(P) + 1 = 1 THEN args[n + 1] ELSE c.base_url
      BY <2>7, <2>9
    <3> QED BY <1>1, <1>11, <2>2, <3>1, TellsNext
  <2>11. Tells(d.model, 2, env.model, args, Q)
    <3>1. d.model = IF Cardinality(P) + 1 = 2 THEN args[n + 1] ELSE c.model
      BY <2>7, <2>9
    <3> QED BY <1>1, <1>11, <2>2, <3>1, TellsNext
  <2>12. TellsLast(d.api_key, env.api_key, args, Q)
    <3>1. d.api_key = IF Cardinality(P) < 2 THEN c.api_key ELSE args[n + 1]
      BY <2>7, <2>9
    <3> QED BY <1>1, <1>11, <2>2, <3>1, TellsLastNext
  <2>13. ~(j < Len(args) /\ V[j + 1])
    BY <1>3, <1>17 DEF IsOption, w
  <2>14. w # "--kobold"
    BY <1>17 DEF IsOption, w
  <2>15. d.kobold \in BOOLEAN /\ (d.kobold <=> c.kobold \/ (~V[j] /\ w = "--kobold"))
    BY <1>1, <2>8, <2>14
  <2>16. \A key \in Valued : c[key] # Null => d[key] # Null
    BY <2>8
  <2> QED BY <1>13, <2>4, <2>10, <2>11, <2>12, <2>13, <2>15, <2>16, Zenon DEF j, s
<1>18. V[j] \/ (~V[j] /\ w = "--kobold") \/ (~V[j] /\ w \in Valued /\ j < Len(args))
       \/ (~V[j] /\ ~IsOption(args, j))
  BY DEF IsOption, w
<1> QED BY <1>14, <1>15, <1>16, <1>17, <1>18 DEF s, j

LEMMA ArgsInvHolds ==
  ASSUME NEW env \in [EnvKeys -> STRING \cup {Null}], NEW args \in Seq(STRING),
         Null \notin STRING
  PROVE  \A n \in 0..Len(args) : ArgsInv(env, args, n, After(env, args, n))
<1> DEFINE Good(n) == ArgsInv(env, args, n, After(env, args, n))
           D == {n \in 0..Len(args) : ~Good(n)}
<1> SUFFICES ASSUME D # {} PROVE FALSE
  OBVIOUS
<1>1. PICK n \in D : \A m \in D : n <= m
  <2>1. D \in SUBSET Nat
    OBVIOUS
  <2> HIDE DEF D
  <2> QED BY <2>1, LeastNat
<1>2. Good(0)
  <2>1. ArgsInv(env, args, 0, StartOf(env, args))
    BY ArgsInvStart
  <2> QED BY <2>1, AfterSteps
<1>3. n # 0
  BY <1>1, <1>2
<1> DEFINE m == n - 1
<1>4. m \in 0..Len(args) /\ m + 1 \in DOMAIN args /\ m \in Nat /\ m + 1 = n /\ n \in 1..Len(args)
  BY <1>3
<1>5. Good(m)
  BY <1>1, <1>4
<1> DEFINE o == After(env, args, m)
<1> HIDE DEF o, m
<1>6. Skipping(o) /\ o.args = args
  BY <1>4, TraceIs DEF o
<1>7. ArgsInv(env, args, m + 1, ArgStep(o, m + 1))
  BY <1>4, <1>5, <1>6, ArgsInvStep DEF o
<1>8. After(env, args, n) = ArgStep(o, m + 1)
  BY <1>4, SkipsNext DEF o, m
<1>9. Good(n)
  BY <1>4, <1>7, <1>8
<1> QED BY <1>1, <1>9

(* Who says the n-th word. *)
LEMMA SaidIs ==
  ASSUME NEW args \in Seq(STRING), NEW r \in Nat \ {0}, NEW e, NEW x,
         Tells(x, r, e, args, Positionals(args))
  PROVE  x = Said(args, r, e)
<1> DEFINE P == Positionals(args)
<1>1. P = Upto(args, Len(args))
  BY DEF Upto, Positionals
<1>2. Len(args) \in Nat /\ P \in SUBSET (1..Len(args))
  BY DEF Positionals
<1>3. Cardinality(P) \in Nat
  BY <1>2, RankGrows
<1>4. CASE Cardinality(P) < r
  BY <1>4 DEF Said, Tells
<1>5. CASE ~(Cardinality(P) < r)
  <2>1. r \in 1..Cardinality(P)
    BY <1>3, <1>5
  <2>2. \E m \in P : Rank(P, m) = r
    BY <1>1, <1>2, <2>1, RanksTaken
  <2> DEFINE m == CHOOSE m \in P : Cardinality({k \in P : k <= m}) = r
  <2>3. m \in P /\ Rank(P, m) = r
    BY <2>2 DEF Rank
  <2>4. Said(args, r, e) = args[m]
    BY <1>5 DEF Said
  <2> HIDE DEF m, P
  <2> QED BY <2>3, <2>4 DEF Tells, P
<1> QED BY <1>4, <1>5

LEMMA SaidLast ==
  ASSUME NEW args \in Seq(STRING), NEW e, NEW x, TellsLast(x, e, args, Positionals(args))
  PROVE  x = Said(args, Max({3, Cardinality(Positionals(args))}), e)
<1> DEFINE P == Positionals(args)
           c == Cardinality(P)
           r == Max({3, c})
<1>1. P \in SUBSET (1..Len(args)) /\ Len(args) \in Nat
  BY DEF Positionals
<1>2. c \in Nat
  BY <1>1, RankGrows
<1> HIDE DEF c
<1>3. r = IF c < 3 THEN 3 ELSE c
  <2>1. \E m \in {3, c} : \A k \in {3, c} : m >= k
    BY <1>2
  <2>2. r \in {3, c} /\ \A k \in {3, c} : r >= k
    BY <2>1, Zenon DEF Max
  <2> QED BY <1>2, <2>2
<1> HIDE DEF r
<1>4. r \in Nat \ {0} /\ (c < r <=> c < 3)
  BY <1>2, <1>3
<1>5. Tells(x, r, e, args, P)
  <2>1. c < r => x = e
    BY <1>4 DEF TellsLast, c
  <2>2. ASSUME NEW m \in P, Rank(P, m) = r PROVE x = args[m]
    <3>1. Rank(P, m) \in 1..c
      BY <1>1, RankGrows DEF c
    <3>2. r >= 3 /\ r = c
      BY <1>2, <1>3, <2>2, <3>1
    <3> QED BY <2>2, <3>2 DEF TellsLast, c
  <2> QED BY <2>1, <2>2 DEF Tells, c
<1> QED BY <1>4, <1>5, SaidIs DEF r, c

(* What the arguments say. *)
LEMMA ArgumentsAre ==
  ASSUME NEW env \in [EnvKeys -> STRING \cup {Null}], NEW args \in Seq(STRING),
         Null \notin STRING
  PROVE  LET got == ParseArgs(env, args)
             cfg == got.cfg
             d   == make_client(cfg)
             key == Said(args, Max({3, Cardinality(Positionals(args))}), env.api_key)
         IN /\ cfg.base_url = Said(args, 1, env.base_url)
            /\ cfg.model = Said(args, 2, env.model)
            /\ cfg.api_key = IF key = "" THEN Null ELSE key
            /\ got.runs <=> Null \notin {d.base_url, d.model}
            /\ cfg.kobold <=> \E n \in DOMAIN args : ~OptionValues(args)[n] /\ args[n] = "--kobold"
            /\ d.assist <=> cfg.kobold
            /\ \A n \in DOMAIN args : OptionValues(args)[n] => \E k \in Valued : cfg[k] # Null
<1> DEFINE L == Len(args)
           o == After(env, args, L)
           read == o.cfg
           got == ParseArgs(env, args)
           cfg == got.cfg
           V == OptionValues(args)
<1>1. /\ cfg = [read EXCEPT !.api_key = IF @ = "" THEN Null ELSE @]
      /\ got.runs = (cfg.base_url # Null /\ cfg.model # Null)
  <2>1. Ident(L) = [n \in DOMAIN args |-> n]
    BY DEF Ident
  <2>2. o = FoldLeft(ArgStep, StartOf(env, args), [n \in DOMAIN args |-> n])
    BY <2>1 DEF After, Arguing!Fold, Arguing!FoldLeft, FoldLeft, Arguing!MapThenFoldSet,
                MapThenFoldSet, Arguing!Max, Max
  <2> HIDE DEF o
  <2>3. got = LET c == [read EXCEPT !.api_key = IF @ = "" THEN Null ELSE @]
              IN  [cfg |-> c, runs |-> c.base_url # Null /\ c.model # Null]
    BY <2>2, Zenon DEF ParseArgs, StartOf
  <2> HIDE DEF read, got
  <2> QED BY <2>3
<1>2. L \in 0..L /\ L \in Nat
  OBVIOUS
<1>3. Upto(args, L) = Positionals(args)
  BY DEF Upto, Positionals
<1>4. /\ read.kobold \in BOOLEAN /\ (read.kobold <=> Kobold(args, L))
      /\ Tells(read.base_url, 1, env.base_url, args, Positionals(args))
      /\ Tells(read.model, 2, env.model, args, Positionals(args))
      /\ TellsLast(read.api_key, env.api_key, args, Positionals(args))
      /\ \A k \in 1..L : k <= L + 1 /\ V[k] => \E key \in Valued : read[key] # Null
  <2>1. ArgsInv(env, args, L, o)
    BY <1>2, ArgsInvHolds, Zenon
  <2> HIDE DEF o
  <2> QED BY <1>3, <2>1, Zenon DEF ArgsInv
<1>5. ConfigLike(read)
  BY <1>2, TraceIs DEF Skipping
<1> HIDE DEF read, cfg, got
<1>6. /\ cfg.api_key = IF read.api_key = "" THEN Null ELSE read.api_key
      /\ \A k \in CfgKeys : k # "api_key" => cfg[k] = read[k]
  BY <1>1, <1>5 DEF ConfigLike, CfgKeys
<1>7. cfg.base_url = read.base_url /\ cfg.model = read.model /\ cfg.kobold = read.kobold
      /\ \A k \in Valued : cfg[k] = read[k]
  BY <1>6 DEF CfgKeys, Valued
<1>8. /\ read.base_url = Said(args, 1, env.base_url) /\ read.model = Said(args, 2, env.model)
      /\ read.api_key = Said(args, Max({3, Cardinality(Positionals(args))}), env.api_key)
  BY <1>4, SaidIs, SaidLast
<1>9. /\ make_client(cfg).base_url = cfg.base_url /\ make_client(cfg).model = cfg.model
      /\ make_client(cfg).assist = cfg.kobold
  BY DEF make_client
<1>10. cfg.kobold <=> \E n \in DOMAIN args : ~V[n] /\ args[n] = "--kobold"
  BY <1>4, <1>7 DEF Kobold
<1>11. \A n \in DOMAIN args : V[n] => \E k \in Valued : cfg[k] # Null
  <2>1. \A n \in DOMAIN args : n \in 1..L /\ n <= L + 1
    OBVIOUS
  <2> QED BY <1>4, <1>7, <2>1
<1>12. got.runs <=> Null \notin {make_client(cfg).base_url, make_client(cfg).model}
  BY <1>1, <1>9
<1>13. make_client(cfg).assist <=> cfg.kobold
  BY <1>9
<1> QED BY <1>6, <1>7, <1>8, <1>10, <1>11, <1>12, <1>13 DEF cfg, got

-----------------------------------------------------------------------------
(* URLs.  s is where the scheme ends, e the third slash or the end.        *)
HasOrigin(url, s, e) ==
  /\ s \in 2..Len(url) /\ e \in (s + 1)..(Len(url) + 1)
  /\ url[s - 1] = "/" /\ url[s] = "/"
  /\ \A k \in 1..(e - 1) : url[k] = "/" => k = s - 1 \/ k = s
  /\ e <= Len(url) => url[e] = "/"

LEMMA SlashesAre ==
  ASSUME NEW T, NEW url \in Seq(T), NEW s, NEW e, HasOrigin(url, s, e), NEW n \in 0..Len(url)
  PROVE  /\ SlashesTo(url, n) <= 2 <=> n < e
         /\ s <= n /\ n < e => SlashesTo(url, n) = 2
<1> DEFINE S == {k \in 1..n : url[k] = "/"}
<1>1. /\ s \in 2..Len(url) /\ e \in (s + 1)..(Len(url) + 1) /\ Len(url) \in Nat
      /\ url[s - 1] = "/" /\ url[s] = "/"
      /\ \A k \in 1..(e - 1) : url[k] = "/" => k = s - 1 \/ k = s
      /\ e <= Len(url) => url[e] = "/"
  BY DEF HasOrigin
<1>2. IsFiniteSet(1..n) /\ S \subseteq 1..n
  BY FS_Interval
<1>3. IsFiniteSet(S)
  BY <1>2, FS_Subset
<1>4. SlashesTo(url, n) = Cardinality(S)
  BY DEF SlashesTo
<1>5. Cardinality({s - 1, s}) = 2 /\ IsFiniteSet({s - 1, s})
  <2> DEFINE A == {s - 1}
  <2>1. s \notin A /\ {s - 1, s} = A \cup {s}
    BY <1>1
  <2>2. Cardinality(A) = 1 /\ IsFiniteSet(A)
    BY FS_Singleton
  <2> HIDE DEF A
  <2>3. IsFiniteSet(A \cup {s})
        /\ Cardinality(A \cup {s}) = IF s \in A THEN Cardinality(A) ELSE Cardinality(A) + 1
    BY <2>2, FS_AddElement
  <2>4. Cardinality(A \cup {s}) = 2 /\ IsFiniteSet(A \cup {s})
    BY <2>1, <2>2, <2>3
  <2> QED BY <2>1, <2>4
<1>6. CASE n < e
  <2>1. S \subseteq {s - 1, s}
    <3> SUFFICES ASSUME NEW k \in S PROVE k = s - 1 \/ k = s
      OBVIOUS
    <3>1. k \in 1..(e - 1) /\ url[k] = "/"
      BY <1>1, <1>6
    <3> QED BY <1>1, <3>1
  <2>2. Cardinality(S) <= 2
    <3> DEFINE A == {s - 1, s}
    <3> HIDE DEF A, S
    <3>1. Cardinality(S) <= Cardinality(A)
      <4>1. IsFiniteSet(A) /\ S \in SUBSET A
        BY <1>5, <2>1 DEF A
      <4> QED BY <4>1, FS_Subset, Zenon
    <3> QED BY <1>5, <3>1 DEF A
  <2>3. ASSUME s <= n PROVE Cardinality(S) = 2
    <3>1. {s - 1, s} \subseteq S
      BY <1>1, <2>3
    <3> HIDE DEF S
    <3>2. S = {s - 1, s}
      BY <2>1, <3>1
    <3> QED BY <1>5, <3>2
  <2> QED BY <1>4, <1>6, <2>2, <2>3
<1>7. CASE ~(n < e)
  <2>1. e <= Len(url) /\ e <= n /\ e \in 1..n /\ url[e] = "/"
    BY <1>1, <1>7
  <2> DEFINE A == {s - 1, s}
  <2>2. A \cup {e} \subseteq S
    BY <1>1, <2>1
  <2>3. e \notin A
    BY <1>1
  <2> HIDE DEF A, S
  <2>4. Cardinality(A \cup {e}) = 3
    <3>1. Cardinality(A) = 2 /\ IsFiniteSet(A)
      BY <1>5 DEF A
    <3>2. Cardinality(A \cup {e}) = IF e \in A THEN Cardinality(A) ELSE Cardinality(A) + 1
      BY <3>1, FS_AddElement
    <3> QED BY <2>3, <3>1, <3>2
  <2>5. 3 <= Cardinality(S) /\ Cardinality(S) \in Nat
    BY <1>3, <2>2, <2>4, FS_Subset, FS_CardinalityType
  <2> QED BY <1>4, <1>7, <2>5
<1> QED BY <1>6, <1>7

LEMMA OriginIs ==
  ASSUME NEW T, NEW url \in Seq(T), NEW s, NEW e, HasOrigin(url, s, e)
  PROVE  Origin(url) = SubSeq(url, 1, e - 1)
<1> DEFINE N == {n \in 0..Len(url) : SlashesTo(url, n) <= 2}
<1>1. e \in 1..(Len(url) + 1)
  BY DEF HasOrigin
<1>2. e - 1 \in N /\ \A n \in N : n <= e - 1
  <2>1. e - 1 \in 0..Len(url) /\ e - 1 < e
    BY <1>1
  <2>2. \A n \in 0..Len(url) : SlashesTo(url, n) <= 2 <=> n < e
    BY SlashesAre
  <2> QED BY <1>1, <2>1, <2>2
<1>3. N \subseteq Nat
  OBVIOUS
<1> HIDE DEF N
<1>4. Max(N) = e - 1
  <2>1. \E x \in N : \A y \in N : x >= y
    BY <1>1, <1>2, <1>3
  <2>2. Max(N) \in N /\ \A y \in N : Max(N) >= y
    BY <2>1, Zenon DEF Max
  <2> DEFINE m == Max(N)
             f == e - 1
  <2>3. f \in N /\ f \in Nat /\ m \in N /\ m \in Nat
    BY <1>2, <1>3, <2>2
  <2> HIDE DEF m, f
  <2>4. m >= f /\ m <= f
    BY <1>2, <2>2, <2>3 DEF m, f
  <2> QED BY <2>3, <2>4 DEF m, f
<1> QED BY <1>4 DEF Origin, N

(* A URL that is accepted. *)
LEMMA UrlIs ==
  ASSUME NEW T, NEW url \in Seq(T), sicha_url_validate(url) = "OK"
  PROVE  LET s == scheme_len(url) IN
         /\ s \in 2..Len(url) /\ s + 1 \in DOMAIN url /\ url[s + 1] # "/"
         /\ url[s - 1] = "/" /\ url[s] = "/" /\ \A k \in 1..(s - 2) : url[k] # "/"
<1> DEFINE s == scheme_len(url)
<1>1. s > 0 /\ Len(url) > s /\ url[s + 1] # "/"
  BY DEF sicha_url_validate
<1>2. \A c : Lower(c) = "/" <=> c = "/"
  BY DEF Lower, Capitals
<1>3. Len(Https) = 8 /\ Len(Http) = 7 /\ DOMAIN Https = 1..8 /\ DOMAIN Http = 1..7
  BY DEF Https, Http
<1>4. CASE prefix_ci(url, Https)
  <2>1. s = 8
    BY <1>3, <1>4 DEF scheme_len
  <2>2. \A n \in 1..8 : Lower(url[n]) = Https[n]
    BY <1>3, <1>4 DEF prefix_ci
  <2>3. Https[7] = "/" /\ Https[8] = "/" /\ \A n \in 1..6 : Https[n] # "/"
    BY DEF Https
  <2> HIDE DEF s
  <2> QED BY <1>1, <1>2, <2>1, <2>2, <2>3 DEF s
<1>5. CASE ~prefix_ci(url, Https)
  <2>1. prefix_ci(url, Http) /\ s = 7
    BY <1>1, <1>3, <1>5 DEF scheme_len
  <2>2. \A n \in 1..7 : Lower(url[n]) = Http[n]
    BY <1>3, <2>1 DEF prefix_ci
  <2>3. Http[6] = "/" /\ Http[7] = "/" /\ \A n \in 1..5 : Http[n] # "/"
    BY DEF Http
  <2> HIDE DEF s
  <2> QED BY <1>1, <1>2, <2>1, <2>2, <2>3 DEF s
<1> QED BY <1>4, <1>5

LEMMA UrlOriginIs ==
  ASSUME NEW T, NEW url \in Seq(T), sicha_url_validate(url) = "OK"
  PROVE  \E e : /\ HasOrigin(url, scheme_len(url), e) /\ e > scheme_len(url) + 1
                /\ sicha_url_origin(url) = SubSeq(url, 1, e - 1)
<1> DEFINE s == scheme_len(url)
           slashes == {n \in DOMAIN url : n > s /\ url[n] = "/"}
           E == slashes \cup {Len(url) + 1}
           e == CHOOSE n \in E : \A k \in slashes : n <= k
<1>1. /\ s \in 2..Len(url) /\ s + 1 \in DOMAIN url /\ url[s + 1] # "/"
      /\ url[s - 1] = "/" /\ url[s] = "/" /\ \A k \in 1..(s - 2) : url[k] # "/"
  BY UrlIs, Zenon
<1>2. sicha_url_origin(url) = SubSeq(url, 1, e - 1)
  BY DEF sicha_url_origin
<1> HIDE DEF s
<1>3. e \in E /\ \A k \in slashes : e <= k
  <2>1. E # {} /\ E \in SUBSET Nat
    BY <1>1
  <2>2. PICK n \in E : \A m \in E : n <= m
    <3> HIDE DEF E
    <3> QED BY <2>1, LeastNat
  <2>3. \A k \in slashes : n <= k
    BY <2>2
  <2> HIDE DEF E, slashes
  <2> QED BY <2>2, <2>3, Zenon
<1> HIDE DEF e
<1>4. e \in Nat /\ s < e /\ e <= Len(url) + 1
  BY <1>1, <1>3
<1>5. e <= Len(url) => url[e] = "/"
  BY <1>3, <1>4
<1>6. e # s + 1
  BY <1>1, <1>5
<1>7. ASSUME NEW k \in 1..(e - 1), url[k] = "/" PROVE k = s - 1 \/ k = s
  <2>1. k \in DOMAIN url
    BY <1>4
  <2>2. k <= s
    BY <1>1, <1>3, <1>4, <1>7, <2>1
  <2>3. k \notin 1..(s - 2)
    BY <1>1, <1>7
  <2> QED BY <1>1, <2>2, <2>3
<1>8. HasOrigin(url, s, e)
  BY <1>1, <1>4, <1>5, <1>7 DEF HasOrigin
<1> QED BY <1>1, <1>2, <1>4, <1>6, <1>8 DEF s

(* What is joined: all up to the last character that is no slash. *)
LEMMA JoinIs ==
  ASSUME NEW T, NEW url \in Seq(T), NEW path, NEW n \in DOMAIN url, url[n] # "/"
  PROVE  \E k \in n..Len(url) :
           /\ url[k] # "/" /\ \A m \in (k + 1)..Len(url) : url[m] = "/"
           /\ sicha_url_join(url, path) = SubSeq(url, 1, k) \o path
<1> DEFINE kept == {m \in DOMAIN url : url[m] # "/"}
           K == kept \cup {0}
           k == CHOOSE m \in K : \A j \in kept : j <= m
           D == {Len(url) - m : m \in kept}
<1>1. sicha_url_join(url, path) = SubSeq(url, 1, k) \o path
  BY DEF sicha_url_join
<1>2. PICK d \in D : \A y \in D : d <= y
  <2>1. D # {} /\ D \in SUBSET Nat
    OBVIOUS
  <2> HIDE DEF D
  <2> QED BY <2>1, LeastNat
<1>3. PICK l \in kept : \A j \in kept : j <= l
  <2>1. PICK l \in kept : d = Len(url) - l
    BY <1>2
  <2>2. \A j \in kept : Len(url) - j \in D
    OBVIOUS
  <2>3. \A j \in kept : Len(url) - l <= Len(url) - j
    BY <1>2, <2>1, <2>2
  <2>4. \A j \in kept : j <= l
    BY <2>1, <2>3
  <2> QED BY <2>1, <2>4
<1>4. k \in K /\ \A j \in kept : j <= k
  <2>1. l \in K
    OBVIOUS
  <2> HIDE DEF K, kept
  <2> QED BY <1>3, <2>1, Zenon
<1> HIDE DEF k
<1>5. n <= k /\ k \in DOMAIN url
  BY <1>4
<1>6. k \in n..Len(url) /\ url[k] # "/"
  BY <1>4, <1>5
<1>7. ASSUME NEW m \in (k + 1)..Len(url) PROVE url[m] = "/"
  <2>1. m \in DOMAIN url /\ ~(m <= k)
    BY <1>5
  <2> QED BY <1>4, <2>1
<1> QED BY <1>1, <1>6, <1>7

IsJoined(u, url, k, path) == u = SubSeq(url, 1, k) \o path

Joined(T, u, url, k, path) ==
  /\ u \in Seq(T) /\ Len(u) = k + Len(path)
  /\ \A n \in 1..k : u[n] = url[n]
  /\ \A n \in 1..Len(path) : u[k + n] = path[n]
  /\ SubSeq(u, 1, k) = SubSeq(url, 1, k) /\ SubSeq(u, k + 1, Len(u)) = path

LEMMA JoinedUrl ==
  ASSUME NEW T, NEW url \in Seq(T), NEW k \in DOMAIN url, NEW path \in Seq(T),
         NEW u, IsJoined(u, url, k, path)
  PROVE  Joined(T, u, url, k, path)
<1> DEFINE v == SubSeq(url, 1, k)
<1>0. u = v \o path
  BY DEF IsJoined
<1>1. v \in Seq(T) /\ Len(v) = k /\ \A n \in 1..k : v[n] = url[n]
  OBVIOUS
<1> HIDE DEF v
<1>2. u \in Seq(T) /\ Len(u) = k + Len(path)
  <2>1. v \o path \in Seq(T) /\ Len(v \o path) = Len(v) + Len(path)
    BY <1>1, ConcatProperties, Zenon
  <2> QED BY <1>0, <1>1, <2>1, Zenon
<1>3. \A n \in 1..k : u[n] = url[n]
  BY <1>0, <1>1
<1>4. \A n \in 1..Len(path) : u[k + n] = path[n]
  BY <1>0, <1>1
<1>5. SubSeq(u, 1, k) = v
  BY <1>0, <1>1
<1>6. SubSeq(u, k + 1, Len(u)) = path
  <2> DEFINE m == k + 1
             w == SubSeq(u, m, Len(u))
  <2>1. \A n \in 1..Len(path) : k + n \in 1..Len(u) /\ m + n - 1 = k + n
    BY <1>2
  <2>2. /\ m \in Int /\ Len(u) \in Int /\ \A n \in m..Len(u) : u[n] \in T
        /\ Len(u) - m + 1 = Len(path) /\ (m <= Len(u) \/ Len(path) = 0)
    BY <1>2
  <2>3. /\ w \in Seq(T) /\ Len(w) = IF m <= Len(u) THEN Len(u) - m + 1 ELSE 0
        /\ \A n \in 1..(Len(u) - m + 1) : w[n] = u[m + n - 1]
    <3> HIDE DEF m
    <3>1. \A i \in m..Len(u) : u[i] \in T
      BY <2>2
    <3>2. w \in Seq(T)
      BY <2>2, <3>1, SubSeqProperties
    <3>3. Len(w) = IF m <= Len(u) THEN Len(u) - m + 1 ELSE 0
      BY <2>2, <3>1, SubSeqProperties
    <3>4. \A n \in 1..(Len(u) - m + 1) : w[n] = u[m + n - 1]
      BY <2>2, <3>1, SubSeqProperties
    <3> QED BY <3>2, <3>3, <3>4
  <2> HIDE DEF w, m
  <2>4. Len(w) = Len(path) /\ \A n \in 1..Len(path) : w[n] = path[n]
    BY <1>2, <1>4, <2>1, <2>2, <2>3
  <2>5. w = path
    BY <2>3, <2>4, SeqEqual
  <2> QED BY <2>5 DEF w, m
<1> QED BY <1>2, <1>3, <1>4, <1>5, <1>6 DEF v, Joined

LEMMA SameFront ==
  ASSUME NEW T, NEW s \in Seq(T), NEW t \in Seq(T), NEW m \in Nat, m <= Len(s), m <= Len(t),
         \A n \in 1..m : s[n] = t[n]
  PROVE  SubSeq(s, 1, m) = SubSeq(t, 1, m)
<1> DEFINE u == SubSeq(s, 1, m)
           v == SubSeq(t, 1, m)
<1>1. u \in Seq(T) /\ Len(u) = m /\ \A n \in 1..m : u[n] = s[n]
  OBVIOUS
<1>2. v \in Seq(T) /\ Len(v) = m /\ \A n \in 1..m : v[n] = t[n]
  OBVIOUS
<1> HIDE DEF u, v
<1>3. u = v
  BY <1>1, <1>2, SeqEqual
<1> QED BY <1>3 DEF u, v

(* Where a request and an abort go. *)
LEMMA UrlsAre ==
  ASSUME NEW base \in Seq(STRING), sicha_url_validate(base) = "OK"
  PROVE  LET chat == sicha_url_join(base, ChatPath)
             kept == Len(chat) - Len(ChatPath)
         IN  /\ \E n \in DOMAIN Origin(base) : SlashesTo(base, n) = 2 /\ base[n] # "/"
             /\ Origin(chat) = Origin(base)
             /\ SubSeq(chat, kept + 1, Len(chat)) = ChatPath
             /\ IsPrefix(SubSeq(chat, 1, kept), base)
             /\ chat[kept] # "/"
             /\ \A n \in (kept + 1)..Len(base) : base[n] = "/"
             /\ sicha_url_join(sicha_url_origin(base), AbortPath) = Origin(base) \o AbortPath
<1> DEFINE T == STRING \cup {"/", "chat", "completions"}
           chat == sicha_url_join(base, ChatPath)
           kept == Len(chat) - Len(ChatPath)
           s == scheme_len(base)
<1>0. base \in Seq(T) /\ ChatPath \in Seq(T) /\ Len(ChatPath) = 4 /\ ChatPath[1] = "/"
  BY DEF ChatPath
<1> HIDE DEF T
<1>1. /\ s \in 2..Len(base) /\ s + 1 \in DOMAIN base /\ base[s + 1] # "/"
      /\ base[s - 1] = "/" /\ base[s] = "/" /\ \A k \in 1..(s - 2) : base[k] # "/"
  BY <1>0, UrlIs
<1>2. PICK e : /\ HasOrigin(base, s, e) /\ e > s + 1
               /\ sicha_url_origin(base) = SubSeq(base, 1, e - 1)
  BY <1>0, UrlOriginIs
<1> HIDE DEF s
<1>3. Origin(base) = SubSeq(base, 1, e - 1)
  BY <1>0, <1>2, OriginIs
<1>5. PICK k \in (s + 1)..Len(base) :
        /\ base[k] # "/" /\ \A m \in (k + 1)..Len(base) : base[m] = "/"
        /\ chat = SubSeq(base, 1, k) \o ChatPath
  BY <1>0, <1>1, JoinIs
<1> HIDE DEF chat
<1>6. k \in DOMAIN base
  BY <1>1, <1>5
<1>7. /\ chat \in Seq(T) /\ Len(chat) = k + Len(ChatPath)
      /\ \A n \in 1..k : chat[n] = base[n]
      /\ \A n \in 1..Len(ChatPath) : chat[k + n] = ChatPath[n]
      /\ SubSeq(chat, 1, k) = SubSeq(base, 1, k) /\ SubSeq(chat, k + 1, Len(chat)) = ChatPath
  <2>1. IsJoined(chat, base, k, ChatPath)
    BY <1>5 DEF IsJoined
  <2>2. Joined(T, chat, base, k, ChatPath)
    BY <1>0, <1>6, <2>1, JoinedUrl
  <2> QED BY <2>2 DEF Joined
<1>8. kept = k
  BY <1>0, <1>6, <1>7
<1> HIDE DEF kept
<1>17. k \in Nat /\ k \in 1..k /\ k <= Len(base) /\ s < k
  BY <1>1, <1>5, <1>6
<1>9. chat[kept] # "/"
  BY <1>5, <1>7, <1>8, <1>17
<1>10. IsPrefix(SubSeq(chat, 1, kept), base)
  <2>1. SubSeq(base, 1, k) \in Seq(T) /\ Len(SubSeq(base, 1, k)) = k
    BY <1>0, <1>6
  <2> DEFINE w == SubSeq(base, 1, k)
  <2>2. SubSeq(w, 1, Len(w)) = w
    BY <2>1, SubSeqFull
  <2> HIDE DEF w
  <2>3. IsPrefix(w, base)
    BY <1>17, <2>1, <2>2 DEF IsPrefix, w
  <2> QED BY <1>7, <1>8, <2>3 DEF w
<1> DEFINE o == SubSeq(base, 1, e - 1)
<1>11. /\ e - 1 \in (s + 1)..Len(base) /\ o \in Seq(T) /\ Len(o) = e - 1
       /\ \A n \in 1..(e - 1) : o[n] = base[n]
  BY <1>0, <1>1, <1>2 DEF HasOrigin
<1>12. \E n \in DOMAIN Origin(base) : SlashesTo(base, n) = 2 /\ base[n] # "/"
  <2>1. s + 1 \in DOMAIN o
    BY <1>1, <1>11
  <2>2. SlashesTo(base, s + 1) = 2
    <3>1. s + 1 \in 0..Len(base) /\ s <= s + 1 /\ s + 1 < e
      BY <1>1, <1>2, <1>11
    <3> QED BY <1>0, <1>2, <3>1, SlashesAre
  <2> HIDE DEF o
  <2> QED BY <1>1, <1>3, <2>1, <2>2 DEF o
<1>13. Origin(chat) = Origin(base)
  <2>1. ASSUME NEW f, HasOrigin(chat, s, f), f - 1 = e - 1, f - 1 <= k PROVE Origin(chat) = Origin(base)
    <3>1. Origin(chat) = SubSeq(chat, 1, e - 1)
      BY <1>7, <2>1, OriginIs
    <3>2. SubSeq(chat, 1, e - 1) = o
      <4>1. e - 1 \in Nat /\ e - 1 <= Len(chat) /\ e - 1 <= Len(base)
            /\ \A n \in 1..(e - 1) : chat[n] = base[n]
        <5>1. e - 1 \in Nat /\ e - 1 <= k /\ e - 1 <= Len(base)
          BY <1>1, <1>11, <2>1
        <5>2. Len(chat) >= k
          BY <1>0, <1>7, <1>17
        <5>3. \A n \in 1..(e - 1) : n \in 1..k
          BY <1>17, <5>1
        <5>4. \A n \in 1..(e - 1) : chat[n] = base[n]
          BY <1>7, <5>3, Zenon
        <5>5. e - 1 <= Len(chat)
          <6>1. Len(chat) \in Nat
            BY <1>7
          <6> QED BY <1>17, <5>1, <5>2, <6>1
        <5> QED BY <5>1, <5>4, <5>5
      <4> QED BY <1>0, <1>7, <4>1, SameFront
    <3> QED BY <1>3, <3>1, <3>2
  <2>2. HasOrigin(chat, s, e) /\ e - 1 <= k
    <3>1. /\ e \in (s + 1)..(Len(base) + 1)
          /\ \A m \in 1..(e - 1) : base[m] = "/" => m = s - 1 \/ m = s
          /\ e <= Len(base) => base[e] = "/"
      BY <1>2 DEF HasOrigin
    <3>2. e <= k + 1
      <4> SUFFICES ASSUME ~(e <= k + 1) PROVE FALSE
        OBVIOUS
      <4>1. k + 1 \in 1..(e - 1) /\ k + 1 \in (k + 1)..Len(base) /\ k + 1 > s
        BY <1>1, <1>5, <3>1
      <4>2. base[k + 1] = "/"
        BY <1>5, <4>1
      <4> QED BY <1>1, <3>1, <4>1, <4>2
    <3>3. chat[e] = "/"
      <4>1. CASE e <= k
        <5>1. e \in 1..k /\ e <= Len(base)
          BY <1>1, <1>17, <3>1, <4>1
        <5> QED BY <1>7, <3>1, <5>1
      <4>2. CASE e = k + 1
        <5>1. 1 \in 1..Len(ChatPath)
          BY <1>0
        <5> QED BY <1>0, <1>7, <4>2, <5>1
      <4>3. e <= k \/ e = k + 1
        BY <1>1, <1>17, <3>1, <3>2
      <4> QED BY <4>1, <4>2, <4>3
    <3>4. \A m \in 1..(e - 1) : chat[m] = base[m]
      <4>1. \A m \in 1..(e - 1) : m \in 1..k
        BY <1>1, <1>17, <3>1, <3>2
      <4> QED BY <1>7, <4>1
    <3>5. chat[s - 1] = "/" /\ chat[s] = "/"
      BY <1>1, <1>5, <1>7
    <3>6. s \in 2..Len(chat) /\ e \in (s + 1)..(Len(chat) + 1)
      BY <1>1, <1>0, <1>5, <1>7, <3>1, <3>2
    <3>7. e - 1 <= k
      BY <1>5, <3>1, <3>2
    <3> QED BY <3>1, <3>3, <3>4, <3>5, <3>6, <3>7 DEF HasOrigin
  <2> QED BY <2>1, <2>2
<1>14. sicha_url_join(sicha_url_origin(base), AbortPath) = Origin(base) \o AbortPath
  <2>1. e - 1 \in DOMAIN o /\ o[e - 1] # "/"
    <3>1. base[e - 1] # "/"
      <4>1. e - 1 \in 1..(e - 1) /\ e - 1 # s - 1 /\ e - 1 # s
        BY <1>1, <1>2, <1>11
      <4> QED BY <1>2, <4>1 DEF HasOrigin
    <3> QED BY <1>1, <1>11, <3>1
  <2> HIDE DEF o
  <2>2. PICK j \in (e - 1)..Len(o) : sicha_url_join(o, AbortPath) = SubSeq(o, 1, j) \o AbortPath
    <3> DEFINE m == e - 1
    <3>1. o \in Seq(T) /\ m \in DOMAIN o /\ o[m] # "/"
      BY <1>11, <2>1
    <3> HIDE DEF m
    <3>2. \E j \in m..Len(o) : /\ o[j] # "/" /\ \A x \in (j + 1)..Len(o) : o[x] = "/"
                              /\ sicha_url_join(o, AbortPath) = SubSeq(o, 1, j) \o AbortPath
      BY <3>1, JoinIs
    <3> QED BY <3>2 DEF m
  <2>3. j = Len(o)
    BY <1>11, <2>2
  <2>4. SubSeq(o, 1, Len(o)) = o
    BY <1>11
  <2> QED BY <1>2, <1>3, <2>2, <2>3, <2>4 DEF o
<1>15. \A n \in (kept + 1)..Len(base) : base[n] = "/"
  BY <1>5, <1>8
<1>16. SubSeq(chat, kept + 1, Len(chat)) = ChatPath
  BY <1>7, <1>8
<1> HIDE DEF chat
<1> QED BY <1>9, <1>10, <1>12, <1>13, <1>14, <1>15, <1>16 DEF chat, kept

-----------------------------------------------------------------------------
(* Headers.                                                                *)
Hdr(word, value) == [name |-> Generated(word), value |-> value]

AuthValue(key) == <<66, 32>> \o key

nOwn(key) == IF key = Null THEN 3 ELSE 4

(* The headers sent with a key and extra headers xs. *)
SentShape(sent, key, ua, xs) ==
  /\ \E T : sent \in Seq(T)
  /\ Len(sent) = nOwn(key) + Len(xs)
  /\ sent[1] = Hdr("Content-Type", <<65>>)
  /\ sent[2] = Hdr("Accept", <<65>>)
  /\ sent[3] = Hdr("User-Agent", ua)
  /\ key # Null => sent[4] = Hdr("Authorization", AuthValue(key))
  /\ \A n \in 1..Len(xs) : sent[nOwn(key) + n] = xs[n]

(* Two rows, one behind the other. *)
Chained(u, v, w) ==
  /\ Len(w) = Len(u) + Len(v) /\ DOMAIN w = 1..(Len(u) + Len(v))
  /\ \A n \in 1..Len(u) : w[n] = u[n]
  /\ \A n \in 1..Len(v) : w[Len(u) + n] = v[n]

LEMMA ChainedIs ==
  ASSUME NEW T, NEW u \in Seq(T), NEW v \in Seq(T)
  PROVE  u \o v \in Seq(T) /\ Chained(u, v, u \o v)
<1> DEFINE w == u \o v
<1>1. w \in Seq(T)
  BY ConcatProperties, Zenon
<1>2. Len(w) = Len(u) + Len(v)
  BY ConcatProperties, Zenon
<1>3. \A i \in 1..(Len(u) + Len(v)) : w[i] = IF i <= Len(u) THEN u[i] ELSE v[i - Len(u)]
  BY ConcatProperties, Zenon
<1>4. Len(u) \in Nat /\ Len(v) \in Nat
  OBVIOUS
<1> HIDE DEF w
<1>5. DOMAIN w = 1..(Len(u) + Len(v))
  BY <1>1, <1>2
<1>6. \A n \in 1..Len(u) : w[n] = u[n]
  BY <1>3, <1>4
<1>7. ASSUME NEW n \in 1..Len(v) PROVE w[Len(u) + n] = v[n]
  <2>1. Len(u) + n \in 1..(Len(u) + Len(v)) /\ ~(Len(u) + n <= Len(u)) /\ Len(u) + n - Len(u) = n
    BY <1>4
  <2> QED BY <1>3, <2>1
<1> QED BY <1>1, <1>2, <1>5, <1>6, <1>7 DEF w, Chained

LEMMA SentIs ==
  ASSUME NEW b, NEW ua, NEW S, b.extra_headers \in Seq(S)
  PROVE  SentShape(sicha_build_headers(b, ua), b.api_key, ua, b.extra_headers)
<1> DEFINE key == b.api_key
           xs == b.extra_headers
           h1 == Hdr("Content-Type", <<65>>)
           h2 == Hdr("Accept", <<65>>)
           h3 == Hdr("User-Agent", ua)
           h4 == Hdr("Authorization", AuthValue(key))
           T == S \cup {h1, h2, h3, h4}
           front == << h1, h2, h3 >>
           auth == IF key = Null THEN <<>> ELSE << h4 >>
           own == front \o auth
           sent == own \o xs
<1>1. sicha_build_headers(b, ua) = sent
  BY Zenon DEF sicha_build_headers, Hdr, AuthValue
<1>2. xs \in Seq(T)
  OBVIOUS
<1> HIDE DEF key, xs, h1, h2, h3, h4
<1>3. front \in Seq(T) /\ Len(front) = 3 /\ front[1] = h1 /\ front[2] = h2 /\ front[3] = h3
  OBVIOUS
<1>4. nOwn(key) = 3 + Len(auth) /\ nOwn(key) \in 3..4 /\ (key # Null => nOwn(key) = 4)
  <2>1. CASE key = Null
    BY <2>1 DEF nOwn
  <2>2. CASE key # Null
    BY <2>2 DEF nOwn
  <2> QED BY <2>1, <2>2
<1>5. auth \in Seq(T) /\ (key # Null => auth[1] = h4)
  <2>1. CASE key = Null
    BY <2>1
  <2>2. CASE key # Null
    <3>1. << h4 >> \in Seq(T) /\ << h4 >>[1] = h4
      OBVIOUS
    <3> QED BY <2>2, <3>1
  <2> QED BY <2>1, <2>2
<1> HIDE DEF front, auth, T
<1>6. own \in Seq(T) /\ Chained(front, auth, own)
  BY <1>3, <1>5, ChainedIs, Zenon
<1> HIDE DEF own
<1>7. Len(own) = nOwn(key) /\ own[1] = h1 /\ own[2] = h2 /\ own[3] = h3
  BY <1>3, <1>4, <1>6 DEF Chained
<1>8. key # Null => own[4] = h4
  <2> SUFFICES ASSUME key # Null PROVE own[4] = h4
    OBVIOUS
  <2>1. Len(auth) = 1
    BY <1>4, <1>5
  <2>2. own[3 + 1] = auth[1]
    BY <1>3, <1>6, <2>1 DEF Chained
  <2> QED BY <1>5, <2>2
<1>9. sent \in Seq(T) /\ Chained(own, xs, sent)
  BY <1>2, <1>6, ChainedIs, Zenon
<1> HIDE DEF sent
<1>10. /\ Len(sent) = nOwn(key) + Len(xs)
       /\ sent[1] = h1 /\ sent[2] = h2 /\ sent[3] = h3 /\ (key # Null => sent[4] = h4)
       /\ \A n \in 1..Len(xs) : sent[nOwn(key) + n] = xs[n]
  BY <1>4, <1>7, <1>8, <1>9 DEF Chained
<1>11. SentShape(sent, key, ua, xs)
  BY <1>9, <1>10 DEF SentShape, h1, h2, h3, h4
<1> QED BY <1>1, <1>11 DEF key, xs

LEMMA CleanIs ==
  ASSUME NEW v \in Seq(Octet), value_bytes_ok(v)
  PROVE  Clean(v)
<1>1. \A n \in DOMAIN v : v[n] \in Nat
  BY ByteIs
<1> QED BY <1>1 DEF value_bytes_ok, Clean

(* An extra header that is accepted. *)
LEMMA ExtraIs ==
  ASSUME NEW h, NEW hasKey \in BOOLEAN, h.value # Null => h.value \in Seq(Octet),
         sicha_header_validate(h.name, h.value) = "OK", ~is_reserved_header(h.name, hasKey)
  PROVE  /\ Clean(h.value) /\ h.name.chars # <<>>
         /\ h.name.word \notin {"Content-Type", "Accept", "User-Agent"}
         /\ hasKey => h.name.word # "Authorization"
<1>1. h.value # Null /\ h.name.chars # <<>> /\ value_bytes_ok(h.value)
  BY DEF sicha_header_validate
<1>2. Clean(h.value)
  BY <1>1, CleanIs
<1>3. \A word \in Reserved \cup (IF hasKey THEN {"Authorization"} ELSE {}) : h.name.word # word
  BY DEF is_reserved_header, sicha_header_name_eq, Generated
<1> QED BY <1>1, <1>2, <1>3 DEF Reserved

(* What makes headers fit to be sent. *)
ExtrasFit(xs, key) ==
  \A n \in 1..Len(xs) :
    /\ Clean(xs[n].value) /\ xs[n].name.chars # <<>>
    /\ xs[n].name.word \notin {"Content-Type", "Accept", "User-Agent"}
    /\ key # Null => xs[n].name.word # "Authorization"

LEMMA HeadersFit ==
  ASSUME NEW sent, NEW key, NEW ua, NEW S, NEW xs \in Seq(S), SentShape(sent, key, ua, xs),
         ExtrasFit(xs, key), Clean(ua), key # Null => Clean(AuthValue(key))
  PROVE  /\ \A j, k \in DOMAIN sent :
              /\ Clean(sent[k].value) /\ sent[k].name.chars # <<>>
              /\ k <= nOwn(key) /\ j # k => sent[j].name.word # sent[k].name.word
         /\ \A k \in 1..3 : sicha_script_call_header(sent, [sent[k].name EXCEPT !.case = "upper"])
                            = sent[k].value
<1> DEFINE G == nOwn(key)
           L == Len(xs)
<1>1. /\ \E T : sent \in Seq(T)
      /\ Len(sent) = G + L
      /\ sent[1] = Hdr("Content-Type", <<65>>)
      /\ sent[2] = Hdr("Accept", <<65>>)
      /\ sent[3] = Hdr("User-Agent", ua)
      /\ key # Null => sent[4] = Hdr("Authorization", AuthValue(key))
      /\ \A n \in 1..L : sent[G + n] = xs[n]
  BY DEF SentShape
<1>2. /\ G \in 3..4 /\ (G = 4 <=> key # Null) /\ L \in Nat
      /\ DOMAIN sent = 1..(G + L)
  BY <1>1 DEF nOwn
<1>3. \A word, v : /\ Hdr(word, v).name.word = word /\ Hdr(word, v).value = v
                   /\ Hdr(word, v).name.chars # <<>>
  BY DEF Hdr, Generated
<1> HIDE DEF G, L
<1>4. ASSUME NEW k \in DOMAIN sent PROVE k \in 1..G \/ \E n \in 1..L : k = G + n /\ sent[k] = xs[n]
  <2>1. CASE k > G
    <3>1. k - G \in 1..L /\ k = G + (k - G)
      BY <1>2, <2>1
    <3> QED BY <1>1, <3>1
  <2> QED BY <1>2, <2>1
<1>5. Clean(<<65>>)
  BY DEF Clean
<1>6. ASSUME NEW k \in 1..G PROVE Clean(sent[k].value) /\ sent[k].name.chars # <<>>
  <2>1. k = 1 \/ k = 2 \/ k = 3 \/ (k = 4 /\ key # Null)
    BY <1>2
  <2> QED BY <1>1, <1>3, <1>5, <2>1
<1>7. ASSUME NEW k \in 1..G, NEW j \in 1..G, j # k PROVE sent[j].name.word # sent[k].name.word
  <2>1. /\ sent[1].name.word = "Content-Type" /\ sent[2].name.word = "Accept"
        /\ sent[3].name.word = "User-Agent" /\ (key # Null => sent[4].name.word = "Authorization")
    BY <1>1, <1>3
  <2>2. /\ k = 1 \/ k = 2 \/ k = 3 \/ (k = 4 /\ key # Null)
        /\ j = 1 \/ j = 2 \/ j = 3 \/ (j = 4 /\ key # Null)
    BY <1>2
  <2> QED BY <1>7, <2>1, <2>2
<1>8. ASSUME NEW k \in 1..G, NEW n \in 1..L PROVE xs[n].name.word # sent[k].name.word
  <2>1. /\ xs[n].name.word \notin {"Content-Type", "Accept", "User-Agent"}
        /\ key # Null => xs[n].name.word # "Authorization"
    BY DEF ExtrasFit, L
  <2>2. k = 1 \/ k = 2 \/ k = 3 \/ (k = 4 /\ key # Null)
    BY <1>2
  <2> QED BY <1>1, <1>3, <2>1, <2>2
<1>9. \A k \in DOMAIN sent : Clean(sent[k].value) /\ sent[k].name.chars # <<>>
  BY <1>4, <1>6 DEF ExtrasFit, L
<1>10. \A j, k \in DOMAIN sent : k <= G /\ j # k => sent[j].name.word # sent[k].name.word
  <2> SUFFICES ASSUME NEW j \in DOMAIN sent, NEW k \in DOMAIN sent, k <= G, j # k
               PROVE  sent[j].name.word # sent[k].name.word
    OBVIOUS
  <2>1. k \in 1..G
    BY <1>2
  <2>2. CASE j \in 1..G
    BY <1>7, <2>1, <2>2
  <2>3. CASE j \notin 1..G
    <3>1. PICK n \in 1..L : sent[j] = xs[n]
      BY <1>4, <2>3
    <3> QED BY <1>8, <2>1, <3>1
  <2> QED BY <2>2, <2>3
<1>11. ASSUME NEW k \in 1..3
       PROVE  sicha_script_call_header(sent, [sent[k].name EXCEPT !.case = "upper"])
              = sent[k].value
  <2> DEFINE name == [sent[k].name EXCEPT !.case = "upper"]
             found == {n \in DOMAIN sent : sicha_header_name_eq(sent[n].name, name)}
  <2>1. k \in DOMAIN sent /\ k <= G
    BY <1>2
  <2>2. name.word = sent[k].name.word
    <3>1. k = 1 \/ k = 2 \/ k = 3
      OBVIOUS
    <3>2. \E word : sent[k].name = Generated(word)
      BY <1>1, <3>1 DEF Hdr
    <3> QED BY <3>2 DEF Generated
  <2> HIDE DEF name
  <2>3. found = {k}
    BY <1>10, <2>1, <2>2 DEF sicha_header_name_eq
  <2>4. Min({k}) = k
    BY DEF Min
  <2>5. sicha_script_call_header(sent, name) = IF found = {} THEN Null ELSE sent[Min(found)].value
    BY Zenon DEF sicha_script_call_header
  <2> HIDE DEF found
  <2> QED BY <2>3, <2>4, <2>5 DEF name
<1> QED BY <1>9, <1>10, <1>11 DEF G

-----------------------------------------------------------------------------
(* The abort assist, and the wire log.                                     *)
KeptWhole(key) == key # Null /\ Len(key) < AuthRoom

AbortShape(headers, key) ==
  /\ \E T : headers \in Seq(T)
  /\ Len(headers) = IF KeptWhole(key) THEN 2 ELSE 1
  /\ headers[1] = Hdr("Content-Type", <<65>>)
  /\ KeptWhole(key) => headers[2] = Hdr("Authorization", AuthValue(key))

LEMMA AbortIs ==
  ASSUME NEW b, b.api_key = Null \/ b.api_key \in Seq(Octet)
  PROVE  AbortShape(AbortHeaders(b), b.api_key)
<1> DEFINE key == b.api_key
           h1 == Hdr("Content-Type", <<65>>)
           h2 == Hdr("Authorization", AuthValue(key))
           cut == [n \in {k \in DOMAIN key : k < AuthRoom} |-> key[n]]
           unsent == key = Null \/ Len(key) >= AuthRoom
           h == [name |-> Generated("Authorization"), value |-> <<66, 32>> \o cut]
<1>1. AbortHeaders(b) = << h1 >> \o (IF unsent THEN <<>> ELSE << h >>)
  BY Zenon DEF AbortHeaders, Hdr
<1>2. key = Null \/ key \in Seq(Octet)
  OBVIOUS
<1>3. AuthRoom \in Nat
  BY InputAssumption
<1> HIDE DEF key, h1
<1>4. CASE unsent
  <2>1. ~KeptWhole(key)
    <3>1. CASE key = Null
      BY <3>1 DEF KeptWhole
    <3>2. CASE key # Null
      <4>1. Len(key) \in Nat /\ Len(key) >= AuthRoom
        BY <1>2, <1>4, <3>2
      <4> QED BY <1>3, <4>1 DEF KeptWhole
    <3> QED BY <3>1, <3>2
  <2>2. AbortHeaders(b) = << h1 >>
    <3>1. << h1 >> \o <<>> = << h1 >>
      OBVIOUS
    <3> QED BY <1>1, <1>4, <3>1
  <2>3. << h1 >> \in Seq({h1}) /\ Len(<< h1 >>) = 1 /\ << h1 >>[1] = h1
    OBVIOUS
  <2> QED BY <2>1, <2>2, <2>3 DEF AbortShape, h1, key
<1>5. CASE ~unsent
  <2>1. key \in Seq(Octet) /\ Len(key) < AuthRoom
    BY <1>2, <1>3, <1>5
  <2>2. KeptWhole(key)
    BY <1>5, <2>1 DEF KeptWhole
  <2>3. cut = key
    <3>1. {k \in DOMAIN key : k < AuthRoom} = DOMAIN key
      <4>1. DOMAIN key = 1..Len(key) /\ Len(key) \in Nat
        BY <2>1
      <4>2. \A k \in 1..Len(key) : k < AuthRoom
        BY <1>3, <2>1, <4>1
      <4> QED BY <4>1, <4>2
    <3>2. key = [n \in DOMAIN key |-> key[n]]
      BY <2>1
    <3> QED BY <3>1, <3>2
  <2>4. h = h2
    <3> HIDE DEF cut
    <3>1. <<66, 32>> \o cut = AuthValue(key)
      BY <2>3, Zenon DEF AuthValue
    <3> QED BY <3>1, Zenon DEF Hdr
  <2> HIDE DEF h, h2
  <2> DEFINE u == << h1 >>
             v == << h2 >>
             w == u \o v
             T == {h1, h2}
  <2>5. AbortHeaders(b) = w
    BY <1>1, <1>5, <2>4
  <2>6. u \in Seq(T) /\ v \in Seq(T) /\ Len(u) = 1 /\ Len(v) = 1 /\ u[1] = h1 /\ v[1] = h2
    OBVIOUS
  <2> HIDE DEF T, u, v
  <2>7. w \in Seq(T) /\ Chained(u, v, w)
    BY <2>6, ChainedIs, Zenon
  <2> HIDE DEF w
  <2>8. Len(w) = 2 /\ w[1] = h1 /\ w[1 + 1] = h2
    BY <2>6, <2>7 DEF Chained
  <2> QED BY <2>2, <2>5, <2>7, <2>8 DEF AbortShape, h1, h2, key
<1> QED BY <1>4, <1>5

LEMMA AuthHolds ==
  ASSUME NEW key \in Seq(Octet)
  PROVE  Holds(AuthValue(key), key)
<1> DEFINE v == AuthValue(key)
           part == SubSeq(v, 2 + 1, 2 + Len(key))
<1>1. <<66, 32>> \in Seq(Nat) /\ Len(<<66, 32>>) = 2 /\ key \in Seq(Nat) /\ Len(key) \in Nat
  BY DEF Octet
<1>2. v \in Seq(Nat) /\ Chained(<<66, 32>>, key, v)
  BY <1>1, ChainedIs, Zenon DEF AuthValue
<1> HIDE DEF v
<1>3. Len(v) = 2 + Len(key) /\ \A n \in 1..Len(key) : v[2 + n] = key[n]
  BY <1>1, <1>2 DEF Chained
<1>4. part \in Seq(Nat)
  BY <1>1, <1>2, <1>3
<1>5. Len(part) = Len(key)
  BY <1>1, <1>2, <1>3
<1>6. \A n \in 1..Len(key) : part[n] = key[n]
  BY <1>1, <1>2, <1>3
<1> HIDE DEF part
<1>7. part = key
  BY <1>1, <1>4, <1>5, <1>6
<1>8. 2 \in 0..(Len(v) - Len(key))
  BY <1>1, <1>3
<1> QED BY <1>7, <1>8 DEF Holds, part, v

LEMMA KeysWhole ==
  ASSUME NEW sent, NEW abort, NEW key \in Seq(Octet), key # Null, NEW ua, NEW S,
         NEW xs \in Seq(S), SentShape(sent, key, ua, xs), AbortShape(abort, key),
         ExtrasFit(xs, key)
  PROVE  \A h \in Range(sent \o abort) : h.name.word = "Authorization" => Holds(h.value, key)
<1>1. /\ \E T : sent \in Seq(T)
      /\ Len(sent) = 4 + Len(xs)
      /\ sent[1] = Hdr("Content-Type", <<65>>)
      /\ sent[2] = Hdr("Accept", <<65>>)
      /\ sent[3] = Hdr("User-Agent", ua)
      /\ sent[4] = Hdr("Authorization", AuthValue(key))
      /\ \A n \in 1..Len(xs) : sent[4 + n] = xs[n]
  BY DEF SentShape, nOwn
<1>2. /\ \E T : abort \in Seq(T)
      /\ Len(abort) = 1 \/ (Len(abort) = 2 /\ abort[2] = Hdr("Authorization", AuthValue(key)))
      /\ abort[1] = Hdr("Content-Type", <<65>>)
  BY DEF AbortShape
<1>3. \A word, v : Hdr(word, v).name.word = word /\ Hdr(word, v).value = v
  BY DEF Hdr, Generated
<1>4. Chained(sent, abort, sent \o abort)
  <2>1. PICK T1 : sent \in Seq(T1)
    BY <1>1
  <2>2. PICK T2 : abort \in Seq(T2)
    BY <1>2
  <2>3. sent \in Seq(T1 \cup T2) /\ abort \in Seq(T1 \cup T2)
    BY <2>1, <2>2
  <2> QED BY <2>3, ChainedIs, Zenon
<1>5. ASSUME NEW n \in 1..Len(sent), sent[n].name.word = "Authorization"
      PROVE  sent[n].value = AuthValue(key)
  <2>1. CASE n > 4
    <3>1. n - 4 \in 1..Len(xs) /\ n = 4 + (n - 4)
      BY <1>1, <2>1
    <3>2. xs[n - 4].name.word # "Authorization"
      BY <3>1 DEF ExtrasFit
    <3> QED BY <1>1, <1>5, <3>1, <3>2
  <2>2. CASE ~(n > 4)
    <3>1. n = 1 \/ n = 2 \/ n = 3 \/ n = 4
      BY <2>2
    <3> QED BY <1>1, <1>3, <1>5, <3>1
  <2> QED BY <2>1, <2>2
<1>6. ASSUME NEW n \in 1..Len(abort), abort[n].name.word = "Authorization"
      PROVE  abort[n].value = AuthValue(key)
  <2>1. CASE Len(abort) = 1
    <3>1. n = 1
      BY <2>1
    <3> QED BY <1>2, <1>3, <1>6, <3>1
  <2>2. CASE Len(abort) = 2 /\ abort[2] = Hdr("Authorization", AuthValue(key))
    <3>1. n = 1 \/ n = 2
      BY <2>2
    <3> QED BY <1>2, <1>3, <1>6, <2>2, <3>1
  <2> QED BY <1>2, <2>1, <2>2
<1>7. ASSUME NEW h \in Range(sent \o abort), h.name.word = "Authorization"
      PROVE  h.value = AuthValue(key)
  <2>1. PICK n \in DOMAIN (sent \o abort) : h = (sent \o abort)[n]
    BY DEF Range
  <2>2. /\ n \in 1..(Len(sent) + Len(abort)) /\ Len(sent) \in Nat /\ Len(abort) \in Nat
        /\ \A i \in 1..Len(sent) : (sent \o abort)[i] = sent[i]
        /\ \A i \in 1..Len(abort) : (sent \o abort)[Len(sent) + i] = abort[i]
    <3>1. Len(sent) \in Nat
      BY <1>1
    <3>2. Len(abort) \in Nat
      BY <1>2
    <3>3. n \in 1..(Len(sent) + Len(abort))
      BY <1>4, <2>1, Zenon DEF Chained
    <3> QED BY <1>4, <3>1, <3>2, <3>3, Zenon DEF Chained
  <2>3. CASE n <= Len(sent)
    BY <1>5, <1>7, <2>1, <2>2, <2>3
  <2>4. CASE n > Len(sent)
    <3>1. n - Len(sent) \in 1..Len(abort) /\ n = Len(sent) + (n - Len(sent))
      BY <2>2, <2>4
    <3> QED BY <1>6, <1>7, <2>1, <2>2, <3>1
  <2> QED BY <2>2, <2>3, <2>4
<1> QED BY <1>7, AuthHolds
-----------------------------------------------------------------------------
(* What the wire log holds of a header, and of two that differ in a secret. *)
Masked(h) == IF h.name.word = "Authorization" THEN [h EXCEPT !.value = <<42>>] ELSE h

(* Headers that are logged alike. *)
Alike(u, v) ==
  /\ DOMAIN u = DOMAIN v
  /\ \A n \in DOMAIN u : Masked(u[n]) = Masked(v[n])

LEMMA AlikeIs ==
  ASSUME NEW u, NEW v, Alike(u, v)
  PROVE  debug_request(u) = debug_request(v)
<1>1. \A w : debug_request(w) = [n \in DOMAIN w |-> Masked(w[n])]
  <2>1. \A h : sicha_header_name_eq(h.name, Generated("Authorization"))
               <=> h.name.word = "Authorization"
    BY DEF sicha_header_name_eq, Generated
  <2> QED BY <2>1 DEF debug_request, Masked
<1>2. [n \in DOMAIN u |-> Masked(u[n])] = [n \in DOMAIN v |-> Masked(v[n])]
  BY Zenon DEF Alike
<1> QED BY <1>1, <1>2

LEMMA AuthMasked ==
  ASSUME NEW v, NEW w
  PROVE  Masked(Hdr("Authorization", v)) = Masked(Hdr("Authorization", w))
<1>1. \A x : Hdr("Authorization", x).name.word = "Authorization"
  BY DEF Hdr, Generated
<1>2. \A x : [Hdr("Authorization", x) EXCEPT !.value = <<42>>] = Hdr("Authorization", <<42>>)
  BY DEF Hdr
<1> QED BY <1>1, <1>2 DEF Masked

LEMMA SentAlike ==
  ASSUME NEW sent, NEW other, NEW key, NEW key2, NEW ua, NEW S, NEW xs \in Seq(S),
         NEW T, NEW ys \in Seq(T), key = Null <=> key2 = Null, Alike(xs, ys),
         SentShape(sent, key, ua, xs), SentShape(other, key2, ua, ys)
  PROVE  Alike(sent, other)
<1> DEFINE G == nOwn(key)
           L == Len(xs)
<1>1. Len(ys) = L /\ nOwn(key2) = G /\ L \in Nat /\ G \in 3..4 /\ (G = 4 <=> key # Null)
  BY DEF nOwn, Alike
<1> HIDE DEF G, L
<1>2. /\ Len(sent) = G + L /\ DOMAIN sent = 1..(G + L)
      /\ sent[1] = Hdr("Content-Type", <<65>>)
      /\ sent[2] = Hdr("Accept", <<65>>)
      /\ sent[3] = Hdr("User-Agent", ua)
      /\ key # Null => sent[4] = Hdr("Authorization", AuthValue(key))
      /\ \A n \in 1..L : sent[G + n] = xs[n]
  <2>1. PICK U : sent \in Seq(U)
    BY DEF SentShape
  <2>2. /\ Len(sent) = nOwn(key) + Len(xs)
        /\ sent[1] = Hdr("Content-Type", <<65>>)
        /\ sent[2] = Hdr("Accept", <<65>>)
        /\ sent[3] = Hdr("User-Agent", ua)
        /\ key # Null => sent[4] = Hdr("Authorization", AuthValue(key))
        /\ \A n \in 1..Len(xs) : sent[nOwn(key) + n] = xs[n]
    BY Zenon DEF SentShape
  <2>3. Len(sent) = G + L
    BY <1>1, <2>2 DEF G, L
  <2>4. DOMAIN sent = 1..(G + L)
    BY <1>1, <2>1, <2>3
  <2>5. \A n \in 1..L : sent[G + n] = xs[n]
    BY <1>1, <2>2 DEF G, L
  <2> QED BY <1>1, <2>2, <2>3, <2>4, <2>5
<1>3. /\ Len(other) = G + L /\ DOMAIN other = 1..(G + L)
      /\ other[1] = Hdr("Content-Type", <<65>>)
      /\ other[2] = Hdr("Accept", <<65>>)
      /\ other[3] = Hdr("User-Agent", ua)
      /\ key # Null => other[4] = Hdr("Authorization", AuthValue(key2))
      /\ \A n \in 1..L : other[G + n] = ys[n]
  <2>1. PICK U : other \in Seq(U)
    BY DEF SentShape
  <2>2. /\ Len(other) = nOwn(key2) + Len(ys)
        /\ other[1] = Hdr("Content-Type", <<65>>)
        /\ other[2] = Hdr("Accept", <<65>>)
        /\ other[3] = Hdr("User-Agent", ua)
        /\ key2 # Null => other[4] = Hdr("Authorization", AuthValue(key2))
        /\ \A n \in 1..Len(ys) : other[nOwn(key2) + n] = ys[n]
    BY Zenon DEF SentShape
  <2>3. Len(other) = G + L
    BY <1>1, <2>2
  <2>4. DOMAIN other = 1..(G + L)
    BY <1>1, <2>1, <2>3
  <2>5. \A n \in 1..L : other[G + n] = ys[n]
    BY <1>1, <2>2
  <2> QED BY <1>1, <2>2, <2>3, <2>4, <2>5
<1>4. ASSUME NEW n \in 1..(G + L) PROVE Masked(sent[n]) = Masked(other[n])
  <2>1. CASE n > G
    <3>1. n - G \in 1..L /\ n = G + (n - G)
      BY <1>1, <2>1
    <3>2. Masked(xs[n - G]) = Masked(ys[n - G])
      BY <3>1 DEF Alike, L
    <3> QED BY <1>2, <1>3, <3>1, <3>2
  <2>2. CASE ~(n > G)
    <3>1. n = 1 \/ n = 2 \/ n = 3 \/ (n = 4 /\ key # Null)
      BY <1>1, <2>2
    <3> QED BY <1>2, <1>3, <3>1, AuthMasked
  <2> QED BY <2>1, <2>2
<1> QED BY <1>2, <1>3, <1>4 DEF Alike

LEMMA AbortAlike ==
  ASSUME NEW abort, NEW other, NEW key, NEW key2, KeptWhole(key) <=> KeptWhole(key2),
         AbortShape(abort, key), AbortShape(other, key2)
  PROVE  Alike(abort, other)
<1>1. CASE KeptWhole(key)
  <2>1. DOMAIN abort = 1..2 /\ DOMAIN other = 1..2
    BY <1>1 DEF AbortShape
  <2>2. abort[1] = other[1] /\ Masked(abort[2]) = Masked(other[2])
    BY <1>1, AuthMasked DEF AbortShape
  <2> QED BY <2>1, <2>2 DEF Alike
<1>2. CASE ~KeptWhole(key)
  <2>1. DOMAIN abort = 1..1 /\ DOMAIN other = 1..1
    BY <1>2 DEF AbortShape
  <2>2. abort[1] = other[1]
    BY DEF AbortShape
  <2> QED BY <2>1, <2>2 DEF Alike
<1> QED BY <1>1, <1>2

StarredHeader(h) ==
  IF h.name.word # "Authorization" THEN h ELSE [h EXCEPT !.value = Stars(@)]

LEMMA StarredAlike ==
  ASSUME NEW S, NEW xs \in Seq(S)
  PROVE  LET ys == StarredHeaders(xs)
         IN  (\E T : ys \in Seq(T)) /\ Alike(xs, ys)
<1> DEFINE ys == StarredHeaders(xs)
           T == {StarredHeader(h) : h \in S}
<1>1. \A h \in S : StarredHeader(h) \in T
  OBVIOUS
<1>2. \A h : Masked(StarredHeader(h)) = Masked(h)
  <2> TAKE h
  <2>1. CASE h.name.word # "Authorization"
    BY <2>1 DEF StarredHeader
  <2>2. CASE h.name.word = "Authorization"
    <3> DEFINE g == [h EXCEPT !.value = Stars(@)]
    <3>1. StarredHeader(h) = g
      BY <2>2 DEF StarredHeader
    <3>2. g.name = h.name
      OBVIOUS
    <3>3. [g EXCEPT !.value = <<42>>] = [h EXCEPT !.value = <<42>>]
      OBVIOUS
    <3> HIDE DEF g
    <3> QED BY <2>2, <3>1, <3>2, <3>3 DEF Masked
  <2> QED BY <2>1, <2>2
<1>0. ys = [n \in DOMAIN xs |-> StarredHeader(xs[n])]
  BY Zenon DEF StarredHeaders, StarredHeader
<1> HIDE DEF T, ys
<1>3. ys \in Seq(T)
  <2>1. DOMAIN xs = 1..Len(xs) /\ Len(xs) \in Nat
    OBVIOUS
  <2>2. \A n \in 1..Len(xs) : StarredHeader(xs[n]) \in T
    BY <1>1
  <2>3. ys \in [1..Len(xs) -> T]
    BY <1>0, <2>1, <2>2
  <2> QED BY <2>1, <2>3, SeqDef
<1>4. Alike(xs, ys)
  BY <1>0, <1>2 DEF Alike
<1> QED BY <1>3, <1>4 DEF ys
-----------------------------------------------------------------------------
(* A backend that is accepted. *)
LEMMA LogIs ==
  ASSUME NEW d \in Descs, NEW o
  PROVE  WireLog(Resolved(d), o) = WireLog(Resolved(Starred(d)), o)
<1> DEFINE e == Starred(d)
           b == Resolved(d)
           c == Resolved(e)
           key == d.api_key
           key2 == IF key = Null THEN Null ELSE Stars(key)
           xs == d.extra_headers
           ys == StarredHeaders(xs)
           S == Range(xs)
           ua == UserAgent(o)
           sent == sicha_build_headers(b, ua)
           other == sicha_build_headers(c, ua)
<1>1. /\ {"api_key", "extra_headers"} \subseteq DOMAIN d /\ Null \notin Seq(Octet)
      /\ key = Null \/ key \in Seq(Octet)
      /\ xs \in Seq(S)
  BY InputAssumption
<1>2. e.api_key = key2 /\ e.extra_headers = ys
  <2>1. e.extra_headers = ys
    BY <1>1 DEF Starred
  <2>2. e.api_key = key2
    BY <1>1 DEF Starred
  <2> QED BY <2>1, <2>2
<1> HIDE DEF e
<1>3. b.api_key = key /\ b.extra_headers = xs /\ c.api_key = key2 /\ c.extra_headers = ys
  BY <1>2 DEF Resolved
<1> HIDE DEF key, xs, ys, S, b, c, ua
<1>4. (\E T : ys \in Seq(T)) /\ Alike(xs, ys)
  BY <1>1, StarredAlike DEF ys
<1>5. PICK T : ys \in Seq(T)
  BY <1>4
<1>6. key # Null => Stars(key) \in Seq(Octet) /\ Len(Stars(key)) = Len(key)
  <2> SUFFICES ASSUME key \in Seq(Octet) PROVE Stars(key) \in Seq(Octet) /\ Len(Stars(key)) = Len(key)
    BY <1>1
  <2>1. DOMAIN key = 1..Len(key) /\ Len(key) \in Nat /\ 42 \in Octet
    BY DEF Octet
  <2>2. Stars(key) \in [1..Len(key) -> Octet]
    BY <2>1 DEF Stars
  <2>3. Stars(key) \in Seq(Octet)
    BY <2>1, <2>2, SeqDef
  <2> QED BY <2>1, <2>2, <2>3
<1>7. (key = Null <=> key2 = Null) /\ (KeptWhole(key) <=> KeptWhole(key2))
      /\ (key2 = Null \/ key2 \in Seq(Octet))
  <2>1. CASE key = Null
    BY <2>1
  <2>2. CASE key # Null
    <3>1. key2 = Stars(key) /\ key2 # Null
      BY <1>1, <1>6, <2>2
    <3> QED BY <1>6, <2>2, <3>1 DEF KeptWhole
  <2> QED BY <2>1, <2>2
<1> HIDE DEF key2
<1>8. SentShape(sent, key, ua, xs) /\ SentShape(other, key2, ua, ys)
  BY <1>1, <1>3, <1>5, SentIs
<1>9. AbortShape(AbortHeaders(b), key) /\ AbortShape(AbortHeaders(c), key2)
  BY <1>1, <1>3, <1>7, AbortIs
<1> HIDE DEF sent, other
<1>10. debug_request(sent) = debug_request(other)
  BY <1>1, <1>4, <1>5, <1>7, <1>8, SentAlike, AlikeIs
<1>11. debug_request(AbortHeaders(b)) = debug_request(AbortHeaders(c))
  BY <1>7, <1>9, AbortAlike, AlikeIs
<1>12. WireLog(b, o) = WireLog(c, o)
  BY <1>10, <1>11 DEF WireLog, sent, other, ua
<1> QED BY <1>12 DEF b, c, e

(* Of a valid description, the parts that the headers need. *)
LEMMA PartsFit ==
  ASSUME NEW d \in Descs, NEW o \in Opts, BackendValid(d) = "OK", OptsValid(o) = "OK"
  PROVE  /\ d.base_url \in Seq(STRING) /\ sicha_url_validate(d.base_url) = "OK"
         /\ ExtrasFit(d.extra_headers, d.api_key)
         /\ d.api_key # Null => d.api_key \in Seq(Octet) /\ Clean(AuthValue(d.api_key))
         /\ Clean(UserAgent(o))
<1> DEFINE key == d.api_key
           xs == d.extra_headers
<1>1. /\ sicha_url_validate(d.base_url) = "OK"
      /\ key # Null => value_bytes_ok(key)
      /\ \A n \in DOMAIN xs :
           /\ sicha_header_validate(xs[n].name, xs[n].value) = "OK"
           /\ ~is_reserved_header(xs[n].name, key # Null)
  BY Zenon DEF BackendValid
<1>2. /\ d.base_url # Null => d.base_url \in Seq(STRING)
      /\ key # Null => key \in Seq(Octet)
      /\ xs \in Seq(Range(xs))
      /\ \A h \in Range(xs) : h.value # Null => h.value \in Seq(Octet)
      /\ o.user_agent # Null => o.user_agent \in Seq(Octet)
  BY InputAssumption
<1>3. d.base_url # Null
  BY <1>1 DEF sicha_url_validate
<1>4. ExtrasFit(xs, key)
  <2>1. ASSUME NEW n \in 1..Len(xs)
        PROVE  /\ Clean(xs[n].value) /\ xs[n].name.chars # <<>>
               /\ xs[n].name.word \notin {"Content-Type", "Accept", "User-Agent"}
               /\ key # Null => xs[n].name.word # "Authorization"
    <3> DEFINE h == xs[n]
               hasKey == key # Null
    <3>1. n \in DOMAIN xs /\ h \in Range(xs)
      BY <1>2 DEF Range
    <3>2. hasKey \in BOOLEAN /\ (h.value # Null => h.value \in Seq(Octet))
      BY <1>2, <3>1
    <3>3. sicha_header_validate(h.name, h.value) = "OK" /\ ~is_reserved_header(h.name, hasKey)
      BY <1>1, <3>1
    <3> HIDE DEF h, hasKey
    <3>4. /\ Clean(h.value) /\ h.name.chars # <<>>
          /\ h.name.word \notin {"Content-Type", "Accept", "User-Agent"}
          /\ hasKey => h.name.word # "Authorization"
      BY <3>2, <3>3, ExtraIs
    <3> QED BY <3>4 DEF h, hasKey
  <2> QED BY <2>1 DEF ExtrasFit
<1>5. ASSUME key # Null PROVE Clean(AuthValue(key))
  <2>1. key \in Seq(Octet) /\ Clean(key)
    BY <1>1, <1>2, <1>5, CleanIs
  <2>2. <<66, 32>> \in Seq(Nat) /\ Len(<<66, 32>>) = 2 /\ key \in Seq(Nat) /\ Len(key) \in Nat
        /\ <<66, 32>>[1] = 66 /\ <<66, 32>>[2] = 32
    BY <2>1 DEF Octet
  <2> DEFINE v == AuthValue(key)
  <2>3. v \in Seq(Nat) /\ Chained(<<66, 32>>, key, v)
    BY <2>2, ChainedIs, Zenon DEF AuthValue
  <2> HIDE DEF v
  <2>4. ASSUME NEW n \in DOMAIN v PROVE v[n] = 9 \/ (v[n] >= 32 /\ v[n] # 127)
    <3>1. /\ n \in 1..(2 + Len(key)) /\ v[1] = 66 /\ v[2] = 32
          /\ \A m \in 1..Len(key) : v[2 + m] = key[m]
      BY <2>2, <2>3, <2>4 DEF Chained
    <3>2. CASE n > 2
      <4>1. n - 2 \in 1..Len(key) /\ n = 2 + (n - 2)
        BY <2>2, <3>1, <3>2
      <4>2. n - 2 \in DOMAIN key
        BY <2>1, <4>1
      <4>3. v[n] = key[n - 2]
        BY <3>1, <4>1
      <4> QED BY <2>1, <4>2, <4>3 DEF Clean
    <3>3. CASE ~(n > 2)
      <4>1. n = 1 \/ n = 2
        BY <2>2, <3>1, <3>3
      <4> QED BY <3>1, <4>1
    <3> QED BY <3>2, <3>3
  <2> QED BY <2>4 DEF Clean, v
<1>6. Clean(UserAgent(o))
  <2>1. CASE o.user_agent = Null
    <3>1. Clean(<<115>>)
      BY DEF Clean
    <3> QED BY <2>1, <3>1 DEF UserAgent
  <2>2. CASE o.user_agent # Null
    <3>1. sicha_header_validate(Generated("User-Agent"), o.user_agent) = "OK"
      BY <2>2 DEF OptsValid
    <3>2. value_bytes_ok(o.user_agent)
      BY <3>1 DEF sicha_header_validate
    <3> QED BY <1>2, <2>2, <3>2, CleanIs DEF UserAgent
  <2> QED BY <2>1, <2>2
<1> QED BY <1>1, <1>2, <1>3, <1>4, <1>5, <1>6
LEMMA TokenIs ==
  ASSUME NEW b \in Int
  PROVE  is_token_char(b) <=> b \in 33..126 \ Delimiters
BY SMT DEF is_token_char, Delimiters

-----------------------------------------------------------------------------
(* The whole. *)
WhatIsSent(d, o, answered) ==
  LET b    == answered.b
      sent == answered.sent
      base == d.base_url
      kept == Len(b.url_chat) - Len(ChatPath)
  IN  /\ \E n \in DOMAIN Origin(base) : SlashesTo(base, n) = 2 /\ base[n] # "/"
      /\ Origin(b.url_chat) = Origin(base)
      /\ SubSeq(b.url_chat, kept + 1, Len(b.url_chat)) = ChatPath
      /\ IsPrefix(SubSeq(b.url_chat, 1, kept), base)
      /\ b.url_chat[kept] # "/"
      /\ \A n \in (kept + 1)..Len(base) : base[n] = "/"
      /\ d.assist => b.url_abort = Origin(base) \o AbortPath
      /\ \A j, k \in DOMAIN sent :
           /\ Clean(sent[k].value) /\ sent[k].name.chars # <<>>
           /\ k <= 3 + (IF d.api_key = Null THEN 0 ELSE 1) /\ j # k =>
                sent[j].name.word # sent[k].name.word
      /\ \A k \in 1..3 : sicha_script_call_header(sent, [sent[k].name EXCEPT !.case = "upper"])
                         = sent[k].value
      /\ answered.logged = WireLog(Resolved(Starred(d)), o)
      /\ d.api_key # Null =>
           \A h \in Range(sent \o answered.abort) :
             h.name.word = "Authorization" => Holds(h.value, d.api_key)

LEMMA WhatIsSentIs ==
  ASSUME NEW d \in Descs, NEW o \in Opts, BackendReply(d, o).st = "OK"
  PROVE  WhatIsSent(d, o, BackendReply(d, o))
<1> DEFINE a == BackendReply(d, o)
           b == Resolved(d)
           ua == UserAgent(o)
           sent == sicha_build_headers(b, ua)
           abort == AbortHeaders(b)
           key == d.api_key
           xs == d.extra_headers
           S == Range(xs)
           base == d.base_url
           chat == sicha_url_join(base, ChatPath)
           kept == Len(chat) - Len(ChatPath)
<1>1. BackendValid(d) = "OK" /\ OptsValid(o) = "OK"
  BY DEF BackendReply
<1>2. a.b = b /\ a.sent = sent /\ a.abort = abort /\ a.logged = WireLog(b, o)
  BY <1>1 DEF BackendReply
<1> HIDE DEF a
<1>3. /\ b.url_chat = chat /\ b.api_key = key /\ b.extra_headers = xs
      /\ d.assist => b.url_abort = sicha_url_join(sicha_url_origin(base), AbortPath)
  BY DEF Resolved
<1>4. /\ base \in Seq(STRING) /\ sicha_url_validate(base) = "OK"
      /\ ExtrasFit(xs, key)
      /\ key # Null => key \in Seq(Octet) /\ Clean(AuthValue(key))
      /\ Clean(ua)
  BY <1>1, PartsFit
<1>5. xs \in Seq(S)
  BY InputAssumption
<1> HIDE DEF b, ua, key, xs, S, base
<1>6. SentShape(sent, key, ua, xs)
  BY <1>3, <1>5, SentIs
<1>7. AbortShape(abort, key)
  BY <1>3, <1>4, AbortIs
<1> HIDE DEF sent, abort
<1>8. /\ \A j, k \in DOMAIN sent :
           /\ Clean(sent[k].value) /\ sent[k].name.chars # <<>>
           /\ k <= nOwn(key) /\ j # k => sent[j].name.word # sent[k].name.word
      /\ \A k \in 1..3 : sicha_script_call_header(sent, [sent[k].name EXCEPT !.case = "upper"])
                         = sent[k].value
  BY <1>4, <1>5, <1>6, HeadersFit
<1>9. \A j, k \in DOMAIN sent :
        /\ Clean(sent[k].value) /\ sent[k].name.chars # <<>>
        /\ k <= 3 + (IF key = Null THEN 0 ELSE 1) /\ j # k =>
             sent[j].name.word # sent[k].name.word
  <2>1. nOwn(key) = 3 + (IF key = Null THEN 0 ELSE 1)
    BY DEF nOwn
  <2> QED BY <1>8, <2>1, Zenon
<1>10. key # Null =>
         \A h \in Range(sent \o abort) : h.name.word = "Authorization" => Holds(h.value, key)
  BY <1>4, <1>5, <1>6, <1>7, KeysWhole
<1>11. WireLog(b, o) = WireLog(Resolved(Starred(d)), o)
  BY LogIs DEF b
<1>12. /\ \E n \in DOMAIN Origin(base) : SlashesTo(base, n) = 2 /\ base[n] # "/"
       /\ Origin(chat) = Origin(base)
       /\ SubSeq(chat, kept + 1, Len(chat)) = ChatPath
       /\ IsPrefix(SubSeq(chat, 1, kept), base)
       /\ chat[kept] # "/"
       /\ \A n \in (kept + 1)..Len(base) : base[n] = "/"
       /\ sicha_url_join(sicha_url_origin(base), AbortPath) = Origin(base) \o AbortPath
  BY <1>4, UrlsAre
<1> HIDE DEF chat
<1>13. d.assist => b.url_abort = Origin(base) \o AbortPath
  BY <1>3, <1>12
<1> QED BY <1>2, <1>3, <1>8, <1>9, <1>10, <1>11, <1>12, <1>13, Zenon DEF WhatIsSent, key, base, a

ReadAsSaid(args, env, got) ==
  LET key == Said(args, Max({3, Cardinality(Positionals(args))}), env.api_key)
      cfg == got.cfg
      d   == make_client(cfg)
  IN  /\ cfg.base_url = Said(args, 1, env.base_url)
      /\ cfg.model = Said(args, 2, env.model)
      /\ cfg.api_key = IF key = "" THEN Null ELSE key
      /\ got.runs <=> Null \notin {d.base_url, d.model}
      /\ cfg.kobold <=> \E n \in DOMAIN args : ~OptionValues(args)[n] /\ args[n] = "--kobold"
      /\ d.assist <=> cfg.kobold
      /\ \A n \in DOMAIN args : OptionValues(args)[n] => \E k \in Valued : cfg[k] # Null

(* The questions asked, and their answers. *)
SendableInv ==
  /\ query.op = "utf8" => query.text \in ByteTexts /\ answer \in {<<>>, <<sicha_utf8_valid(query.text)>>}
  /\ query.op = "type" => query.cp \in CodePoints /\ answer \in {<<>>, <<utf8_encode(query.cp)>>}
  /\ query.op = "byte" => query.b \in 0..255 /\ answer \in {<<>>, <<is_token_char(query.b)>>}
  /\ query.op = "backend" => /\ query.d \in Descs /\ query.o \in Opts
                             /\ answer \in {<<>>, <<BackendReply(query.d, query.o)>>}
  /\ query.op = "arguments" => /\ query.env \in Environments /\ query.args \in Arguments
                               /\ answer \in {<<>>, <<ParseArgs(query.env, query.args)>>}

LEMMA SendableInvHolds == RequestSpec => []SendableInv
<1>1. RequestInit => SendableInv
  BY MemoryAssumption
     DEF RequestInit, SendableInv, BodyQueries, TextOrPointQueries, ByteQueries, BackendQueries,
         ArgumentQueries, MemoryQueries
<1>2. SendableInv /\ [RequestNext]_checkVars => SendableInv'
  BY DEF SendableInv, RequestNext, AskText8, AskByte, AskBackend, AskArguments, AskBody, AskMemory,
         Reply, checkVars
<1> QED BY <1>1, <1>2, PTL DEF RequestSpec

(* What a client accepts can be sent, and what is logged of it tells no secret:
   whatever the URL, the key, the extra headers and their cases; what passes as
   UTF-8 is well-formed and what is typed is passed unless it is a surrogate,
   for every text and code point; and the chat demo reads any arguments as
   documented. *)
THEOREM SendableHolds == RequestSpec => []Sendable
<1>1. SendableInv => Utf8AsDefined
  <2> SUFFICES ASSUME SendableInv PROVE Utf8AsDefined
    OBVIOUS
  <2>1. ASSUME Answered("utf8") PROVE answer[1] <=> WellFormed(query.text)
    <3>1. query.text \in Seq(Octet) /\ answer[1] = sicha_utf8_valid(query.text)
      BY <2>1, InputAssumption DEF SendableInv, Answered
    <3> QED BY <3>1, ValidIsParses, WellFormedIsParses
  <2>2. ASSUME Answered("type")
        PROVE  (sicha_utf8_valid(answer[1]) <=> Scalar(query.cp)) /\ Spelled(answer[1]) = query.cp
    <3>1. CodePoint(query.cp) /\ answer[1] = utf8_encode(query.cp)
      BY <2>2, InputAssumption DEF SendableInv, Answered
    <3>2. query.cp \in Nat
      BY <3>1, SMT DEF CodePoint
    <3> QED BY <3>1, <3>2, TypedUtf8
  <2> QED BY <2>1, <2>2 DEF Utf8AsDefined
<1>2. SendableInv => ArgumentsAsDocumented
  <2> SUFFICES ASSUME SendableInv, Answered("arguments") PROVE ArgumentsAsDocumented
    BY DEF ArgumentsAsDocumented
  <2>1. /\ query.env \in [EnvKeys -> STRING \cup {Null}] /\ query.args \in Seq(STRING)
        /\ Null \notin STRING
    BY InputAssumption DEF SendableInv, Answered, EnvKeys
  <2>2. answer[1] = ParseArgs(query.env, query.args)
    BY DEF SendableInv, Answered
  <2>3. ReadAsSaid(query.args, query.env, ParseArgs(query.env, query.args))
    BY <2>1, ArgumentsAre, Zenon DEF ReadAsSaid
  <2>4. ReadAsSaid(query.args, query.env, answer[1])
    BY <2>2, <2>3, Zenon
  <2> QED BY <2>4, Zenon DEF ArgumentsAsDocumented, ReadAsSaid
<1>3. SendableInv => (Answered("byte") => (answer[1] <=> query.b \in 33..126 \ Delimiters))
  <2> SUFFICES ASSUME SendableInv, Answered("byte")
               PROVE  answer[1] <=> query.b \in 33..126 \ Delimiters
    OBVIOUS
  <2>1. query.b \in 0..255 /\ answer[1] = is_token_char(query.b)
    BY DEF SendableInv, Answered
  <2>2. query.b \in Int
    BY <2>1
  <2> QED BY <2>1, <2>2, TokenIs
<1>4. SendableInv => (Answered("backend") /\ answer[1].st = "OK" =>
                        WhatIsSent(query.d, query.o, answer[1]))
  <2> SUFFICES ASSUME SendableInv, Answered("backend"), answer[1].st = "OK"
               PROVE  WhatIsSent(query.d, query.o, answer[1])
    OBVIOUS
  <2>1. query.d \in Descs /\ query.o \in Opts /\ answer[1] = BackendReply(query.d, query.o)
    BY DEF SendableInv, Answered
  <2> QED BY <2>1, WhatIsSentIs
<1>5. SendableInv => Sendable
  BY <1>1, <1>2, <1>3, <1>4, Zenon DEF Sendable, WhatIsSent
<1> QED BY <1>5, SendableInvHolds, PTL
=============================================================================
