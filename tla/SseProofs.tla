------------------------------ MODULE SseProofs ------------------------------
(***************************************************************************)
(* Proofs about the parser of a stream (Sse), for streams of any length,   *)
(* any cuts, limits and mark, and about the buffers it collects lines and  *)
(* events in (Buf), for every width of size_t, first capacity and limit.   *)
(*                                                                         *)
(* The parser reads byte by byte, the stream's events are defined on all   *)
(* bytes at once.  The lemmas say what one more byte is to the lines, one  *)
(* more line to the events, and a chunk is taken in by induction (Fed).    *)
(***************************************************************************)
EXTENDS Sse, Buf, SequenceTheorems, FiniteSetTheorems, TLAPS

-----------------------------------------------------------------------------
(* The growable buffer.                                                    *)

(* The allocation is one byte larger than the capacity. *)
AllocInv ==
  /\ data => size = cap + 1 /\ 0 < cap
  /\ ~data => size = 0 /\ cap = 0 /\ len = 0
  /\ cap < SizeMax

(* Inside buf_reserve no error is set, and the bytes asked for are those
   wanted; the loop reaches the last size only if it was asked for. *)
LoopInv ==
  /\ pc # "idle" =>
       /\ err = "OK"
       /\ asked = want /\ len <= want
       /\ maxLen # 0 => want <= maxLen
       /\ op = "take" => want = len
  /\ pc = "grow" =>
       /\ 0 < grown
       /\ grown = SizeMax => want = SizeMax

BufInv == TypeOK /\ InBounds /\ NoSilentLoss /\ AllocInv /\ LoopInv

LEMMA WrapSmall ==
  ASSUME NEW n \in Size
  PROVE  Wrap(n) = n
BY BufAssumption DEF Wrap, Size

(* A capacity that the guard lets be doubled stays a size, and is not the
   last one, which is odd. *)
LEMMA DoublingFits ==
  ASSUME NEW g \in Size, ~(g > SizeMax \div 2)
  PROVE  g * 2 \in Size /\ g * 2 # SizeMax
BY BufAssumption DEF Size

LEMMA InitBufInv == BufInit => BufInv
<1> SUFFICES ASSUME BufInit PROVE BufInv
  OBVIOUS
<1> USE BufAssumption DEF BufInit
<1>1. TypeOK
  <2>1. Nothing \in [string : BOOLEAN, len : Size, nul : Size, all : BOOLEAN]
    BY DEF Nothing, Size
  <2>2. maxLen \in Limits /\ (maxLen # 0 => 0 <= maxLen)
    OBVIOUS
  <2>3. 0 \in Size /\ 0 \in 0..(2 * SizeMax)
    BY DEF Size
  <2> QED BY <2>1, <2>2, <2>3 DEF TypeOK
<1>2. InBounds /\ NoSilentLoss /\ AllocInv /\ LoopInv
  BY DEF InBounds, NoSilentLoss, AllocInv, LoopInv, Nothing
<1> QED BY <1>1, <1>2 DEF BufInv

(* What the checks of buf_reserve leave, for an append and for a take. *)
LEMMA ReserveStep ==
  ASSUME TypeOK, AllocInv, err = "OK", NEW need \in Size, Reserve(need)
  PROVE  /\ err' \in {"OK", "NOMEM", "TOOBIG"} /\ pc' \in {"idle", "grow", "room"}
         /\ want' \in Size /\ grown' \in Size
         /\ pc' = "idle" =>
              \/ err' = "TOOBIG" /\ maxLen # 0 /\ len + need > maxLen
              \/ err' = "NOMEM" /\ len + need > SizeMax
         /\ pc' # "idle" =>
              /\ err' = "OK" /\ want' = len + need
              /\ maxLen # 0 => want' <= maxLen
         /\ pc' = "grow" => 0 < grown' /\ grown' < SizeMax
         /\ pc' = "room" => data /\ want' <= cap
BY BufAssumption DEF Reserve, Refuse, TypeOK, AllocInv, Size

LEMMA AppendBytesStep ==
  ASSUME BufInv, NEW n \in Size, AppendBytes(n)
  PROVE  BufInv'
<1> USE BufAssumption DEF BufInv, AppendBytes, fields, locals
<1>1. CASE err # "OK"
  BY <1>1 DEF TypeOK, InBounds, NoSilentLoss, AllocInv, LoopInv
<1>2. CASE err = "OK"
  <2>1. asked = len
    BY <1>2 DEF NoSilentLoss
  <2>2. TypeOK'
    BY <1>2, <2>1, ReserveStep DEF TypeOK, Size
  <2>3. InBounds'
    BY <1>2, ReserveStep DEF InBounds, TypeOK, AllocInv, Size
  <2>4. NoSilentLoss'
    BY <1>2, ReserveStep DEF NoSilentLoss
  <2>5. AllocInv'
    BY <1>2 DEF AllocInv
  <2>6. LoopInv'
    BY <1>2, <2>1, ReserveStep DEF LoopInv, TypeOK, Size
  <2> QED BY <2>2, <2>3, <2>4, <2>5, <2>6
<1> QED BY <1>1, <1>2

LEMMA GrowStep ==
  ASSUME BufInv, Grow
  PROVE  BufInv'
<1> USE BufAssumption DEF BufInv, Grow, fields, history
<1>1. grown' \in Size /\ 0 < grown' /\ (grown' = SizeMax => want = SizeMax)
  <2>1. CASE grown > SizeMax \div 2
    BY <2>1 DEF Doubled, TypeOK, LoopInv, Size
  <2>2. CASE ~(grown > SizeMax \div 2)
    BY <2>2, DoublingFits DEF Doubled, TypeOK, LoopInv, Size
  <2> QED BY <2>1, <2>2
<1>2. TypeOK'
  BY <1>1 DEF TypeOK
<1>3. InBounds' /\ NoSilentLoss' /\ AllocInv'
  BY DEF InBounds, NoSilentLoss, AllocInv
<1>4. LoopInv'
  BY <1>1 DEF LoopInv
<1> QED BY <1>2, <1>3, <1>4

LEMMA AllocateStep ==
  ASSUME BufInv, Allocate
  PROVE  BufInv'
<1> USE BufAssumption DEF BufInv, Allocate, Full, locals, history
<1>1. grown + 1 \in Size /\ size' = grown + 1
  BY WrapSmall DEF TypeOK, Size
<1>2. TypeOK'
  BY <1>1 DEF TypeOK, Size
<1>3. InBounds'
  BY <1>1 DEF InBounds, LoopInv, TypeOK, Size
<1>4. NoSilentLoss'
  BY DEF NoSilentLoss
<1>5. AllocInv'
  BY <1>1 DEF AllocInv, LoopInv, TypeOK, Size
<1>6. LoopInv'
  BY DEF LoopInv
<1> QED BY <1>2, <1>3, <1>4, <1>5, <1>6

LEMMA AllocateFailsStep ==
  ASSUME BufInv, AllocateFails
  PROVE  BufInv'
<1> USE BufAssumption DEF BufInv, AllocateFails, Refuse, locals
<1>1. TypeOK'
  BY DEF TypeOK, Nothing, Size
<1>2. InBounds' /\ AllocInv' /\ LoopInv'
  BY DEF InBounds, AllocInv, LoopInv
<1>3. NoSilentLoss'
  BY DEF NoSilentLoss, Nothing
<1> QED BY <1>1, <1>2, <1>3

LEMMA CopiedStep ==
  ASSUME BufInv, Copied
  PROVE  BufInv'
<1> USE BufAssumption DEF BufInv, Copied, locals, history
<1>1. TypeOK'
  BY DEF TypeOK, LoopInv
<1>2. InBounds'
  BY DEF InBounds, LoopInv
<1>3. NoSilentLoss' /\ AllocInv' /\ LoopInv'
  BY DEF NoSilentLoss, AllocInv, LoopInv, InBounds
<1> QED BY <1>1, <1>2, <1>3

LEMMA ResetStep ==
  ASSUME BufInv, Reset
  PROVE  BufInv'
<1> USE BufAssumption DEF BufInv, Reset, locals
<1>1. TypeOK'
  BY DEF TypeOK, Size
<1>2. InBounds'
  BY DEF InBounds, AllocInv, TypeOK, Size
<1>3. NoSilentLoss' /\ AllocInv' /\ LoopInv'
  BY DEF NoSilentLoss, AllocInv, LoopInv
<1> QED BY <1>1, <1>2, <1>3

(* A buffer that was initialised anew, whatever was taken from it. *)
LEMMA ReinitStep ==
  ASSUME BufInv, Reinit, pc' = "idle", UNCHANGED <<maxLen, locals>>,
         taken' \in [string : BOOLEAN, len : Size, nul : Size, all : BOOLEAN],
         taken'.string => taken'.all /\ taken'.nul = taken'.len
  PROVE  BufInv'
<1> USE BufAssumption DEF BufInv, Reinit, locals
<1>1. TypeOK'
  <2>1. 0 \in Size /\ 0 \in 0..(2 * SizeMax)
    BY DEF Size
  <2>2. maxLen' \in Limits /\ maxLen' \in Size
    BY DEF TypeOK, Size
  <2>3. maxLen' # 0 => 0 <= maxLen'
    BY <2>2 DEF Size
  <2>4. op' \in {"append", "take"} /\ want' \in Size /\ grown' \in Size
    BY DEF TypeOK
  <2> QED BY <2>1, <2>2, <2>3, <2>4 DEF TypeOK
<1>2. InBounds'
  BY DEF InBounds
<1>3. NoSilentLoss'
  BY DEF NoSilentLoss
<1>4. AllocInv' /\ LoopInv'
  BY DEF AllocInv, LoopInv
<1> QED BY <1>1, <1>2, <1>3, <1>4

LEMMA HandOverStep ==
  ASSUME BufInv, HandOver, data, asked = len
  PROVE  BufInv'
<1>1. taken' = [string |-> TRUE, len |-> len, nul |-> nul, all |-> TRUE]
  BY DEF HandOver
<1>2. taken' \in [string : BOOLEAN, len : Size, nul : Size, all : BOOLEAN]
  BY <1>1 DEF BufInv, TypeOK
<1>3. taken'.string => taken'.all /\ taken'.nul = taken'.len
  BY <1>1 DEF BufInv, InBounds
<1> QED BY <1>2, <1>3, ReinitStep DEF HandOver, locals

LEMMA TakeStep ==
  ASSUME BufInv, Take
  PROVE  BufInv'
<1>1. CASE err # "OK"
  <2>1. /\ Reinit /\ taken' = Nothing /\ pc' = "idle"
        /\ UNCHANGED <<maxLen, locals>>
    BY <1>1 DEF Take
  <2>2. Nothing \in [string : BOOLEAN, len : Size, nul : Size, all : BOOLEAN] /\ ~Nothing.string
    BY BufAssumption DEF Nothing, Size
  <2> QED BY <2>1, <2>2, ReinitStep
<1>2. CASE err = "OK" /\ data
  <2>1. HandOver
    BY <1>2 DEF Take
  <2> QED BY <1>2, <2>1, HandOverStep DEF BufInv, NoSilentLoss, Take
<1>3. CASE err = "OK" /\ ~data
  <2> USE BufAssumption DEF BufInv
  <2>1. /\ Reserve(0) /\ pc = "idle" /\ op' = "take" /\ taken' = Nothing
        /\ UNCHANGED <<data, len, cap, size, nul, maxLen, asked, starved>>
    BY <1>3 DEF Take, history
  <2>2. asked = len /\ len = 0
    BY <1>3, <2>1 DEF NoSilentLoss, AllocInv
  <2>3. 0 \in Size /\ ~(len + 0 > SizeMax) /\ (maxLen # 0 => ~(len + 0 > maxLen))
    BY <2>2 DEF TypeOK, Size
  <2>4. pc' = "grow" /\ err' = "OK" /\ want' = 0 /\ grown' \in Size
        /\ 0 < grown' /\ grown' < SizeMax
    BY <1>3, <2>1, <2>2, <2>3, ReserveStep
  <2>5. TypeOK'
    BY <2>1, <2>3, <2>4 DEF TypeOK, Nothing
  <2>6. InBounds' /\ NoSilentLoss' /\ AllocInv'
    BY <2>1, <2>4 DEF InBounds, NoSilentLoss, AllocInv, Nothing
  <2>7. LoopInv'
    BY <2>1, <2>2, <2>4 DEF LoopInv, TypeOK, Size
  <2> QED BY <2>5, <2>6, <2>7
<1> QED BY <1>1, <1>2, <1>3

LEMMA FreeStep ==
  ASSUME BufInv, Free
  PROVE  BufInv'
BY ReinitStep DEF Free, BufInv, TypeOK, NoSilentLoss, locals

LEMMA StepBufInv == BufInv /\ [BufNext]_bufVars => BufInv'
<1> SUFFICES ASSUME BufInv, [BufNext]_bufVars PROVE BufInv'
  OBVIOUS
<1>1. ASSUME NEW n \in Size, AppendBytes(n) PROVE BufInv'
  BY <1>1, AppendBytesStep
<1>2. CASE Grow
  BY <1>2, GrowStep
<1>3. CASE Allocate
  BY <1>3, AllocateStep
<1>4. CASE AllocateFails
  BY <1>4, AllocateFailsStep
<1>5. CASE Copied
  BY <1>5, CopiedStep
<1>6. CASE Reset
  BY <1>6, ResetStep
<1>7. CASE Free
  BY <1>7, FreeStep
<1>8. CASE Take
  BY <1>8, TakeStep
<1>9. CASE Taken
  <2>1. HandOver /\ data /\ asked = len
    BY <1>9 DEF Taken, BufInv, InBounds, LoopInv
  <2> QED BY <2>1, HandOverStep
<1>10. CASE UNCHANGED bufVars
  BY <1>10 DEF bufVars, fields, locals, history, BufInv, TypeOK, InBounds, NoSilentLoss,
               AllocInv, LoopInv
<1> QED BY <1>1, <1>2, <1>3, <1>4, <1>5, <1>6, <1>7, <1>8, <1>9, <1>10 DEF BufNext

(* For every width of size_t, first capacity and limit, whatever sequence of
   calls buf.c gets: the invariant of its fields and of its growing loop. *)
THEOREM BufInvHolds == BufSpec => []BufInv
BY InitBufInv, StepBufInv, PTL DEF BufSpec

(* For every width of size_t: every field stays in its range, and a limit is
   never passed. *)
THEOREM BufTypeCorrect == BufSpec => []TypeOK
<1>1. BufInv => TypeOK
  BY DEF BufInv
<1> QED BY <1>1, BufInvHolds, PTL

(* For every width of size_t: bytes and NUL are written inside the
   allocation. *)
THEOREM WritesInBounds == BufSpec => []InBounds
<1>1. BufInv => InBounds
  BY DEF BufInv
<1> QED BY <1>1, BufInvHolds, PTL

(* Without an error nothing that was appended is missing, in the buffer or in
   a string taken from it. *)
THEOREM NothingIsLost == BufSpec => []NoSilentLoss
<1>1. BufInv => NoSilentLoss
  BY DEF BufInv
<1> QED BY <1>1, BufInvHolds, PTL

(* An error is set only at an append that cannot be served. *)
THEOREM ErrorsHaveCauses == BufSpec => ErrorHasCause
<1> DEFINE Cause == err = "OK" /\ err' # "OK" =>
                      \/ err' = "TOOBIG" /\ maxLen # 0 /\ asked' > maxLen
                      \/ err' = "NOMEM" /\ (asked' >= SizeMax \/ starved')
<1>1. BufInv /\ [BufNext]_bufVars => [Cause]_bufVars
  <2> SUFFICES ASSUME BufInv, BufNext, err = "OK", err' # "OK"
               PROVE  \/ err' = "TOOBIG" /\ maxLen # 0 /\ asked' > maxLen
                      \/ err' = "NOMEM" /\ (asked' >= SizeMax \/ starved')
    BY DEF bufVars
  <2>1. ASSUME NEW n \in Size, AppendBytes(n)
        PROVE  \/ err' = "TOOBIG" /\ maxLen # 0 /\ asked' > maxLen
               \/ err' = "NOMEM" /\ (asked' >= SizeMax \/ starved')
    <3>1. Reserve(n) /\ asked' = len + n /\ pc' = "idle"
      BY <2>1, BufAssumption DEF AppendBytes, BufInv, NoSilentLoss, Reserve, Refuse
    <3> QED BY <3>1, ReserveStep, BufAssumption DEF BufInv, TypeOK, Size
  <2>2. CASE AllocateFails
    <3>1. CASE Full
      BY <2>2, <3>1, BufAssumption DEF AllocateFails, Refuse, Full, BufInv, LoopInv
    <3>2. CASE ~Full
      BY <2>2, <3>2 DEF AllocateFails, Refuse
    <3> QED BY <3>1, <3>2
  <2>3. CASE Take
    <3>1. /\ Reserve(0) /\ len = 0
      BY <2>3 DEF Take, HandOver, Reinit, BufInv, AllocInv
    <3> QED BY <3>1, BufAssumption DEF Reserve, Refuse, BufInv, TypeOK, Size
  <2> QED BY <2>1, <2>2, <2>3 DEF BufNext, Grow, Allocate, Copied, Reset, Free, Taken,
                                  HandOver, Reinit, fields
<1> QED BY <1>1, BufInvHolds, PTL DEF BufSpec, ErrorHasCause

(* For every width of size_t the error tells, and tells nothing else than,
   that bytes are missing. *)
THEOREM ErrorsTellTheTruth == BufSpec => ErrorsTell
BY NothingIsLost, ErrorsHaveCauses, PTL DEF ErrorsTell

-----------------------------------------------------------------------------
(* The parser: what a chunk is, byte by byte, and the data of an event,    *)
(* field by field.                                                         *)

Fed == INSTANCE FoldFacts WITH Op <- FeedByte
Join == INSTANCE FoldFacts WITH Op <- Joined

-----------------------------------------------------------------------------
(* Sequences.                                                              *)

LEMMA SeqOfFunction ==
  ASSUME NEW S, NEW n \in Nat, NEW f \in [1..n -> S]
  PROVE  f \in Seq(S) /\ Len(f) = n /\ DOMAIN f = 1..n
<1>1. f \in Seq(S)
  BY SeqDef
<1> QED BY <1>1

(* What it takes to be a sequence with one more element. *)
LEMMA IsAppend ==
  ASSUME NEW S, NEW s \in Seq(S), NEW x \in S, NEW t \in Seq(S),
         Len(t) = Len(s) + 1, \A i \in 1..Len(s) : t[i] = s[i], t[Len(s) + 1] = x
  PROVE  t = Append(s, x)
<1> DEFINE u == Append(s, x)
<1>1. u \in Seq(S) /\ Len(u) = Len(s) + 1 /\ u[Len(s) + 1] = x /\ \A i \in 1..Len(s) : u[i] = s[i]
  BY AppendProperties
<1> HIDE DEF u
<1>2. \A i \in 1..Len(t) : t[i] = u[i]
  BY <1>1
<1>3. t = u
  BY <1>1, <1>2, SeqEqual
<1> QED BY <1>3 DEF u

LEMMA PrefixIs ==
  ASSUME NEW S, NEW s \in Seq(S), NEW t \in Seq(S)
  PROVE  IsPrefix(s, t) <=> Len(s) <= Len(t) /\ \A i \in 1..Len(s) : s[i] = t[i]
<1> DEFINE a == SubSeq(s, 1, Len(s))
           b == SubSeq(t, 1, Len(s))
<1>1. a = s
  OBVIOUS
<1>2. Len(s) <= Len(t) => b \in Seq(S) /\ Len(b) = Len(s) /\ \A i \in 1..Len(s) : b[i] = t[i]
  BY SubSeqProperties
<1> HIDE DEF a, b
<1>3. Len(s) <= Len(t) /\ (\A i \in 1..Len(s) : s[i] = t[i]) => s = b
  BY <1>2, SeqEqual
<1>4. IsPrefix(s, t) <=> Len(s) <= Len(t) /\ a = b
  BY DEF IsPrefix, a, b
<1> QED BY <1>1, <1>2, <1>3, <1>4

LEMMA EmptyPrefix ==
  ASSUME NEW S, NEW t \in Seq(S)
  PROVE  IsPrefix(<<>>, t)
<1>1. <<>> \in Seq(S) /\ Len(<<>>) = 0 /\ Len(t) \in Nat
  BY EmptySeq
<1>2. Len(<<>>) <= Len(t) /\ \A i \in 1..Len(<<>>) : <<>>[i] = t[i]
  BY <1>1
<1> QED BY <1>1, <1>2, PrefixIs

LEMMA PrefixAppend ==
  ASSUME NEW S, NEW s \in Seq(S), NEW t \in Seq(S), NEW x \in S, IsPrefix(s, t)
  PROVE  IsPrefix(s, Append(t, x))
<1> DEFINE u == Append(t, x)
<1>1. u \in Seq(S) /\ Len(u) = Len(t) + 1 /\ \A i \in 1..Len(t) : u[i] = t[i]
  BY AppendProperties
<1> HIDE DEF u
<1>2. Len(s) <= Len(t) /\ \A i \in 1..Len(s) : s[i] = t[i]
  BY PrefixIs
<1>3. IsPrefix(s, u)
  BY <1>1, <1>2, PrefixIs
<1> QED BY <1>3 DEF u

-----------------------------------------------------------------------------
(* A set of positions in order.                                            *)

Positions(n) == SUBSET (1..n)

(* Sets of positions are finite: they have cardinalities and extremes. *)
LEMMA PositionsFinite ==
  ASSUME NEW n \in Nat, NEW S \in Positions(n)
  PROVE  IsFiniteSet(S) /\ Cardinality(S) \in Nat
<1>1. IsFiniteSet(1..n)
  BY FS_Interval
<1>2. IsFiniteSet(S)
  BY <1>1, FS_Subset DEF Positions
<1> QED BY <1>2, FS_CardinalityType

(* A later position comes last. *)
LEMMA AscendingMore ==
  ASSUME NEW n \in Nat, NEW S \in Positions(n), NEW x \in Nat, x > n
  PROVE  /\ Cardinality(S) \in Nat
         /\ Cardinality(S \cup {x}) = Cardinality(S) + 1
         /\ \A k \in 1..Cardinality(S) : Ascending(S \cup {x})[k] = Ascending(S)[k]
         /\ Ascending(S \cup {x})[Cardinality(S) + 1] = x
<1> DEFINE R == S \cup {x}
           c == Cardinality(S)
           UpTo(A, k) == {j \in A : j <= k}
           At(A, i) == CHOOSE k \in A : Cardinality(UpTo(A, k)) = i
<1>1. IsFiniteSet(S) /\ c \in Nat
  BY PositionsFinite
<1>2. x \notin S /\ \A k \in S : k \in Nat /\ k < x
  BY DEF Positions
<1>3. Cardinality(R) = c + 1
  BY <1>1, <1>2, FS_AddElement
<1>4. \A k \in S : UpTo(R, k) = UpTo(S, k)
  BY <1>2
<1>5. UpTo(R, x) = R
  BY <1>2
<1>6. \A k \in S : Cardinality(UpTo(R, k)) \in 0..c
  <2> SUFFICES ASSUME NEW k \in S PROVE Cardinality(UpTo(S, k)) \in 0..c
    BY <1>4
  <2>1. IsFiniteSet(UpTo(S, k)) /\ Cardinality(UpTo(S, k)) <= c
    BY <1>1, FS_Subset
  <2> QED BY <1>1, <2>1, FS_CardinalityType
<1>7. ASSUME NEW i \in 1..c PROVE At(R, i) = At(S, i)
  <2>1. \A k : (k \in R /\ Cardinality(UpTo(R, k)) = i) <=> (k \in S /\ Cardinality(UpTo(S, k)) = i)
    <3>1. \A k \in S : Cardinality(UpTo(R, k)) = Cardinality(UpTo(S, k))
      BY <1>4
    <3>2. Cardinality(UpTo(R, x)) # i
      <4>1. Cardinality(UpTo(R, x)) = c + 1
        BY <1>3, <1>5
      <4> HIDE DEF c, UpTo, R
      <4> QED BY <1>1, <4>1
    <3> HIDE DEF UpTo, c
    <3> QED BY <3>1, <3>2
  <2> HIDE DEF UpTo, R
  <2> QED BY <2>1
<1>8. At(R, c + 1) = x
  <2>1. x \in R /\ Cardinality(UpTo(R, x)) = c + 1
    BY <1>3, <1>5
  <2>2. \A k \in R : Cardinality(UpTo(R, k)) = c + 1 => k = x
    BY <1>1, <1>6
  <2> HIDE DEF UpTo, R
  <2> QED BY <2>1, <2>2
<1>9. \A A : Ascending(A) = [i \in 1..Cardinality(A) |-> At(A, i)]
  BY DEF Ascending
<1> HIDE DEF At
<1>10. \A k \in 1..c : k \in 1..(c + 1)
  BY <1>1
<1>11. c + 1 \in 1..(c + 1)
  BY <1>1
<1> HIDE DEF c, R
<1>12. \A k \in 1..(c + 1) : Ascending(R)[k] = At(R, k)
  BY <1>3, <1>9
<1>13. \A k \in 1..c : Ascending(S)[k] = At(S, k)
  BY <1>9 DEF c
<1>14. \A k \in 1..c : Ascending(R)[k] = Ascending(S)[k]
  BY <1>7, <1>10, <1>12, <1>13
<1>15. Ascending(R)[c + 1] = x
  BY <1>8, <1>11, <1>12
<1> QED BY <1>1, <1>3, <1>14, <1>15 DEF c, R

(* The ascending sequence of a set has every member once. *)
LEMMA AscendingIn ==
  \A n \in Nat : \A S \in Positions(n) :
    /\ Ascending(S) \in Seq(S)
    /\ Len(Ascending(S)) = Cardinality(S)
<1> DEFINE T == {n \in Nat : \A S \in Positions(n) : \A k \in 1..Cardinality(S) : Ascending(S)[k] \in S}
<1>1. 0 \in T
  <2>1. ASSUME NEW S \in Positions(0) PROVE 1..Cardinality(S) = {}
    <3>1. S = {}
      BY DEF Positions
    <3>2. Cardinality(S) = 0
      BY <3>1, FS_EmptySet
    <3> QED BY <3>2
  <2> QED BY <2>1
<1>2. ASSUME NEW n \in Nat, n \in T PROVE n + 1 \in T
  <2> SUFFICES ASSUME NEW S \in Positions(n + 1), NEW k \in 1..Cardinality(S)
               PROVE  Ascending(S)[k] \in S
    BY DEF T
  <2> DEFINE R == S \ {n + 1}
  <2>1. R \in Positions(n)
    BY DEF Positions
  <2>2. CASE n + 1 \notin S
    <3>1. R = S
      BY <2>2
    <3> QED BY <1>2, <2>1, <3>1
  <2>3. CASE n + 1 \in S
    <3>1. S = R \cup {n + 1}
      BY <2>3
    <3> HIDE DEF R
    <3>2. /\ Cardinality(R) \in Nat /\ Cardinality(S) = Cardinality(R) + 1
          /\ \A i \in 1..Cardinality(R) : Ascending(S)[i] = Ascending(R)[i]
          /\ Ascending(S)[Cardinality(R) + 1] = n + 1
      BY <2>1, <3>1, AscendingMore
    <3>3. \A i \in 1..Cardinality(R) : Ascending(R)[i] \in R
      BY <1>2, <2>1
    <3>4. k \in 1..Cardinality(R) \/ k = Cardinality(R) + 1
      BY <3>2
    <3> QED BY <2>3, <3>1, <3>2, <3>3, <3>4
  <2> QED BY <2>2, <2>3
<1> HIDE DEF T
<1>3. Nat \subseteq T
  BY <1>1, <1>2, Fed!Inductive
<1> SUFFICES ASSUME NEW n \in Nat, NEW S \in Positions(n)
             PROVE  Ascending(S) \in Seq(S) /\ Len(Ascending(S)) = Cardinality(S)
  OBVIOUS
<1>4. Cardinality(S) \in Nat
  BY PositionsFinite
<1>5. \A k \in 1..Cardinality(S) : Ascending(S)[k] \in S
  BY <1>3 DEF T
<1>6. Ascending(S) \in [1..Cardinality(S) -> S]
  BY <1>5 DEF Ascending
<1> QED BY <1>4, <1>6, SeqOfFunction

LEMMA AscendingEmpty == Ascending({}) = <<>>
<1>1. Cardinality({}) = 0 /\ {} \in Positions(0)
  BY FS_EmptySet DEF Positions
<1>2. Ascending({}) \in Seq({}) /\ Len(Ascending({})) = 0
  BY <1>1, AscendingIn
<1> QED BY <1>2, EmptySeq

(* A later position comes last. *)
LEMMA AscendingAppend ==
  ASSUME NEW n \in Nat, NEW S \in Positions(n), NEW x \in Nat, x > n
  PROVE  Ascending(S \cup {x}) = Append(Ascending(S), x)
<1> DEFINE R == S \cup {x}
<1>1. /\ Cardinality(S) \in Nat /\ Cardinality(R) = Cardinality(S) + 1
      /\ \A k \in 1..Cardinality(S) : Ascending(R)[k] = Ascending(S)[k]
      /\ Ascending(R)[Cardinality(S) + 1] = x
  BY AscendingMore
<1>2. R \in Positions(x) /\ R \subseteq Nat /\ S \subseteq R /\ x \in R
  BY DEF Positions
<1> HIDE DEF R
<1>3. Ascending(S) \in Seq(S) /\ Len(Ascending(S)) = Cardinality(S)
  BY AscendingIn
<1>4. Ascending(R) \in Seq(R) /\ Len(Ascending(R)) = Cardinality(R)
  BY <1>2, AscendingIn
<1>5. Ascending(S) \in Seq(R)
  BY <1>2, <1>3, SeqMonotonic
<1>6. Ascending(R) = Append(Ascending(S), x)
  BY <1>1, <1>2, <1>3, <1>4, <1>5, IsAppend
<1> QED BY <1>6 DEF R

LEMMA MaxIs ==
  \A n \in Nat : \A S \in Positions(n) :
    S # {} => Max(S) \in S /\ \A y \in S : y <= Max(S)
<1> DEFINE HasMax(S) == \E x \in S : \A y \in S : x >= y
           T == {n \in Nat : \A S \in Positions(n) : S # {} => HasMax(S)}
<1>1. 0 \in T
  <2>1. \A S \in Positions(0) : S = {}
    BY DEF Positions
  <2> QED BY <2>1
<1>2. ASSUME NEW n \in Nat, n \in T PROVE n + 1 \in T
  <2> SUFFICES ASSUME NEW S \in Positions(n + 1), S # {} PROVE HasMax(S)
    BY DEF T
  <2>1. CASE n + 1 \in S
    BY <2>1 DEF Positions
  <2>2. CASE n + 1 \notin S
    <3>1. S \in Positions(n)
      BY <2>2 DEF Positions
    <3> QED BY <1>2, <3>1
  <2> QED BY <2>1, <2>2
<1> HIDE DEF T
<1>3. Nat \subseteq T
  BY <1>1, <1>2, Fed!Inductive
<1> SUFFICES ASSUME NEW n \in Nat, NEW S \in Positions(n), S # {}
             PROVE  Max(S) \in S /\ \A y \in S : y <= Max(S)
  OBVIOUS
<1>4. HasMax(S)
  BY <1>3 DEF T
<1>5. Max(S) \in S /\ \A y \in S : Max(S) >= y
  BY <1>4 DEF Max
<1>6. S \subseteq Nat
  BY DEF Positions
<1> QED BY <1>5, <1>6

-----------------------------------------------------------------------------
(* The lines of a text as its bytes come.                                  *)

Breaks(t, k) == {j \in 1..(k - 1) : IsBreak(t[j])}
LineStart(t, k) == 1 + (IF Breaks(t, k) = {} THEN 0 ELSE Max(Breaks(t, k)))

LEMMA LineBeforeIs == \A t, k : LineBefore(t, k) = SubSeq(t, LineStart(t, k), k - 1)
BY DEF LineBefore, LineStart, Breaks

(* A line starts after the break before it. *)
LEMMA LineStartIs ==
  ASSUME NEW t, NEW k \in Nat \ {0}
  PROVE  /\ LineStart(t, k) \in 1..k
         /\ \A j \in 1..(k - 1) : IsBreak(t[j]) => j < LineStart(t, k)
         /\ LineStart(t, k) # 1 => IsBreak(t[LineStart(t, k) - 1])
<1> DEFINE B == Breaks(t, k)
           m == Max(B)
<1>1. B \in Positions(k - 1) /\ k - 1 \in Nat
  BY DEF Breaks, Positions
<1>2. \A j \in 1..(k - 1) : IsBreak(t[j]) <=> j \in B
  BY DEF Breaks
<1> HIDE DEF B
<1>3. CASE B = {}
  BY <1>1, <1>2, <1>3 DEF LineStart, B
<1>4. CASE B # {}
  <2>1. m \in B /\ \A y \in B : y <= m
    BY <1>1, <1>4, MaxIs
  <2>2. m \in 1..(k - 1)
    BY <1>1, <2>1 DEF Positions
  <2>3. LineStart(t, k) = 1 + m
    BY <1>4 DEF LineStart, B
  <2> HIDE DEF m
  <2> QED BY <1>2, <2>1, <2>2, <2>3
<1> QED BY <1>3, <1>4

LEMMA LineTyped ==
  ASSUME NEW S, NEW t \in Seq(S), NEW k \in 1..(Len(t) + 1)
  PROVE  LineBefore(t, k) \in Seq(S) /\ Len(LineBefore(t, k)) = k - LineStart(t, k)
<1> DEFINE i == LineStart(t, k)
<1>1. i \in 1..k /\ k \in Nat /\ Len(t) \in Nat
  BY LineStartIs
<1> HIDE DEF i
<1>2. SubSeq(t, i, k - 1) \in Seq(S) /\ Len(SubSeq(t, i, k - 1)) = k - i
  BY <1>1
<1> QED BY <1>2, LineBeforeIs DEF i

(* A line is what it is whatever follows. *)
LEMMA LineStays ==
  ASSUME NEW S, NEW t \in Seq(S), NEW b \in S, NEW k \in 1..(Len(t) + 1)
  PROVE  LineBefore(Append(t, b), k) = LineBefore(t, k)
<1> DEFINE u == Append(t, b)
<1>1. Len(t) \in Nat /\ u \in Seq(S) /\ Len(u) = Len(t) + 1 /\ \A j \in 1..Len(t) : u[j] = t[j]
  BY AppendProperties
<1> HIDE DEF u
<1>2. Breaks(u, k) = Breaks(t, k)
  BY <1>1 DEF Breaks
<1>3. LineStart(u, k) = LineStart(t, k)
  BY <1>2 DEF LineStart
<1> DEFINE i == LineStart(t, k)
<1>4. i \in 1..k
  BY LineStartIs
<1> HIDE DEF i
<1>5. SubSeq(u, i, k - 1) = SubSeq(t, i, k - 1)
  <2> DEFINE v == SubSeq(t, i, k - 1)
             w == SubSeq(u, i, k - 1)
  <2>1. v \in Seq(S) /\ Len(v) = k - i /\ \A j \in 1..(k - i) : v[j] = t[i + j - 1]
    BY <1>1, <1>4
  <2>2. w \in Seq(S) /\ Len(w) = k - i /\ \A j \in 1..(k - i) : w[j] = u[i + j - 1]
    BY <1>1, <1>4
  <2>3. \A j \in 1..(k - i) : i + j - 1 \in 1..Len(t)
    BY <1>1, <1>4
  <2> HIDE DEF v, w
  <2>4. \A j \in 1..(k - i) : v[j] = w[j]
    BY <1>1, <2>1, <2>2, <2>3
  <2>5. v = w
    BY <2>1, <2>2, <2>4, SeqEqual
  <2> QED BY <2>5 DEF v, w
<1> QED BY <1>3, <1>5, LineBeforeIs DEF i, u

(* One more byte: it ends the unfinished line or joins it. *)
LEMMA UnfinishedStep ==
  ASSUME NEW S, NEW t \in Seq(S), NEW b \in S
  PROVE  /\ Unfinished(t) \in Seq(S)
         /\ Unfinished(Append(t, b)) = IF IsBreak(b) THEN <<>> ELSE Append(Unfinished(t), b)
<1> DEFINE u == Append(t, b)
           n == Len(t)
<1>1. n \in Nat /\ u \in Seq(S) /\ Len(u) = n + 1 /\ u[n + 1] = b /\ \A j \in 1..n : u[j] = t[j]
  BY AppendProperties
<1>2. t \in Seq(S) /\ Unfinished(t) \in Seq(S)
  BY LineTyped DEF Unfinished
<1> HIDE DEF u
<1>3. CASE IsBreak(b)
  <2>1. LineStart(u, n + 2) = n + 2
    <3>1. n + 1 < LineStart(u, n + 2) /\ LineStart(u, n + 2) \in 1..(n + 2)
      BY <1>1, <1>3, LineStartIs
    <3> QED BY <1>1, <3>1
  <2>2. Len(u) + 1 = n + 2 /\ n + 2 \in 1..(Len(u) + 1)
    BY <1>1
  <2>3. Unfinished(u) \in Seq(S) /\ Len(Unfinished(u)) = 0
    <3>1. LineBefore(u, n + 2) \in Seq(S)
      BY <1>1, <2>2, LineTyped
    <3>2. Len(LineBefore(u, n + 2)) = (n + 2) - LineStart(u, n + 2)
      BY <1>1, <2>2, LineTyped
    <3> QED BY <1>1, <2>1, <2>2, <3>1, <3>2 DEF Unfinished
  <2>4. Unfinished(u) = <<>>
    BY <2>3, EmptySeq
  <2> QED BY <1>2, <1>3, <2>4 DEF u
<1>4. CASE ~IsBreak(b)
  <2>1. Breaks(u, n + 2) = Breaks(t, n + 1)
    <3>1. \A j \in 1..(n + 1) : IsBreak(u[j]) <=> j \in 1..n /\ IsBreak(t[j])
      BY <1>1, <1>4
    <3>2. (n + 2) - 1 = n + 1 /\ (n + 1) - 1 = n
      BY <1>1
    <3>3. 1..n \subseteq 1..(n + 1)
      BY <1>1
    <3> HIDE DEF n
    <3> QED BY <3>1, <3>2, <3>3 DEF Breaks
  <2>2. LineStart(u, n + 2) = LineStart(t, n + 1)
    BY <2>1 DEF LineStart
  <2> DEFINE i == LineStart(t, n + 1)
  <2>3. i \in 1..(n + 1)
    BY <1>1, LineStartIs
  <2> HIDE DEF i
  <2>4. SubSeq(u, i, n + 1) = Append(SubSeq(t, i, n), b)
    <3> DEFINE v == SubSeq(t, i, n)
               w == SubSeq(u, i, n + 1)
    <3>1. v \in Seq(S) /\ Len(v) = n + 1 - i /\ \A j \in 1..(n + 1 - i) : v[j] = t[i + j - 1]
      BY <1>1, <2>3
    <3>2. w \in Seq(S) /\ Len(w) = n + 2 - i /\ \A j \in 1..(n + 2 - i) : w[j] = u[i + j - 1]
      BY <1>1, <2>3
    <3> HIDE DEF v, w, n
    <3>3. Len(w) = Len(v) + 1
      BY <1>1, <2>3, <3>1, <3>2
    <3>4. \A j \in 1..Len(v) : w[j] = v[j]
      BY <1>1, <2>3, <3>1, <3>2
    <3>5. w[Len(v) + 1] = b
      BY <1>1, <2>3, <3>1, <3>2
    <3>6. w = Append(v, b)
      BY <3>1, <3>2, <3>3, <3>4, <3>5, IsAppend
    <3> QED BY <3>6 DEF v, w
  <2>5. Unfinished(u) = SubSeq(u, i, n + 1)
    <3>1. Len(u) + 1 = n + 2 /\ (n + 2) - 1 = n + 1
      BY <1>1
    <3> QED BY <2>2, <3>1, LineBeforeIs DEF Unfinished, i
  <2>6. Unfinished(t) = SubSeq(t, i, n)
    <3>1. (n + 1) - 1 = n
      BY <1>1
    <3> QED BY <3>1, LineBeforeIs DEF Unfinished, i
  <2> QED BY <1>2, <1>4, <2>4, <2>5, <2>6 DEF u
<1> QED BY <1>3, <1>4

(* The second byte of a CR LF pair. *)
Second(t, b) == b = LF /\ t # <<>> /\ t[Len(t)] = CR

(* ... and it ends a line unless it is the LF of a CR LF. *)
LEMMA LineEndsStep ==
  ASSUME NEW S, NEW t \in Seq(S), NEW b \in S
  PROVE  /\ LineEnds(t) \in Positions(Len(t))
         /\ LineEnds(Append(t, b)) =
              IF IsBreak(b) /\ ~Second(t, b) THEN LineEnds(t) \cup {Len(t) + 1} ELSE LineEnds(t)
<1> DEFINE u == Append(t, b)
           n == Len(t)
           Ends(s, k) == s[k] = CR \/ (s[k] = LF /\ ~(k > 1 /\ s[k - 1] = CR))
<1>1. n \in Nat /\ u \in Seq(S) /\ Len(u) = n + 1 /\ u[n + 1] = b /\ \A j \in 1..n : u[j] = t[j]
  BY AppendProperties
<1>2. DOMAIN t = 1..n /\ DOMAIN u = 1..(n + 1)
  BY <1>1, LenProperties
<1>3. n > 0 <=> t # <<>>
  BY EmptySeq
<1> HIDE DEF u, n
<1>4. \A k \in 1..n : Ends(u, k) <=> Ends(t, k)
  <2> SUFFICES ASSUME NEW k \in 1..n PROVE Ends(u, k) <=> Ends(t, k)
    OBVIOUS
  <2>1. u[k] = t[k]
    BY <1>1
  <2>2. k > 1 => u[k - 1] = t[k - 1]
    <3>1. k > 1 => k - 1 \in 1..n
      BY <1>1
    <3> QED BY <1>1, <3>1
  <2> QED BY <2>1, <2>2
<1>5. Ends(u, n + 1) <=> IsBreak(b) /\ ~Second(t, b)
  <2>1. n + 1 > 1 /\ u[(n + 1) - 1] = CR <=> t # <<>> /\ t[Len(t)] = CR
    BY <1>1, <1>3 DEF n
  <2> QED BY <1>1, <2>1, SymbolAssumption DEF Second, IsBreak
<1>6. LineEnds(t) = {k \in 1..n : Ends(t, k)} /\ LineEnds(u) = {k \in 1..(n + 1) : Ends(u, k)}
  BY <1>2 DEF LineEnds
<1> HIDE DEF Ends
<1>7. 1..(n + 1) = (1..n) \cup {n + 1}
  BY <1>1
<1>8. LineEnds(u) = IF IsBreak(b) /\ ~Second(t, b) THEN LineEnds(t) \cup {n + 1} ELSE LineEnds(t)
  BY <1>4, <1>5, <1>6, <1>7
<1>9. LineEnds(t) \in Positions(n)
  BY <1>6 DEF Positions
<1> QED BY <1>8, <1>9 DEF u, n

LEMMA LinesTyped ==
  ASSUME NEW S, NEW t \in Seq(S)
  PROVE  /\ Lines(t) \in Seq(Seq(S))
         /\ Len(Lines(t)) = Len(Ascending(LineEnds(t)))
         /\ \A n \in 1..Len(Lines(t)) : Lines(t)[n] = LineBefore(t, Ascending(LineEnds(t))[n])
<1> DEFINE A == Ascending(LineEnds(t))
<1>1. LineEnds(t) \in Positions(Len(t)) /\ Len(t) \in Nat
  <2>1. LineEnds(t) \subseteq DOMAIN t
    BY DEF LineEnds
  <2> QED BY <2>1, LenProperties DEF Positions
<1>2. A \in Seq(LineEnds(t)) /\ LineEnds(t) \subseteq 1..Len(t)
  BY <1>1, AscendingIn DEF Positions
<1> HIDE DEF A
<1>3. Len(A) \in Nat /\ DOMAIN A = 1..Len(A) /\ \A n \in 1..Len(A) : A[n] \in 1..(Len(t) + 1)
  <2>1. Len(A) \in Nat /\ DOMAIN A = 1..Len(A) /\ \A n \in 1..Len(A) : A[n] \in LineEnds(t)
    BY <1>2, LenProperties, ElementOfSeq
  <2>2. 1..Len(t) \subseteq 1..(Len(t) + 1)
    BY <1>1
  <2> QED BY <1>2, <2>1, <2>2
<1>4. Lines(t) = [n \in 1..Len(A) |-> LineBefore(t, A[n])]
  BY <1>3 DEF Lines, A
<1>5. Lines(t) \in [1..Len(A) -> Seq(S)]
  BY <1>3, <1>4, LineTyped
<1>6. Lines(t) \in Seq(Seq(S)) /\ Len(Lines(t)) = Len(A)
  BY <1>3, <1>5, SeqOfFunction
<1> QED BY <1>4, <1>6 DEF A

(* One more byte is at most one more line. *)
LEMMA LinesStep ==
  ASSUME NEW S, NEW t \in Seq(S), NEW b \in S
  PROVE  Lines(Append(t, b)) =
           IF IsBreak(b) /\ ~Second(t, b) THEN Append(Lines(t), Unfinished(t)) ELSE Lines(t)
<1> DEFINE u == Append(t, b)
           A == Ascending(LineEnds(t))
           B == Ascending(LineEnds(u))
<1>1. u \in Seq(S) /\ Len(t) \in Nat
  BY AppendProperties
<1>2. LineEnds(t) \in Positions(Len(t)) /\ LineEnds(t) \subseteq 1..Len(t)
  BY LineEndsStep DEF Positions
<1>3. A \in Seq(LineEnds(t))
  BY <1>1, <1>2, AscendingIn
<1>4. /\ Lines(t) \in Seq(Seq(S)) /\ Len(Lines(t)) = Len(A)
      /\ \A n \in 1..Len(A) : Lines(t)[n] = LineBefore(t, A[n])
  BY LinesTyped
<1>5. /\ Lines(u) \in Seq(Seq(S)) /\ Len(Lines(u)) = Len(B)
      /\ \A n \in 1..Len(B) : Lines(u)[n] = LineBefore(u, B[n])
  BY <1>1, LinesTyped
<1>6. Unfinished(t) \in Seq(S) /\ Unfinished(t) = LineBefore(u, Len(t) + 1)
  <2>1. Unfinished(t) \in Seq(S)
    BY UnfinishedStep
  <2>2. Len(t) + 1 \in 1..(Len(t) + 1)
    BY <1>1
  <2>3. LineBefore(u, Len(t) + 1) = LineBefore(t, Len(t) + 1)
    BY <2>2, LineStays
  <2> QED BY <2>1, <2>3 DEF Unfinished
<1>7. \A n \in 1..Len(A) : LineBefore(u, A[n]) = LineBefore(t, A[n])
  <2>1. \A n \in 1..Len(A) : A[n] \in LineEnds(t)
    BY <1>3, ElementOfSeq
  <2>2. 1..Len(t) \subseteq 1..(Len(t) + 1)
    BY <1>1
  <2>3. \A n \in 1..Len(A) : A[n] \in 1..(Len(t) + 1)
    BY <1>2, <2>1, <2>2
  <2> HIDE DEF A
  <2> QED BY <2>3, LineStays
<1>8. CASE IsBreak(b) /\ ~Second(t, b)
  <2>1. LineEnds(u) = LineEnds(t) \cup {Len(t) + 1}
    BY <1>8, LineEndsStep
  <2>2. B = Append(A, Len(t) + 1)
    <3>1. Len(t) + 1 \in Nat /\ Len(t) + 1 > Len(t)
      BY <1>1
    <3>2. Ascending(LineEnds(t) \cup {Len(t) + 1}) = Append(A, Len(t) + 1)
      BY <1>1, <1>2, <3>1, AscendingAppend
    <3> QED BY <2>1, <3>2
  <2>3. A \in Seq(Nat) /\ Len(t) + 1 \in Nat
    <3>1. LineEnds(t) \subseteq Nat
      BY <1>2
    <3> QED BY <1>1, <1>3, <3>1, SeqMonotonic
  <2> HIDE DEF A, B, u
  <2>4. /\ Len(A) \in Nat /\ Len(B) = Len(A) + 1 /\ B[Len(A) + 1] = Len(t) + 1
        /\ \A n \in 1..Len(A) : B[n] = A[n]
    BY <2>2, <2>3, AppendProperties
  <2>5. \A n \in 1..Len(A) : Lines(u)[n] = Lines(t)[n]
    <3>1. \A n \in 1..Len(A) : n \in 1..Len(B)
      BY <2>4
    <3> QED BY <1>4, <1>5, <1>7, <2>4, <3>1
  <2>6. Lines(u)[Len(A) + 1] = Unfinished(t)
    <3>1. Len(A) + 1 \in 1..Len(B)
      BY <2>4
    <3> QED BY <1>5, <1>6, <2>4, <3>1
  <2>7. Lines(u) = Append(Lines(t), Unfinished(t))
    BY <1>4, <1>5, <1>6, <2>4, <2>5, <2>6, IsAppend
  <2> QED BY <1>8, <2>7 DEF u
<1>9. CASE ~(IsBreak(b) /\ ~Second(t, b))
  <2>1. B = A
    BY <1>9, LineEndsStep
  <2> HIDE DEF A, B, u
  <2>2. Lines(u) = Lines(t)
    BY <1>4, <1>5, <1>7, <2>1, SeqEqual
  <2> QED BY <1>9, <2>2 DEF u
<1> QED BY <1>8, <1>9

-----------------------------------------------------------------------------
(* Fields.                                                                 *)

Line == Seq(Symbols)

LEMMA MinIs ==
  \A n \in Nat : \A S \in Positions(n) :
    S # {} => Min(S) \in S /\ \A y \in S : Min(S) <= y
<1> DEFINE HasMin(S) == \E x \in S : \A y \in S : x <= y
           T == {n \in Nat : \A S \in Positions(n) : S # {} => HasMin(S)}
<1>1. 0 \in T
  <2>1. \A S \in Positions(0) : S = {}
    BY DEF Positions
  <2> QED BY <2>1
<1>2. ASSUME NEW n \in Nat, n \in T PROVE n + 1 \in T
  <2> SUFFICES ASSUME NEW S \in Positions(n + 1), S # {} PROVE HasMin(S)
    BY DEF T
  <2> DEFINE R == S \ {n + 1}
  <2>1. R \in Positions(n) /\ \A x \in R : x \in Nat /\ x <= n
    BY DEF Positions
  <2>2. CASE R = {}
    <3>1. S = {n + 1}
      BY <2>2
    <3> QED BY <3>1
  <2>3. CASE R # {}
    <3>1. PICK x \in R : \A y \in R : x <= y
      BY <1>2, <2>1, <2>3
    <3> QED BY <2>1, <3>1
  <2> QED BY <2>2, <2>3
<1> HIDE DEF T
<1>3. Nat \subseteq T
  BY <1>1, <1>2, Fed!Inductive
<1> SUFFICES ASSUME NEW n \in Nat, NEW S \in Positions(n), S # {}
             PROVE  Min(S) \in S /\ \A y \in S : Min(S) <= y
  OBVIOUS
<1>4. HasMin(S)
  BY <1>3 DEF T
<1> QED BY <1>4 DEF Min

LEMMA FieldTyped == \A l \in Line : FieldOf(l).value \in Line
<1> SUFFICES ASSUME NEW l \in Line PROVE FieldOf(l).value \in Line
  OBVIOUS
<1>1. CASE ~Contains(l, Colon)
  <2>1. FieldOf(l).value = <<>>
    BY <1>1 DEF FieldOf
  <2> QED BY <2>1, EmptySeq DEF Line
<1>2. CASE Contains(l, Colon)
  <2> DEFINE I == {i \in 1..Len(l) : l[i] = Colon}
             c == IF I # {} THEN Min(I) ELSE 0
             rest == SubSeq(l, c + 1, Len(l))
  <2>1. FieldOf(l).value = IF rest # <<>> /\ Head(rest) = Space THEN Tail(rest) ELSE rest
    BY <1>2 DEF FieldOf, SelectInSeq
  <2>2. Len(l) \in Nat /\ I \in Positions(Len(l)) /\ I # {}
    BY <1>2, LenProperties DEF Contains, Positions, Line
  <2> HIDE DEF I
  <2>3. Min(I) \in 1..Len(l)
    BY <2>2, MinIs DEF Positions
  <2>4. c \in 1..Len(l)
    BY <2>2, <2>3
  <2> HIDE DEF c
  <2>5. rest \in Line
    BY <2>2, <2>4 DEF Line
  <2> HIDE DEF rest
  <2>6. rest # <<>> => Tail(rest) \in Line
    BY <2>5 DEF Line
  <2> QED BY <2>1, <2>5, <2>6
<1> QED BY <1>1, <1>2

IsData(l) == FieldOf(l).name = <<Data>>
Value(l) == FieldOf(l).value

LEMMA BlankHasNoField == ~IsData(<<>>)
<1>1. ~Contains(<<>>, Colon)
  BY DEF Contains
<1>2. FieldOf(<<>>).name = <<>>
  BY <1>1 DEF FieldOf
<1>3. Len(<<>>) = 0 /\ Len(<<Data>>) = 1
  OBVIOUS
<1> QED BY <1>2, <1>3 DEF IsData

(* Values joined. *)
JoinOf(values) == IF values = <<>> THEN <<>> ELSE Tail(FoldLeft(Joined, <<>>, values))

LEMMA JoinOne ==
  ASSUME NEW S, NEW s \in Seq(S), NEW x \in S
  PROVE  FoldLeft(Joined, <<>>, Append(s, x)) = Joined(FoldLeft(Joined, <<>>, s), x)
<1>1. \A t : Join!Fold(<<>>, t) = FoldLeft(Joined, <<>>, t)
  BY DEF Join!Fold, Join!FoldLeft, FoldLeft, Join!MapThenFoldSet, MapThenFoldSet, Join!Max, Max
<1>2. Join!Fold(<<>>, Append(s, x)) = Joined(Join!Fold(<<>>, s), x)
  BY Join!FoldAppend
<1> QED BY <1>1, <1>2

LEMMA JoinNone == FoldLeft(Joined, <<>>, <<>>) = <<>>
<1>1. Join!Fold(<<>>, <<>>) = FoldLeft(Joined, <<>>, <<>>)
  BY DEF Join!Fold, Join!FoldLeft, FoldLeft, Join!MapThenFoldSet, MapThenFoldSet, Join!Max, Max
<1> QED BY <1>1, Join!FoldEmpty

LEMMA LFTyped == LF \in Symbols /\ <<LF>> \in Line /\ Len(<<LF>>) = 1
BY DEF Symbols, Line

LEMMA JoinedTyped ==
  ASSUME NEW a \in Line, NEW v \in Line
  PROVE  Joined(a, v) \in Line /\ Len(Joined(a, v)) = Len(a) + 1 + Len(v)
<1>1. a \o <<LF>> \in Line /\ Len(a \o <<LF>>) = Len(a) + 1
  BY LFTyped, ConcatProperties DEF Line
<1> DEFINE c == a \o <<LF>>
<1> HIDE DEF c
<1>2. c \in Line => c \o v \in Line /\ Len(c \o v) = Len(c) + Len(v)
  BY ConcatProperties DEF Line
<1> QED BY <1>1, <1>2 DEF Joined, c

LEMMA FoldTyped ==
  ASSUME NEW s \in Seq(Line)
  PROVE  /\ FoldLeft(Joined, <<>>, s) \in Line
         /\ s # <<>> => Len(FoldLeft(Joined, <<>>, s)) > 0
<1> DEFINE T == {t \in Seq(Line) : /\ FoldLeft(Joined, <<>>, t) \in Line
                                   /\ t # <<>> => Len(FoldLeft(Joined, <<>>, t)) > 0}
<1>1. <<>> \in T
  BY JoinNone, EmptySeq DEF Line
<1>2. ASSUME NEW t \in Seq(Line), NEW x \in Line, t \in T PROVE Append(t, x) \in T
  <2> DEFINE a == FoldLeft(Joined, <<>>, t)
  <2>1. FoldLeft(Joined, <<>>, Append(t, x)) = Joined(a, x)
    BY JoinOne
  <2>2. a \in Line
    BY <1>2
  <2> HIDE DEF a
  <2>3. Joined(a, x) \in Line /\ Len(Joined(a, x)) > 0
    <3>1. Len(a) \in Nat /\ Len(x) \in Nat
      BY <2>2 DEF Line
    <3> QED BY <2>2, <3>1, JoinedTyped
  <2>4. Append(t, x) \in Seq(Line)
    BY AppendProperties
  <2> QED BY <2>1, <2>3, <2>4
<1> HIDE DEF T
<1>3. Seq(Line) \subseteq T
  BY <1>1, <1>2, Join!SeqInductive
<1> QED BY <1>3 DEF T

(* One more field, joined to the others with a line feed. *)
LEMMA JoinOfStep ==
  ASSUME NEW s \in Seq(Line), NEW x \in Line
  PROVE  /\ JoinOf(s) \in Line
         /\ JoinOf(<<>>) = <<>>
         /\ JoinOf(Append(s, x)) = IF s = <<>> THEN x ELSE (JoinOf(s) \o <<LF>>) \o x
<1> DEFINE a == FoldLeft(Joined, <<>>, s)
<1>1. a \in Line /\ (s # <<>> => Len(a) > 0) /\ (s = <<>> => a = <<>>)
  BY FoldTyped, JoinNone
<1>2. JoinOf(Append(s, x)) = Tail((a \o <<LF>>) \o x)
  <2>1. Append(s, x) # <<>>
    <3>1. Len(Append(s, x)) = Len(s) + 1 /\ Len(s) \in Nat
      BY AppendProperties
    <3> QED BY <3>1
  <2> QED BY <2>1, JoinOne DEF JoinOf, Joined
<1>3. JoinOf(s) = IF s = <<>> THEN <<>> ELSE Tail(a)
  BY DEF JoinOf
<1> HIDE DEF a
<1>4. <<LF>> \in Line /\ x \in Line
  BY LFTyped
<1>5. CASE s = <<>>
  <2>1. Tail((<<>> \o <<LF>>) \o x) = x
    <3>1. <<>> \o <<LF>> = <<LF>>
      OBVIOUS
    <3>2. Tail(<<LF>> \o x) = x
      <4> DEFINE u == <<LF>> \o x
                 w == Tail(u)
      <4>1. u \in Line /\ Len(u) = 1 + Len(x) /\ Len(x) \in Nat /\ \A i \in 1..Len(x) : u[i + 1] = x[i]
        BY <1>4, LFTyped DEF Line
      <4> HIDE DEF u
      <4>2. u # <<>>
        BY <4>1
      <4>3. w \in Line /\ Len(w) = Len(x) /\ \A i \in 1..Len(x) : w[i] = u[i + 1]
        BY <4>1, <4>2 DEF Line
      <4> HIDE DEF w
      <4>4. w = x
        BY <4>1, <4>3, SeqEqual DEF Line
      <4> QED BY <4>4 DEF u, w
    <3> QED BY <3>1, <3>2
  <2>2. <<>> \in Line
    BY EmptySeq DEF Line
  <2> QED BY <1>1, <1>2, <1>3, <1>5, <2>1, <2>2 DEF JoinOf
<1>6. CASE s # <<>>
  <2>1. a \in Line /\ a # <<>> /\ Len(a) > 0
    BY <1>1, <1>6, EmptySeq DEF Line
  <2>2. Tail(a) \in Line /\ Len(Tail(a)) = Len(a) - 1
    BY <2>1 DEF Line
  <2>3. Tail((a \o <<LF>>) \o x) = (Tail(a) \o <<LF>>) \o x
    <3>1. \A c, d \in Line : c # <<>> => Tail(c \o d) = Tail(c) \o d /\ c \o d \in Line /\ c \o d # <<>>
      <4> SUFFICES ASSUME NEW c \in Line, NEW d \in Line, c # <<>>
                   PROVE  Tail(c \o d) = Tail(c) \o d /\ c \o d \in Line /\ c \o d # <<>>
        OBVIOUS
      <4> DEFINE u == c \o d
                 v == Tail(u)
                 w == Tail(c)
                 z == w \o d
      <4>1. Len(c) \in Nat /\ Len(c) > 0 /\ Len(d) \in Nat
        BY EmptySeq DEF Line
      <4>2. /\ u \in Line /\ Len(u) = Len(c) + Len(d)
            /\ \A i \in 1..(Len(c) + Len(d)) : u[i] = IF i <= Len(c) THEN c[i] ELSE d[i - Len(c)]
        BY ConcatProperties DEF Line
      <4>3. w \in Line /\ Len(w) = Len(c) - 1 /\ \A i \in 1..(Len(c) - 1) : w[i] = c[i + 1]
        BY <4>1 DEF Line
      <4> HIDE DEF u, w
      <4>4. u # <<>>
        BY <4>1, <4>2
      <4>5. v \in Line /\ Len(v) = Len(u) - 1 /\ \A i \in 1..(Len(u) - 1) : v[i] = u[i + 1]
        BY <4>2, <4>4 DEF Line
      <4>6. /\ z \in Line /\ Len(z) = Len(w) + Len(d)
            /\ \A i \in 1..(Len(w) + Len(d)) : z[i] = IF i <= Len(w) THEN w[i] ELSE d[i - Len(w)]
        BY <4>3, ConcatProperties DEF Line
      <4> HIDE DEF v, z
      <4>7. Len(v) = Len(z) /\ Len(v) = (Len(c) + Len(d)) - 1
        BY <4>1, <4>2, <4>3, <4>5, <4>6
      <4>8. ASSUME NEW i \in 1..Len(v) PROVE v[i] = z[i]
        <5>1. i \in 1..((Len(c) + Len(d)) - 1) /\ i + 1 \in 1..(Len(c) + Len(d))
          BY <4>1, <4>7
        <5>2. v[i] = IF i + 1 <= Len(c) THEN c[i + 1] ELSE d[(i + 1) - Len(c)]
          BY <4>2, <4>5, <5>1
        <5>3. z[i] = IF i <= Len(c) - 1 THEN c[i + 1] ELSE d[i - (Len(c) - 1)]
          BY <4>1, <4>3, <4>6, <5>1
        <5>4. (i + 1) - Len(c) = i - (Len(c) - 1) /\ (i + 1 <= Len(c) <=> i <= Len(c) - 1)
          BY <4>1, <5>1
        <5> QED BY <5>2, <5>3, <5>4
      <4>9. v = z
        BY <4>5, <4>6, <4>7, <4>8, SeqEqual DEF Line
      <4> QED BY <4>2, <4>4, <4>9 DEF u, v, w, z
    <3>2. Tail(a \o <<LF>>) = Tail(a) \o <<LF>> /\ a \o <<LF>> \in Line /\ a \o <<LF>> # <<>>
      BY <1>4, <2>1, <3>1
    <3>3. Tail((a \o <<LF>>) \o x) = Tail(a \o <<LF>>) \o x
      BY <3>1, <3>2
    <3> QED BY <3>2, <3>3
  <2> QED BY <1>2, <1>3, <1>6, <2>2, <2>3 DEF JoinOf
<1> QED BY <1>5, <1>6

-----------------------------------------------------------------------------
(* Blocks of lines and their events as the lines come.                     *)

Blanks(lines, n) == {m \in 1..(n - 1) : lines[m] = <<>>}

LEMMA BlockStartIs ==
  ASSUME NEW lines, NEW n \in Nat \ {0}
  PROVE  /\ BlockStart(lines, n) \in 1..n
         /\ \A m \in 1..(n - 1) : lines[m] = <<>> => m < BlockStart(lines, n)
<1> DEFINE B == Blanks(lines, n)
           x == Max(B)
<1>1. B \in Positions(n - 1) /\ n - 1 \in Nat
  BY DEF Blanks, Positions
<1>2. \A m \in 1..(n - 1) : lines[m] = <<>> <=> m \in B
  BY DEF Blanks
<1>3. BlockStart(lines, n) = 1 + (IF B = {} THEN 0 ELSE Max(B))
  BY DEF BlockStart, Blanks
<1> HIDE DEF B
<1>4. CASE B = {}
  BY <1>1, <1>2, <1>3, <1>4
<1>5. CASE B # {}
  <2>1. x \in B /\ \A y \in B : y <= x
    BY <1>1, <1>5, MaxIs
  <2>2. x \in 1..(n - 1)
    BY <1>1, <2>1 DEF Positions
  <2>3. BlockStart(lines, n) = 1 + x
    BY <1>3, <1>5
  <2> HIDE DEF x
  <2> QED BY <1>2, <2>1, <2>2, <2>3
<1> QED BY <1>4, <1>5

(* A new line does not change the blocks before it. *)
LEMMA BlockStartStep ==
  ASSUME NEW lines \in Seq(Line), NEW l \in Line, NEW n \in 1..(Len(lines) + 1)
  PROVE  BlockStart(Append(lines, l), n) = BlockStart(lines, n)
<1> DEFINE more == Append(lines, l)
<1>1. Len(lines) \in Nat /\ \A m \in 1..Len(lines) : more[m] = lines[m]
  BY AppendProperties
<1> HIDE DEF more
<1>2. Blanks(more, n) = Blanks(lines, n)
  BY <1>1 DEF Blanks
<1>3. BlockStart(more, n) = BlockStart(lines, n)
  BY <1>2 DEF BlockStart, Blanks
<1> QED BY <1>3 DEF more

(* The block after the last line. *)
LEMMA NextBlock ==
  ASSUME NEW lines \in Seq(Line), NEW l \in Line
  PROVE  BlockStart(Append(lines, l), Len(lines) + 2) =
           IF l = <<>> THEN Len(lines) + 2 ELSE BlockStart(lines, Len(lines) + 1)
<1> DEFINE more == Append(lines, l)
           n == Len(lines)
<1>1. n \in Nat /\ more[n + 1] = l /\ \A m \in 1..n : more[m] = lines[m]
  BY AppendProperties
<1> HIDE DEF more, n
<1>2. CASE l = <<>>
  <2>1. /\ BlockStart(more, n + 2) \in 1..(n + 2)
        /\ \A m \in 1..(n + 1) : more[m] = <<>> => m < BlockStart(more, n + 2)
    <3>1. n + 2 \in Nat \ {0} /\ (n + 2) - 1 = n + 1
      BY <1>1
    <3> QED BY <3>1, BlockStartIs
  <2>2. n + 1 < BlockStart(more, n + 2)
    <3>1. n + 1 \in 1..(n + 1)
      BY <1>1
    <3> QED BY <1>1, <1>2, <2>1, <3>1
  <2>3. BlockStart(more, n + 2) = n + 2
    BY <1>1, <2>1, <2>2
  <2> QED BY <1>2, <2>3 DEF more, n
<1>3. CASE l # <<>>
  <2>1. Blanks(more, n + 2) = Blanks(lines, n + 1)
    <3>1. \A m \in 1..(n + 1) : more[m] = <<>> <=> m \in 1..n /\ lines[m] = <<>>
      BY <1>1, <1>3
    <3>2. (n + 2) - 1 = n + 1 /\ (n + 1) - 1 = n /\ 1..n \subseteq 1..(n + 1)
      BY <1>1
    <3> QED BY <3>1, <3>2 DEF Blanks
  <2>2. BlockStart(more, n + 2) = BlockStart(lines, n + 1)
    BY <2>1 DEF BlockStart, Blanks
  <2> QED BY <1>3, <2>2 DEF more, n
<1> QED BY <1>2, <1>3

LEMMA DataLinesIs ==
  ASSUME NEW lines \in Seq(Line), NEW n \in Nat
  PROVE  /\ DataLines(lines, n) \in Positions(Len(lines))
         /\ DataLines(lines, n) =
              {m \in 1..Len(lines) : m >= BlockStart(lines, n) /\ m <= n /\ IsData(lines[m])}
<1>1. DOMAIN lines = 1..Len(lines) /\ Len(lines) \in Nat
  BY LenProperties
<1>2. BlockStart(lines, n) \in Int
  <2> DEFINE x == Max(Blanks(lines, n))
  <2>0. CASE n = 0
    <3>1. Blanks(lines, n) = {}
      BY <2>0 DEF Blanks
    <3> QED BY <3>1 DEF BlockStart, Blanks
  <2>1. CASE n # 0
    BY <2>1, BlockStartIs
  <2> QED BY <2>0, <2>1
<1> DEFINE s == BlockStart(lines, n)
<1>3. DataLines(lines, n) = {m \in s..n : m \in 1..Len(lines) /\ IsData(lines[m])}
  BY <1>1 DEF DataLines, IsData
<1> HIDE DEF s
<1>4. \A m \in 1..Len(lines) : m \in s..n <=> m >= s /\ m <= n
  BY <1>1, <1>2 DEF s
<1>5. DataLines(lines, n) = {m \in 1..Len(lines) : m >= s /\ m <= n /\ IsData(lines[m])}
  BY <1>3, <1>4
<1> QED BY <1>5 DEF s, Positions

Values(lines, places) == [k \in DOMAIN places |-> Value(lines[places[k]])]

LEMMA DataIs ==
  \A lines, n : DataOf(lines, n) = JoinOf(Values(lines, Ascending(DataLines(lines, n))))
BY DEF DataOf, JoinOf, Values, Value

LEMMA ValuesTyped ==
  ASSUME NEW lines \in Seq(Line), NEW f \in Seq(1..Len(lines))
  PROVE  /\ Values(lines, f) \in Seq(Line)
         /\ Len(Values(lines, f)) = Len(f)
         /\ \A k \in 1..Len(f) : Values(lines, f)[k] = Value(lines[f[k]])
<1>1. Len(f) \in Nat /\ DOMAIN f = 1..Len(f) /\ \A k \in 1..Len(f) : f[k] \in 1..Len(lines)
  BY LenProperties, ElementOfSeq
<1>2. \A k \in 1..Len(f) : Value(lines[f[k]]) \in Line
  <2>1. \A k \in 1..Len(f) : lines[f[k]] \in Line
    BY <1>1, ElementOfSeq
  <2> QED BY <2>1, FieldTyped DEF Value
<1>3. Values(lines, f) = [k \in 1..Len(f) |-> Value(lines[f[k]])]
  BY <1>1 DEF Values
<1>4. Values(lines, f) \in [1..Len(f) -> Line]
  BY <1>2, <1>3
<1> QED BY <1>1, <1>3, <1>4, SeqOfFunction

LEMMA DataTyped ==
  ASSUME NEW lines \in Seq(Line), NEW n \in Nat
  PROVE  /\ Ascending(DataLines(lines, n)) \in Seq(1..Len(lines))
         /\ DataOf(lines, n) \in Line
         /\ DataLines(lines, n) = {} => DataOf(lines, n) = <<>>
         /\ DataLines(lines, n) = {} <=> Ascending(DataLines(lines, n)) = <<>>
<1> DEFINE D == DataLines(lines, n)
           f == Ascending(D)
<1>1. D \in Positions(Len(lines)) /\ Len(lines) \in Nat
  BY DataLinesIs, LenProperties
<1>2. f \in Seq(D) /\ Len(f) = Cardinality(D) /\ IsFiniteSet(D)
  BY <1>1, AscendingIn, PositionsFinite
<1>3. D \subseteq 1..Len(lines)
  BY <1>1 DEF Positions
<1> HIDE DEF D
<1>4. f \in Seq(1..Len(lines))
  BY <1>2, <1>3, SeqMonotonic
<1>5. D = {} <=> f = <<>>
  BY <1>2, FS_EmptySet, EmptySeq
<1> HIDE DEF f
<1>6. DataOf(lines, n) = JoinOf(Values(lines, f))
  BY DataIs DEF f, D
<1>7. Values(lines, f) \in Seq(Line) /\ Len(Values(lines, f)) = Len(f)
  BY <1>4, ValuesTyped
<1>8. JoinOf(Values(lines, f)) \in Line
  <2>1. <<>> \in Line
    BY EmptySeq DEF Line
  <2> QED BY <1>7, <2>1, JoinOfStep
<1>9. f = <<>> => JoinOf(Values(lines, f)) = <<>>
  <2>1. f = <<>> => Values(lines, f) = <<>>
    BY <1>7, EmptySeq
  <2> QED BY <2>1 DEF JoinOf
<1> QED BY <1>4, <1>5, <1>6, <1>8, <1>9 DEF f, D

(* The data of a block is what it is whatever lines follow. *)
LEMMA DataStays ==
  ASSUME NEW lines \in Seq(Line), NEW l \in Line, NEW n \in Nat, NEW m \in Nat,
         DataLines(Append(lines, l), n) = DataLines(lines, m)
  PROVE  DataOf(Append(lines, l), n) = DataOf(lines, m)
<1> DEFINE more == Append(lines, l)
           f == Ascending(DataLines(lines, m))
<1>1. /\ more \in Seq(Line) /\ Len(lines) \in Nat /\ Len(more) = Len(lines) + 1
      /\ \A k \in 1..Len(lines) : more[k] = lines[k]
  BY AppendProperties
<1>2. f \in Seq(1..Len(lines))
  BY DataTyped
<1> HIDE DEF f
<1>3. DataOf(more, n) = JoinOf(Values(more, f)) /\ DataOf(lines, m) = JoinOf(Values(lines, f))
  BY DataIs DEF f
<1> HIDE DEF more
<1>4. Values(more, f) = Values(lines, f)
  <2>1. DOMAIN f = 1..Len(f) /\ \A k \in 1..Len(f) : f[k] \in 1..Len(lines)
    BY <1>2, LenProperties, ElementOfSeq
  <2> QED BY <1>1, <2>1 DEF Values
<1> QED BY <1>3, <1>4 DEF more

LEMMA DataMore ==
  ASSUME NEW lines \in Seq(Line), NEW l \in Line, NEW n \in Nat, NEW m \in Nat,
         DataLines(Append(lines, l), n) = DataLines(lines, m) \cup {Len(lines) + 1}
  PROVE  DataOf(Append(lines, l), n) =
           IF DataLines(lines, m) = {} THEN Value(l) ELSE (DataOf(lines, m) \o <<LF>>) \o Value(l)
<1> DEFINE more == Append(lines, l)
           c == Len(lines)
           D == DataLines(lines, m)
           f == Ascending(D)
           g == Ascending(D \cup {c + 1})
<1>1. /\ more \in Seq(Line) /\ c \in Nat /\ Len(more) = c + 1 /\ more[c + 1] = l
      /\ \A k \in 1..c : more[k] = lines[k]
  BY AppendProperties
<1>2. f \in Seq(1..c) /\ D \in Positions(c) /\ (D = {} <=> f = <<>>)
  BY DataTyped, DataLinesIs
<1>3. g = Append(f, c + 1)
  <2>1. c + 1 \in Nat /\ c + 1 > c
    BY <1>1
  <2> QED BY <1>1, <1>2, <2>1, AscendingAppend
<1>4. DataOf(more, n) = JoinOf(Values(more, g)) /\ DataOf(lines, m) = JoinOf(Values(lines, f))
  BY DataIs
<1> HIDE DEF more, f, g, c, D
<1>5. /\ f \in Seq(1..(c + 1)) /\ g \in Seq(1..(c + 1)) /\ Len(f) \in Nat
      /\ Len(g) = Len(f) + 1 /\ g[Len(f) + 1] = c + 1
      /\ \A k \in 1..Len(f) : g[k] = f[k] /\ f[k] \in 1..c
  <2>1. 1..c \subseteq 1..(c + 1) /\ c + 1 \in 1..(c + 1)
    BY <1>1
  <2>2. f \in Seq(1..(c + 1))
    BY <1>2, <2>1, SeqMonotonic
  <2>3. \A k \in 1..Len(f) : f[k] \in 1..c
    BY <1>2, ElementOfSeq
  <2> QED BY <1>3, <2>1, <2>2, <2>3, AppendProperties
<1>6. /\ Values(lines, f) \in Seq(Line) /\ Len(Values(lines, f)) = Len(f)
      /\ \A k \in 1..Len(f) : Values(lines, f)[k] = Value(lines[f[k]])
  BY <1>2, ValuesTyped DEF c
<1>7. /\ Values(more, g) \in Seq(Line) /\ Len(Values(more, g)) = Len(f) + 1
      /\ \A k \in 1..(Len(f) + 1) : Values(more, g)[k] = Value(more[g[k]])
  <2>1. g \in Seq(1..Len(more))
    BY <1>1, <1>5
  <2>2. /\ Values(more, g) \in Seq(Line) /\ Len(Values(more, g)) = Len(g)
        /\ \A k \in 1..Len(g) : Values(more, g)[k] = Value(more[g[k]])
    BY <1>1, <2>1, ValuesTyped
  <2> QED BY <1>5, <2>2
<1>8. Value(l) \in Line
  BY FieldTyped DEF Value
<1>9. Values(more, g) = Append(Values(lines, f), Value(l))
  <2>1. \A k \in 1..Len(f) : Values(more, g)[k] = Values(lines, f)[k]
    <3> SUFFICES ASSUME NEW k \in 1..Len(f) PROVE Values(more, g)[k] = Values(lines, f)[k]
      OBVIOUS
    <3>1. k \in 1..(Len(f) + 1)
      BY <1>5
    <3>2. more[g[k]] = lines[f[k]]
      BY <1>1, <1>5
    <3> QED BY <1>6, <1>7, <3>1, <3>2
  <2>2. Values(more, g)[Len(f) + 1] = Value(l)
    <3>1. Len(f) + 1 \in 1..(Len(f) + 1)
      BY <1>5
    <3> QED BY <1>1, <1>5, <1>7, <3>1
  <2> QED BY <1>6, <1>7, <1>8, <2>1, <2>2, IsAppend
<1>10. Values(lines, f) = <<>> <=> D = {}
  BY <1>2, <1>6, EmptySeq
<1> QED BY <1>4, <1>6, <1>8, <1>9, <1>10, JoinOfStep DEF more, D

(* ... and is a data line of its own block at most. *)
LEMMA DataLinesStep ==
  ASSUME NEW lines \in Seq(Line), NEW l \in Line
  PROVE  /\ \A n \in 1..Len(lines) : DataLines(Append(lines, l), n) = DataLines(lines, n)
         /\ DataLines(Append(lines, l), Len(lines) + 1) =
              DataLines(lines, Len(lines) + 1) \cup (IF IsData(l) THEN {Len(lines) + 1} ELSE {})
         /\ DataLines(Append(lines, l), Len(lines) + 2) =
              IF l = <<>> THEN {} ELSE DataLines(Append(lines, l), Len(lines) + 1)
<1> DEFINE more == Append(lines, l)
           c == Len(lines)
           D(ls, k, n) == {m \in 1..k : m >= BlockStart(ls, n) /\ m <= n /\ IsData(ls[m])}
<1>1. /\ more \in Seq(Line) /\ c \in Nat /\ Len(more) = c + 1 /\ more[c + 1] = l
      /\ \A k \in 1..c : more[k] = lines[k]
  BY AppendProperties
<1>2. \A n \in 1..(c + 1) : BlockStart(more, n) = BlockStart(lines, n)
  BY BlockStartStep
<1>3. \A n \in Nat : DataLines(lines, n) = D(lines, c, n)
  BY DataLinesIs
<1>4. \A n \in Nat : DataLines(more, n) = D(more, c + 1, n)
  BY <1>1, DataLinesIs
<1>5. BlockStart(more, c + 2) = IF l = <<>> THEN c + 2 ELSE BlockStart(lines, c + 1)
  BY NextBlock
<1> HIDE DEF more, c
<1>6. 1..(c + 1) = (1..c) \cup {c + 1}
  BY <1>1
<1>7. ASSUME NEW n \in 1..c PROVE DataLines(more, n) = DataLines(lines, n)
  <2>1. n \in Nat /\ n \in 1..(c + 1)
    BY <1>1
  <2>2. BlockStart(more, n) = BlockStart(lines, n)
    BY <1>2, <2>1
  <2>3. D(more, c + 1, n) = D(lines, c, n)
    <3>1. \A m \in 1..c : IsData(more[m]) <=> IsData(lines[m])
      BY <1>1
    <3>2. ~(c + 1 <= n)
      BY <1>1
    <3> QED BY <1>6, <2>2, <3>1, <3>2
  <2> HIDE DEF D
  <2> QED BY <1>3, <1>4, <2>1, <2>3
<1>8. DataLines(more, c + 1) = DataLines(lines, c + 1) \cup (IF IsData(l) THEN {c + 1} ELSE {})
  <2>1. c + 1 \in Nat /\ c + 1 \in 1..(c + 1) /\ c + 1 \in Nat \ {0}
    BY <1>1
  <2>2. BlockStart(more, c + 1) = BlockStart(lines, c + 1) /\ BlockStart(lines, c + 1) \in 1..(c + 1)
    BY <1>2, <2>1, BlockStartIs
  <2>3. D(more, c + 1, c + 1) = D(lines, c, c + 1) \cup (IF IsData(l) THEN {c + 1} ELSE {})
    <3>1. \A m \in 1..c : IsData(more[m]) <=> IsData(lines[m])
      BY <1>1
    <3>2. c + 1 >= BlockStart(more, c + 1) /\ c + 1 <= c + 1
      BY <1>1, <2>2
    <3>3. IsData(more[c + 1]) <=> IsData(l)
      BY <1>1
    <3> HIDE DEF IsData
    <3> QED BY <1>6, <2>2, <3>1, <3>2, <3>3
  <2> HIDE DEF D
  <2> QED BY <1>3, <1>4, <2>1, <2>3
<1>9. DataLines(more, c + 2) = IF l = <<>> THEN {} ELSE DataLines(more, c + 1)
  <2>1. c + 1 \in Nat /\ c + 2 \in Nat /\ c + 1 \in 1..(c + 1)
    BY <1>1
  <2>2. DataLines(more, c + 2) = D(more, c + 1, c + 2) /\ DataLines(more, c + 1) = D(more, c + 1, c + 1)
    BY <1>4, <2>1
  <2>3. CASE l = <<>>
    <3>1. D(more, c + 1, c + 2) = {}
      <4>1. BlockStart(more, c + 2) = c + 2
        BY <1>5, <2>3
      <4>2. \A m \in 1..(c + 1) : ~(m >= c + 2)
        BY <1>1
      <4> QED BY <4>1, <4>2
    <3> QED BY <2>2, <2>3, <3>1
  <2>4. CASE l # <<>>
    <3>1. BlockStart(more, c + 2) = BlockStart(more, c + 1)
      BY <1>2, <1>5, <2>1, <2>4
    <3>2. \A m \in 1..(c + 1) : m <= c + 2 /\ m <= c + 1
      BY <1>1
    <3>3. D(more, c + 1, c + 2) = D(more, c + 1, c + 1)
      BY <3>1, <3>2
    <3> QED BY <2>2, <2>4, <3>3
  <2> QED BY <2>3, <2>4
<1> QED BY <1>7, <1>8, <1>9 DEF more, c

(* The data the next blank line would close. *)
PendingLines(lines) == DataLines(lines, Len(lines) + 1)
Pending(lines) == DataOf(lines, Len(lines) + 1)

(* One more line: what its block has collected of data then. *)
LEMMA PendingStep ==
  ASSUME NEW lines \in Seq(Line), NEW l \in Line
  PROVE  /\ Pending(lines) \in Line
         /\ PendingLines(lines) = {} => Pending(lines) = <<>>
         /\ PendingLines(Append(lines, l)) = {} <=>
              l = <<>> \/ (~IsData(l) /\ PendingLines(lines) = {})
         /\ Pending(Append(lines, l)) =
              IF l = <<>> THEN <<>>
              ELSE IF ~IsData(l) THEN Pending(lines)
              ELSE IF PendingLines(lines) = {} THEN Value(l)
              ELSE (Pending(lines) \o <<LF>>) \o Value(l)
         /\ \A n \in 1..Len(lines) : DataOf(Append(lines, l), n) = DataOf(lines, n)
         /\ DataOf(Append(lines, l), Len(lines) + 1) =
              IF IsData(l) THEN Pending(Append(lines, l)) ELSE Pending(lines)
<1> DEFINE more == Append(lines, l)
           c == Len(lines)
<1>1. more \in Seq(Line) /\ c \in Nat /\ Len(more) = c + 1 /\ c + 1 \in Nat /\ c + 2 \in Nat
  BY AppendProperties
<1>2. /\ \A n \in 1..c : DataLines(more, n) = DataLines(lines, n)
      /\ DataLines(more, c + 1) = DataLines(lines, c + 1) \cup (IF IsData(l) THEN {c + 1} ELSE {})
      /\ DataLines(more, c + 2) = IF l = <<>> THEN {} ELSE DataLines(more, c + 1)
  BY DataLinesStep
<1>3. /\ PendingLines(lines) = DataLines(lines, c + 1) /\ Pending(lines) = DataOf(lines, c + 1)
      /\ PendingLines(more) = DataLines(more, c + 2) /\ Pending(more) = DataOf(more, c + 2)
  <2>1. Len(more) + 1 = c + 2
    BY <1>1
  <2> HIDE DEF more
  <2> QED BY <2>1 DEF PendingLines, Pending
<1>4. Pending(lines) \in Line /\ (PendingLines(lines) = {} => Pending(lines) = <<>>)
  BY <1>1, <1>3, DataTyped
<1>5. \A n \in 1..c : DataOf(more, n) = DataOf(lines, n)
  <2> SUFFICES ASSUME NEW n \in 1..c PROVE DataOf(more, n) = DataOf(lines, n)
    OBVIOUS
  <2>1. n \in Nat /\ DataLines(more, n) = DataLines(lines, n)
    BY <1>2
  <2> QED BY <2>1, DataStays
<1>6. IsData(l) => l # <<>>
  BY BlankHasNoField
<1>7. l = <<>> => Pending(more) = <<>>
  <2>1. l = <<>> => DataLines(more, c + 2) = {}
    BY <1>2
  <2> QED BY <1>1, <1>3, <2>1, DataTyped
<1>8. ~IsData(l) => DataOf(more, c + 1) = Pending(lines)
  <2>1. ~IsData(l) => DataLines(more, c + 1) = DataLines(lines, c + 1)
    BY <1>2
  <2> QED BY <1>1, <1>3, <2>1, DataStays
<1>9. l # <<>> /\ ~IsData(l) => Pending(more) = Pending(lines)
  <2>1. l # <<>> /\ ~IsData(l) => DataLines(more, c + 2) = DataLines(lines, c + 1)
    BY <1>2
  <2> QED BY <1>1, <1>3, <2>1, DataStays
<1>10. ASSUME IsData(l), NEW n \in {c + 1, c + 2}
       PROVE  DataOf(more, n) = IF PendingLines(lines) = {} THEN Value(l)
                                ELSE (Pending(lines) \o <<LF>>) \o Value(l)
  <2>1. DataLines(more, n) = DataLines(lines, c + 1) \cup {c + 1} /\ n \in Nat
    BY <1>1, <1>2, <1>6, <1>10
  <2>2. DataOf(more, n) = IF DataLines(lines, c + 1) = {} THEN Value(l)
                          ELSE (DataOf(lines, c + 1) \o <<LF>>) \o Value(l)
    BY <1>1, <2>1, DataMore
  <2> QED BY <1>3, <2>2
<1>11. PendingLines(more) = {} <=> l = <<>> \/ (~IsData(l) /\ PendingLines(lines) = {})
  BY <1>2, <1>3, <1>6
<1> HIDE DEF more, c
<1>12. IsData(l) => DataOf(more, c + 1) = Pending(more)
  BY <1>3, <1>10
<1>13. IsData(l) => Pending(more) = IF PendingLines(lines) = {} THEN Value(l)
                                    ELSE (Pending(lines) \o <<LF>>) \o Value(l)
  BY <1>3, <1>10
<1>14. Pending(more) = IF l = <<>> THEN <<>>
                       ELSE IF ~IsData(l) THEN Pending(lines)
                       ELSE IF PendingLines(lines) = {} THEN Value(l)
                       ELSE (Pending(lines) \o <<LF>>) \o Value(l)
  BY <1>6, <1>7, <1>9, <1>13
<1> QED BY <1>4, <1>5, <1>8, <1>11, <1>12, <1>14 DEF more, c

LEMMA EventsTyped ==
  ASSUME NEW lines \in Seq(Line)
  PROVE  /\ EventsOf(lines) \in Seq(Line)
         /\ Closing(lines) \in Positions(Len(lines))
         /\ Ascending(Closing(lines)) \in Seq(1..Len(lines))
         /\ Len(EventsOf(lines)) = Len(Ascending(Closing(lines)))
         /\ \A e \in 1..Len(EventsOf(lines)) :
              EventsOf(lines)[e] = DataOf(lines, Ascending(Closing(lines))[e])
<1> DEFINE C == Closing(lines)
           f == Ascending(C)
<1>1. DOMAIN lines = 1..Len(lines) /\ Len(lines) \in Nat
  BY LenProperties
<1>2. C \in Positions(Len(lines)) /\ C \subseteq 1..Len(lines)
  BY <1>1 DEF Closing, Positions
<1> HIDE DEF C
<1>3. f \in Seq(1..Len(lines))
  <2>1. f \in Seq(C)
    BY <1>1, <1>2, AscendingIn
  <2> QED BY <1>2, <2>1, SeqMonotonic
<1> HIDE DEF f
<1>4. Len(f) \in Nat /\ DOMAIN f = 1..Len(f) /\ \A e \in 1..Len(f) : f[e] \in 1..Len(lines)
  BY <1>3, LenProperties, ElementOfSeq
<1>5. \A e \in 1..Len(f) : DataOf(lines, f[e]) \in Line
  <2>1. 1..Len(lines) \subseteq Nat
    BY <1>1
  <2> QED BY <1>4, <2>1, DataTyped
<1>6. EventsOf(lines) = [e \in 1..Len(f) |-> DataOf(lines, f[e])]
  BY <1>4 DEF EventsOf, f, C
<1>7. EventsOf(lines) \in [1..Len(f) -> Line]
  BY <1>5, <1>6
<1>8. EventsOf(lines) \in Seq(Line) /\ Len(EventsOf(lines)) = Len(f)
  BY <1>4, <1>7, SeqOfFunction
<1> QED BY <1>2, <1>3, <1>6, <1>8 DEF f, C

(* One more line is one more event if it is blank and closes data. *)
LEMMA EventsStep ==
  ASSUME NEW lines \in Seq(Line), NEW l \in Line
  PROVE  EventsOf(Append(lines, l)) =
           IF l = <<>> /\ PendingLines(lines) # {} THEN Append(EventsOf(lines), Pending(lines))
           ELSE EventsOf(lines)
<1> DEFINE more == Append(lines, l)
           c == Len(lines)
           C == Closing(lines)
           f == Ascending(C)
           g == Ascending(Closing(more))
           E == EventsOf(lines)
           F == EventsOf(more)
<1>1. /\ more \in Seq(Line) /\ c \in Nat /\ Len(more) = c + 1 /\ more[c + 1] = l
      /\ \A k \in 1..c : more[k] = lines[k]
  BY AppendProperties
<1>2. /\ E \in Seq(Line) /\ C \in Positions(c) /\ f \in Seq(1..c) /\ Len(E) = Len(f)
      /\ \A e \in 1..Len(f) : E[e] = DataOf(lines, f[e])
  BY EventsTyped
<1>3. /\ F \in Seq(Line) /\ Len(F) = Len(g)
      /\ \A e \in 1..Len(g) : F[e] = DataOf(more, g[e])
  BY <1>1, EventsTyped
<1>4. /\ \A n \in 1..c : DataLines(more, n) = DataLines(lines, n)
      /\ l = <<>> => DataLines(more, c + 1) = PendingLines(lines)
  <2>1. l = <<>> => ~IsData(l)
    BY BlankHasNoField
  <2> QED BY <2>1, DataLinesStep DEF PendingLines
<1>5. /\ \A n \in 1..c : DataOf(more, n) = DataOf(lines, n)
      /\ l = <<>> => DataOf(more, c + 1) = Pending(lines)
      /\ Pending(lines) \in Line
  <2>1. l = <<>> => ~IsData(l)
    BY BlankHasNoField
  <2> QED BY <2>1, PendingStep
<1>6. Len(f) \in Nat /\ \A e \in 1..Len(f) : f[e] \in 1..c
  BY <1>2, LenProperties, ElementOfSeq
<1>7. DOMAIN lines = 1..c /\ DOMAIN more = 1..(c + 1) /\ 1..(c + 1) = (1..c) \cup {c + 1}
  BY <1>1, LenProperties
<1> HIDE DEF more, c
<1>8. Closing(more) = C \cup (IF l = <<>> /\ PendingLines(lines) # {} THEN {c + 1} ELSE {})
  <2>1. \A n \in 1..c : n \in Closing(more) <=> n \in C
    BY <1>1, <1>4, <1>7 DEF Closing
  <2>2. c + 1 \in Closing(more) <=> l = <<>> /\ PendingLines(lines) # {}
    BY <1>1, <1>4, <1>7 DEF Closing
  <2>3. Closing(more) \subseteq (1..c) \cup {c + 1} /\ C \subseteq 1..c
    BY <1>7 DEF Closing
  <2> HIDE DEF C
  <2> QED BY <2>1, <2>2, <2>3
<1> HIDE DEF C, E, F
<1>9. CASE l = <<>> /\ PendingLines(lines) # {}
  <2>1. g = Append(f, c + 1)
    <3>1. Closing(more) = C \cup {c + 1} /\ c + 1 \in Nat /\ c + 1 > c
      BY <1>1, <1>8, <1>9
    <3> QED BY <1>1, <1>2, <3>1, AscendingAppend
  <2>2. f \in Seq(Nat) /\ c + 1 \in Nat
    <3>1. 1..c \subseteq Nat
      BY <1>1
    <3> QED BY <1>1, <1>2, <3>1, SeqMonotonic
  <2> HIDE DEF f, g
  <2>3. /\ Len(g) = Len(f) + 1 /\ g[Len(f) + 1] = c + 1
        /\ \A e \in 1..Len(f) : g[e] = f[e] /\ e \in 1..Len(g)
    BY <1>6, <2>1, <2>2, AppendProperties
  <2>4. \A e \in 1..Len(E) : F[e] = E[e]
    <3> SUFFICES ASSUME NEW e \in 1..Len(f) PROVE F[e] = E[e]
      BY <1>2
    <3>1. F[e] = DataOf(more, g[e]) /\ g[e] = f[e] /\ f[e] \in 1..c
      BY <1>3, <1>6, <2>3
    <3> QED BY <1>2, <1>5, <3>1
  <2>5. F[Len(E) + 1] = Pending(lines)
    <3>1. Len(f) + 1 \in 1..Len(g)
      BY <1>6, <2>3
    <3> QED BY <1>2, <1>3, <1>5, <1>9, <2>3, <3>1
  <2>6. F = Append(E, Pending(lines))
    BY <1>2, <1>3, <1>5, <2>3, <2>4, <2>5, IsAppend
  <2> QED BY <1>9, <2>6 DEF E, F, more
<1>10. CASE ~(l = <<>> /\ PendingLines(lines) # {})
  <2>1. Closing(more) = C
    BY <1>8, <1>10
  <2>2. g = f
    BY <2>1
  <2> HIDE DEF f, g
  <2>3. \A e \in 1..Len(E) : F[e] = E[e]
    <3> SUFFICES ASSUME NEW e \in 1..Len(f) PROVE F[e] = E[e]
      BY <1>2
    <3>1. F[e] = DataOf(more, f[e]) /\ f[e] \in 1..c
      BY <1>3, <1>6, <2>2
    <3> QED BY <1>2, <1>5, <3>1
  <2>4. F = E
    BY <1>2, <1>3, <2>2, <2>3, SeqEqual
  <2> QED BY <1>10, <2>4 DEF E, F, more
<1> QED BY <1>9, <1>10

-----------------------------------------------------------------------------
(* The buffers of the parser.                                              *)

Buffers == [bytes : Line, tooBig : BOOLEAN]

Parser ==
  [line : Buffers, data : Buffers, have_data : BOOLEAN, last_was_cr : BOOLEAN, bom_seen : Nat,
   bom_decided : BOOLEAN, err : BOOLEAN, rc : {"ok", "stopped", "error"}, events : Seq(Line)]

Limit == setting.max_event_bytes
Fits(n) == Limit = 0 \/ n <= Limit

LEMMA LimitTyped == ASSUME setting \in Setting PROVE Limit \in Nat
BY DEF Setting, Limit

LEMMA BufferIs ==
  ASSUME NEW x \in Line, NEW y \in Line
  PROVE  /\ Buffer(x) \in Buffers /\ Buffer(x).bytes = x /\ Buffer(x).tooBig = FALSE
         /\ [Buffer(x) EXCEPT !.tooBig = TRUE] = [bytes |-> x, tooBig |-> TRUE]
         /\ [Buffer(x) EXCEPT !.bytes = y] = Buffer(y)
         /\ Emptied(Buffer(x)) = Buffer(<<>>)
         /\ [bytes |-> x, tooBig |-> TRUE].tooBig = TRUE
         /\ [bytes |-> x, tooBig |-> TRUE] \in Buffers
<1> DEFINE b == Buffer(x)
           f == [bytes |-> x, tooBig |-> TRUE]
           g == Buffer(y)
<1>1. b \in Buffers /\ b.bytes = x /\ b.tooBig = FALSE
  BY DEF Buffer, Buffers
<1>2. f \in Buffers /\ f.bytes = x /\ f.tooBig = TRUE
  BY DEF Buffers
<1>3. g \in Buffers /\ g.bytes = y /\ g.tooBig = FALSE
  BY DEF Buffer, Buffers
<1> HIDE DEF b, f, g
<1>4. \A c, d \in Buffers : c.bytes = d.bytes /\ c.tooBig = d.tooBig => c = d
  BY DEF Buffers
<1>5. [b EXCEPT !.tooBig = TRUE] = f
  <2>1. /\ [b EXCEPT !.tooBig = TRUE] \in Buffers
        /\ [b EXCEPT !.tooBig = TRUE].tooBig = TRUE /\ [b EXCEPT !.tooBig = TRUE].bytes = x
    BY <1>1 DEF Buffers
  <2> QED BY <1>2, <1>4, <2>1
<1>6. ASSUME NEW z \in Line, NEW h, h \in Buffers, h.bytes = z, h.tooBig = FALSE
      PROVE  [b EXCEPT !.bytes = z] = h
  <2>1. /\ [b EXCEPT !.bytes = z] \in Buffers
        /\ [b EXCEPT !.bytes = z].tooBig = FALSE /\ [b EXCEPT !.bytes = z].bytes = z
    BY <1>1 DEF Buffers
  <2> QED BY <1>4, <1>6, <2>1
<1>7. [b EXCEPT !.bytes = y] = g
  BY <1>3, <1>6
<1>8. Emptied(b) = Buffer(<<>>)
  <2> DEFINE h == Buffer(<<>>)
  <2>1. <<>> \in Line
    BY EmptySeq DEF Line
  <2>2. h \in Buffers /\ h.bytes = <<>> /\ h.tooBig = FALSE
    BY <2>1 DEF Buffer, Buffers
  <2> HIDE DEF h
  <2>3. [b EXCEPT !.bytes = <<>>] = h
    BY <1>6, <2>1, <2>2
  <2> QED BY <2>3 DEF Emptied, h
<1> QED BY <1>1, <1>2, <1>5, <1>7, <1>8 DEF b, f, g

LEMMA FullIs ==
  \A x \in Line : [bytes |-> x, tooBig |-> TRUE] \in Buffers /\ [bytes |-> x, tooBig |-> TRUE].tooBig = TRUE
BY BufferIs

(* All of the bytes if they fit, none of them otherwise. *)
LEMMA AddIs ==
  ASSUME setting \in Setting, NEW x \in Line, NEW y \in Line
  PROVE  /\ Fits(Len(x) + Len(y)) => Add(Buffer(x), y) = Buffer(x \o y)
         /\ y # <<>> /\ ~Fits(Len(x) + Len(y)) => Add(Buffer(x), y) = [bytes |-> x, tooBig |-> TRUE]
<1>1. Limit \in Nat /\ Len(x) \in Nat /\ Len(y) \in Nat
  BY LimitTyped DEF Line
<1>2. y = <<>> => x \o y = x
  BY ConcatEmptySeq DEF Line
<1>3. Buffer(x).bytes = x /\ Buffer(x).tooBig = FALSE
  BY BufferIs
<1> DEFINE z == x \o y
<1>4. /\ [Buffer(x) EXCEPT !.tooBig = TRUE] = [bytes |-> x, tooBig |-> TRUE]
      /\ [Buffer(x) EXCEPT !.bytes = z] = Buffer(z)
  <2>1. z \in Line
    BY ConcatProperties DEF Line
  <2> HIDE DEF z
  <2> QED BY <2>1, BufferIs
<1>5. CASE y = <<>>
  <2>1. Add(Buffer(x), y) = Buffer(x)
    BY <1>5 DEF Add
  <2> QED BY <1>2, <1>5, <2>1
<1>6. CASE y # <<>>
  <2>1. Fits(Len(x) + Len(y)) <=> ~(Limit # 0 /\ Len(x) + Len(y) > Limit)
    BY <1>1 DEF Fits
  <2>2. Add(Buffer(x), y) = IF Limit # 0 /\ Len(x) + Len(y) > Limit
                            THEN [Buffer(x) EXCEPT !.tooBig = TRUE]
                            ELSE [Buffer(x) EXCEPT !.bytes = z]
    BY <1>3, <1>6 DEF Add, Limit
  <2> QED BY <1>4, <1>6, <2>1, <2>2
<1> QED BY <1>5, <1>6

(* A full buffer stays full. *)
LEMMA AddFull ==
  ASSUME NEW b, b.tooBig = TRUE, NEW y
  PROVE  Add(b, y) = b
BY DEF Add

(* A value joins the data that are pending. *)
DataText(have, x, v) == IF have THEN (x \o <<LF>>) \o v ELSE v
DataBuffer(have, x, v) == Add(IF have THEN Add(Buffer(x), <<LF>>) ELSE Buffer(x), v)

(* A field joined to the data buffer, in two appends. *)
LEMMA DataAdd ==
  ASSUME setting \in Setting, NEW x \in Line, NEW v \in Line, NEW have \in BOOLEAN,
         ~have => x = <<>>, Fits(Len(x))
  PROVE  /\ DataText(have, x, v) \in Line
         /\ Fits(Len(DataText(have, x, v))) => DataBuffer(have, x, v) = Buffer(DataText(have, x, v))
         /\ ~Fits(Len(DataText(have, x, v))) =>
              DataBuffer(have, x, v) \in Buffers /\ DataBuffer(have, x, v).tooBig = TRUE
<1> DEFINE d == DataBuffer(have, x, v)
           w == DataText(have, x, v)
<1> SUFFICES /\ w \in Line
             /\ Fits(Len(w)) => d = Buffer(w)
             /\ ~Fits(Len(w)) => d \in Buffers /\ d.tooBig = TRUE
  OBVIOUS
<1> HIDE DEF d, w
<1>1. Limit \in Nat /\ Len(x) \in Nat /\ Len(v) \in Nat
  BY LimitTyped DEF Line
<1>2. <<LF>> \in Line /\ Len(<<LF>>) = 1 /\ <<LF>> # <<>> /\ <<>> \in Line /\ Len(<<>>) = 0
  BY LFTyped, EmptySeq DEF Line
<1>3. CASE ~have
  <2>1. w = v /\ d = Add(Buffer(<<>>), v)
    BY <1>3 DEF d, w, DataBuffer, DataText
  <2>2. Len(<<>>) + Len(v) = Len(v) /\ <<>> \o v = v
    BY <1>1, ConcatEmptySeq DEF Line
  <2>3. Fits(Len(v)) => d = Buffer(v)
    <3>1. Fits(Len(<<>>) + Len(v)) => Add(Buffer(<<>>), v) = Buffer(<<>> \o v)
      BY <1>2, AddIs
    <3> QED BY <2>1, <2>2, <3>1
  <2>4. ~Fits(Len(v)) => d = [bytes |-> <<>>, tooBig |-> TRUE]
    <3>1. ~Fits(Len(v)) => v # <<>>
      BY <1>1, <1>2 DEF Fits
    <3>2. v # <<>> /\ ~Fits(Len(<<>>) + Len(v)) => Add(Buffer(<<>>), v) = [bytes |-> <<>>, tooBig |-> TRUE]
      BY <1>2, AddIs
    <3> QED BY <2>1, <2>2, <3>1, <3>2
  <2> QED BY <1>2, <2>1, <2>3, <2>4, FullIs
<1>4. CASE have
  <2> DEFINE y == x \o <<LF>>
             j == Add(Buffer(x), <<LF>>)
  <2>1. y \in Line /\ Len(y) = Len(x) + 1
    BY <1>2, ConcatProperties DEF Line
  <2>2. w = y \o v /\ d = Add(j, v)
    BY <1>4 DEF d, w, DataBuffer, DataText
  <2>3. /\ Fits(Len(x) + 1) => j = Buffer(y)
        /\ ~Fits(Len(x) + 1) => j = [bytes |-> x, tooBig |-> TRUE]
    BY <1>2, AddIs
  <2> HIDE DEF y, j
  <2>4. w \in Line /\ Len(w) = Len(x) + 1 + Len(v)
    BY <1>1, <2>1, <2>2, ConcatProperties DEF Line
  <2>5. CASE Fits(Len(w))
    <3>1. Fits(Len(x) + 1) /\ Fits(Len(y) + Len(v))
      BY <1>1, <2>1, <2>4, <2>5 DEF Fits
    <3>2. Add(Buffer(y), v) = Buffer(y \o v)
      BY <2>1, <3>1, AddIs
    <3> QED BY <2>2, <2>3, <2>4, <2>5, <3>1, <3>2
  <2>6. CASE ~Fits(Len(w))
    <3>1. CASE Fits(Len(x) + 1)
      <4>1. v # <<>> /\ ~Fits(Len(y) + Len(v))
        BY <1>1, <1>2, <2>1, <2>4, <2>6, <3>1 DEF Fits
      <4>2. d = [bytes |-> y, tooBig |-> TRUE]
        BY <2>1, <2>2, <2>3, <3>1, <4>1, AddIs
      <4> QED BY <2>1, <2>4, <2>6, <4>2, FullIs
    <3>2. CASE ~Fits(Len(x) + 1)
      <4>1. j = [bytes |-> x, tooBig |-> TRUE]
        BY <2>3, <3>2
      <4>2. j.tooBig = TRUE
        BY <4>1
      <4>3. d = j
        BY <2>2, <4>2, AddFull
      <4> QED BY <2>4, <2>6, <4>1, <4>2, <4>3, FullIs
    <3> QED BY <3>1, <3>2
  <2> QED BY <2>5, <2>6
<1> QED BY <1>3, <1>4

-----------------------------------------------------------------------------
(* A line that the parser takes in.                                        *)

Before(q, stop) == stop = 0 \/ Len(q.events) < stop

(* The parser holds what is pending of these lines. *)
Took(q, lines) ==
  /\ q.data = Buffer(Pending(lines))
  /\ q.have_data <=> PendingLines(lines) # {}
  /\ q.events = EventsOf(lines)
  /\ q.err = FALSE

(* After these lines: going on, stopped by the callback, or full. *)
After(q, lines, limit, stop) ==
  \/ /\ q.rc = "ok" /\ Took(q, lines) /\ Before(q, stop)
     /\ limit = 0 \/ Len(Pending(lines)) <= limit
  \/ /\ q.rc = "stopped" /\ q.events = EventsOf(lines)
     /\ stop # 0 /\ Len(q.events) = stop
  \/ /\ q.rc = "error" /\ q.events = EventsOf(lines) /\ Before(q, stop)
     /\ limit # 0 /\ Len(Pending(lines)) > limit

(* What sse_line leaves alone. *)
SameText(r, q) ==
  /\ r.line = q.line /\ r.last_was_cr = q.last_was_cr
  /\ r.bom_seen = q.bom_seen /\ r.bom_decided = q.bom_decided

(* sse_line takes in one line as the definition over all lines does. *)
LEMMA SseLine ==
  ASSUME setting \in Setting, stopAt \in Nat,
         NEW q \in Parser, NEW lines \in Seq(Line), NEW l \in Line,
         q.rc = "ok", q.line.tooBig = FALSE, After(q, lines, Limit, stopAt)
  PROVE  /\ sse_line(q, l) \in Parser
         /\ SameText(sse_line(q, l), q)
         /\ After(sse_line(q, l), Append(lines, l), Limit, stopAt)
<1> DEFINE more == Append(lines, l)
           r == sse_line(q, l)
           x == Pending(lines)
<1>1. /\ Limit \in Nat
      /\ Took(q, lines) /\ Before(q, stopAt) /\ (Limit = 0 \/ Len(x) <= Limit)
  BY LimitTyped DEF After
<1>2. /\ x \in Line /\ (PendingLines(lines) = {} => x = <<>>)
      /\ PendingLines(more) = {} <=> l = <<>> \/ (~IsData(l) /\ PendingLines(lines) = {})
      /\ Pending(more) = IF l = <<>> THEN <<>>
                         ELSE IF ~IsData(l) THEN x
                         ELSE IF PendingLines(lines) = {} THEN Value(l)
                         ELSE (x \o <<LF>>) \o Value(l)
  BY PendingStep
<1>3. EventsOf(more) = IF l = <<>> /\ PendingLines(lines) # {} THEN Append(EventsOf(lines), x)
                       ELSE EventsOf(lines)
  BY EventsStep
<1>4. EventsOf(lines) \in Seq(Line) /\ q.events = EventsOf(lines) /\ Len(q.events) \in Nat
  BY <1>1, EventsTyped, LenProperties DEF Took
<1>5. <<>> \in Line /\ Len(<<>>) = 0
  BY EmptySeq DEF Line
<1>6. r = IF l = <<>> THEN BlankLine(q) ELSE IF IsData(l) THEN DataField(q, Value(l)) ELSE q
  BY DEF sse_line, IsData, Value
<1> HIDE DEF r, more, x
<1>7. CASE l = <<>> /\ PendingLines(lines) # {}
  <2> DEFINE seen == Append(q.events, x)
             verdict == IF Len(seen) = stopAt THEN "stopped" ELSE "ok"
  <2>1. q.data.bytes = x /\ q.data = Buffer(x) /\ q.have_data = TRUE
    <3>1. q.data = Buffer(x) /\ q.have_data = TRUE
      BY <1>1, <1>7 DEF Took, x, Parser
    <3> QED BY <1>2, <3>1, BufferIs
  <2>2. Emptied(q.data) = Buffer(<<>>)
    BY <1>2, <2>1, BufferIs
  <2>3. seen \in Seq(Line) /\ Len(seen) = Len(q.events) + 1
    BY <1>2, <1>4, AppendProperties
  <2>4. r = [q EXCEPT !.events = seen, !.rc = verdict, !.data = Buffer(<<>>), !.have_data = FALSE]
    BY <1>6, <1>7, <2>1, <2>2 DEF BlankLine, Dispatch
  <2> HIDE DEF seen, verdict
  <2>5. verdict \in {"ok", "stopped"} /\ Buffer(<<>>) \in Buffers
    BY <1>5 DEF verdict, Buffer, Buffers
  <2>6. /\ r \in Parser /\ SameText(r, q) /\ r.events = seen /\ r.rc = verdict
        /\ r.data = Buffer(<<>>) /\ r.have_data = FALSE /\ r.err = q.err
    BY <2>3, <2>4, <2>5 DEF Parser, SameText
  <2>7. PendingLines(more) = {} /\ Pending(more) = <<>> /\ EventsOf(more) = seen
    BY <1>2, <1>3, <1>4, <1>7 DEF seen
  <2>8. Took(r, more)
    BY <1>1, <2>6, <2>7 DEF Took
  <2>9. CASE Len(seen) = stopAt
    <3>1. r.rc = "stopped" /\ stopAt # 0
      BY <1>4, <2>3, <2>6, <2>9 DEF verdict
    <3>2. After(r, more, Limit, stopAt)
      BY <2>6, <2>7, <2>9, <3>1 DEF After
    <3> QED BY <2>6, <3>2 DEF r, more
  <2>10. CASE Len(seen) # stopAt
    <3>1. r.rc = "ok"
      BY <2>6, <2>10 DEF verdict
    <3>2. Before(r, stopAt)
      BY <1>1, <1>4, <2>3, <2>6, <2>10 DEF Before
    <3>3. Limit = 0 \/ Len(Pending(more)) <= Limit
      BY <1>1, <1>5, <2>7
    <3>4. After(r, more, Limit, stopAt)
      BY <2>8, <3>1, <3>2, <3>3 DEF After
    <3> QED BY <2>6, <3>4 DEF r, more
  <2> QED BY <2>9, <2>10
<1>8. CASE (l = <<>> /\ PendingLines(lines) = {}) \/ (l # <<>> /\ ~IsData(l))
  <2>1. r = q
    BY <1>1, <1>6, <1>8 DEF BlankLine, Took
  <2>2. /\ PendingLines(more) = {} <=> PendingLines(lines) = {}
        /\ Pending(more) = x /\ EventsOf(more) = EventsOf(lines)
    BY <1>2, <1>3, <1>8
  <2>3. Took(r, more)
    BY <1>1, <2>1, <2>2 DEF Took, x
  <2>4. After(r, more, Limit, stopAt)
    BY <1>1, <2>1, <2>2, <2>3 DEF After
  <2>5. SameText(r, q)
    BY <2>1 DEF SameText
  <2> QED BY <2>1, <2>4, <2>5 DEF r, more
<1>9. CASE l # <<>> /\ IsData(l)
  <2> DEFINE d == Add(IF q.have_data THEN Add(q.data, <<LF>>) ELSE q.data, Value(l))
             w == Pending(more)
             u == [q EXCEPT !.data = d, !.have_data = TRUE]
  <2>1. r = Checked(u)
    BY <1>6, <1>9 DEF DataField
  <2>2. /\ PendingLines(more) # {} /\ EventsOf(more) = EventsOf(lines)
        /\ w = DataText(q.have_data, x, Value(l))
    BY <1>1, <1>2, <1>3, <1>9 DEF Took, DataText
  <2>3. Value(l) \in Line
    BY FieldTyped DEF Value
  <2>4. /\ w \in Line /\ (Fits(Len(w)) => d = Buffer(w))
        /\ ~Fits(Len(w)) => d \in Buffers /\ d.tooBig = TRUE
    <3>1. q.have_data \in BOOLEAN /\ (~q.have_data => x = <<>>) /\ Fits(Len(x))
      BY <1>1, <1>2 DEF Parser, Took, Fits
    <3>2. d = DataBuffer(q.have_data, x, Value(l))
      BY <1>1 DEF Took, x, DataBuffer
    <3> HIDE DEF d, w
    <3> QED BY <1>2, <2>2, <2>3, <3>1, <3>2, DataAdd
  <2> HIDE DEF d, w
  <2>5. Buffer(w).tooBig = FALSE /\ Buffer(w) \in Buffers
    BY <2>4 DEF Buffer, Buffers
  <2>6. d \in Buffers
    BY <2>4, <2>5
  <2>7. /\ u \in Parser /\ SameText(u, q) /\ u.events = q.events /\ u.rc = "ok"
        /\ u.data = d /\ u.have_data = TRUE /\ u.err = FALSE /\ u.line.tooBig = FALSE
    BY <1>1, <2>6 DEF Parser, SameText, Took
  <2> HIDE DEF u
  <2>8. CASE Fits(Len(w))
    <3>1. d = Buffer(w) /\ d.tooBig = FALSE
      BY <2>4, <2>5, <2>8
    <3>2. r = [u EXCEPT !.err = FALSE, !.rc = u.rc]
      BY <2>1, <2>7, <3>1 DEF Checked
    <3>3. r = u
      BY <2>7, <3>2 DEF Parser
    <3>4. Took(r, more)
      BY <1>4, <2>2, <2>7, <3>1, <3>3 DEF Took, w
    <3>5. Before(r, stopAt)
      BY <1>1, <2>7, <3>3 DEF Before
    <3>6. After(r, more, Limit, stopAt)
      BY <2>7, <2>8, <3>3, <3>4, <3>5 DEF After, Fits, w
    <3> QED BY <2>7, <3>3, <3>6 DEF r, more
  <2>9. CASE ~Fits(Len(w))
    <3>1. d.tooBig = TRUE
      BY <2>4, <2>9
    <3>2. r = [u EXCEPT !.err = TRUE, !.rc = "error"]
      BY <2>1, <2>7, <3>1 DEF Checked
    <3>3. r \in Parser /\ SameText(r, q) /\ r.events = q.events /\ r.rc = "error"
      BY <2>7, <3>2 DEF Parser, SameText
    <3>4. Before(r, stopAt)
      BY <1>1, <3>3 DEF Before
    <3>5. Limit # 0 /\ Len(w) > Limit
      <4>1. Len(w) \in Nat
        BY <2>4 DEF Line
      <4> QED BY <1>1, <2>9, <4>1 DEF Fits
    <3>6. After(r, more, Limit, stopAt)
      BY <1>4, <2>2, <3>3, <3>4, <3>5 DEF After, w
    <3> QED BY <3>3, <3>6 DEF r, more
  <2> QED BY <2>8, <2>9
<1> QED BY <1>7, <1>8, <1>9

-----------------------------------------------------------------------------
(* Lines and data over the limit.                                          *)

BadLines(lines, k) ==
  \E n \in 1..Len(lines) : Len(lines[n]) > k \/ Len(DataOf(lines, n)) > k

(* What is over the limit, line by line. *)
LEMMA TooLongIs ==
  ASSUME NEW t \in Line, NEW k
  PROVE  TooLong(t, k) <=> BadLines(Lines(t), k) \/ Len(Unfinished(t)) > k
<1>1. Lines(t) \in Seq(Line)
  BY LinesTyped DEF Line
<1>2. DOMAIN Lines(t) = 1..Len(Lines(t))
  BY <1>1, LenProperties
<1> QED BY <1>2 DEF TooLong, BadLines, ToSet

(* One more line: only it and the data it leaves can be over the limit. *)
LEMMA BadLinesStep ==
  ASSUME NEW lines \in Seq(Line), NEW l \in Line, NEW k
  PROVE  BadLines(Append(lines, l), k) <=>
           \/ BadLines(lines, k)
           \/ Len(l) > k
           \/ Len(IF IsData(l) THEN Pending(Append(lines, l)) ELSE Pending(lines)) > k
<1> DEFINE more == Append(lines, l)
           c == Len(lines)
<1>1. c \in Nat /\ Len(more) = c + 1 /\ more[c + 1] = l /\ \A n \in 1..c : more[n] = lines[n]
  BY AppendProperties
<1>2. /\ \A n \in 1..c : DataOf(more, n) = DataOf(lines, n)
      /\ DataOf(more, c + 1) = IF IsData(l) THEN Pending(more) ELSE Pending(lines)
  BY PendingStep
<1> HIDE DEF more, c
<1>3. 1..(c + 1) = (1..c) \cup {c + 1}
  BY <1>1
<1>4. BadLines(more, k) <=>
        \/ \E n \in 1..c : Len(more[n]) > k \/ Len(DataOf(more, n)) > k
        \/ Len(more[c + 1]) > k \/ Len(DataOf(more, c + 1)) > k
  BY <1>1, <1>3 DEF BadLines
<1>5. BadLines(lines, k) <=> \E n \in 1..c : Len(more[n]) > k \/ Len(DataOf(more, n)) > k
  BY <1>1, <1>2 DEF BadLines, c
<1> QED BY <1>1, <1>2, <1>4, <1>5 DEF more

(* What a text has too long stays too long, and its events stay. *)
LEMMA TextGrows ==
  ASSUME NEW t \in Line, NEW b \in Symbols
  PROVE  /\ \A k \in Nat : TooLong(t, k) => TooLong(Append(t, b), k)
         /\ \A e \in Seq(Line) : IsPrefix(e, EventsOf(Lines(t))) => IsPrefix(e, EventsOf(Lines(Append(t, b))))
<1> DEFINE u == Append(t, b)
           L == Lines(t)
           rest == Unfinished(t)
<1>1. u \in Line /\ t \in Seq(Symbols) /\ t \in Line
  BY AppendProperties DEF Line
<1>2. L \in Seq(Line)
  BY <1>1, LinesTyped DEF Line
<1>3. rest \in Line /\ Unfinished(u) = IF IsBreak(b) THEN <<>> ELSE Append(rest, b)
  BY <1>1, UnfinishedStep DEF Line
<1>4. Lines(u) = IF IsBreak(b) /\ ~Second(t, b) THEN Append(L, rest) ELSE L
  BY <1>1, LinesStep
<1>5. ASSUME IsBreak(b), Second(t, b) PROVE rest = <<>>
  <2>1. t # <<>> /\ t[Len(t)] = CR
    BY <1>5 DEF Second
  <2>2. PICK s \in Seq(Symbols), a \in Symbols : t = Append(s, a)
    BY <1>1, <2>1, SequenceEmptyOrAppend
  <2>3. a = CR
    BY <2>1, <2>2, AppendProperties
  <2>4. IsBreak(a)
    BY <2>3 DEF IsBreak
  <2> QED BY <2>2, <2>4, UnfinishedStep
<1> HIDE DEF u, L, rest
<1>6. ASSUME NEW k \in Nat, TooLong(t, k) PROVE TooLong(u, k)
  <2>1. BadLines(L, k) \/ Len(rest) > k
    BY <1>6, TooLongIs DEF L, rest
  <2>2. BadLines(L, k) \/ Len(rest) > k => BadLines(Append(L, rest), k)
    BY <1>2, <1>3, BadLinesStep
  <2>3. Len(<<>>) = 0 /\ Len(rest) \in Nat /\ Len(Append(rest, b)) = Len(rest) + 1
    BY <1>3, AppendProperties DEF Line
  <2>4. CASE IsBreak(b) /\ ~Second(t, b)
    <3>1. BadLines(Lines(u), k)
      BY <1>4, <2>1, <2>2, <2>4
    <3> QED BY <1>1, <3>1, TooLongIs
  <2>5. CASE IsBreak(b) /\ Second(t, b)
    <3>1. BadLines(Lines(u), k)
      BY <1>4, <1>5, <2>1, <2>3, <2>5
    <3> QED BY <1>1, <3>1, TooLongIs
  <2>6. CASE ~IsBreak(b)
    <3>1. BadLines(Lines(u), k) \/ Len(Unfinished(u)) > k
      BY <1>3, <1>4, <2>1, <2>3, <2>6
    <3> QED BY <1>1, <3>1, TooLongIs
  <2> QED BY <2>4, <2>5, <2>6
<1>7. ASSUME NEW e \in Seq(Line), IsPrefix(e, EventsOf(L)) PROVE IsPrefix(e, EventsOf(Lines(u)))
  <2>1. EventsOf(L) \in Seq(Line) /\ Pending(L) \in Line
    BY <1>2, <1>3, EventsTyped, PendingStep
  <2>2. \/ EventsOf(Lines(u)) = EventsOf(L)
        \/ EventsOf(Lines(u)) = Append(EventsOf(L), Pending(L))
    BY <1>2, <1>3, <1>4, EventsStep
  <2> QED BY <1>7, <2>1, <2>2, PrefixAppend
<1> QED BY <1>6, <1>7 DEF u, L

-----------------------------------------------------------------------------
(* A byte of the text.                                                     *)

Small(t, k) == k # 0 => ~TooLong(t, k)

(* The parser has read this text. *)
Reads(q, t, limit, stop) ==
  /\ q.bom_decided = TRUE
  /\ q.rc = "ok"
  /\ After(q, Lines(t), limit, stop)
  /\ q.line = Buffer(Unfinished(t))
  /\ q.last_was_cr <=> (t # <<>> /\ t[Len(t)] = CR)
  /\ Small(t, limit)

(* The parser has stopped in this text. *)
Ended(q, t, limit, stop) ==
  /\ IsPrefix(q.events, EventsOf(Lines(t)))
  /\ \/ q.rc = "stopped" /\ stop # 0 /\ Len(q.events) = stop
     \/ q.rc = "error" /\ Before(q, stop) /\ limit # 0 /\ TooLong(t, limit)

(* Once stopped, the parser is right about whatever follows. *)
LEMMA EndedStays ==
  ASSUME NEW q \in Parser, NEW t \in Line, NEW b \in Symbols, NEW limit \in Nat, NEW stop,
         Ended(q, t, limit, stop)
  PROVE  Ended(q, Append(t, b), limit, stop)
<1>1. q.events \in Seq(Line)
  BY DEF Parser
<1> QED BY <1>1, TextGrows DEF Ended

LEMMA LastOf ==
  ASSUME NEW S, NEW t \in Seq(S), NEW b \in S
  PROVE  Append(t, b) # <<>> /\ Append(t, b)[Len(Append(t, b))] = b
<1>1. Len(Append(t, b)) = Len(t) + 1 /\ Len(t) \in Nat /\ Append(t, b)[Len(t) + 1] = b
  BY AppendProperties
<1> QED BY <1>1, EmptySeq

(* A text that ends with a line end has nothing unfinished. *)
LEMMA NothingUnfinished ==
  ASSUME NEW t \in Line, t # <<>>, IsBreak(t[Len(t)])
  PROVE  Unfinished(t) = <<>>
<1>1. t \in Seq(Symbols)
  BY DEF Line
<1>2. PICK s \in Seq(Symbols), a \in Symbols : t = Append(s, a)
  BY <1>1, SequenceEmptyOrAppend
<1>3. IsBreak(a)
  BY <1>2, LastOf
<1> QED BY <1>2, <1>3, UnfinishedStep

(* Of the parser's record. *)
LEMMA CheckedIs ==
  ASSUME NEW q \in Parser
  PROVE  /\ q.err = FALSE /\ q.line.tooBig = FALSE /\ q.data.tooBig = FALSE => Checked(q) = q
         /\ q.line.tooBig = TRUE => /\ Checked(q) \in Parser /\ Checked(q).rc = "error"
                                    /\ Checked(q).events = q.events
<1>1. CASE q.err = FALSE /\ q.line.tooBig = FALSE /\ q.data.tooBig = FALSE
  <2>1. Checked(q) = [q EXCEPT !.err = FALSE, !.rc = q.rc]
    BY <1>1 DEF Checked
  <2>2. Checked(q) = q
    BY <1>1, <2>1 DEF Parser
  <2> QED BY <1>1, <2>2
<1>2. CASE q.line.tooBig = TRUE
  <2>1. Checked(q) = [q EXCEPT !.err = TRUE, !.rc = "error"]
    BY <1>2 DEF Checked
  <2> QED BY <1>2, <2>1 DEF Parser
<1>3. CASE q.line.tooBig # TRUE /\ ~(q.err = FALSE /\ q.line.tooBig = FALSE /\ q.data.tooBig = FALSE)
  BY <1>3
<1> QED BY <1>1, <1>2, <1>3

(* One more byte of the text. *)
LEMMA PayloadStep ==
  ASSUME setting \in Setting, stopAt \in Nat,
         NEW q \in Parser, NEW t \in Line, NEW b \in Symbols, Reads(q, t, Limit, stopAt)
  PROVE  /\ PayloadByte(q, b) \in Parser
         /\ \/ Reads(PayloadByte(q, b), Append(t, b), Limit, stopAt)
            \/ Ended(PayloadByte(q, b), Append(t, b), Limit, stopAt)
<1> DEFINE u == Append(t, b)
           r == PayloadByte(q, b)
           L == Lines(t)
           rest == Unfinished(t)
<1>1. /\ u \in Line /\ t \in Seq(Symbols) /\ Limit \in Nat /\ <<>> \in Line /\ Len(<<>>) = 0
      /\ u # <<>> /\ u[Len(u)] = b
  BY LastOf, LimitTyped, EmptySeq, AppendProperties DEF Line
<1>2. L \in Seq(Line)
  BY <1>1, LinesTyped DEF Line
<1>3. /\ rest \in Line /\ Len(rest) \in Nat
      /\ Unfinished(u) = IF IsBreak(b) THEN <<>> ELSE Append(rest, b)
  BY <1>1, UnfinishedStep DEF Line
<1>4. Lines(u) = IF IsBreak(b) /\ ~Second(t, b) THEN Append(L, rest) ELSE L
  BY <1>1, LinesStep
<1>5. /\ q.bom_decided = TRUE /\ q.rc = "ok" /\ After(q, L, Limit, stopAt)
      /\ q.line = Buffer(rest) /\ Small(t, Limit)
      /\ q.last_was_cr <=> (t # <<>> /\ t[Len(t)] = CR)
  BY DEF Reads
<1>6. /\ Took(q, L) /\ Before(q, stopAt) /\ (Limit = 0 \/ Len(Pending(L)) <= Limit)
      /\ q.err = FALSE
  BY <1>5 DEF After, Took
<1>7. Limit # 0 => ~BadLines(L, Limit) /\ Len(rest) <= Limit
  <2>1. Limit # 0 => ~BadLines(L, Limit) /\ ~(Len(rest) > Limit)
    BY <1>5, TooLongIs DEF Small
  <2> QED BY <1>1, <1>3, <2>1
<1>8. /\ q.line.bytes = rest /\ q.line.tooBig = FALSE /\ q.data.tooBig = FALSE
      /\ Emptied(q.line) = Buffer(<<>>) /\ Buffer(<<>>) \in Buffers
  <2>1. Pending(L) \in Line
    BY <1>2, <1>3, PendingStep
  <2>2. q.data = Buffer(Pending(L))
    BY <1>6 DEF Took
  <2>3. q.data.tooBig = FALSE
    BY <2>1, <2>2, BufferIs
  <2>4. /\ Buffer(rest).bytes = rest /\ Buffer(rest).tooBig = FALSE
        /\ Emptied(Buffer(rest)) = Buffer(<<>>) /\ Buffer(<<>>) \in Buffers
    BY <1>1, <1>3, BufferIs
  <2> QED BY <1>5, <2>3, <2>4
<1>9. q.last_was_cr /\ b = LF <=> Second(t, b)
  BY <1>5 DEF Second
<1>10. \A limit : Small(u, limit) <=> (limit # 0 => ~BadLines(Lines(u), limit) /\ ~(Len(Unfinished(u)) > limit))
  BY <1>1, TooLongIs DEF Small
<1> HIDE DEF r, u, L, rest
<1>11. CASE Second(t, b)
  <2>1. IsBreak(b) /\ b # CR
    BY <1>11, SymbolAssumption DEF Second, IsBreak
  <2>2. rest = <<>>
    <3>1. t # <<>> /\ IsBreak(t[Len(t)])
      BY <1>11 DEF Second, IsBreak
    <3> QED BY <3>1, NothingUnfinished DEF rest
  <2>3. Lines(u) = L /\ Unfinished(u) = rest
    BY <1>3, <1>4, <1>11, <2>1, <2>2
  <2>4. r = [q EXCEPT !.last_was_cr = FALSE]
    BY <1>9, <1>11 DEF r, PayloadByte
  <2>5. /\ r \in Parser /\ r.last_was_cr = FALSE /\ r.line = q.line /\ r.data = q.data
        /\ r.have_data = q.have_data /\ r.err = q.err /\ r.rc = q.rc /\ r.events = q.events
        /\ r.bom_decided = q.bom_decided
    BY <2>4 DEF Parser
  <2>6. After(r, L, Limit, stopAt)
    BY <1>5, <1>6, <2>5 DEF After, Took, Before
  <2>7. Small(u, Limit)
    BY <1>1, <1>7, <1>10, <2>2, <2>3
  <2>8. r.last_was_cr <=> (u # <<>> /\ u[Len(u)] = CR)
    BY <1>1, <2>1, <2>5
  <2>9. Reads(r, u, Limit, stopAt)
    BY <1>5, <2>3, <2>5, <2>6, <2>7, <2>8 DEF Reads
  <2> QED BY <2>5, <2>9 DEF r, u
<1>12. CASE IsBreak(b) /\ ~Second(t, b)
  <2> DEFINE s == sse_line(q, rest)
             more == Append(L, rest)
  <2>1. s \in Parser /\ SameText(s, q) /\ After(s, more, Limit, stopAt)
    BY <1>2, <1>3, <1>5, <1>8, SseLine
  <2> HIDE DEF s
  <2>2. Emptied(s.line) = Buffer(<<>>)
    BY <1>8, <2>1 DEF SameText
  <2>3. r = [s EXCEPT !.line = Buffer(<<>>), !.last_was_cr = (b = CR)]
    <3>1. b \in {CR, LF}
      BY <1>12 DEF IsBreak
    <3>2. r = [s EXCEPT !.line = Emptied(@), !.last_was_cr = (b = CR)]
      BY <1>8, <1>9, <1>12, <3>1 DEF r, PayloadByte, s
    <3> QED BY <2>2, <3>2
  <2>4. /\ r \in Parser /\ r.line = Buffer(<<>>) /\ (r.last_was_cr <=> b = CR)
        /\ r.data = s.data /\ r.have_data = s.have_data /\ r.err = s.err /\ r.rc = s.rc
        /\ r.events = s.events /\ r.bom_decided = TRUE
    BY <1>5, <1>8, <2>1, <2>3 DEF Parser, SameText
  <2>5. After(r, more, Limit, stopAt)
    BY <2>1, <2>4 DEF After, Took, Before
  <2>6. Lines(u) = more /\ Unfinished(u) = <<>>
    BY <1>3, <1>4, <1>12
  <2>7. more \in Seq(Line)
    BY <1>2, <1>3, AppendProperties
  <2>8. EventsOf(more) \in Seq(Line)
    BY <2>7, EventsTyped
  <2>9. Limit # 0 => (BadLines(more, Limit) <=> Len(IF IsData(rest) THEN Pending(more) ELSE Pending(L)) > Limit)
    BY <1>1, <1>2, <1>3, <1>7, BadLinesStep
  <2>10. Pending(L) \in Line /\ Pending(more) \in Line /\ Len(Pending(L)) \in Nat /\ Len(Pending(more)) \in Nat
    <3>1. Pending(L) \in Line /\ Pending(more) \in Line
      BY <1>2, <1>3, <2>7, PendingStep
    <3> QED BY <3>1 DEF Line
  <2>11. Pending(more) = Pending(L) \/ Pending(more) = <<>> \/ IsData(rest)
    BY <1>2, <1>3, PendingStep
  <2> HIDE DEF more
  <2>12. CASE r.rc = "ok"
    <3>1. Limit = 0 \/ Len(Pending(more)) <= Limit
      BY <2>5, <2>12 DEF After
    <3>2. Limit # 0 => ~BadLines(more, Limit)
      BY <1>1, <1>6, <2>9, <2>10, <3>1
    <3>3. Small(u, Limit)
      BY <1>1, <1>10, <2>6, <3>2
    <3>4. r.last_was_cr <=> (u # <<>> /\ u[Len(u)] = CR)
      BY <1>1, <2>4
    <3>5. Reads(r, u, Limit, stopAt)
      BY <2>4, <2>5, <2>6, <2>12, <3>3, <3>4 DEF Reads
    <3> QED BY <2>4, <3>5 DEF r, u
  <2>13. CASE r.rc # "ok"
    <3>1. r.events = EventsOf(Lines(u))
      BY <2>5, <2>6, <2>13 DEF After
    <3>2. IsPrefix(r.events, EventsOf(Lines(u)))
      BY <2>6, <2>8, <3>1, PrefixIs
    <3>3. r.rc = "error" => Limit # 0 /\ TooLong(u, Limit)
      <4>1. r.rc = "error" => Limit # 0 /\ Len(Pending(more)) > Limit
        BY <2>5 DEF After
      <4>2. r.rc = "error" => Limit # 0 /\ BadLines(more, Limit)
        BY <1>1, <1>6, <2>9, <2>10, <2>11, <4>1
      <4> QED BY <1>1, <2>6, <4>2, TooLongIs
    <3>4. Ended(r, u, Limit, stopAt)
      BY <2>5, <2>13, <3>2, <3>3 DEF Ended, After
    <3> QED BY <2>4, <3>4 DEF r, u
  <2> QED BY <2>12, <2>13
<1>13. CASE ~IsBreak(b)
  <2> DEFINE a == Add(q.line, <<b>>)
             s == [q EXCEPT !.line = a, !.last_was_cr = FALSE]
             w == Append(rest, b)
  <2>1. b # CR /\ b # LF /\ ~(b \in {CR, LF}) /\ ~Second(t, b)
    BY <1>13 DEF IsBreak, Second
  <2>2. r = Checked(s)
    BY <1>9, <2>1 DEF r, PayloadByte
  <2>3. Lines(u) = L /\ Unfinished(u) = w
    BY <1>3, <1>4, <1>13
  <2>4. w \in Line /\ Len(w) = Len(rest) + 1 /\ rest \o <<b>> = w
    <3>1. rest \in Seq(Symbols)
      BY <1>3 DEF Line
    <3>2. rest \o <<b>> = Append(rest, b)
      BY <3>1, AppendIsConcat
    <3> QED BY <3>1, <3>2, AppendProperties DEF Line
  <2>5. <<b>> \in Line /\ Len(<<b>>) = 1 /\ <<b>> # <<>>
    <3>1. Len(<<>>) = 0 /\ Len(<<b>>) = 1
      OBVIOUS
    <3> QED BY <3>1 DEF Line
  <2>6. /\ Fits(Len(rest) + 1) => a = Buffer(w)
        /\ ~Fits(Len(rest) + 1) => a = [bytes |-> rest, tooBig |-> TRUE]
    BY <1>3, <1>5, <2>4, <2>5, AddIs
  <2>7. a \in Buffers
    BY <1>3, <2>4, <2>6, BufferIs, FullIs
  <2> HIDE DEF a, w
  <2>8. /\ s \in Parser /\ s.line = a /\ s.last_was_cr = FALSE /\ s.data = q.data
        /\ s.have_data = q.have_data /\ s.err = q.err /\ s.rc = q.rc /\ s.events = q.events
        /\ s.bom_decided = q.bom_decided
    BY <2>7 DEF Parser
  <2> HIDE DEF s
  <2>9. CASE Fits(Len(rest) + 1)
    <3>1. a = Buffer(w) /\ a.tooBig = FALSE
      BY <2>4, <2>6, <2>9, BufferIs
    <3>2. r = s
      BY <1>6, <1>8, <2>2, <2>8, <3>1, CheckedIs
    <3>3. After(r, L, Limit, stopAt)
      BY <1>5, <1>6, <2>8, <3>2 DEF After, Took, Before
    <3>4. Small(u, Limit)
      BY <1>1, <1>3, <1>7, <1>10, <2>3, <2>4, <2>9 DEF Fits
    <3>5. r.last_was_cr <=> (u # <<>> /\ u[Len(u)] = CR)
      BY <1>1, <2>1, <2>8, <3>2
    <3>6. Reads(r, u, Limit, stopAt)
      BY <1>5, <2>3, <2>8, <3>1, <3>2, <3>3, <3>4, <3>5 DEF Reads
    <3> QED BY <2>8, <3>2, <3>6 DEF r, u
  <2>10. CASE ~Fits(Len(rest) + 1)
    <3>1. s.line.tooBig = TRUE
      BY <1>3, <2>6, <2>8, <2>10, FullIs
    <3>2. r \in Parser /\ r.rc = "error" /\ r.events = q.events
      BY <2>2, <2>8, <3>1, CheckedIs
    <3>3. r.events = EventsOf(Lines(u)) /\ EventsOf(L) \in Seq(Line)
      BY <1>2, <1>6, <2>3, <3>2, EventsTyped DEF Took
    <3>4. IsPrefix(r.events, EventsOf(Lines(u)))
      BY <2>3, <3>3, PrefixIs
    <3>5. Limit # 0 /\ TooLong(u, Limit)
      <4>1. Limit # 0 /\ Len(w) > Limit
        BY <1>1, <1>3, <2>4, <2>10 DEF Fits
      <4> QED BY <1>1, <2>3, <4>1, TooLongIs
    <3>6. Before(r, stopAt)
      BY <1>6, <3>2 DEF Before
    <3>7. Ended(r, u, Limit, stopAt)
      BY <3>2, <3>4, <3>5, <3>6 DEF Ended
    <3> QED BY <3>2, <3>7 DEF r, u
  <2> QED BY <2>9, <2>10
<1> QED BY <1>11, <1>12, <1>13

-----------------------------------------------------------------------------
(* The byte order mark.                                                    *)

(* It is known whether the bytes begin with the mark. *)
Decided(s) == IsPrefix(Bom, s) \/ ~IsPrefix(s, Bom)

LEMMA BomTyped == Bom \in Line /\ Len(Bom) \in Nat \ {0}
<1>1. Bom \in Seq(Symbols)
  BY SymbolAssumption, SeqMonotonic
<1> QED BY <1>1, SymbolAssumption, EmptySeq DEF Line

(* Past the mark, one more byte of the stream is one more byte of text. *)
LEMMA PayloadGrows ==
  ASSUME NEW s \in Line, NEW b \in Symbols, Decided(s),
         NEW e \in BOOLEAN, NEW f \in BOOLEAN
  PROVE  /\ Payload(s, e) \in Line
         /\ Payload(s, f) = Payload(s, e)
         /\ Decided(Append(s, b))
         /\ Payload(Append(s, b), f) = Append(Payload(s, e), b)
<1> DEFINE u == Append(s, b)
           n == Len(s)
           m == Len(Bom)
<1>1. /\ u \in Line /\ n \in Nat /\ Len(u) = n + 1 /\ u[n + 1] = b /\ \A i \in 1..n : u[i] = s[i]
      /\ s \in Seq(Symbols) /\ u \in Seq(Symbols) /\ Bom \in Seq(Symbols) /\ m \in Nat
  BY AppendProperties, BomTyped DEF Line
<1> HIDE DEF u, n, m
<1>2. /\ IsPrefix(Bom, s) <=> m <= n /\ \A i \in 1..m : Bom[i] = s[i]
      /\ IsPrefix(s, Bom) <=> n <= m /\ \A i \in 1..n : s[i] = Bom[i]
      /\ IsPrefix(Bom, u) <=> m <= n + 1 /\ \A i \in 1..m : Bom[i] = u[i]
      /\ IsPrefix(u, Bom) <=> n + 1 <= m /\ \A i \in 1..(n + 1) : u[i] = Bom[i]
  <2>1. /\ IsPrefix(Bom, s) <=> m <= n /\ \A i \in 1..m : Bom[i] = s[i]
        /\ IsPrefix(s, Bom) <=> n <= m /\ \A i \in 1..n : s[i] = Bom[i]
    BY <1>1, PrefixIs DEF m, n
  <2>2. /\ IsPrefix(Bom, u) <=> m <= Len(u) /\ \A i \in 1..m : Bom[i] = u[i]
        /\ IsPrefix(u, Bom) <=> Len(u) <= m /\ \A i \in 1..Len(u) : u[i] = Bom[i]
    BY <1>1, PrefixIs DEF m
  <2> QED BY <1>1, <2>1, <2>2
<1>3. CASE IsPrefix(Bom, s)
  <2>1. m <= n /\ \A i \in 1..m : Bom[i] = s[i]
    BY <1>2, <1>3
  <2>2. \A i \in 1..m : i \in 1..n
    BY <1>1, <2>1
  <2>3. IsPrefix(Bom, u)
    BY <1>1, <1>2, <2>1, <2>2
  <2> DEFINE v == SubSeq(s, m + 1, n)
             w == SubSeq(u, m + 1, n + 1)
  <2>4. v \in Line /\ Len(v) = n - m /\ \A j \in 1..(n - m) : v[j] = s[m + j]
    BY <1>1, <2>1 DEF Line, n
  <2>5. w \in Line /\ Len(w) = (n + 1) - m /\ \A j \in 1..((n + 1) - m) : w[j] = u[m + j]
    BY <1>1, <2>1 DEF Line
  <2>6. Payload(s, e) = v /\ Payload(s, f) = v
    BY <1>3 DEF Payload, m, n
  <2>7. Payload(u, f) = w
    BY <1>1, <2>3 DEF Payload, m
  <2> HIDE DEF v, w
  <2>8. w = Append(v, b)
    <3>1. Len(w) = Len(v) + 1
      BY <1>1, <2>1, <2>4, <2>5
    <3>2. \A j \in 1..Len(v) : w[j] = v[j]
      <4> SUFFICES ASSUME NEW j \in 1..Len(v) PROVE w[j] = v[j]
        OBVIOUS
      <4>1. j \in 1..(n - m) /\ j \in 1..((n + 1) - m) /\ m + j \in 1..n
        BY <1>1, <2>1, <2>4
      <4> QED BY <1>1, <2>4, <2>5, <4>1
    <3>3. w[Len(v) + 1] = b
      <4>1. Len(v) + 1 \in 1..((n + 1) - m) /\ m + (Len(v) + 1) = n + 1
        BY <1>1, <2>1, <2>4
      <4> QED BY <1>1, <2>5, <4>1
    <3> QED BY <2>4, <2>5, <3>1, <3>2, <3>3, IsAppend DEF Line
  <2> QED BY <2>3, <2>4, <2>6, <2>7, <2>8 DEF Decided, u
<1>4. CASE ~IsPrefix(Bom, s)
  <2>1. ~IsPrefix(s, Bom)
    BY <1>4 DEF Decided
  <2>2. ~IsPrefix(u, Bom)
    <3> SUFFICES ASSUME IsPrefix(u, Bom) PROVE FALSE
      OBVIOUS
    <3>1. n + 1 <= m /\ \A i \in 1..(n + 1) : u[i] = Bom[i]
      BY <1>2
    <3>2. n <= m /\ \A i \in 1..n : i \in 1..(n + 1)
      BY <1>1, <3>1
    <3>3. \A i \in 1..n : s[i] = Bom[i]
      BY <1>1, <3>1, <3>2
    <3> QED BY <1>2, <2>1, <3>2, <3>3
  <2>3. ~IsPrefix(Bom, u)
    <3> SUFFICES ASSUME IsPrefix(Bom, u) PROVE FALSE
      OBVIOUS
    <3>1. m <= n + 1 /\ \A i \in 1..m : Bom[i] = u[i]
      BY <1>2
    <3>2. CASE m <= n
      <4>1. \A i \in 1..m : i \in 1..n
        BY <1>1, <3>2
      <4>2. \A i \in 1..m : Bom[i] = s[i]
        BY <1>1, <3>1, <4>1
      <4> QED BY <1>2, <1>4, <3>2, <4>2
    <3>3. CASE m = n + 1
      <4>1. n <= m /\ \A i \in 1..n : i \in 1..m
        BY <1>1, <3>3
      <4>2. \A i \in 1..n : s[i] = Bom[i]
        BY <1>1, <3>1, <4>1
      <4> QED BY <1>2, <2>1, <4>1, <4>2
    <3> QED BY <1>1, <3>1, <3>2, <3>3
  <2>4. Payload(s, e) = s /\ Payload(s, f) = s
    BY <1>4, <2>1 DEF Payload
  <2>5. Payload(u, f) = u
    BY <2>2, <2>3 DEF Payload
  <2> QED BY <2>2, <2>4, <2>5 DEF Decided, u
<1> QED BY <1>3, <1>4

(* A beginning of the mark, and the byte after it. *)
Mark(k) == SubSeq(Bom, 1, k)

(* The beginnings of the byte order mark. *)
LEMMA MarkIs ==
  ASSUME NEW k \in 0..Len(Bom)
  PROVE  /\ Mark(k) \in Line /\ Len(Mark(k)) = k
         /\ \A i \in 1..k : Mark(k)[i] = Bom[i] /\ ~IsBreak(Bom[i]) /\ Bom[i] # Data /\ Bom[i] # Colon
         /\ IsPrefix(Mark(k), Bom)
         /\ Decided(Mark(k)) <=> k = Len(Bom)
         /\ Mark(Len(Bom)) = Bom
<1> DEFINE s == Mark(k)
           m == Len(Bom)
<1>1. Bom \in Line /\ Bom \in Seq(Symbols) /\ m \in Nat \ {0}
  BY BomTyped DEF Line
<1>2. s \in Line /\ s \in Seq(Symbols) /\ Len(s) = k /\ \A i \in 1..k : s[i] = Bom[i]
  BY <1>1 DEF Mark, Line
<1>3. \A i \in 1..m : Bom[i] \in Symbols \ {CR, LF, Colon, Space, Data, Text}
  BY SymbolAssumption, ElementOfSeq
<1>4. Mark(m) = Bom
  BY <1>1 DEF Mark
<1> HIDE DEF s, m
<1>5. \A i \in 1..k : i \in 1..m
  BY <1>1 DEF m
<1>6. \A i \in 1..k : s[i] = Bom[i] /\ ~IsBreak(Bom[i]) /\ Bom[i] # Data /\ Bom[i] # Colon
  BY <1>2, <1>3, <1>5 DEF IsBreak
<1>7. k <= m /\ k \in Nat
  BY <1>1 DEF m
<1>8. IsPrefix(s, Bom)
  BY <1>1, <1>2, <1>7, PrefixIs DEF m
<1>9. IsPrefix(Bom, s) <=> k = m
  <2>1. IsPrefix(Bom, s) <=> m <= k /\ \A i \in 1..m : Bom[i] = s[i]
    BY <1>1, <1>2, PrefixIs DEF m
  <2> QED BY <1>1, <1>2, <1>7, <2>1
<1>10. Decided(s) <=> k = m
  BY <1>8, <1>9 DEF Decided
<1> QED BY <1>2, <1>4, <1>6, <1>8, <1>10 DEF s, m

(* Text without line ends is one unfinished line. *)
LEMMA NoBreaks ==
  ASSUME NEW t \in Line, \A i \in 1..Len(t) : ~IsBreak(t[i])
  PROVE  Lines(t) = <<>> /\ Unfinished(t) = t
<1>1. t \in Seq(Symbols) /\ Len(t) \in Nat /\ DOMAIN t = 1..Len(t)
  BY LenProperties DEF Line
<1>2. LineEnds(t) = {}
  BY <1>1 DEF LineEnds, IsBreak
<1>3. Lines(t) \in Seq(Line) /\ Len(Lines(t)) = 0
  <2>1. Len(Ascending(LineEnds(t))) = 0
    BY <1>2, AscendingEmpty, EmptySeq
  <2> QED BY <1>1, <2>1, LinesTyped DEF Line
<1>4. Lines(t) = <<>>
  BY <1>3, EmptySeq
<1>5. LineStart(t, Len(t) + 1) = 1
  <2>1. Breaks(t, Len(t) + 1) = {}
    <3>1. (Len(t) + 1) - 1 = Len(t)
      BY <1>1
    <3> QED BY <3>1 DEF Breaks
  <2> QED BY <2>1 DEF LineStart
<1>6. Unfinished(t) = t
  <2>1. (Len(t) + 1) - 1 = Len(t)
    BY <1>1
  <2>2. Unfinished(t) = SubSeq(t, 1, Len(t))
    BY <1>5, <2>1, LineBeforeIs DEF Unfinished
  <2> QED BY <1>1, <2>2
<1> QED BY <1>4, <1>6

LEMMA NoLines ==
  /\ <<>> \in Seq(Line)
  /\ EventsOf(<<>>) = <<>> /\ PendingLines(<<>>) = {} /\ Pending(<<>>) = <<>>
  /\ \A k : ~BadLines(<<>>, k)
<1>1. <<>> \in Seq(Line) /\ Len(<<>>) = 0
  BY EmptySeq
<1>2. Closing(<<>>) = {}
  BY DEF Closing
<1>3. EventsOf(<<>>) \in Seq(Line) /\ Len(EventsOf(<<>>)) = 0
  BY <1>1, <1>2, EventsTyped, AscendingEmpty, EmptySeq
<1>4. EventsOf(<<>>) = <<>>
  BY <1>3, EmptySeq
<1>5. PendingLines(<<>>) = {}
  <2>1. DataLines(<<>>, 1) \in Positions(0)
    BY <1>1, DataLinesIs
  <2>2. Len(<<>>) + 1 = 1
    BY <1>1
  <2>3. DataLines(<<>>, 1) = {}
    BY <2>1 DEF Positions
  <2> QED BY <2>2, <2>3 DEF PendingLines
<1>6. <<>> \in Line
  BY EmptySeq DEF Line
<1>7. Pending(<<>>) = <<>>
  BY <1>1, <1>5, <1>6, PendingStep
<1>8. \A k : ~BadLines(<<>>, k)
  BY <1>1 DEF BadLines
<1> QED BY <1>1, <1>4, <1>5, <1>7, <1>8

-----------------------------------------------------------------------------
(* Bytes as they are fed.                                                  *)

(* Nothing but a beginning of the mark has come. *)
Marking(q, s) ==
  /\ q.bom_seen \in Nat /\ q.bom_seen < Len(Bom) /\ s = Mark(q.bom_seen)
  /\ q.bom_decided = FALSE /\ q.rc = "ok" /\ q.events = <<>>
  /\ q.line = Buffer(<<>>) /\ q.data = Buffer(<<>>)
  /\ q.have_data = FALSE /\ q.last_was_cr = FALSE /\ q.err = FALSE

Follows(q, s, limit, stop) ==
  \/ Marking(q, s)
  \/ /\ Decided(s)
     /\ Reads(q, Payload(s, FALSE), limit, stop) \/ Ended(q, Payload(s, FALSE), limit, stop)

(* The mark's bytes, if they fit, are the first text. *)
LEMMA FirstText ==
  ASSUME setting \in Setting, stopAt \in Nat, NEW q \in Parser, NEW k \in 0..Len(Bom), Fits(k),
         q.bom_decided = TRUE, q.rc = "ok", q.events = <<>>, q.line = Buffer(Mark(k)),
         q.data = Buffer(<<>>), q.have_data = FALSE, q.last_was_cr = FALSE, q.err = FALSE
  PROVE  Reads(q, Mark(k), Limit, stopAt)
<1> DEFINE t == Mark(k)
<1>1. t \in Line /\ Len(t) = k /\ \A i \in 1..k : ~IsBreak(t[i])
  BY MarkIs
<1> HIDE DEF t
<1>2. Lines(t) = <<>> /\ Unfinished(t) = t
  BY <1>1, NoBreaks
<1>3. Len(<<>>) = 0 /\ Limit \in Nat
  BY LimitTyped, EmptySeq
<1>4. Took(q, <<>>)
  BY NoLines DEF Took
<1>5. Before(q, stopAt)
  BY <1>3 DEF Before
<1>6. After(q, Lines(t), Limit, stopAt)
  BY <1>2, <1>3, <1>4, <1>5, NoLines DEF After
<1>7. ~(t # <<>> /\ t[Len(t)] = CR)
  <2>1. t # <<>> => k \in 1..k
    BY <1>1, EmptySeq DEF Line
  <2> QED BY <1>1, <2>1 DEF IsBreak
<1>8. Small(t, Limit)
  <2>1. Limit # 0 => ~(Len(t) > Limit)
    BY <1>1, <1>3 DEF Fits
  <2> QED BY <1>1, <1>2, <2>1, NoLines, TooLongIs DEF Small
<1> QED BY <1>2, <1>6, <1>7, <1>8 DEF Reads, t

LEMMA AddMark ==
  ASSUME setting \in Setting, NEW k \in 0..Len(Bom)
  PROVE  /\ Add(Buffer(<<>>), Mark(k)) \in Buffers
         /\ Fits(k) => Add(Buffer(<<>>), Mark(k)) = Buffer(Mark(k))
         /\ ~Fits(k) => k # 0 /\ Add(Buffer(<<>>), Mark(k)) = [bytes |-> <<>>, tooBig |-> TRUE]
<1> DEFINE t == Mark(k)
           a == Add(Buffer(<<>>), t)
<1>1. t \in Line /\ Len(t) = k
  BY MarkIs
<1>2. <<>> \in Line /\ Len(<<>>) = 0 /\ Limit \in Nat /\ k \in Nat
  BY LimitTyped, EmptySeq, BomTyped DEF Line
<1> HIDE DEF t
<1>3. Len(<<>>) + Len(t) = k /\ <<>> \o t = t
  BY <1>1, <1>2, ConcatEmptySeq DEF Line
<1>4. /\ Fits(Len(<<>>) + Len(t)) => a = Buffer(<<>> \o t)
      /\ t # <<>> /\ ~Fits(Len(<<>>) + Len(t)) => a = [bytes |-> <<>>, tooBig |-> TRUE]
  BY <1>1, <1>2, AddIs
<1>5. ~Fits(k) => k # 0 /\ t # <<>>
  BY <1>1, <1>2 DEF Fits
<1> HIDE DEF a
<1>6. Fits(k) => a = Buffer(t)
  BY <1>3, <1>4
<1>7. ~Fits(k) => k # 0 /\ a = [bytes |-> <<>>, tooBig |-> TRUE]
  BY <1>3, <1>4, <1>5
<1>8. a \in Buffers
  BY <1>1, <1>2, <1>6, <1>7, BufferIs, FullIs
<1> QED BY <1>6, <1>7, <1>8 DEF a, t

(* One more byte while only a beginning of the mark has come: the mark goes
   on, is complete, or was none and is replayed. *)
LEMMA MarkStep ==
  ASSUME setting \in Setting, stopAt \in Nat,
         NEW q \in Parser, NEW s, NEW b \in Symbols, Marking(q, s)
  PROVE  FeedByte(q, b) \in Parser /\ Follows(FeedByte(q, b), Append(s, b), Limit, stopAt)
<1> DEFINE k == q.bom_seen
           m == Len(Bom)
           u == Append(s, b)
           r == FeedByte(q, b)
<1>1. /\ k \in 0..m /\ k + 1 \in 0..m /\ m \in Nat \ {0} /\ k \in Nat /\ k < m
      /\ k + 1 \in 1..m
  BY BomTyped DEF Marking
<1>2. s = Mark(k) /\ s \in Line /\ Len(s) = k /\ \A i \in 1..k : s[i] = Bom[i]
  BY <1>1, MarkIs DEF Marking
<1>3. /\ u \in Line /\ Len(u) = k + 1 /\ u[k + 1] = b /\ \A i \in 1..k : u[i] = s[i]
      /\ s \in Seq(Symbols)
  BY <1>2, AppendProperties DEF Line
<1>4. q.rc = "ok" /\ q.bom_decided = FALSE
  BY DEF Marking
<1>5. CASE b = Bom[k + 1]
  <2>1. u = Mark(k + 1)
    <3> DEFINE v == Mark(k + 1)
    <3>1. v \in Line /\ Len(v) = k + 1 /\ \A i \in 1..(k + 1) : v[i] = Bom[i]
      BY <1>1, MarkIs
    <3>2. v \in Seq(Symbols) /\ Len(v) = Len(s) + 1
      BY <1>2, <3>1 DEF Line
    <3>3. k + 1 \in 1..(k + 1) /\ \A i \in 1..k : i \in 1..(k + 1)
      BY <1>1
    <3> HIDE DEF v, k
    <3>4. v[Len(s) + 1] = b /\ \A i \in 1..Len(s) : v[i] = s[i]
      BY <1>2, <1>5, <3>1, <3>3
    <3>5. v = Append(s, b)
      BY <1>3, <3>2, <3>4, IsAppend
    <3> QED BY <3>5 DEF v
  <2> DEFINE all == k + 1 = m
             seen == k + 1
  <2>2. r = [q EXCEPT !.bom_seen = seen, !.bom_decided = all] /\ all \in BOOLEAN
    BY <1>4, <1>5 DEF FeedByte
  <2>0. (k + 1 < m => all = FALSE) /\ (k + 1 = m => all = TRUE) /\ seen \in Nat
    BY <1>1
  <2> HIDE DEF r, u, all, seen
  <2>3. /\ r \in Parser /\ r.bom_seen = seen /\ r.bom_decided = all
        /\ r.rc = q.rc /\ r.events = q.events /\ r.line = q.line /\ r.data = q.data
        /\ r.have_data = q.have_data /\ r.last_was_cr = q.last_was_cr /\ r.err = q.err
    BY <2>0, <2>2 DEF Parser
  <2>4. CASE k + 1 < m
    <3>1. r.bom_decided = FALSE
      BY <2>0, <2>3, <2>4
    <3>2. Marking(r, u)
      BY <1>1, <2>1, <2>3, <2>4, <3>1 DEF Marking, seen
    <3> QED BY <2>3, <3>2 DEF Follows, r, u
  <2>5. CASE k + 1 = m
    <3>1. u = Bom /\ Decided(u)
      BY <1>1, <2>1, <2>5, MarkIs
    <3>2. Payload(u, FALSE) = <<>>
      <4>1. IsPrefix(Bom, u)
        BY <1>1, <2>1, <2>5, <3>1, MarkIs
      <4>2. SubSeq(Bom, m + 1, m) = <<>>
        BY BomTyped DEF Line
      <4> QED BY <3>1, <4>1, <4>2 DEF Payload
    <3>3. Mark(0) = <<>> /\ 0 \in 0..m /\ Fits(0)
      <4>1. Len(Mark(0)) = 0 /\ Mark(0) \in Line
        BY <1>1, MarkIs
      <4>2. Limit \in Nat
        BY LimitTyped
      <4> QED BY <1>1, <4>1, <4>2, EmptySeq DEF Fits, Line
    <3>4. r.bom_decided = TRUE
      BY <2>0, <2>3, <2>5
    <3>5. Reads(r, <<>>, Limit, stopAt)
      <4>1. /\ r.rc = "ok" /\ r.events = <<>> /\ r.line = Buffer(Mark(0)) /\ r.data = Buffer(<<>>)
            /\ r.have_data = FALSE /\ r.last_was_cr = FALSE /\ r.err = FALSE
        BY <2>3, <3>3 DEF Marking
      <4>2. Reads(r, Mark(0), Limit, stopAt)
        BY <2>3, <3>3, <3>4, <4>1, FirstText
      <4> QED BY <3>3, <4>2
    <3> QED BY <2>3, <3>1, <3>2, <3>5 DEF Follows, r, u
  <2> QED BY <1>1, <2>4, <2>5
<1>6. CASE b # Bom[k + 1]
  <2> DEFINE a == Add(Buffer(<<>>), s)
             v == [q EXCEPT !.line = a, !.bom_seen = 0, !.bom_decided = TRUE]
             z == Checked(v)
  <2>1. Replay(q) = z
    BY <1>2 DEF Replay, Held, Mark, Marking
  <2>2. r = IF z.rc # "ok" THEN z ELSE PayloadByte(z, b)
    BY <1>4, <1>6, <2>1 DEF FeedByte
  <2>3. /\ a \in Buffers /\ (Fits(k) => a = Buffer(s))
        /\ ~Fits(k) => k # 0 /\ a.tooBig = TRUE
    <3>1. <<>> \in Line
      BY EmptySeq DEF Line
    <3>2. [bytes |-> <<>>, tooBig |-> TRUE].tooBig = TRUE
      BY <3>1, FullIs
    <3> QED BY <1>1, <1>2, <3>2, AddMark
  <2> HIDE DEF a
  <2>4. /\ v \in Parser /\ v.line = a /\ v.bom_decided = TRUE
        /\ v.rc = q.rc /\ v.events = q.events /\ v.data = q.data
        /\ v.have_data = q.have_data /\ v.last_was_cr = q.last_was_cr /\ v.err = q.err
    BY <2>3 DEF Parser
  <2> HIDE DEF v, z, r
  <2>0. u \in Seq(Symbols) /\ Bom \in Seq(Symbols)
    BY <1>3, BomTyped DEF Line
  <2> HIDE DEF u
  <2>5. Decided(u) /\ Payload(u, FALSE) = u
    <3>1. ~IsPrefix(u, Bom)
      <4>1. IsPrefix(u, Bom) => u[k + 1] = Bom[k + 1]
        <5>1. IsPrefix(u, Bom) => \A i \in 1..Len(u) : u[i] = Bom[i]
          BY <2>0, PrefixIs
        <5>2. k + 1 \in 1..Len(u)
          BY <1>1, <1>3
        <5> QED BY <5>1, <5>2
      <4> QED BY <1>3, <1>6, <4>1
    <3>2. ~IsPrefix(Bom, u)
      <4>1. IsPrefix(Bom, u) => m <= Len(u) /\ \A i \in 1..m : Bom[i] = u[i]
        BY <2>0, PrefixIs
      <4>2. IsPrefix(Bom, u) => Bom[k + 1] = u[k + 1]
        BY <1>1, <4>1
      <4> QED BY <1>3, <1>6, <4>2
    <3> QED BY <3>1, <3>2 DEF Decided, Payload
  <2>6. CASE Fits(k)
    <3>1. a.tooBig = FALSE /\ v.data.tooBig = FALSE
      <4>1. <<>> \in Line
        BY EmptySeq DEF Line
      <4>2. v.data = Buffer(<<>>)
        BY <2>4 DEF Marking
      <4> QED BY <1>2, <2>3, <2>6, <4>1, <4>2, BufferIs
    <3>2. z = v
      <4>1. v.err = FALSE /\ v.line.tooBig = FALSE
        BY <2>4, <3>1 DEF Marking
      <4> QED BY <2>4, <3>1, <4>1, CheckedIs DEF z
    <3>3. Reads(v, s, Limit, stopAt)
      <4>1. /\ v.rc = "ok" /\ v.events = <<>> /\ v.line = Buffer(Mark(k)) /\ v.data = Buffer(<<>>)
            /\ v.have_data = FALSE /\ v.last_was_cr = FALSE /\ v.err = FALSE
        BY <1>2, <2>3, <2>4, <2>6 DEF Marking
      <4>2. Reads(v, Mark(k), Limit, stopAt)
        BY <1>1, <2>4, <2>6, <4>1, FirstText
      <4> QED BY <1>2, <4>2
    <3>4. r = PayloadByte(v, b)
      BY <2>2, <3>2, <3>3 DEF Reads
    <3>5. r \in Parser /\ (Reads(r, u, Limit, stopAt) \/ Ended(r, u, Limit, stopAt))
      BY <1>2, <2>4, <3>3, <3>4, PayloadStep DEF u
    <3> QED BY <2>5, <3>5 DEF Follows, r, u
  <2>7. CASE ~Fits(k)
    <3>1. z \in Parser /\ z.rc = "error" /\ z.events = <<>>
      BY <2>3, <2>4, <2>7, CheckedIs DEF Marking, z
    <3>2. r = z
      BY <2>2, <3>1
    <3>3. Limit # 0 /\ TooLong(u, Limit)
      <4>1. Limit \in Nat
        BY LimitTyped
      <4>2. Limit # 0 /\ Len(s) > Limit
        BY <1>1, <1>2, <2>7, <4>1 DEF Fits
      <4>3. Unfinished(s) = s
        BY <1>1, <1>2, MarkIs, NoBreaks
      <4>4. TooLong(s, Limit)
        BY <1>2, <4>2, <4>3, TooLongIs
      <4> QED BY <1>2, <4>1, <4>2, <4>4, TextGrows DEF u
    <3>4. IsPrefix(<<>>, EventsOf(Lines(u)))
      <4>1. Lines(u) \in Seq(Line)
        BY <1>3, LinesTyped DEF Line
      <4>2. EventsOf(Lines(u)) \in Seq(Line)
        BY <4>1, EventsTyped
      <4> QED BY <4>2, EmptyPrefix
    <3>5. Before(z, stopAt)
      BY <3>1, EmptySeq DEF Before
    <3>6. Ended(z, u, Limit, stopAt)
      BY <3>1, <3>3, <3>4, <3>5 DEF Ended
    <3> QED BY <2>5, <3>1, <3>2, <3>6 DEF Follows, r, u
  <2> QED BY <2>6, <2>7
<1> QED BY <1>5, <1>6

(* One more byte of the stream, whatever has come before. *)
LEMMA FeedStep ==
  ASSUME setting \in Setting, stopAt \in Nat,
         NEW q \in Parser, NEW s \in Line, NEW b \in Symbols, Follows(q, s, Limit, stopAt)
  PROVE  FeedByte(q, b) \in Parser /\ Follows(FeedByte(q, b), Append(s, b), Limit, stopAt)
<1>1. CASE Marking(q, s)
  BY <1>1, MarkStep
<1>2. CASE ~Marking(q, s)
  <2> DEFINE t == Payload(s, FALSE)
  <2>1. Decided(s) /\ (Reads(q, t, Limit, stopAt) \/ Ended(q, t, Limit, stopAt))
    BY <1>2 DEF Follows
  <2>2. t \in Line /\ Decided(Append(s, b)) /\ Payload(Append(s, b), FALSE) = Append(t, b)
    BY <2>1, PayloadGrows
  <2> HIDE DEF t
  <2>3. CASE Reads(q, t, Limit, stopAt)
    <3>1. FeedByte(q, b) = PayloadByte(q, b)
      BY <2>3 DEF FeedByte, Reads
    <3>2. /\ FeedByte(q, b) \in Parser
          /\ \/ Reads(FeedByte(q, b), Append(t, b), Limit, stopAt)
             \/ Ended(FeedByte(q, b), Append(t, b), Limit, stopAt)
      BY <2>2, <2>3, <3>1, PayloadStep
    <3> QED BY <2>2, <3>2 DEF Follows
  <2>4. CASE Ended(q, t, Limit, stopAt)
    <3>1. FeedByte(q, b) = q
      BY <2>4 DEF FeedByte, Ended
    <3>2. Ended(q, Append(t, b), Limit, stopAt)
      BY <2>2, <2>4, LimitTyped, EndedStays
    <3> QED BY <2>2, <3>1, <3>2 DEF Follows
  <2> QED BY <2>1, <2>3, <2>4
<1> QED BY <1>1, <1>2

(* A chunk is its bytes, one after the other. *)
LEMMA ChunkStep ==
  ASSUME setting \in Setting, stopAt \in Nat,
         NEW q \in Parser, NEW s \in Line, NEW chunk \in Line, Follows(q, s, Limit, stopAt)
  PROVE  /\ FoldLeft(FeedByte, q, chunk) \in Parser
         /\ Follows(FoldLeft(FeedByte, q, chunk), s \o chunk, Limit, stopAt)
<1> DEFINE Fold(c) == FoldLeft(FeedByte, q, c)
           T == {c \in Line : Fold(c) \in Parser /\ Follows(Fold(c), s \o c, Limit, stopAt)}
<1>1. \A t : Fed!Fold(q, t) = Fold(t)
  BY DEF Fed!Fold, Fed!FoldLeft, FoldLeft, Fed!MapThenFoldSet, MapThenFoldSet, Fed!Max, Max
<1>2. <<>> \in T
  <2>1. Fold(<<>>) = q
    BY <1>1, Fed!FoldEmpty
  <2>2. s \o <<>> = s /\ <<>> \in Line
    BY ConcatEmptySeq, EmptySeq DEF Line
  <2> HIDE DEF Fold
  <2> QED BY <2>1, <2>2
<1>3. ASSUME NEW c \in Seq(Symbols), NEW b \in Symbols, c \in T PROVE Append(c, b) \in T
  <2>1. Fold(Append(c, b)) = FeedByte(Fold(c), b)
    <3>1. Fed!Fold(q, Append(c, b)) = FeedByte(Fed!Fold(q, c), b)
      BY Fed!FoldAppend
    <3> HIDE DEF Fold
    <3> QED BY <1>1, <3>1
  <2>2. /\ Append(c, b) \in Line /\ s \o c \in Line
        /\ s \o Append(c, b) = Append(s \o c, b)
    BY DEF Line
  <2>3. Fold(c) \in Parser /\ Follows(Fold(c), s \o c, Limit, stopAt)
    BY <1>3
  <2> HIDE DEF Fold
  <2>4. FeedByte(Fold(c), b) \in Parser /\ Follows(FeedByte(Fold(c), b), Append(s \o c, b), Limit, stopAt)
    BY <2>2, <2>3, FeedStep
  <2> QED BY <2>1, <2>2, <2>4
<1> HIDE DEF T
<1>4. Seq(Symbols) \subseteq T
  BY <1>2, <1>3, Fed!SeqInductive
<1> QED BY <1>4 DEF T, Line

-----------------------------------------------------------------------------
(* The end of a stream.                                                    *)

(* The line ends it lacks. *)
Closed(t) == t \o <<LF, LF>>

(* The lines, with the unfinished one if there is any. *)
AllLines(t) == IF Unfinished(t) = <<>> THEN Lines(t) ELSE Append(Lines(t), Unfinished(t))

(* The unfinished line becomes a line, and a blank line follows. *)
LEMMA ClosedLines ==
  ASSUME NEW t \in Line
  PROVE  /\ Closed(t) \in Line /\ Unfinished(Closed(t)) = <<>>
         /\ AllLines(t) \in Seq(Line)
         /\ \/ Lines(Closed(t)) = Append(AllLines(t), <<>>)
            \/ Lines(Closed(t)) = Append(Append(AllLines(t), <<>>), <<>>)
<1> DEFINE u == Append(t, LF)
           w == Append(u, LF)
           L == Lines(t)
           rest == Unfinished(t)
<1>1. t \in Seq(Symbols) /\ LF \in Symbols /\ IsBreak(LF)
  BY LFTyped DEF Line, IsBreak
<1>2. u \in Seq(Symbols) /\ w \in Seq(Symbols)
  BY <1>1, AppendProperties
<1>3. Closed(t) = w
  BY <1>1 DEF Closed
<1>4. L \in Seq(Line) /\ rest \in Line
  BY <1>1, LinesTyped, UnfinishedStep DEF Line
<1>5. AllLines(t) = IF rest = <<>> THEN L ELSE Append(L, rest)
  BY DEF AllLines
<1>6. AllLines(t) \in Seq(Line)
  BY <1>4, <1>5, AppendProperties
<1>7. Unfinished(u) = <<>> /\ Unfinished(w) = <<>>
  BY <1>1, <1>2, UnfinishedStep
<1>8. Lines(u) = IF ~Second(t, LF) THEN Append(L, rest) ELSE L
  BY <1>1, LinesStep
<1>9. Lines(w) = Append(Lines(u), <<>>)
  <2>1. u[Len(u)] = LF
    BY <1>1, LastOf
  <2>2. ~Second(u, LF)
    BY <2>1, SymbolAssumption DEF Second
  <2> HIDE DEF u
  <2> QED BY <1>1, <1>2, <1>7, <2>2, LinesStep
<1>10. Second(t, LF) => rest = <<>>
  <2>1. Second(t, LF) => t # <<>> /\ IsBreak(t[Len(t)])
    BY DEF Second, IsBreak
  <2> QED BY <2>1, NothingUnfinished
<1> HIDE DEF u, w, L, rest
<1>11. Lines(w) = Append(AllLines(t), <<>>) \/ Lines(w) = Append(Append(AllLines(t), <<>>), <<>>)
  BY <1>5, <1>8, <1>9, <1>10
<1> QED BY <1>2, <1>3, <1>6, <1>7, <1>11 DEF Line

(* At the end the data that is pending becomes an event. *)
LEMMA ClosedText ==
  ASSUME NEW t \in Line, NEW k \in Nat
  PROVE  /\ EventsOf(Lines(Closed(t))) = EventsOf(Append(AllLines(t), <<>>))
         /\ EventsOf(Lines(Closed(t))) \in Seq(Line)
         /\ IsPrefix(EventsOf(AllLines(t)), EventsOf(Lines(Closed(t))))
         /\ TooLong(Closed(t), k) <=> BadLines(AllLines(t), k) \/ Len(Pending(AllLines(t))) > k
<1> DEFINE L == AllLines(t)
           M == Append(L, <<>>)
           N == Append(M, <<>>)
           w == Closed(t)
<1>1. w \in Line /\ Unfinished(w) = <<>> /\ L \in Seq(Line) /\ (Lines(w) = M \/ Lines(w) = N)
  BY ClosedLines
<1>2. <<>> \in Line /\ Len(<<>>) = 0
  BY EmptySeq DEF Line
<1> HIDE DEF L, w
<1>3. M \in Seq(Line) /\ PendingLines(M) = {} /\ Pending(M) = <<>> /\ Pending(L) \in Line
  BY <1>1, <1>2, AppendProperties, PendingStep
<1>4. EventsOf(M) = EventsOf(L) \/ EventsOf(M) = Append(EventsOf(L), Pending(L))
  BY <1>1, <1>2, EventsStep
<1>5. ~IsData(<<>>)
  BY BlankHasNoField
<1>6. BadLines(M, k) <=> BadLines(L, k) \/ Len(Pending(L)) > k
  BY <1>1, <1>2, <1>5, BadLinesStep
<1>7. EventsOf(L) \in Seq(Line) /\ EventsOf(M) \in Seq(Line)
  BY <1>1, <1>3, EventsTyped
<1> HIDE DEF M
<1>8. EventsOf(N) = EventsOf(M)
  BY <1>2, <1>3, EventsStep
<1>9. BadLines(N, k) <=> BadLines(M, k)
  BY <1>2, <1>3, <1>5, BadLinesStep
<1>10. EventsOf(Lines(w)) = EventsOf(M) /\ (BadLines(Lines(w), k) <=> BadLines(M, k))
  BY <1>1, <1>8, <1>9
<1>11. IsPrefix(EventsOf(L), EventsOf(M))
  <2>1. IsPrefix(EventsOf(L), EventsOf(L))
    BY <1>7, PrefixIs
  <2> QED BY <1>3, <1>4, <1>7, <2>1, PrefixAppend
<1>12. TooLong(w, k) <=> BadLines(Lines(w), k)
  BY <1>1, <1>2, TooLongIs
<1> QED BY <1>6, <1>7, <1>10, <1>11, <1>12 DEF L, M, w

(* Every event has come, or the parser has stopped. *)
Done(q, w, limit, stop) ==
  \/ q.rc = "ok" /\ q.events = EventsOf(Lines(w)) /\ Before(q, stop) /\ Small(w, limit)
  \/ Ended(q, w, limit, stop)

Drained(q) == LET ended == LastLine(q) IN IF ended.rc # "ok" THEN ended ELSE BlankLine(ended)

(* sicha_sse_finish once the text has begun. *)
LEMMA LastStep ==
  ASSUME setting \in Setting, stopAt \in Nat,
         NEW q \in Parser, NEW t \in Line, Reads(q, t, Limit, stopAt)
  PROVE  Drained(q) \in Parser /\ Done(Drained(q), Closed(t), Limit, stopAt)
<1> DEFINE L == Lines(t)
           rest == Unfinished(t)
           A == AllLines(t)
           e == LastLine(q)
           r == Drained(q)
           w == Closed(t)
<1>1. /\ t \in Seq(Symbols) /\ Limit \in Nat /\ <<>> \in Line /\ Len(<<>>) = 0
  BY LimitTyped, EmptySeq DEF Line
<1>2. L \in Seq(Line) /\ rest \in Line /\ Len(rest) \in Nat
  <2>1. L \in Seq(Line) /\ rest \in Line
    BY <1>1, LFTyped, LinesTyped, UnfinishedStep DEF Line
  <2> HIDE DEF L, rest
  <2> QED BY <2>1 DEF Line
<1>3. A \in Seq(Line) /\ A = IF rest = <<>> THEN L ELSE Append(L, rest)
  BY ClosedLines DEF AllLines
<1>4. /\ q.rc = "ok" /\ After(q, L, Limit, stopAt) /\ q.line = Buffer(rest) /\ Small(t, Limit)
      /\ Limit = 0 \/ Len(Pending(L)) <= Limit
  BY DEF Reads, After
<1>5. q.line.bytes = rest /\ q.line.tooBig = FALSE
  BY <1>2, <1>4, BufferIs
<1>6. Limit # 0 => ~BadLines(L, Limit) /\ ~(Len(rest) > Limit)
  BY <1>4, TooLongIs DEF Small
<1>7. w \in Line
  BY ClosedLines
<1>8. /\ EventsOf(Lines(w)) = EventsOf(Append(A, <<>>)) /\ EventsOf(Lines(w)) \in Seq(Line)
      /\ IsPrefix(EventsOf(A), EventsOf(Lines(w)))
      /\ TooLong(w, Limit) <=> BadLines(A, Limit) \/ Len(Pending(A)) > Limit
  BY <1>1, ClosedText
<1>9. r = IF e.rc # "ok" THEN e ELSE BlankLine(e)
  BY DEF Drained
<1> HIDE DEF A, e, r, w, L, rest
<1>10. e \in Parser /\ After(e, A, Limit, stopAt) /\ e.line.tooBig = FALSE
  <2>1. CASE rest = <<>>
    <3>1. e = q
      BY <1>5, <2>1 DEF e, LastLine
    <3> QED BY <1>3, <1>4, <1>5, <2>1, <3>1
  <2>2. CASE rest # <<>>
    <3> DEFINE s == sse_line(q, rest)
    <3>1. s \in Parser /\ SameText(s, q) /\ After(s, A, Limit, stopAt)
      BY <1>2, <1>3, <1>4, <1>5, <2>2, SseLine
    <3>2. e = [s EXCEPT !.line = Emptied(@)]
      BY <1>5, <2>2 DEF e, LastLine
    <3> HIDE DEF s
    <3>3. Emptied(s.line) = Buffer(<<>>) /\ Buffer(<<>>) \in Buffers /\ Buffer(<<>>).tooBig = FALSE
      <4>1. s.line = Buffer(rest)
        BY <1>4, <3>1 DEF SameText
      <4>2. Emptied(Buffer(rest)) = Buffer(<<>>)
        BY <1>2, BufferIs
      <4>3. Buffer(<<>>) \in Buffers /\ Buffer(<<>>).tooBig = FALSE
        BY <1>1, BufferIs
      <4> QED BY <4>1, <4>2, <4>3
    <3>4. e = [s EXCEPT !.line = Buffer(<<>>)]
      BY <3>2, <3>3
    <3>5. /\ e \in Parser /\ e.line = Buffer(<<>>) /\ e.data = s.data /\ e.have_data = s.have_data
          /\ e.err = s.err /\ e.rc = s.rc /\ e.events = s.events
      BY <3>1, <3>3, <3>4 DEF Parser
    <3>6. After(e, A, Limit, stopAt)
      BY <3>1, <3>5 DEF After, Took, Before
    <3> QED BY <3>3, <3>5, <3>6
  <2> QED BY <2>1, <2>2
<1>11. Limit # 0 => (BadLines(A, Limit) => Len(Pending(A)) > Limit)
  <2>1. CASE rest = <<>>
    BY <1>3, <1>6, <2>1
  <2>2. CASE rest # <<>>
    <3>1. BadLines(A, Limit) <=>
            \/ BadLines(L, Limit) \/ Len(rest) > Limit
            \/ Len(IF IsData(rest) THEN Pending(A) ELSE Pending(L)) > Limit
      BY <1>2, <1>3, <2>2, BadLinesStep
    <3>2. Len(Pending(L)) \in Nat
      <4>1. Pending(L) \in Line
        BY <1>2, PendingStep
      <4> QED BY <4>1 DEF Line
    <3>3. Limit # 0 => ~(Len(Pending(L)) > Limit)
      BY <1>1, <1>4, <3>2
    <3> QED BY <1>6, <3>1, <3>3
  <2> QED BY <2>1, <2>2
<1>12. Len(Pending(A)) \in Nat
  <2>1. Pending(A) \in Line
    BY <1>2, <1>3, PendingStep
  <2> QED BY <2>1 DEF Line
<1>13. CASE e.rc # "ok"
  <2>1. r = e
    BY <1>9, <1>13
  <2>2. e.events = EventsOf(A)
    BY <1>10, <1>13 DEF After
  <2>3. Ended(r, w, Limit, stopAt)
    BY <1>8, <1>10, <1>13, <2>1, <2>2 DEF Ended, After
  <2> QED BY <1>10, <2>1, <2>3 DEF Done, r, w
<1>14. CASE e.rc = "ok"
  <2>1. r = sse_line(e, <<>>)
    BY <1>9, <1>14 DEF sse_line
  <2> DEFINE M == Append(A, <<>>)
  <2>2. r \in Parser /\ After(r, M, Limit, stopAt)
    BY <1>1, <1>3, <1>10, <1>14, <2>1, SseLine
  <2>3. Pending(M) = <<>>
    BY <1>1, <1>3, PendingStep
  <2>4. Limit = 0 \/ Len(Pending(A)) <= Limit
    BY <1>10, <1>14 DEF After
  <2>5. Small(w, Limit)
    BY <1>1, <1>8, <1>11, <1>12, <2>4 DEF Small
  <2> HIDE DEF M
  <2>6. r.rc # "error" /\ r.events = EventsOf(M)
    BY <1>1, <2>2, <2>3 DEF After, Took
  <2>7. IsPrefix(r.events, EventsOf(Lines(w)))
    BY <1>8, <2>6, PrefixIs DEF M
  <2>8. Done(r, w, Limit, stopAt)
    <3>1. r.events = EventsOf(Lines(w))
      BY <1>8, <2>6 DEF M
    <3> QED BY <2>2, <2>5, <2>6, <2>7, <3>1 DEF Done, Ended, After
  <2> QED BY <2>2, <2>8 DEF r, w
<1> QED BY <1>13, <1>14

(* A mark that never came, too long for the limit: its bytes are lost. *)
Lost(q, s, w, stop) ==
  /\ q.rc = "ok" /\ q.events = EventsOf(Lines(w)) /\ Before(q, stop)
  /\ IsStrictPrefix(s, Bom)

(* sicha_sse_finish. *)
LEMMA FinishStep ==
  ASSUME setting \in Setting, stopAt \in Nat,
         NEW q \in Parser, NEW s \in Line, Follows(q, s, Limit, stopAt), q.rc = "ok"
  PROVE  /\ Finished(q) \in Parser
         /\ \/ Done(Finished(q), Closed(Payload(s, TRUE)), Limit, stopAt)
            \/ Lost(Finished(q), s, Closed(Payload(s, TRUE)), stopAt)
<1>1. Finished(q) = Drained(Undecided(q))
  BY DEF Finished, Drained
<1>2. CASE ~Marking(q, s)
  <2> DEFINE t == Payload(s, FALSE)
  <2>1. Decided(s) /\ Reads(q, t, Limit, stopAt)
    BY <1>2 DEF Follows, Ended
  <2>2. LF \in Symbols
    BY LFTyped
  <2>3. t \in Line /\ Payload(s, TRUE) = t
    BY <2>1, <2>2, PayloadGrows
  <2> HIDE DEF t
  <2>4. Undecided(q) = q
    BY <2>1 DEF Undecided, Reads
  <2> QED BY <1>1, <2>1, <2>3, <2>4, LastStep
<1>3. CASE Marking(q, s)
  <2> DEFINE k == q.bom_seen
             a == Add(Buffer(<<>>), s)
             v == [q EXCEPT !.line = a, !.bom_seen = 0, !.bom_decided = TRUE]
  <2>1. k \in 0..Len(Bom) /\ k < Len(Bom) /\ k \in Nat /\ s = Mark(k)
    BY <1>3, BomTyped DEF Marking
  <2>2. Undecided(q) = v
    BY <1>3 DEF Undecided, Held, Mark, Marking
  <2>3. IsStrictPrefix(s, Bom) /\ ~IsPrefix(Bom, s) /\ Len(s) = k
    <3>1. Len(s) = k /\ IsPrefix(s, Bom) /\ ~Decided(s)
      BY <2>1, MarkIs
    <3>2. ~IsPrefix(Bom, s) /\ s # Bom
      BY <2>1, <3>1 DEF Decided
    <3> QED BY <3>1, <3>2 DEF IsStrictPrefix
  <2>4. Payload(s, TRUE) = s
    BY <2>3 DEF Payload
  <2>5. /\ a \in Buffers /\ (Fits(k) => a = Buffer(s))
        /\ ~Fits(k) => k # 0 /\ a = [bytes |-> <<>>, tooBig |-> TRUE]
    BY <2>1, AddMark
  <2> HIDE DEF a
  <2>6. /\ v \in Parser /\ v.line = a /\ v.bom_decided = TRUE
        /\ v.rc = q.rc /\ v.events = q.events /\ v.data = q.data
        /\ v.have_data = q.have_data /\ v.last_was_cr = q.last_was_cr /\ v.err = q.err
    BY <2>5 DEF Parser
  <2> HIDE DEF v
  <2>7. CASE Fits(k)
    <3>1. /\ v.rc = "ok" /\ v.events = <<>> /\ v.line = Buffer(Mark(k)) /\ v.data = Buffer(<<>>)
          /\ v.have_data = FALSE /\ v.last_was_cr = FALSE /\ v.err = FALSE
      BY <1>3, <2>1, <2>5, <2>6, <2>7 DEF Marking
    <3>2. Reads(v, Mark(k), Limit, stopAt)
      BY <2>1, <2>6, <2>7, <3>1, FirstText
    <3> QED BY <1>1, <2>1, <2>2, <2>4, <2>6, <3>2, LastStep
  <2>8. CASE ~Fits(k)
    <3>1. v.line.bytes = <<>>
      BY <2>5, <2>6, <2>8
    <3>2. Drained(v) = v
      BY <1>3, <2>6, <3>1 DEF Drained, LastLine, BlankLine, Marking
    <3>3. Lines(s) = <<>> /\ Unfinished(s) = s /\ s # <<>>
      <4>1. Lines(s) = <<>> /\ Unfinished(s) = s
        BY <2>1, MarkIs, NoBreaks
      <4> QED BY <2>3, <2>5, <2>8, <4>1, EmptySeq
    <3>4. ~IsData(s)
      <4>1. \A i \in 1..Len(s) : s[i] # Colon /\ s[i] # Data
        BY <2>1, <2>3, MarkIs
      <4>2. ~Contains(s, Colon)
        BY <4>1 DEF Contains
      <4>3. FieldOf(s).name = s
        BY <4>2 DEF FieldOf
      <4>4. 1 \in 1..Len(s)
        BY <2>1, <2>3, <2>5, <2>8
      <4>5. s # <<Data>>
        BY <4>1, <4>4
      <4> QED BY <4>3, <4>5 DEF IsData
    <3>5. EventsOf(Lines(Closed(s))) = <<>>
      <4> DEFINE L == Append(<<>>, s)
      <4>1. AllLines(s) = L
        BY <3>3 DEF AllLines
      <4>2. L \in Seq(Line)
        BY NoLines, AppendProperties
      <4>3. EventsOf(L) = <<>> /\ PendingLines(L) = {}
        BY <3>3, <3>4, NoLines, EventsStep, PendingStep
      <4> HIDE DEF L
      <4>4. <<>> \in Line /\ 0 \in Nat
        BY EmptySeq DEF Line
      <4>5. EventsOf(Append(L, <<>>)) = <<>>
        BY <4>2, <4>3, <4>4, EventsStep
      <4> QED BY <4>1, <4>4, <4>5, ClosedText
    <3>6. Lost(v, s, Closed(s), stopAt)
      <4>1. v.rc = "ok" /\ v.events = <<>>
        BY <1>3, <2>6 DEF Marking
      <4>2. Before(v, stopAt)
        BY <4>1, EmptySeq DEF Before
      <4> QED BY <2>3, <3>5, <4>1, <4>2 DEF Lost
    <3> QED BY <1>1, <2>2, <2>4, <2>6, <3>2, <3>6
  <2> QED BY <2>7, <2>8
<1> QED BY <1>2, <1>3

-----------------------------------------------------------------------------
(* The invariant.                                                          *)

(* The parser has done with the bytes it was fed what their text asks for,
   wherever the chunks were cut. *)
ParserInv ==
  /\ setting \in Setting /\ stopAt \in Nat /\ fed \in Line /\ p \in Parser
  /\ phase \in {"feeding", "finished"}
  /\ phase = "feeding" => Follows(p, fed, Limit, stopAt)
  /\ phase = "finished" =>
       \/ Done(p, Closed(Payload(fed, TRUE)), Limit, stopAt)
       \/ Lost(p, fed, Closed(Payload(fed, TRUE)), stopAt)

LEMMA InitParserInv == ASSUME Init PROVE ParserInv
<1>1. setting \in Setting /\ fed = <<>> /\ phase = "feeding" /\ p = InitialParser
  BY SizeAssumption DEF Init
<1>2. stopAt \in Nat
  BY <1>1 DEF Init, Setting
<1>3. /\ <<>> \in Line /\ <<>> \in Seq(Line) /\ 0 \in 0..Len(Bom) /\ 0 < Len(Bom)
      /\ Len(Bom) \in Nat
  BY EmptySeq, BomTyped DEF Line
<1>4. Buffer(<<>>) \in Buffers
  BY <1>3, BufferIs
<1>5. p \in Parser
  BY <1>1, <1>3, <1>4 DEF InitialParser, Parser
<1>6. Mark(0) = <<>>
  BY <1>3, MarkIs, EmptySeq DEF Line
<1>7. Marking(p, fed)
  BY <1>1, <1>3, <1>6 DEF Marking, InitialParser
<1> QED BY <1>1, <1>2, <1>3, <1>5, <1>7 DEF ParserInv, Follows

(* Every chunk, and the end of the stream, keep it. *)
LEMMA NextParserInv == ASSUME ParserInv, [Next]_vars PROVE ParserInv'
<1>1. ASSUME NEW n \in 1..MaxChunk, NEW chunk \in [1..n -> setting.alphabet], Feed(chunk)
      PROVE  ParserInv'
  <2>1. chunk \in Line
    <3>1. n \in Nat /\ setting.alphabet \subseteq Symbols
      BY SizeAssumption DEF ParserInv, Setting
    <3>2. chunk \in [1..n -> Symbols]
      BY <3>1
    <3> QED BY <3>1, <3>2, SeqOfFunction DEF Line
  <2>2. p' \in Parser /\ Follows(p', fed', Limit, stopAt)
    BY <1>1, <2>1, ChunkStep DEF Feed, ParserInv
  <2>3. fed' \in Line
    BY <1>1, <2>1 DEF Feed, ParserInv, Line
  <2>4. setting' = setting /\ stopAt' = stopAt /\ phase' = "feeding" /\ Limit' = Limit
    BY <1>1 DEF Feed, Limit
  <2> QED BY <2>2, <2>3, <2>4 DEF ParserInv
<1>2. CASE Finish
  <2> DEFINE w == Closed(Payload(fed, TRUE))
  <2>1. p' \in Parser /\ (Done(p', w, Limit, stopAt) \/ Lost(p', fed, w, stopAt))
    BY <1>2, FinishStep DEF Finish, ParserInv
  <2>2. /\ setting' = setting /\ stopAt' = stopAt /\ fed' = fed /\ phase' = "finished"
        /\ Limit' = Limit
    BY <1>2 DEF Finish, Limit
  <2> QED BY <2>1, <2>2 DEF ParserInv
<1>3. CASE UNCHANGED vars
  BY <1>3 DEF ParserInv, vars, Limit
<1> QED BY <1>1, <1>2, <1>3 DEF Next

-----------------------------------------------------------------------------
(* What it says of the whole stream.                                       *)

LEMMA PayloadTyped ==
  ASSUME NEW s \in Line, NEW e \in BOOLEAN
  PROVE  Payload(s, e) \in Line
<1>1. Len(s) \in Nat /\ Len(Bom) \in Nat /\ <<>> \in Line /\ s \in Seq(Symbols)
  BY BomTyped, EmptySeq DEF Line
<1>2. SubSeq(s, Len(Bom) + 1, Len(s)) \in Line
  BY <1>1, SubSeqProperties DEF Line
<1> QED BY <1>1, <1>2 DEF Payload

(* The events are those of this text, or the parser has stopped in it. *)
Verdict(q, w, limit, stop) ==
  \/ q.rc = "ok" /\ q.events = EventsOf(Lines(w)) /\ Before(q, stop)
  \/ Ended(q, w, limit, stop)

(* What the invariant says of the stream as it is defined on all its bytes. *)
LEMMA VerdictHolds ==
  ASSUME ParserInv
  PROVE  /\ Whole \in Line /\ Verdict(p, Whole, Limit, stopAt)
         /\ p.rc = "ok" => \/ Small(Whole, Limit)
                           \/ phase = "finished" /\ IsStrictPrefix(fed, Bom)
<1>1. /\ setting \in Setting /\ stopAt \in Nat /\ fed \in Line /\ p \in Parser /\ Limit \in Nat
      /\ phase \in {"feeding", "finished"}
  BY LimitTyped DEF ParserInv
<1>2. CASE phase = "finished"
  <2> DEFINE w == Closed(Payload(fed, TRUE))
  <2>1. Whole = w
    BY <1>2 DEF Whole, Closed
  <2>2. w \in Line
    BY <1>1, PayloadTyped, ClosedLines
  <2>3. Done(p, w, Limit, stopAt) \/ Lost(p, fed, w, stopAt)
    BY <1>2 DEF ParserInv
  <2> HIDE DEF w
  <2>4. Ended(p, w, Limit, stopAt) => p.rc # "ok"
    BY DEF Ended
  <2> QED BY <1>2, <2>1, <2>2, <2>3, <2>4 DEF Verdict, Done, Lost
<1>3. CASE phase = "feeding"
  <2> DEFINE t == Payload(fed, FALSE)
  <2>1. Whole = t
    <3>1. (phase = "finished") = FALSE
      BY <1>3
    <3> QED BY <3>1 DEF Whole
  <2>2. t \in Line
    BY <1>1, PayloadTyped
  <2>3. CASE Marking(p, fed)
    <3> DEFINE k == p.bom_seen
    <3>1. k \in 0..Len(Bom) /\ k < Len(Bom) /\ fed = Mark(k) /\ Len(Bom) \in Nat
      BY <2>3, BomTyped DEF Marking
    <3>2. IsPrefix(fed, Bom) /\ ~IsPrefix(Bom, fed)
      BY <3>1, MarkIs DEF Decided
    <3>3. t = <<>>
      BY <3>2 DEF Payload
    <3>4. <<>> \in Line /\ Len(<<>>) = 0
      BY EmptySeq DEF Line
    <3>5. Lines(<<>>) = <<>> /\ Unfinished(<<>>) = <<>>
      BY <3>4, NoBreaks
    <3>6. p.rc = "ok" /\ p.events = <<>>
      BY <2>3 DEF Marking
    <3> HIDE DEF t
    <3>7. Verdict(p, t, Limit, stopAt)
      BY <1>1, <3>3, <3>4, <3>5, <3>6, NoLines DEF Verdict, Before
    <3>8. Small(t, Limit)
      BY <1>1, <3>3, <3>4, <3>5, NoLines, TooLongIs DEF Small
    <3> QED BY <2>1, <2>2, <3>7, <3>8 DEF t
  <2>4. CASE Reads(p, t, Limit, stopAt)
    <3> HIDE DEF t
    <3>1. p.rc = "ok" /\ p.events = EventsOf(Lines(t)) /\ Before(p, stopAt) /\ Small(t, Limit)
      BY <2>4 DEF Reads, After, Took
    <3> QED BY <2>1, <2>2, <3>1 DEF Verdict
  <2>5. CASE Ended(p, t, Limit, stopAt)
    <3> HIDE DEF t
    <3>1. p.rc # "ok"
      BY <2>5 DEF Ended
    <3> QED BY <2>1, <2>2, <2>5, <3>1 DEF Verdict
  <2> QED BY <1>3, <2>3, <2>4, <2>5 DEF ParserInv, Follows
<1> QED BY <1>1, <1>2, <1>3

LEMMA InvEvents == ASSUME ParserInv PROVE EventsOfStream
<1> DEFINE E == EventsOf(Lines(Whole))
<1>1. Whole \in Line /\ Verdict(p, Whole, Limit, stopAt)
  BY VerdictHolds
<1>2. stopAt \in Nat /\ p.events \in Seq(Line) /\ Len(p.events) \in Nat
  BY DEF ParserInv, Parser
<1>3. E \in Seq(Line)
  <2>1. Lines(Whole) \in Seq(Line)
    BY <1>1, LinesTyped DEF Line
  <2> QED BY <2>1, EventsTyped
<1>4. IsPrefix(E, E)
  BY <1>3, PrefixIs
<1> HIDE DEF E
<1>5. \/ p.rc = "ok" /\ p.events = E /\ Before(p, stopAt)
      \/ p.rc # "ok" /\ Ended(p, Whole, Limit, stopAt)
  BY <1>1 DEF Verdict, Ended, E
<1>6. (p.rc = "ok" => p.events = E) /\ IsPrefix(p.events, E)
  BY <1>4, <1>5 DEF Ended, E
<1>7. /\ stopAt # 0 => Len(p.events) <= stopAt
      /\ p.rc = "stopped" <=> (stopAt # 0 /\ Len(p.events) = stopAt)
  BY <1>2, <1>5 DEF Ended, Before
<1> QED BY <1>6, <1>7 DEF EventsOfStream, E

LEMMA InvLimit == ASSUME ParserInv PROVE LimitIsExact
<1>1. /\ Verdict(p, Whole, Limit, stopAt)
      /\ p.rc = "ok" => Small(Whole, Limit) \/ (phase = "finished" /\ IsStrictPrefix(fed, Bom))
  BY VerdictHolds
<1>2. p.rc = "error" => TooLong(Whole, Limit)
  BY <1>1 DEF Verdict, Ended
<1> QED BY <1>1, <1>2 DEF LimitIsExact, Small, Limit

LEMMA ParserInvHolds == Spec => []ParserInv
<1> QED BY InitParserInv, NextParserInv, PTL DEF Spec

(* However a stream is cut into chunks, sicha_sse_feed and sicha_sse_finish
   hand to the callback the events of its bytes taken as a whole, and none
   after the one the callback refused. *)
THEOREM EventsOfStreamHolds == Spec => []EventsOfStream
<1> QED BY ParserInvHolds, InvEvents, PTL

(* They return an error for exactly the streams that have a line or an event
   over max_event_bytes, but for a stream that is only a beginning of the
   byte order mark, which sicha_sse_finish lets pass. *)
THEOREM LimitIsExactHolds == Spec => []LimitIsExact
<1> QED BY ParserInvHolds, InvLimit, PTL
=============================================================================
