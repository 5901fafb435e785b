------------------------------ MODULE FoldFacts ------------------------------
(***************************************************************************)
(* What FoldLeft computes for every sequence, whatever is folded.  A       *)
(* module that folds an operator of its own takes these facts with         *)
(* INSTANCE FoldFacts WITH Op <- ...; they rest on induction over the      *)
(* naturals, which the well-foundedness of < gives for sets of naturals.   *)
(***************************************************************************)
EXTENDS Integers, SequencesExt, SequenceTheorems, WellFoundedInduction, TLAPS

CONSTANT Op(_, _)

Fold(base, s) == FoldLeft(Op, base, s)

-----------------------------------------------------------------------------
(* A set of naturals that holds 0 and with each number the next is all of  *)
(* them.                                                                   *)
LEMMA Inductive ==
  ASSUME NEW T, 0 \in T, \A n \in Nat : n \in T => n + 1 \in T
  PROVE  Nat \subseteq T
<1> DEFINE U == {n \in Nat : n \notin T}
           R == OpToRel(<, Nat)
<1>1. IsWellFoundedOn(R, Nat)
  BY NatLessThanWellFounded
<1>2. \A x, y \in Nat : <<x, y>> \in R <=> x < y
  BY DEF OpToRel
<1> HIDE DEF R
<1>3. ASSUME U # {} PROVE FALSE
  <2>1. PICK x \in U : \A y \in U : <<y, x>> \notin R
    BY <1>1, <1>3, WFMin
  <2>2. \A y \in U : ~(y < x)
    BY <1>2, <2>1
  <2>3. x # 0 /\ x - 1 \in Nat /\ x - 1 \notin U
    BY <2>1, <2>2
  <2> QED BY <2>1, <2>3
<1> QED BY <1>3

LEMMA MaxOfInterval ==
  ASSUME NEW n \in Nat \ {0}
  PROVE  Max(1..n) = n /\ (1..n) \ {n} = 1..(n - 1)
<1>1. n \in 1..n /\ \A y \in 1..n : n >= y
  OBVIOUS
<1>2. \A x \in 1..n : (\A y \in 1..n : x >= y) => x = n
  BY <1>1
<1> QED BY <1>1, <1>2 DEF Max

LEMMA MaxOfFinite ==
  ASSUME NEW n \in Nat, NEW S \in SUBSET (1..(n + 1)), n + 1 \in S
  PROVE  Max(S) = n + 1
<1>1. n + 1 \in S /\ \A y \in S : n + 1 >= y
  OBVIOUS
<1>2. \A x \in S : (\A y \in S : x >= y) => x = n + 1
  BY <1>1
<1> QED BY <1>1, <1>2 DEF Max

-----------------------------------------------------------------------------
(* The function over sets of positions that FoldLeft is defined by.        *)

IsRun(g, base, s, n) ==
  g = [P \in SUBSET (1..n) |-> IF P = {} THEN base ELSE Op(g[P \ {Max(P)}], s[Max(P)])]

LEMMA RunExists == \A base, s : \A n \in Nat : \E g : IsRun(g, base, s, n)
<1> SUFFICES ASSUME NEW base, NEW s
             PROVE  \A n \in Nat : \E g : IsRun(g, base, s, n)
  OBVIOUS
<1> DEFINE T == {n \in Nat : \E g : IsRun(g, base, s, n)}
<1>1. 0 \in T
  <2> DEFINE g == [P \in SUBSET (1..0) |-> base]
  <2>1. \A P \in SUBSET (1..0) : P = {}
    OBVIOUS
  <2>2. g = [P \in SUBSET (1..0) |-> IF P = {} THEN base ELSE Op(g[P \ {Max(P)}], s[Max(P)])]
    BY <2>1
  <2> QED BY <2>2 DEF IsRun
<1>2. ASSUME NEW n \in Nat, n \in T PROVE n + 1 \in T
  <2>1. PICK g : IsRun(g, base, s, n)
    BY <1>2
  <2> DEFINE h == [P \in SUBSET (1..(n + 1)) |->
                     IF n + 1 \in P THEN Op(g[P \ {n + 1}], s[n + 1]) ELSE g[P]]
             H(P) == IF P = {} THEN base ELSE Op(h[P \ {Max(P)}], s[Max(P)])
  <2>2. ASSUME NEW P \in SUBSET (1..(n + 1)) PROVE h[P] = H(P)
    <3>1. CASE n + 1 \in P
      <4>1. Max(P) = n + 1 /\ P # {}
        BY <3>1, MaxOfFinite
      <4>2. P \ {n + 1} \in SUBSET (1..(n + 1)) /\ n + 1 \notin P \ {n + 1}
        OBVIOUS
      <4>3. h[P] = Op(g[P \ {n + 1}], s[n + 1]) /\ h[P \ {n + 1}] = g[P \ {n + 1}]
        BY <3>1, <4>2
      <4> HIDE DEF h
      <4> QED BY <4>1, <4>3
    <3>2. CASE n + 1 \notin P /\ P # {}
      <4> DEFINE m == Max(P)
                 Q == P \ {m}
      <4> HIDE DEF m
      <4>1. /\ P \in SUBSET (1..n)
            /\ Q \in SUBSET (1..(n + 1)) /\ n + 1 \notin Q
        <5>1. \A x \in P : x \in 1..(n + 1) /\ x # n + 1
          BY <3>2
        <5>2. P \subseteq 1..n
          BY <5>1
        <5> QED BY <3>2, <5>2
      <4> HIDE DEF Q
      <4>2. h[P] = g[P] /\ h[Q] = g[Q]
        BY <3>2, <4>1
      <4> HIDE DEF h
      <4>3. g[P] = Op(g[Q], s[m])
        BY <2>1, <3>2, <4>1 DEF IsRun, m, Q
      <4> QED BY <3>2, <4>2, <4>3 DEF m, Q
    <3>3. CASE P = {}
      <4>1. h[P] = g[P] /\ P \in SUBSET (1..n)
        BY <3>3
      <4> HIDE DEF h
      <4> QED BY <2>1, <3>3, <4>1 DEF IsRun
    <3> QED BY <3>1, <3>2, <3>3
  <2>3. h = [P \in SUBSET (1..(n + 1)) |-> H(P)]
    BY <2>2
  <2> HIDE DEF h
  <2>4. IsRun(h, base, s, n + 1)
    BY <2>3 DEF IsRun
  <2> QED BY <2>4
<1> HIDE DEF T
<1>3. Nat \subseteq T
  BY <1>1, <1>2, Inductive
<1> QED BY <1>3 DEF T

(* Two runs over sequences that begin alike agree on the beginnings. *)
LEMMA RunsAgree ==
  ASSUME NEW base, NEW s, NEW t, NEW m \in Nat, NEW n \in Nat, NEW g, NEW h,
         IsRun(g, base, s, m), IsRun(h, base, t, n), m <= n, \A i \in 1..m : s[i] = t[i]
  PROVE  g[1..m] = h[1..m]
<1> DEFINE T == {k \in Nat : k <= m => g[1..k] = h[1..k]}
<1>1. 0 \in T
  <2>1. 1..0 = {} /\ 1..0 \in SUBSET (1..m) /\ 1..0 \in SUBSET (1..n)
    OBVIOUS
  <2> QED BY <2>1 DEF IsRun
<1>2. ASSUME NEW k \in Nat, k \in T, k + 1 <= m PROVE g[1..(k + 1)] = h[1..(k + 1)]
  <2> DEFINE P == 1..(k + 1)
             x == Max(P)
  <2>1. x = k + 1 /\ P \ {x} = 1..k
    BY MaxOfInterval
  <2>2. P # {} /\ P \in SUBSET (1..m) /\ P \in SUBSET (1..n)
    <3>1. k + 1 \in P /\ k + 1 <= n
      BY <1>2
    <3> QED BY <1>2, <3>1
  <2>6. g[1..k] = h[1..k]
    BY <1>2
  <2> HIDE DEF P
  <2>3. g[P] = Op(g[P \ {x}], s[x]) /\ h[P] = Op(h[P \ {x}], t[x])
    BY <2>2 DEF IsRun
  <2>4. s[k + 1] = t[k + 1]
    BY <1>2
  <2> HIDE DEF x
  <2>5. g[P] = h[P]
    BY <2>1, <2>3, <2>4, <2>6
  <2> QED BY <2>5 DEF P
<1>3. \A k \in Nat : k \in T => k + 1 \in T
  BY <1>2
<1> HIDE DEF T
<1>4. m \in T
  BY <1>1, <1>3, Inductive
<1> QED BY <1>4 DEF T

LEMMA FoldIsRun ==
  ASSUME NEW base, NEW S, NEW s \in Seq(S)
  PROVE  \E g : IsRun(g, base, s, Len(s)) /\ Fold(base, s) = g[1..Len(s)]
<1> DEFINE g == CHOOSE f : IsRun(f, base, s, Len(s))
<1>1. Len(s) \in Nat /\ DOMAIN s = 1..Len(s)
  OBVIOUS
<1>2. IsRun(g, base, s, Len(s))
  BY <1>1, RunExists
<1>3. Fold(base, s) = g[1..Len(s)]
  BY <1>1 DEF Fold, FoldLeft, MapThenFoldSet, IsRun
<1> QED BY <1>2, <1>3

LEMMA FoldEmpty == ASSUME NEW base PROVE Fold(base, <<>>) = base
<1>1. PICK g : IsRun(g, base, <<>>, 0) /\ Fold(base, <<>>) = g[1..0]
  BY FoldIsRun, EmptySeq
<1>2. 1..0 = {} /\ 1..0 \in SUBSET (1..0)
  OBVIOUS
<1> QED BY <1>1, <1>2 DEF IsRun

LEMMA FoldAppend ==
  ASSUME NEW base, NEW S, NEW s \in Seq(S), NEW x \in S
  PROVE  Fold(base, Append(s, x)) = Op(Fold(base, s), x)
<1> DEFINE t == Append(s, x)
           n == Len(s)
<1>1. n \in Nat /\ t \in Seq(S) /\ Len(t) = n + 1 /\ t[n + 1] = x /\ \A i \in 1..n : s[i] = t[i]
  BY AppendProperties
<1> HIDE DEF t, n
<1>2. PICK g : IsRun(g, base, s, n) /\ Fold(base, s) = g[1..n]
  BY FoldIsRun DEF n
<1>3. PICK h : IsRun(h, base, t, n + 1) /\ Fold(base, t) = h[1..(n + 1)]
  BY <1>1, FoldIsRun
<1>4. g[1..n] = h[1..n]
  BY <1>1, <1>2, <1>3, RunsAgree
<1> DEFINE P == 1..(n + 1)
           y == Max(P)
<1>5. y = n + 1 /\ P \ {y} = 1..n /\ P # {} /\ P \in SUBSET (1..(n + 1))
  BY <1>1, MaxOfInterval
<1> HIDE DEF P
<1>6. h[P] = Op(h[P \ {y}], t[y])
  BY <1>3, <1>5 DEF IsRun
<1> HIDE DEF y
<1>7. h[P] = Op(g[1..n], x)
  BY <1>1, <1>4, <1>5, <1>6
<1> QED BY <1>2, <1>3, <1>7 DEF P, t

-----------------------------------------------------------------------------
(* Induction over sequences, and what follows for a fold.                  *)

LEMMA SeqInductive ==
  ASSUME NEW S, NEW T, <<>> \in T, \A s \in Seq(S), x \in S : s \in T => Append(s, x) \in T
  PROVE  Seq(S) \subseteq T
<1> DEFINE U == {n \in Nat : \A s \in Seq(S) : Len(s) = n => s \in T}
<1>1. 0 \in U
  <2>1. \A s \in Seq(S) : Len(s) = 0 => s = <<>>
    OBVIOUS
  <2> QED BY <2>1
<1>2. ASSUME NEW n \in Nat, n \in U PROVE n + 1 \in U
  <2> SUFFICES ASSUME NEW s \in Seq(S), Len(s) = n + 1 PROVE s \in T
    OBVIOUS
  <2>1. PICK t \in Seq(S), x \in S : s = Append(t, x)
    BY SequenceEmptyOrAppend, EmptySeq
  <2>2. Len(t) = n
    BY <2>1, AppendProperties
  <2> QED BY <1>2, <2>1, <2>2
<1> HIDE DEF U
<1>3. Nat \subseteq U
  BY <1>1, <1>2, Inductive
<1> QED BY <1>3 DEF U

LEMMA FoldConcat ==
  ASSUME NEW base, NEW S, NEW s \in Seq(S), NEW t \in Seq(S)
  PROVE  Fold(base, s \o t) = Fold(Fold(base, s), t)
<1> DEFINE T == {u \in Seq(S) : Fold(base, s \o u) = Fold(Fold(base, s), u)}
<1>1. <<>> \in T
  <2>1. s \o <<>> = s
    BY ConcatEmptySeq
  <2> QED BY <2>1, FoldEmpty
<1>2. ASSUME NEW u \in Seq(S), NEW x \in S, u \in T PROVE Append(u, x) \in T
  <2>1. s \o Append(u, x) = Append(s \o u, x) /\ s \o u \in Seq(S) /\ Append(u, x) \in Seq(S)
    OBVIOUS
  <2>2. Fold(base, Append(s \o u, x)) = Op(Fold(base, s \o u), x)
    <3> DEFINE w == s \o u
    <3>1. w \in Seq(S)
      BY <2>1
    <3> HIDE DEF w
    <3>2. Fold(base, Append(w, x)) = Op(Fold(base, w), x)
      BY <3>1, FoldAppend
    <3> QED BY <3>2 DEF w
  <2>3. Fold(Fold(base, s), Append(u, x)) = Op(Fold(Fold(base, s), u), x)
    BY FoldAppend
  <2> QED BY <1>2, <2>1, <2>2, <2>3
<1> HIDE DEF T
<1>3. Seq(S) \subseteq T
  BY <1>1, <1>2, SeqInductive
<1> QED BY <1>3 DEF T

(* What every step keeps a fold keeps. *)
LEMMA FoldKeeps ==
  ASSUME NEW S, NEW I, \A a \in I, x \in S : Op(a, x) \in I,
         NEW base \in I, NEW s \in Seq(S)
  PROVE  Fold(base, s) \in I
<1> DEFINE T == {t \in Seq(S) : Fold(base, t) \in I}
<1>1. <<>> \in T
  BY FoldEmpty
<1>2. ASSUME NEW t \in Seq(S), NEW x \in S, t \in T PROVE Append(t, x) \in T
  <2>1. Fold(base, Append(t, x)) = Op(Fold(base, t), x)
    BY FoldAppend
  <2> QED BY <1>2, <2>1
<1> HIDE DEF T
<1>3. Seq(S) \subseteq T
  BY <1>1, <1>2, SeqInductive
<1> QED BY <1>3 DEF T
=============================================================================
