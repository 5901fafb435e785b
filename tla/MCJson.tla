------------------------------ MODULE MCJson ------------------------------
(* The questions of JsonCheck: every short text of the symbols of JSON, a    *)
(* few long ones; strings with every escape and every cut; numbers on both   *)
(* sides of a word of 7 bits.                                                *)
EXTENDS JsonCheck, MCRequest

Symbols == {"{", "}", "[", "]", ",", ":", "a", "1", "sp", "nl", "junk"}

TextsOf(symbols, n) == UNION {[1..k -> symbols] : k \in 0..n}

Again(n, t) == [k \in 1..(n * Len(t)) |-> t[((k - 1) % Len(t)) + 1]]

\* Long rows, deep nests and objects, some not closed, some indented.
Long ==
  UNION {{ <<"[">> \o Again(n, <<"1", ",">>) \o <<"1", "]">>,
           <<"{">> \o Again(n, <<"a", ":", "1", ",">>) \o <<"b", ":", "[", "]", "}">>,
           Again(n, <<"[">>) \o Again(n, <<"]">>),
           Again(n, <<"[">>) \o Again(n - 1, <<"]">>),
           Again(n, <<"{", "a", ":">>) \o <<"1">> \o Again(n, <<"}">>),
           Again(n, <<"[", "1", ",", "1", ",">>) \o <<"1">> \o Again(n, <<"]">>),
           Again(n, <<"[">>) \o <<"1", "]">> \o Again(n - 1, <<",", "1", ",", "1", "]">>),
           Again(n, <<"{", "a", ":", "[">>) \o Again(n, <<"]", "}">>),
           <<"[", "nl", "sp", "sp">> \o Again(n, <<"1", ",", "nl", "sp", "sp">>) \o <<"1", "nl", "]">>,
           <<"{", "nl", "sp", "sp">> \o Again(n, <<"a", ":", "sp", "{", "}", ",", "nl", "sp", "sp">>)
             \o <<"b", ":", "sp", "1", "nl", "}", "nl">> } : n \in {2, 5, 9}}

MCJsonTexts ==
  Long \cup TextsOf(Symbols, 4) \cup TextsOf(Symbols \ {"sp", "nl", "junk", "1", ","}, 6)
  \cup {<<c, "nl", "sp">> \o t : c \in {"{", "["}, t \in TextsOf(Symbols \ {"junk", "{", "["}, 3)}
  \cup {<<"{", "a", ":">> \o t : t \in TextsOf(Symbols \ {"junk", "sp", "nl"}, 3)}
  \cup {<<"{", "a", ":", "1", ",", "a", ":">> \o t : t \in TextsOf(Symbols \ {"junk", "sp"}, 2)}

-----------------------------------------------------------------------------
\* Bytes of every row of the tables: controls, quote, backslash, letters of
\* escapes, and the bounds of UTF-8.
Plain == {0, 8, 9, 10, 12, 13, 31, 34, 47, 65, 92, 127, 128, 160, 191, 194, 223, 224, 237, 240, 244, 245}

MCContents ==
  UNION {[1..n -> Plain] : n \in 0..2}
  \cup {<<a>> \o t : a \in {224, 237, 240, 244, 247}, t \in [1..3 -> {34, 128, 143, 144, 160, 191}]}

Hex4 == {<<48, 48, 48, 48>>, <<48, 48, 55, 102>>, <<48, 48, 56, 48>>, <<48, 55, 70, 102>>,
         <<48, 56, 48, 48>>, <<100, 55, 102, 102>>, <<68, 56, 48, 48>>, <<100, 98, 102, 102>>,
         <<68, 67, 48, 48>>, <<100, 102, 102, 102>>, <<101, 48, 48, 48>>, <<102, 102, 102, 102>>,
         <<48, 48, 52, 103>>, <<48, 34>>}

Uni(h) == <<92, 117>> \o h

MCJsonStrings ==
  {t \o <<34>> : t \in MCContents}
  \cup {<<92, b, 34>> : b \in Plain \cup {98, 102, 110, 114, 116, 117, 120}}
  \cup {Uni(h) \o t : h \in Hex4, t \in {<<>>, <<34>>, <<65, 34>>}}
  \cup {Uni(h) \o Uni(l) \o <<34>> : h, l \in Hex4}
  \cup {Uni(<<68, 56, 48, 48>>) \o <<92, 110>> \o <<68, 67, 48, 48, 34>>}

MCNumberTexts ==
  UNION {[1..n -> {Minus, Plus, Dot, Exp, 0, 1, 6}] : n \in 1..4}
  \cup {<<a>> \o t : a \in {Minus, 1, 6}, t \in [1..4 -> {Dot, Exp, 0, 4, 5}]}
  \cup {m \o <<1, 2>> \o t : m \in {<<>>, <<Minus>>},
                            t \in UNION {[1..n -> {Dot, 0, 4, 5, 7, 8, 9}] : n \in 0..3}}
  \cup {<<6, a, b>> : a, b \in {3, 4, 5}} \cup {<<Minus, 6, a>> : a \in {3, 4, 5}}

-----------------------------------------------------------------------------
(* Reals: short texts, and every number half way between two doubles, with a *)
(* little less and a little more, zeroes behind it and its point anywhere.   *)

\* The digits of (2 * sig + 1) * 2^(exp - 1) and the places of the last.
Half(raw) ==
  LET d == Decode(raw)
      e == d.exp - 1
      digits == write_u64(2 * d.sig + 1, 10)
  IN  [digits |-> IF e >= 0 THEN Times(digits, Pow2(e))
                  ELSE FoldLeft(LAMBDA t, n : Times(t, 5), digits, [n \in 1..(-e) |-> n]),
       places |-> IF e >= 0 THEN 0 ELSE e]

NoZeroes(digits) ==
  SubSeq(digits, Min({n \in DOMAIN digits : digits[n] # 0}), Len(digits))

\* One less in the last place, and a digit more.
Less(digits) ==
  LET last == Max({n \in DOMAIN digits : digits[n] # 0})
  IN  [n \in DOMAIN digits |-> CASE n < last -> digits[n] [] n = last -> digits[n] - 1 [] OTHER -> 9]
      \o <<9>>

Typed(digits, point, places) ==
  LET exp == places + Len(digits) - point
  IN  SubSeq(digits, 1, point)
      \o (IF point < Len(digits) THEN <<Dot>> \o SubSeq(digits, point + 1, Len(digits)) ELSE <<>>)
      \o (IF exp = 0 THEN <<>> ELSE write_f64_exp(exp))

\* Doubles of every kind: subnormal, around powers of two, the last.
HalfRaws == (0..20) \cup {31, 32, 33, 47, 48, 100, 128, 191, 233, 240, 255, 256, 300, 351, 352, 401, 480, 495}

\* Read with every exponent.
RealDigits == (1..40) \cup {n \in 41..1100 : n % 53 = 0} \cup {127, 128, 255, 256, 499, 500, 999, 1000, 1023, 1024}

Halves ==
  UNION { LET half == Half(raw)
              digits == NoZeroes(half.digits)
              all(pad) == { digits \o Zeroes(pad), NoZeroes(Less(digits)) \o [n \in 1..pad |-> 9],
                            digits \o Zeroes(pad) \o <<1>> }
          IN  UNION { { Typed(t, point, half.places + Len(digits) - Len(t)) : point \in
                         {1, Len(t)} \cup {n \in {3, Len(t) - 1, F64_MAX_DEC_DIG, F64_MAX_DEC_DIG + 2} : n \in 1..Len(t)} }
                      : t \in UNION {all(pad) : pad \in {0, 1, 3, 16}} }
          : raw \in HalfRaws }

MCRealTexts ==
  Halves
  \cup UNION {{ <<a>> \o t : t \in [1..n -> {Dot, Exp, Minus, 0, 3, 9}]} : a \in {0, 1, 8}, n \in 1..3}
  \cup { write_u64(v, 10) \o write_f64_exp(e) : v \in RealDigits, e \in -9..5 }

MCCounts == (0..70) \cup UNION {{2^n - 1, 2^n, 2^n + 1, 2^n + 2^(n - 1)} : n \in 6..19} \cup {2^20 - 1}

-----------------------------------------------------------------------------
Member(key, items) == [key |-> key, items |-> items]

MCMembers ==
  {<<>>} \cup {<<Member("a", n)>> : n \in {0, 2}}
  \cup {<<Member("a", 0), Member("b", n)>> : n \in {0, 1, 3}}
  \cup {<<Member("b", 2), Member("c", 0), Member("a", 1)>>}

Pair(w) == <<w, ":", "1">>
Nest(w) == <<w, ":", "{", "b", ":", "[", "1", ",", "{", "}", "]", ",", "b", ":", "a", "}">>

Row(parts) == <<"{">> \o FoldLeft(LAMBDA out, p : IF out = <<>> THEN p ELSE out \o <<",">> \o p,
                                  <<>>, parts) \o <<"}">>

MCExtraTexts ==
  LET some == {Pair(w) : w \in {"a", "b", "c"}} \cup {Nest("a"), Nest("c")}
  IN  {Row(p) : p \in UNION {[1..n -> some] : n \in 0..3}}

-----------------------------------------------------------------------------
\* Needs that fill a chunk to the byte, one more and one less, and several.
Letters(S) == [kind : {"str"}, n : S]
Cells(S) == [kind : {"val"}, n : S]

MCNeeds ==
  UNION {[1..n -> Letters({0, 4, 5, 6, 30, 61}) \cup Cells({1, 2, 3, 5})] : n \in 0..3}
  \cup UNION {[1..n -> Letters({5, 12}) \cup Cells({1, 4})] : n \in 4..6}
  \cup {<<r>> : r \in Letters(0..62) \cup Cells(1..22)}
  \cup {[k \in 1..n |-> r] : n \in 1..20, r \in Letters({0, 3}) \cup Cells({1, 2})}

MCPoolInit == [str |-> 8, val |-> 6]
MCPoolMax == [str |-> 24, val |-> 30]

MCShortages == {{}} \cup {{n} : n \in 1..5}
=============================================================================
