------------------------------ MODULE JsonScan ------------------------------
(***************************************************************************)
(* How the vendored yyjson spells scalars (src/yyjson.c): strings as they  *)
(* are read and written, byte by byte, and numbers, with words of NumW     *)
(* bits and the decimal digits that always fit one in place of 64 and 19.  *)
(* A real is its digits and its power of ten here; JsonReal has the double *)
(* it becomes.                                                             *)
(***************************************************************************)
EXTENDS Integers, Sequences, SequencesExt

\* The text is padded with zeroes.
Byte(s, i) == IF i \in DOMAIN s THEN s[i] ELSE 0

Trails(b) == b \in 128..191

(* The masks of UTF-8 sequences: the marks of every byte, a bit that has to
   be set for the form to be the shortest, and the surrogates. *)
is_utf8_seq2(s, i) ==
  /\ Byte(s, i) \in 192..223 /\ Trails(Byte(s, i + 1))
  /\ (Byte(s, i) % 32) \div 2 # 0

is_utf8_seq3(s, i) ==
  LET tmp == <<Byte(s, i) % 16, (Byte(s, i + 1) \div 32) % 2>>
  IN  /\ Byte(s, i) \in 224..239 /\ Trails(Byte(s, i + 1)) /\ Trails(Byte(s, i + 2))
      /\ tmp # <<0, 0>> /\ tmp # <<13, 1>>

is_utf8_seq4(s, i) ==
  LET lead == Byte(s, i) % 8
      next == (Byte(s, i + 1) \div 16) % 4
  IN  /\ Byte(s, i) \in 240..247
      /\ \A k \in 1..3 : Trails(Byte(s, i + k))
      /\ <<lead, next>> # <<0, 0>>
      /\ lead < 4 \/ (lead = 4 /\ next = 0)

-----------------------------------------------------------------------------
(* Strings, read.                                                          *)

HexDigits == <<48, 49, 50, 51, 52, 53, 54, 55, 56, 57, 65, 66, 67, 68, 69, 70>>

hex_conv_table(b) ==
  CASE b \in 48..57 -> b - 48
    [] b \in 65..70 -> b - 55
    [] b \in 97..102 -> b - 87
    [] OTHER -> 240

hex_load_4(s, i) ==
  LET c(k) == hex_conv_table(Byte(s, i + k))
  IN  [ok |-> \A k \in 0..3 : c(k) < 16, v |-> ((c(0) * 16 + c(1)) * 16 + c(2)) * 16 + c(3)]

\* The bytes of a number below 2^16 that is no surrogate, and of one above.
OfPlane0(n) ==
  CASE n >= 2048 -> <<224 + (n \div 4096), 128 + ((n \div 64) % 64), 128 + (n % 64)>>
    [] n \in 128..2047 -> <<192 + (n \div 64), 128 + (n % 64)>>
    [] OTHER -> <<n>>

OfPlanes(n) ==
  <<240 + (n \div 262144), 128 + ((n \div 4096) % 64), 128 + ((n \div 64) % 64), 128 + (n % 64)>>

Take(r, n, bytes) == [r EXCEPT !.src = @ + n, !.out = @ \o bytes]
Stop(r, how) == [r EXCEPT !.at = how]

HighSurrogate(n) == n \div 1024 = 54
LowSurrogate(n) == n \div 1024 = 55

(* \uXXXX, or two of them for a surrogate pair. *)
read_uni_esc(r) ==
  LET hi == hex_load_4(r.s, r.src + 2)
      lo == hex_load_4(r.s, r.src + 8)
  IN  CASE ~hi.ok -> Stop(r, "fail")
        [] hi.ok /\ hi.v \div 2048 # 27 -> Take(r, 6, OfPlane0(hi.v))
        [] OTHER ->
             IF /\ HighSurrogate(hi.v)
                /\ Byte(r.s, r.src + 6) = 92 /\ Byte(r.s, r.src + 7) = 117
                /\ lo.ok /\ LowSurrogate(lo.v)
             THEN Take(r, 12, OfPlanes((hi.v % 1024) * 1024 + (lo.v % 1024) + 65536))
             ELSE Stop(r, "fail")

\* Quote, backslash, slash; b, f, n, r, t.
Escapes == [c \in {34, 92, 47, 98, 102, 110, 114, 116} |->
              CASE c = 98 -> 8 [] c = 102 -> 12 [] c = 110 -> 10 [] c = 114 -> 13
                [] c = 116 -> 9 [] OTHER -> c]

read_escape(r) ==
  LET c == Byte(r.s, r.src + 1)
  IN  CASE c \in DOMAIN Escapes -> Take(r, 2, <<Escapes[c]>>)
        [] c = 117 -> read_uni_esc(r)
        [] OTHER -> Stop(r, "fail")

char_is_ascii_skip(b) == b \in 32..127 \ {34, 92}

ReadOne(r) ==
  LET b == Byte(r.s, r.src)
      Copy(n) == Take(r, n, SubSeq(r.s, r.src, r.src + n - 1))
  IN  CASE r.at # "in" -> r
        [] r.at = "in" /\ b = 34 -> Stop(r, "ok")
        [] r.at = "in" /\ b = 92 -> read_escape(r)
        [] r.at = "in" /\ char_is_ascii_skip(b) -> Copy(1)
        [] r.at = "in" /\ b >= 128 ->
             CASE is_utf8_seq2(r.s, r.src) -> Copy(2)
               [] is_utf8_seq3(r.s, r.src) -> Copy(3)
               [] is_utf8_seq4(r.s, r.src) -> Copy(4)
               [] OTHER -> Stop(r, "fail")
        [] OTHER -> Stop(r, "fail")

(* The string whose opening quote is in front of s; src ends at its last
   quote. *)
read_str(s) ==
  FoldLeft(LAMBDA r, n : ReadOne(r), [s |-> s, src |-> 1, out |-> <<>>, at |-> "in"],
           [n \in 1..(Len(s) + 2) |-> n])

-----------------------------------------------------------------------------
(* Strings, written.                                                       *)

\* How a byte is written: copied with the bytes of its sequence, escaped or not at all.
enc_table_cpy(b) ==
  CASE b \in {8, 9, 10, 12, 13, 34, 92} -> "escape"
    [] b \in (0..31) \ {8, 9, 10, 12, 13} -> "hex"
    [] b \in (32..127) \ {34, 92} -> "1"
    [] b \in 192..223 -> "2"
    [] b \in 224..239 -> "3"
    [] b \in 240..247 -> "4"
    [] OTHER -> "error"

esc_single_char_table(b) == <<92, CHOOSE c \in DOMAIN Escapes : Escapes[c] = b>>

esc_hex(b) == <<92, 117, 48, 48, HexDigits[(b \div 16) + 1], HexDigits[(b % 16) + 1]>>

(* A sequence that is cut by the end of the string is an error before its
   bytes are looked at. *)
Whole(r, n) == Len(r.s) - r.src + 1 >= n

WriteOne(r) ==
  LET b   == Byte(r.s, r.src)
      how == enc_table_cpy(b)
      Copy(n, good) == IF Whole(r, n) /\ good
                       THEN Take(r, n, SubSeq(r.s, r.src, r.src + n - 1)) ELSE Stop(r, "fail")
  IN  CASE r.at # "in" -> r
        [] r.at = "in" /\ r.src > Len(r.s) -> Stop(Take(r, 0, <<34>>), "ok")
        [] r.at = "in" /\ r.src <= Len(r.s) ->
             CASE how = "1" -> Take(r, 1, <<b>>)
               [] how = "escape" -> Take(r, 1, esc_single_char_table(b))
               [] how = "hex" -> Take(r, 1, esc_hex(b))
               [] how = "2" -> Copy(2, is_utf8_seq2(r.s, r.src))
               [] how = "3" -> Copy(3, is_utf8_seq3(r.s, r.src))
               [] how = "4" -> Copy(4, is_utf8_seq4(r.s, r.src))
               [] OTHER -> Stop(r, "fail")

(* The string s without its opening quote. *)
write_str(s) ==
  FoldLeft(LAMBDA r, n : WriteOne(r), [s |-> s, src |-> 1, out |-> <<>>, at |-> "in"],
           [n \in 1..(Len(s) + 1) |-> n])

-----------------------------------------------------------------------------
(* Numbers: a text of "-", "+", ".", "e" and digits, which are numbers of  *)
(* their own; -1, -2, ... stand for the four signs.                        *)

Minus == -1
Plus  == -2
Dot   == -3
Exp   == -4

char_is_digit(c) == c \in 0..9

\* How many digits s has from i.
DigitRun(s, i) ==
  CHOOSE n \in 0..(Len(s) + 1 - i) :
    /\ \A k \in 0..(n - 1) : char_is_digit(s[i + k])
    /\ i + n \in DOMAIN s => ~char_is_digit(s[i + n])

ValueOf(digits) == FoldLeft(LAMBDA v, d : v * 10 + d, 0, digits)

(* The digits that are cut off a real, and how many of them stand before a
   point that is among them; whole: an integer that the processor converts. *)
NoCut == [cut |-> <<>>, dot |-> 0, whole |-> TRUE]

Num(kind, neg, sg) == [kind |-> kind, neg |-> neg] @@ sg

Bad == Num("bad", FALSE, [sig |-> 0, exp |-> 0] @@ NoCut)

Sym(s, i) == IF i \in DOMAIN s THEN s[i] ELSE -9

(* [at |-> behind the exponent, ok, e]: what is written after an "e". *)
ReadExp(s, i) ==
  LET signed == Sym(s, i + 1) \in {Plus, Minus}
      from   == IF signed THEN i + 2 ELSE i + 1
      run    == IF from \in DOMAIN s THEN DigitRun(s, from) ELSE 0
      v      == ValueOf(SubSeq(s, from, from + run - 1))
  IN  IF Sym(s, i) # Exp THEN [at |-> i, ok |-> TRUE, e |-> 0]
      ELSE [at |-> from + run, ok |-> run > 0,
            e |-> IF Sym(s, i + 1) = Minus THEN -v ELSE v]

(* Cut off what does not fit: the first digit that is dropped rounds the
   last one kept, and the power of ten counts the digits that stand before
   the point and are dropped, or after it and are kept. *)
Significant(int, frac, fits) ==
  LET all  == int \o frac
      lead == CHOOSE n \in 0..Len(all) :
                (\A k \in 1..n : all[k] = 0) /\ (n < Len(all) => all[n + 1] # 0)
      last == IF lead + fits < Len(all) THEN lead + fits ELSE Len(all)
  IN  [sig |-> ValueOf(SubSeq(all, lead + 1, last))
                 + (IF last < Len(all) /\ all[last + 1] >= 5 THEN 1 ELSE 0),
       exp |-> Len(int) - last,
       cut |-> IF \A n \in (last + 1)..Len(all) : all[n] = 0 THEN <<>>
               ELSE SubSeq(all, last + 1, Len(all)),
       dot |-> IF frac # <<>> /\ last < Len(int) THEN Len(int) - last ELSE 0,
       whole |-> FALSE]

\* Mutant: a negative integer has as many bits as another.
ReadIntegerSigned(neg, int, w, fits) ==
  LET v  == ValueOf(int)
      sg == Significant(int, <<>>, fits)
  IN  IF v >= 2^w THEN Num("real", neg, sg)
      ELSE Num(IF neg THEN "sint" ELSE "uint", neg, [sig |-> v, exp |-> 0] @@ NoCut)

(* An integer keeps all its digits while they fit the word, and is a real
   when they do not; a negative one has a bit less. *)
ReadInteger(neg, int, w, fits) ==
  LET v  == ValueOf(int)
      kept == [sig |-> v, exp |-> 0] @@ NoCut
  IN  CASE v >= 2^w -> Num("real", neg, Significant(int, <<>>, fits))
        [] v < 2^w /\ neg /\ v > 2^(w - 1) -> Num("real", neg, kept)
        [] OTHER -> Num(IF neg THEN "sint" ELSE "uint", neg, kept)

(* w bits, fits decimal digits always fit them, and a power of ten above
   top is infinite, which is an error. *)
read_num(s, w, fits, top) ==
  LET neg   == Sym(s, 1) = Minus
      from  == IF neg THEN 2 ELSE 1
      ints  == IF from \in DOMAIN s THEN DigitRun(s, from) ELSE 0
      int   == SubSeq(s, from, from + ints - 1)
      dot   == from + ints
      point == Sym(s, dot) = Dot
      fracs == IF point /\ dot + 1 \in DOMAIN s THEN DigitRun(s, dot + 1) ELSE 0
      frac  == SubSeq(s, dot + 1, dot + fracs)
      exp   == ReadExp(s, IF point THEN dot + 1 + fracs ELSE dot)
      sg    == Significant(int, frac, fits)
      whole == ~point /\ exp.at = dot
      num   == IF whole THEN ReadInteger(neg, int, w, fits)
               ELSE Num("real", neg, [sg EXCEPT !.exp = IF sg.sig = 0 THEN 0 ELSE @ + exp.e])
  IN  IF \/ ints = 0 \/ (ints > 1 /\ int[1] = 0)
         \/ point /\ fracs = 0
         \/ ~exp.ok
         \/ num.exp > top
      THEN [num |-> Bad, at |-> 1] ELSE [num |-> num, at |-> exp.at]

-----------------------------------------------------------------------------
(* A count of the usage object: src/response.c takes any number, and       *)
(* yyjson_get_sint the word as it is, or 0 for a real.                     *)

yyjson_get_sint(num, w) ==
  CASE num.kind = "real" -> 0
    [] num.kind = "sint" -> -num.sig
    [] num.kind = "uint" /\ num.sig >= 2^(w - 1) -> num.sig - 2^w
    [] OTHER -> num.sig

(* -1, or no change, for what is not known. *)
lift_i64(num, w) == IF num.kind = "bad" THEN -1 ELSE yyjson_get_sint(num, w)

(* A count below 0 leaves what was known. *)
KeepCount(known, count) == IF count >= 0 THEN count ELSE known
=============================================================================
