------------------------------- MODULE JsonReal -------------------------------
(***************************************************************************)
(* Numbers between text and machine (src/yyjson.c): the double a decimal   *)
(* becomes, the shortest decimal a double becomes, the digits of an        *)
(* integer.  Words have F64_BITS bits, in place of 64, and a double        *)
(* F64_SIG_FULL_BITS and F64_EXP_BITS of them, in place of 53 and 11; the  *)
(* other bounds follow from these as the numbers in the source do.  A      *)
(* double is the integer its bits make, without the sign.                  *)
(***************************************************************************)
EXTENDS JsonScan

CONSTANTS
  F64_BITS, F64_SIG_FULL_BITS, F64_EXP_BITS,
  U64_SAFE_DIG,       \* decimal digits that always fit a word
  F64_MAX_DEC_DIG,    \* digits of the longest number half way between two doubles
  DotDown, DotUpTo    \* a point above -DotDown and up to DotUpTo is written without exponent: 6, 21

ASSUME RealAssumption ==
  /\ F64_BITS \in 1..15 /\ F64_EXP_BITS \in 2..5
  /\ F64_SIG_FULL_BITS \in 5..(F64_BITS - 6)
  /\ 10^U64_SAFE_DIG <= 2^F64_BITS /\ 2^F64_BITS < 10^(U64_SAFE_DIG + 1)

U64_END == 2^F64_BITS
F64_SIG_BITS == F64_SIG_FULL_BITS - 1
F64_EXP_BIAS == 2^(F64_EXP_BITS - 1) - 1
F64_MAX_BIN_EXP == F64_EXP_BIAS + 1
F64_MIN_BIN_EXP == 2 - F64_EXP_BIAS
F64_BITS_INF == (2^F64_EXP_BITS - 1) * 2^F64_SIG_BITS

F64_MAX_DEC_EXP ==
  CHOOSE n \in 0..8 : 10^n < 2^F64_MAX_BIN_EXP /\ 2^F64_MAX_BIN_EXP <= 10^(n + 1)
F64_MIN_DEC_EXP ==
  -(CHOOSE n \in 1..8 : LET least == 2^(F64_EXP_BIAS - 1 + F64_SIG_BITS)
                        IN  10^(n - 1) < least /\ least <= 10^n)
F64_POW10_MAX_EXACT_EXP ==
  CHOOSE n \in 0..8 : 5^n < 2^F64_SIG_FULL_BITS /\ 2^F64_SIG_FULL_BITS <= 5^(n + 1)

u128_mul_add(a, b, c) == [hi |-> (a * b + c) \div U64_END, lo |-> (a * b + c) % U64_END]
u128_mul(a, b) == u128_mul_add(a, b, 0)

u64_lz_bits(v) ==
  CHOOSE n \in 0..(F64_BITS - 1) : U64_END \div 2 <= v * 2^n /\ v * 2^n < U64_END

-----------------------------------------------------------------------------
(* Powers of ten: the highest bits of each, two words of them, cut off.    *)

\* The first n bits of 1 / d, d no power of two, by long division.
Bits(d, n) ==
  LET start == CHOOSE j \in 0..31 : 2^j < d /\ d \div 2 < 2^j
      Step(r, i) == IF 2 * r.rem >= d THEN [q |-> 2 * r.q + 1, rem |-> 2 * r.rem - d]
                    ELSE [q |-> 2 * r.q, rem |-> 2 * r.rem]
  IN  FoldLeft(Step, [q |-> 0, rem |-> 2^start], [i \in 1..n |-> i]).q

pow10_sig_table ==
  [e \in (F64_MIN_DEC_EXP - U64_SAFE_DIG)..(-F64_MIN_DEC_EXP) |->
     IF e < 0 THEN Bits(10^(-e), 2 * F64_BITS)
     ELSE 10^e * 2^(CHOOSE n \in 0..(2 * F64_BITS - 1) :
                      10^e \in 2^(2 * F64_BITS - 1 - n)..(2^(2 * F64_BITS - n) - 1))]

pow10_table_get_sig(e) ==
  [hi |-> pow10_sig_table[e] \div U64_END, lo |-> pow10_sig_table[e] % U64_END]

\* The power of two of its first word; \div rounds down, as the shift does.
pow10_table_get_exp(e) == (e * 217706 - (F64_BITS - 1) * 65536) \div 65536

-----------------------------------------------------------------------------
(* What the processor does: the double nearest to n / d, to an even one in *)
(* the middle.                                                             *)

Decode(raw) ==
  IF raw < 2^F64_SIG_BITS THEN [sig |-> raw, exp |-> 1 - F64_EXP_BIAS - F64_SIG_BITS]
  ELSE [sig |-> (raw % 2^F64_SIG_BITS) + 2^F64_SIG_BITS,
        exp |-> raw \div 2^F64_SIG_BITS - F64_EXP_BIAS - F64_SIG_BITS]

Pow2(n) == IF n > 0 THEN 2^n ELSE 1

Nearest(n, d) ==
  LET least == 1 - F64_EXP_BIAS - F64_SIG_BITS
      q   == CHOOSE k \in least..(F64_EXP_BIAS - F64_SIG_BITS) :
               /\ n * Pow2(-k) < 2^F64_SIG_FULL_BITS * d * Pow2(k)
               /\ k = least \/ n * Pow2(1 - k) >= 2^F64_SIG_FULL_BITS * d * Pow2(k - 1)
      num == n * Pow2(-q)
      den == d * Pow2(q)
      sig == num \div den
      rem == num % den
      up  == 2 * rem > den \/ (2 * rem = den /\ sig % 2 = 1)
  IN  (q - least) * 2^F64_SIG_BITS + sig + (IF up THEN 1 ELSE 0)

-----------------------------------------------------------------------------
(* Reading: the significant digits sig, times 10^exp, where digits that do *)
(* not fit a word are cut off and rounded.  Two short ways, that are sure  *)
(* of every number they answer.                                            *)

FastPath1(sig, exp) ==
  IF exp < 0 THEN Nearest(sig, 10^(-exp)) ELSE Nearest(sig * 10^exp, 1)

(* The product with the first word of the power; the second one matters only
   when the bits below those that count are all zeroes or all ones. *)
Product(sig, exp) ==
  LET lz    == u64_lz_bits(sig)
      pow   == pow10_table_get_sig(exp)
      p     == u128_mul(sig * 2^lz, pow.hi)
      spare == 2^(F64_BITS - F64_SIG_FULL_BITS - 2)
      more  == u128_mul(sig * 2^lz, pow.lo).hi
      plain == p.hi % spare \notin {0, spare - 1}
  IN  [exact |-> plain \/ (p.lo + more) % U64_END \notin {0, U64_END - 1},
       hi    |-> IF plain THEN p.hi ELSE p.hi + (p.lo + more) \div U64_END,
       exp2  |-> pow10_table_get_exp(exp) - lz]

RoundProduct(p) ==
  LET lz   == IF p.hi < U64_END \div 2 THEN 1 ELSE 0
      hi   == p.hi * 2^lz
      unit == 2^(F64_BITS - F64_SIG_FULL_BITS - 1)
      up   == IF (hi \div unit) % 2 = 1 THEN (hi + unit) % U64_END ELSE hi
      over == up < unit
      sig  == (IF over THEN U64_END \div 2 ELSE up) \div 2^(F64_BITS - F64_SIG_FULL_BITS)
      exp2 == p.exp2 - lz + F64_BITS + (IF over THEN 1 ELSE 0)
  IN  (exp2 + F64_BITS - F64_SIG_FULL_BITS + F64_SIG_BITS + F64_EXP_BIAS) * 2^F64_SIG_BITS
        + (sig % 2^F64_SIG_BITS)

(* The long way: an approximation that knows its error, in eighths of its
   last bit, and where that is not enough, a comparison of long integers. *)
ERR_ULP_LOG == 3
ERR_ULP == 2^ERR_ULP_LOG

Normalized(fp) ==
  LET bits == u64_lz_bits(fp.sig)
  IN  [sig |-> fp.sig * 2^bits, exp |-> fp.exp - bits, err |-> fp.err * 2^bits]

diy_fp_get_cached_pow10(exp10) ==
  LET pow == pow10_table_get_sig(exp10)
  IN  [sig |-> pow.hi + pow.lo \div (U64_END \div 2), exp |-> pow10_table_get_exp(exp10)]

diy_fp_mul(fp, fp2) ==
  LET p == u128_mul(fp.sig, fp2.sig)
  IN  [sig |-> p.hi + p.lo \div (U64_END \div 2), exp |-> fp.exp + fp2.exp + F64_BITS]

diy_fp_to_ieee_raw(fp) ==
  LET lz  == u64_lz_bits(fp.sig)
      sig == (fp.sig * 2^lz) \div 2^(F64_BITS - F64_SIG_FULL_BITS)
      exp == fp.exp - lz + F64_BITS - F64_SIG_FULL_BITS + F64_SIG_BITS
  IN  CASE fp.sig = 0 -> 0
        [] fp.sig # 0 /\ exp >= F64_MAX_BIN_EXP -> F64_BITS_INF
        [] fp.sig # 0 /\ exp \in (F64_MIN_BIN_EXP - 1)..(F64_MAX_BIN_EXP - 1) ->
             (exp + F64_EXP_BIAS) * 2^F64_SIG_BITS + (sig % 2^F64_SIG_BITS)
        [] fp.sig # 0 /\ exp \in (F64_MIN_BIN_EXP - F64_SIG_FULL_BITS)..(F64_MIN_BIN_EXP - 2) ->
             sig \div 2^(F64_MIN_BIN_EXP - exp - 1)
        [] OTHER -> 0

\* Bits a double of this magnitude has: fewer and fewer below the normal ones.
EffectiveBits(magnitude) ==
  LET subnormal == 1 - F64_EXP_BIAS - F64_SIG_BITS
  IN  CASE magnitude >= subnormal + F64_SIG_FULL_BITS -> F64_SIG_FULL_BITS
        [] magnitude <= subnormal -> 0
        [] OTHER -> magnitude - subnormal

\* The bits below those a double has, against half of its last one.
RoundedTo(fp, low, mid, err, drop) ==
  [raw  |-> diy_fp_to_ieee_raw([sig |-> fp.sig \div 2^drop + (IF low >= mid + err THEN 1 ELSE 0),
                                exp |-> fp.exp + drop]),
   sure |-> low <= (mid - err) % U64_END \/ low >= mid + err]

Dropped(fp, drop) ==
  LET shr == IF drop + ERR_ULP_LOG >= F64_BITS THEN drop + ERR_ULP_LOG - F64_BITS + 1 ELSE 0
  IN  RoundedTo(fp, ((fp.sig \div 2^shr) % 2^(drop - shr)) * ERR_ULP,
                2^(drop - shr - 1) * ERR_ULP,
                IF shr > 0 THEN fp.err \div 2^shr + 1 + ERR_ULP ELSE fp.err, drop)

Rounded(fp) == Dropped(fp, F64_BITS - EffectiveBits(F64_BITS + fp.exp))

\* The error of a product with a power that has one of its own.
MulPow10(from, pow) ==
  LET half == ERR_ULP \div 2
  IN  diy_fp_mul(from, pow)
        @@ [err |-> from.err + half + (IF from.err # 0 THEN 1 ELSE 0) + half]

Approximation(sig, exp, isCut) ==
  LET from == Normalized([sig |-> sig, exp |-> 0, err |-> IF isCut THEN ERR_ULP \div 2 ELSE 0])
  IN  Rounded(Normalized(MulPow10(from, diy_fp_get_cached_pow10(exp))))

-----------------------------------------------------------------------------
(* Long integers: words, the lowest first.                                 *)

bigint_add_u64(big, val) ==
  LET add  == big[1] + val
      stop == CHOOSE i \in 2..(Len(big) + 1) :
                /\ \A k \in 2..(i - 1) : big[k] = U64_END - 1
                /\ i \in DOMAIN big => big[i] # U64_END - 1
      bits == IF stop \in DOMAIN big THEN big ELSE Append(big, 0)
  IN  IF add < U64_END THEN [big EXCEPT ![1] = add]
      ELSE [n \in DOMAIN bits |-> CASE n = 1 -> add - U64_END
                                    [] n \in 2..(stop - 1) -> 0
                                    [] n = stop -> bits[n] + 1
                                    [] OTHER -> bits[n]]

bigint_mul_u64(big, val) ==
  LET Step(r, bits) == LET p == u128_mul_add(bits, val, r.carry)
                       IN  [out |-> Append(r.out, p.lo), carry |-> p.hi]
      end == FoldLeft(Step, [out |-> <<>>, carry |-> 0], big)
  IN  IF end.carry = 0 THEN end.out ELSE Append(end.out, end.carry)

bigint_mul_pow2(big, exp) ==
  LET shft == exp % F64_BITS
      bits == [n \in 1..(Len(big) + 1) |->
                 (IF n <= Len(big) THEN (big[n] * 2^shft) % U64_END ELSE 0)
                 + (IF n > 1 THEN big[n - 1] \div 2^(F64_BITS - shft) ELSE 0)]
  IN  [n \in 1..(exp \div F64_BITS) |-> 0]
      \o (IF bits[Len(bits)] = 0 THEN SubSeq(bits, 1, Len(big)) ELSE bits)

bigint_mul_pow10(big, exp) ==
  LET most == FoldLeft(LAMBDA b, n : bigint_mul_u64(b, 10^U64_SAFE_DIG), big,
                       [n \in 1..(exp \div U64_SAFE_DIG) |-> n])
      rest == exp % U64_SAFE_DIG
  IN  IF rest = 0 THEN most ELSE bigint_mul_u64(most, 10^rest)

\* -1, 0 or 1.
bigint_cmp(a, b) ==
  LET differ == {n \in DOMAIN a : a[n] # b[n]}
      n == Max(differ)
      Sign(x, y) == CASE x < y -> -1 [] x > y -> 1 [] OTHER -> 0
  IN  CASE Len(a) # Len(b) -> Sign(Len(a), Len(b))
        [] Len(a) = Len(b) /\ differ = {} -> 0
        [] OTHER -> Sign(a[n], b[n])

(* All digits of a number, or as many as can matter and one, that one a 1
   for itself and those behind it, whatever they are.  What is left out is counted in characters, though
   one of them may be the point. *)
Kept(num) ==
  LET drop  == U64_SAFE_DIG + Len(num.cut) - (F64_MAX_DEC_DIG + 1)
      chars == Len(num.cut) + (IF num.dot > 0 THEN 1 ELSE 0) - drop
      kept  == IF num.dot > 0 /\ chars > num.dot THEN chars - 1 ELSE chars
  IN  IF drop < 0 THEN num.cut ELSE [SubSeq(num.cut, 1, kept) EXCEPT ![kept] = 1]

bigint_set_buf(num) ==
  LET digits == Kept(num)
      first  == num.sig - (IF num.cut # <<>> /\ num.cut[1] >= 5 THEN 1 ELSE 0)
      total  == Min({U64_SAFE_DIG + Len(num.cut), F64_MAX_DEC_DIG + 1})
      chunks == (Len(digits) + U64_SAFE_DIG - 1) \div U64_SAFE_DIG
      Chunk(n) == SubSeq(digits, (n - 1) * U64_SAFE_DIG + 1, Min({n * U64_SAFE_DIG, Len(digits)}))
      Step(big, n) ==
        bigint_add_u64(bigint_mul_pow10(big, Len(Chunk(n))), ValueOf(Chunk(n)))
  IN  IF num.cut = <<>> THEN [big |-> <<num.sig>>, exp |-> num.exp]
      ELSE [big |-> FoldLeft(Step, <<first>>, [n \in 1..chunks |-> n]),
            exp |-> num.exp - (total - U64_SAFE_DIG)]

\* big * 10^exp10 against sig * 2^exp2.
CompareScaled(full, upper) ==
  LET big_full == IF full.exp >= 0 THEN bigint_mul_pow10(full.big, full.exp) ELSE full.big
      big_comp == IF full.exp >= 0 THEN <<upper.sig>> ELSE bigint_mul_pow10(<<upper.sig>>, -full.exp)
  IN  IF upper.exp > 0 THEN bigint_cmp(big_full, bigint_mul_pow2(big_comp, upper.exp))
      ELSE bigint_cmp(bigint_mul_pow2(big_full, -upper.exp), big_comp)

(* raw is the double or the one below it: what is half way to the next one
   tells which. *)
Halfway(d) == [sig |-> 2 * d.sig + 1, exp |-> d.exp - 1]

Towards(cmp, raw) == CASE cmp < 0 -> raw [] cmp > 0 -> raw + 1 [] OTHER -> raw + (raw % 2)

Compared(num, raw) ==
  Towards(CompareScaled(bigint_set_buf(num), Halfway(Decode(raw))), raw)

\* F64_BITS_INF is an error to the caller.
Settled(num, fp) == IF fp.raw = F64_BITS_INF \/ fp.sure THEN fp.raw ELSE Compared(num, fp.raw)

SlowPath(num) == Settled(num, Approximation(num.sig, num.exp, num.cut # <<>>))

(* The double of a number that is a real. *)
read_double(num) ==
  LET product == Product(num.sig, num.exp)
      exact   == num.exp \in (-F64_POW10_MAX_EXACT_EXP)..F64_POW10_MAX_EXACT_EXP
      normal  == num.exp \in (2 - F64_MAX_DEC_EXP)..(F64_MAX_DEC_EXP - U64_SAFE_DIG - 2)
  IN  CASE num.sig = 0 \/ num.exp < F64_MIN_DEC_EXP - U64_SAFE_DIG -> 0
        [] num.sig # 0 /\ num.whole -> Nearest(num.sig, 1)
        [] num.sig \in 1..(2^F64_SIG_FULL_BITS - 1) /\ ~num.whole /\ exact ->
             FastPath1(num.sig, num.exp)
        [] OTHER -> IF num.cut = <<>> /\ normal /\ product.exact THEN RoundProduct(product)
                    ELSE SlowPath(num)

-----------------------------------------------------------------------------
(* Writing: digits, radix r in place of 10; two of them are in a table, and *)
(* a leading zero of the first two is skipped.                              *)

TwoDigits(v, r) == <<v \div r, v % r>>
OneOrTwo(v, r) == IF v < r THEN <<v>> ELSE TwoDigits(v, r)

write_u32_len_4(v, r) == TwoDigits(v \div r^2, r) \o TwoDigits(v % r^2, r)
write_u32_len_8(v, r) == write_u32_len_4(v \div r^4, r) \o write_u32_len_4(v % r^4, r)

write_u32_len_5_to_8(v, r) ==
  IF v < r^6 THEN OneOrTwo(v \div r^4, r) \o write_u32_len_4(v % r^4, r)
  ELSE OneOrTwo(v \div r^6, r) \o TwoDigits((v \div r^4) % r^2, r) \o write_u32_len_4(v % r^4, r)

write_u32_len_1_to_8(v, r) ==
  CASE v < r^2 -> OneOrTwo(v, r)
    [] v \in (r^2)..(r^4 - 1) -> OneOrTwo(v \div r^2, r) \o TwoDigits(v % r^2, r)
    [] OTHER -> write_u32_len_5_to_8(v, r)

write_u64_len_1_to_16(v, r) ==
  IF v < r^8 THEN write_u32_len_1_to_8(v, r)
  ELSE write_u32_len_1_to_8(v \div r^8, r) \o write_u32_len_8(v % r^8, r)

write_u64(v, r) ==
  LET tmp == v \div r^8
  IN  IF v < r^8 \/ tmp < r^8 THEN write_u64_len_1_to_16(v, r)
      ELSE write_u32_len_5_to_8(tmp \div r^4, r) \o write_u32_len_4(tmp % r^4, r)
             \o write_u32_len_8(v % r^8, r)

write_u64_len_1_to_17(v, r) ==
  LET hgh == v \div r^8
      one == hgh \div r^8
  IN  IF hgh < r^7 THEN write_u64_len_1_to_16(v, r)
      ELSE (IF one > 0 THEN <<one>> ELSE <<>>)
             \o write_u32_len_8(hgh % r^8, r) \o write_u32_len_8(v % r^8, r)

-----------------------------------------------------------------------------
(* The shortest decimal of the double sig_bin * 2^exp_bin, sig_raw its bits *)
(* without the hidden one: [sig, exp], perhaps with zeroes at its end.      *)

DecimalExp(exp_bin, less) == (exp_bin * 315653 - less) \div 1048576
DecimalShift(exp_bin, k) == exp_bin + (-k * 217707) \div 65536

(* Between the halves of the neighbours, is there one with a digit less?
   Not answered when a bound is too close to tell. *)
Scaled(pow, cb) == u128_mul_add(cb, pow.hi, u128_mul(cb, pow.lo).hi)

Shortened(sig_raw, k, s, half_ulp) ==
  LET mod == s.hi % 10
      c   == mod * 2^(F64_BITS - 4) + s.lo \div 16
      t0  == 10 * 2^(F64_BITS - 4)
      t1  == c + half_ulp
  IN  [sure |-> /\ sig_raw # 0 /\ s.lo # U64_END \div 2
                /\ half_ulp # c /\ (t0 - t1) % U64_END > 1,
       exp  |-> k,
       sig  |-> s.hi - mod + (CASE t1 >= t0 -> 10
                                [] t1 < t0 /\ half_ulp >= c -> 0
                                [] OTHER -> mod + (IF s.lo >= U64_END \div 2 THEN 1 ELSE 0))]

ShortWay(sig_raw, sig_bin, exp_bin) ==
  LET k == DecimalExp(exp_bin, 0)
      h == DecimalShift(exp_bin, k)
      Of(pow) == Shortened(sig_raw, k, Scaled(pow, sig_bin * 2^(h + 1)), pow.hi \div 2^(4 - h))
  IN  Of(pow10_table_get_sig(-k))

u128_round_to_odd(pow, cp) ==
  LET y == Scaled(pow, cp)
  IN  IF y.lo > 1 /\ y.hi % 2 = 0 THEN y.hi + 1 ELSE y.hi

(* The same in quarters of the last digit, exactly; the neighbour below a
   power of two is nearer. *)
Between(k, lower, vb, upper) ==
  LET s   == vb \div 4
      sp  == s \div 10
      mid == 4 * s + 2
      u0_inside == lower <= 40 * sp
      w0_inside == upper >= 40 * sp + 40
      u1_inside == lower <= 4 * s
      w1_inside == upper >= 4 * s + 4
      round_up  == vb > mid \/ (vb = mid /\ s % 2 = 1)
      up  == IF u1_inside # w1_inside THEN w1_inside ELSE round_up
  IN  [exp |-> k,
       sig |-> IF s >= 10 /\ u0_inside # w0_inside THEN 10 * sp + (IF w0_inside THEN 10 ELSE 0)
               ELSE s + (IF up THEN 1 ELSE 0)]

Schubfach(irregular, sig_bin, exp_bin) ==
  LET odd == sig_bin % 2
      k   == DecimalExp(exp_bin, IF irregular THEN 131237 ELSE 0)
      Of(pow, h) ==
        LET Odd(cp) == u128_round_to_odd(pow, cp * 2^h)
        IN  Between(k, Odd(4 * sig_bin - (IF irregular THEN 1 ELSE 2)) + odd,
                    Odd(4 * sig_bin), Odd(4 * sig_bin + 2) - odd)
  IN  Of([pow10_table_get_sig(-k) EXCEPT !.lo = (@ + 1) % U64_END], DecimalShift(exp_bin, k) + 1)

f64_bin_to_dec(raw, d) ==
  LET sig_raw == raw % 2^F64_SIG_BITS
      Or(short) == IF short.sure THEN [sig |-> short.sig, exp |-> short.exp]
                   ELSE Schubfach(sig_raw = 0 /\ raw \div 2^F64_SIG_BITS > 1, d.sig, d.exp)
  IN  Or(ShortWay(sig_raw, d.sig, d.exp))

-----------------------------------------------------------------------------
\* The digits without the zeroes at the end.
Trim(digits) == SubSeq(digits, 1, Max({n \in DOMAIN digits : digits[n] # 0}))

Zeroes(n) == IF n > 0 THEN [i \in 1..n |-> 0] ELSE <<>>

write_f64_exp(exp) ==
  (IF exp < 0 THEN <<Exp, Minus>> ELSE <<Exp>>) \o OneOrTwo(IF exp < 0 THEN -exp ELSE exp, 10)

Scientific(digits, exp) ==
  LET t == Trim(digits)
  IN  <<t[1]>> \o (IF Len(t) > 1 THEN <<Dot>> \o Tail(t) ELSE <<>>) \o write_f64_exp(exp)

(* dot_ofs digits before the point, or so many zeroes behind it. *)
Fixed(digits, dot_ofs) ==
  LET t == Trim(digits)
  IN  IF dot_ofs <= 0 THEN <<0, Dot>> \o Zeroes(-dot_ofs) \o t
      ELSE IF Len(t) > dot_ofs
      THEN SubSeq(t, 1, dot_ofs) \o <<Dot>> \o SubSeq(t, dot_ofs + 1, Len(t))
      ELSE t \o Zeroes(dot_ofs - Len(t)) \o <<Dot, 0>>

\* Digits that every shortest decimal of a normal double has; some have one more.
DecLen == CHOOSE n \in 1..9 : 10^(n - 1) <= 2^F64_SIG_BITS /\ 2^F64_SIG_BITS < 10^n

\* The digits of a normal double, and where the point stands in them.
Placed(digits, dot_ofs) ==
  IF dot_ofs \in (1 - DotDown)..DotUpTo THEN Fixed(digits, dot_ofs)
  ELSE Scientific(digits, dot_ofs - 1)

Shortest(dec, normal) ==
  LET digits == write_u64_len_1_to_17(dec.sig, 10)
      sig_len == IF dec.sig >= 10^DecLen THEN DecLen + 1 ELSE DecLen
  IN  IF normal THEN Placed(digits, sig_len + dec.exp)
      ELSE Scientific(digits, Len(digits) + dec.exp - 1)

(* A double below infinity, without its sign. *)
write_f64_raw(raw) ==
  LET d      == Decode(raw)
      normal == raw >= 2^F64_SIG_BITS
      small  == normal /\ d.exp \in (-F64_SIG_BITS)..0 /\ d.sig % 2^(-d.exp) = 0
  IN  CASE raw = 0 -> <<0, Dot, 0>>
        [] raw # 0 /\ small -> write_u64_len_1_to_16(d.sig \div 2^(-d.exp), 10) \o <<Dot, 0>>
        [] OTHER -> Shortest(f64_bin_to_dec(raw, d), normal)

(* A number as it is written: its sign, then its digits or its double. *)
write_num(neg, real, v) ==
  (IF neg THEN <<Minus>> ELSE <<>>) \o (IF real THEN write_f64_raw(v) ELSE write_u64(v, 10))
=============================================================================
