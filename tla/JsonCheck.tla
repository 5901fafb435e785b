----------------------------- MODULE JsonCheck -----------------------------
(***************************************************************************)
(* The operators of JsonText, JsonDoc, JsonScan and JsonReal against the    *)
(* grammar of RFC 8259, those of JsonPool against what memory is for:      *)
(* questions as in RequestCheck, whose questions are asked too.            *)
(***************************************************************************)
EXTENDS RequestCheck, JsonDoc, JsonReal, JsonPool

CONSTANTS
  JsonTexts,      \* texts of symbols
  JsonStrings,    \* what is behind an opening quote, in bytes
  Contents,       \* strings to be written, in bytes
  NumberTexts,    \* texts of digits, signs, point and exponent
  NumW, NumDigits, NumTop,  \* word size, digits that fit, highest power of ten
  RealTexts,      \* the same, for doubles
  Counts,      \* integers to be written, with radix WriteRadix
  WriteRadix,
  Members,        \* members a body has, [key, items] each, items > 0 for an array
  ExtraTexts,     \* extra bodies: texts of objects
  Needs,          \* what is asked of the pools, [kind, n] each
  Shortages       \* sets of calls of the allocator that fail

ASSUME NumberAssumption == 10^NumDigits <= 2^NumW /\ 2^NumW < 10^(NumDigits + 1)

JsonQueries ==
  [op : {"json"}, text : JsonTexts] \cup [op : {"merge"}, own : Members, text : ExtraTexts]

ScanQueries ==
  [op : {"string"}, s : JsonStrings] \cup [op : {"spell"}, s : Contents]
  \cup [op : {"number"}, s : NumberTexts]
  \cup [op : {"real"}, s : RealTexts]
  \cup [op : {"double"}, raw : 0..(F64_BITS_INF - 1), neg : BOOLEAN]
  \cup {q \in [op : {"digits"}, v : Counts, most : {16, 17, 20}] : q.v < WriteRadix^q.most}

PoolQueries == [op : {"pool"}, needs : Needs, F : Shortages]

JsonInit ==
  /\ \/ query \in JsonQueries
     \/ query \in PoolQueries
     \/ query \in ScanQueries
  /\ answer = <<>>

(* Read a text, copy it to a document of its own and write that. *)
AskJson ==
  LET Copied(doc) ==
        [doc  |-> doc,
         back |-> IF doc.at = "done"
                  THEN yyjson_mut_write_opts_impl(yyjson_val_mut_copy(<<>>, doc.cells, 1), 1)
                  ELSE [out |-> <<>>, inside |-> TRUE]]
  IN  query.op = "json" /\ Reply(Copied(yyjson_read_opts(query.text)))

(* A body of these members, an array as long as its items. *)
Built(own) ==
  LET Item(arr, n) == yyjson_mut_arr_append(Append(arr.mem, Value("atom", 0, 0, "own")),
                                            arr.at, Len(arr.mem) + 1)
      Array(m, items) ==
        FoldLeft(LAMBDA a, n : [a EXCEPT !.mem = Item(a, n)],
                 [mem |-> Append(m, Value("arr", 0, 0, "")), at |-> Len(m) + 1],
                 [n \in 1..items |-> n]).mem
      Add(m, member) ==
        LET named == NewStr(m, member.key)
            filled == IF member.items = 0 THEN Append(named, Value("atom", 0, 0, "own"))
                      ELSE Array(named, member.items)
        IN  unsafe_yyjson_mut_obj_add(filled, 1, Len(named), Len(named) + 1)
  IN  FoldLeft(Add, <<Value("obj", 0, 0, "")>>, own)

AskMerge ==
  /\ query.op = "merge"
  /\ LET doc == yyjson_read_opts(query.text)
     IN  Reply(yyjson_mut_write_opts_impl(MergeExtraBody(Built(query.own), 1, doc.cells), 1))

\* A text, and the double it becomes if it is a real.
AsReal(num) == [num |-> num, raw |-> IF num.kind = "real" THEN read_double(num) ELSE F64_BITS_INF]

ReadReal(s) == AsReal(read_num(s, F64_BITS, U64_SAFE_DIG, F64_MAX_DEC_EXP).num)

\* The three ways of writing an integer, by the digits it may have.
DigitsUpTo(most, v) ==
  CASE most = 16 -> write_u64_len_1_to_16(v, WriteRadix)
    [] most = 17 -> write_u64_len_1_to_17(v, WriteRadix)
    [] OTHER -> write_u64(v, WriteRadix)

AskScan ==
  \/ query.op = "string" /\ Reply(read_str(query.s))
  \/ query.op = "spell" /\ Reply(write_str(query.s))
  \/ query.op = "number" /\ Reply(read_num(query.s, NumW, NumDigits, NumTop))
  \/ query.op = "real" /\ Reply(ReadReal(query.s))
  \/ query.op = "double" /\ Reply(write_num(query.neg, TRUE, query.raw))
  \/ query.op = "digits" /\ Reply(DigitsUpTo(query.most, query.v))

AskPool == query.op = "pool" /\ Reply(Furnished(query.needs, query.F))

JsonNext == AskJson \/ AskMerge \/ AskScan \/ AskPool

JsonSpec ==
  /\ ClassifyInit \/ RequestInit \/ JsonInit
  /\ [][ClassifyNext \/ RequestNext \/ JsonNext]_checkVars

-----------------------------------------------------------------------------
(* JSON without blanks, by what it reduces to: an innermost pair of brackets
   that holds a row becomes an atom, until one symbol is left. *)

Scalars == Words \cup Atoms

IsRow(r, period, Good(_, _)) ==
  r = <<>> \/ (Len(r) % period = period - 1 /\ \A n \in DOMAIN r : Good(r[n], n % period))

IsElements(r) == IsRow(r, 2, LAMBDA c, n : IF n = 1 THEN c \in Scalars ELSE c = ",")

IsMembers(r) ==
  IsRow(r, 4, LAMBDA c, n : CASE n = 1 -> c \in Words [] n = 2 -> c = ":"
                              [] n = 3 -> c \in Scalars [] OTHER -> c = ",")

Reduce(t) ==
  LET pairs == {p \in (DOMAIN t) \X (DOMAIN t) :
                  /\ p[1] < p[2] /\ <<t[p[1]], t[p[2]]>> \in {<<"[", "]">>, <<"{", "}">>}
                  /\ LET row == SubSeq(t, p[1] + 1, p[2] - 1)
                     IN  IF t[p[1]] = "[" THEN IsElements(row) ELSE IsMembers(row)}
      p == CHOOSE q \in pairs : TRUE
  IN  IF pairs = {} THEN t
      ELSE SubSeq(t, 1, p[1] - 1) \o <<CHOOSE c \in Atoms : TRUE>> \o SubSeq(t, p[2] + 1, Len(t))

IsJson(t) ==
  LET left == FoldLeft(LAMBDA r, n : Reduce(r), t, [n \in DOMAIN t |-> n])
  IN  Len(left) = 1 /\ left[1] \in Scalars

Bare(t) == SelectSeq(t, LAMBDA c : c \notin Blanks)

(* The text of the value at i, from its cells. *)
RECURSIVE Shown(_, _)
Shown(cells, i) ==
  LET Row(f) == FoldLeft(LAMBDA out, part : IF out = <<>> THEN part ELSE out \o <<",">> \o part,
                         <<>>, f)
  IN  CASE cells[i].type = "arr" ->
             <<"[">> \o Row([n \in 1..cells[i].len |-> Shown(cells, ArrayAt(cells, i)[n])]) \o <<"]">>
        [] cells[i].type = "obj" ->
             <<"{">> \o Row([n \in 1..cells[i].len |->
                               <<cells[KeysAt(cells, i)[n]].str, ":">>
                               \o Shown(cells, KeysAt(cells, i)[n] + 1)]) \o <<"}">>
        [] OTHER -> <<cells[i].str>>

-----------------------------------------------------------------------------
Depth(t, k) ==
  Cardinality({j \in 1..(k - 1) : t[j] \in {"{", "["}})
    - Cardinality({j \in 1..(k - 1) : t[j] \in {"}", "]"}})

(* What stands behind the first name at the top of the object that t spells. *)
Behind(t, name) ==
  LET names == {k \in 1..(Len(t) - 1) : t[k] = name /\ t[k + 1] = ":" /\ Depth(t, k) = 1}
      from  == Min(names) + 2
      end   == Min({j \in from..Len(t) : t[j] \in {",", "}"} /\ Depth(t, j) = 1})
  IN  IF t[1] # "{" \/ names = {} THEN <<>> ELSE SubSeq(t, from, end - 1)

(* A text is read exactly when it is JSON, whichever reader its blanks send
   it to; the cells, found by the sizes and ways stored in them, spell it
   again, and so does a copy of it that is written; what is looked up by a
   name is the first member of that name; no cell is written
   beyond those allocated, though values of members do not ask for one, and
   no byte over the stack at the end of the block. *)
ReadsAsGrammar ==
  Answered("json") =>
    LET doc  == answer[1].doc
        bare == Bare(query.text)
    IN  /\ doc.at \in {"done", "fail"} /\ doc.inside
        /\ (doc.at = "done") = IsJson(bare)
        /\ doc.at = "done" =>
             /\ Shown(doc.cells, 1) = bare /\ answer[1].back.out = bare
             /\ \A name \in Words :
                  LET val == yyjson_obj_getn(doc.cells, 1, name)
                  IN  Behind(bare, name) = IF val = 0 THEN <<>> ELSE Shown(doc.cells, val)
        /\ answer[1].back.inside

-----------------------------------------------------------------------------
(* The members of the object of the first cell, [key, value] each. *)
MembersOf(cells) ==
  LET keys == KeysAt(cells, 1)
  IN  [n \in DOMAIN keys |-> [key |-> cells[keys[n]].str, value |-> Shown(cells, keys[n] + 1)]]

Written(own) ==
  IF own.items = 0 THEN <<"own">>
  ELSE <<"[">> \o [n \in 1..(2 * own.items - 1) |-> IF n % 2 = 1 THEN "own" ELSE ","] \o <<"]">>

(* Of the members of both, those a later one of the same name does not
   replace; the first of them, of the extra body, stay in front. *)
Expected(own, extra) ==
  LET all   == own \o extra
      stays == {n \in DOMAIN all : \A k \in (n + 1)..Len(all) :
                                     k > Len(own) => all[k].key # all[n].key}
      Add(out, n) == IF n \notin stays THEN out
                     ELSE out \o (IF out = <<>> THEN <<>> ELSE <<",">>)
                              \o <<all[n].key, ":">> \o all[n].value
  IN  <<"{">> \o FoldLeft(Add, <<>>, [n \in DOMAIN all |-> n]) \o <<"}">>

(* The body that is sent spells the members of the request and of the extra
   body over them, in order, each once, whatever is taken out of the ring
   and wherever it was there: the last one, the only one, one twice. *)
MergesInTheRing ==
  Answered("merge") =>
    LET own == [n \in DOMAIN query.own |-> [key |-> query.own[n].key, value |-> Written(query.own[n])]]
    IN  /\ answer[1].at = "done" /\ answer[1].inside
        /\ answer[1].out = Expected(own, MembersOf(yyjson_read_opts(query.text).cells))

-----------------------------------------------------------------------------
(* What the pools hand out is as long as it should be, the zero behind a
   string with it, and lies in a chunk behind its head where nothing else
   lies; something is refused only when the allocator failed for it or
   no chunk is as long.  Whatever was refused or given up on the way, the
   document is freed to the last chunk, and the writer counts no value too
   few. *)
PoolsHold ==
  Answered("pool") =>
    LET doc == answer[1]
        n   == Len(doc.given)
        Room(r) == IF r.kind = "str" THEN r.n + 1 ELSE r.n * ValSize
        Size(r) == LET chunks == doc[r.kind].chunks IN chunks[Len(chunks) + 1 - r.chunk]
        Values == FoldLeft(LAMBDA sum, r : IF r.kind = "val" THEN sum + r.bytes \div ValSize ELSE sum,
                           0, doc.given)
    IN  /\ \A r \in ToSet(doc.given) : HeadOf(r.kind) <= r.from /\ r.from + r.bytes <= Size(r)
        /\ \A j, k \in 1..n :
             LET a == doc.given[j]
                 b == doc.given[k]
             IN  j < k /\ a.kind = b.kind /\ a.chunk = b.chunk => a.from + a.bytes <= b.from
        /\ \A k \in 1..n : doc.given[k].bytes = Room(query.needs[k])
        /\ ~doc.refused => n = Len(query.needs)
        /\ doc.refused =>
             \/ doc.mallocs \in query.F
             \/ Room(query.needs[n + 1]) + HeadOf(query.needs[n + 1].kind) >= UsizeEnd
        /\ yyjson_mut_doc_estimated_val_num(doc) >= Values
        /\ yyjson_mut_doc_free(doc) = {}

-----------------------------------------------------------------------------
\* Places of the escapes \u in s, up to its end at n.
UniEscapes(s, n) ==
  {i \in 1..(n - 2) : s[i] = 92 /\ s[i + 1] = 117
     /\ \E k \in 0..(i - 1) : /\ k % 2 = 0 /\ (\A j \in 1..k : s[i - j] = 92)
                              /\ (i - k = 1 \/ s[i - k - 1] # 92)}

\* Halves of a pair stand next to each other.
PairsOnly(s, n) ==
  LET at   == UniEscapes(s, n)
      v(i) == hex_load_4(s, i + 2).v
  IN  \A i \in at :
        /\ HighSurrogate(v(i)) => i + 6 \in at /\ LowSurrogate(v(i + 6))
        /\ LowSurrogate(v(i)) => i - 6 \in at /\ HighSurrogate(v(i - 6))

(* A string is written exactly when sicha_utf8_valid accepts it, and reads
   back as it was; a string is read with its surrogates in pairs, and one
   without an escape is written as it stands. *)
SpellsBack ==
  /\ Answered("spell") =>
       LET w == answer[1]
           r == read_str(w.out)
       IN  /\ (w.at = "ok") = sicha_utf8_valid(query.s)
           /\ w.at = "ok" => r.at = "ok" /\ r.out = query.s /\ r.src = Len(w.out)
  /\ Answered("string") /\ answer[1].at = "ok" =>
       LET r == answer[1]
       IN  /\ sicha_utf8_valid(r.out)
           /\ query.s[r.src] = 34
           /\ PairsOnly(query.s, r.src)
           /\ SubSeq(query.s, 1, r.src - 1) = r.out => write_str(r.out).out = Append(r.out, 34)
           /\ read_str(write_str(r.out).out).out = r.out

-----------------------------------------------------------------------------
(* A minus or none, digits without a leading zero, a point and digits or
   none, an exponent with its sign or none: where the first two parts end. *)
Digits(s, a, b) == \A n \in a..b : s[n] \in 0..9

Parts(s) ==
  LET from == IF s # <<>> /\ s[1] = Minus THEN 2 ELSE 1
  IN  {p \in (from..(Len(s) + 1)) \X (from..(Len(s) + 1)) :
         LET int  == p[1]
             frac == p[2]
             sign == IF frac + 1 \in DOMAIN s /\ s[frac + 1] \in {Plus, Minus} THEN 1 ELSE 0
         IN  /\ from < int /\ Digits(s, from, int - 1) /\ (int > from + 1 => s[from] # 0)
             /\ \/ frac = int
                \/ int + 1 < frac /\ s[int] = Dot /\ Digits(s, int + 1, frac - 1)
             /\ \/ frac = Len(s) + 1
                \/ /\ s[frac] = Exp /\ frac + sign < Len(s)
                   /\ Digits(s, frac + sign + 1, Len(s)) }

(* A text is a number exactly when it has those parts and is not too great;
   an integer that fits a word is that integer, and what is dropped of any
   other is at most half of the last digit kept.  A count of tokens is the
   integer written when it fits 63 bits and nothing above that (it would be
   negative, which leaves it unknown) - but 0 for every number with a point
   or an exponent, though -1 is unknown (sicha.h:550). *)
CountsAsWritten ==
  Answered("number") /\ query.s # <<>> =>
    LET s     == query.s
        read  == answer[1]
        num   == read.num
        whole == num.kind # "bad" /\ read.at = Len(s) + 1
        neg   == s[1] = Minus
    IN  /\ whole => Parts(s) # {}
        /\ \A p \in Parts(s) :
             LET from == IF neg THEN 2 ELSE 1
                 int  == SubSeq(s, from, p[1] - 1)
                 frac == SubSeq(s, p[1] + 1, p[2] - 1)
                 all  == ValueOf(int \o frac)
                 up   == p[2] + 1 \in DOMAIN s /\ s[p[2] + 1] \in {Plus, Minus}
                 e    == ValueOf(SubSeq(s, p[2] + (IF up THEN 2 ELSE 1), Len(s)))
                 exp  == IF up /\ s[p[2] + 1] = Minus THEN -e ELSE e
                 cut  == num.exp - exp + Len(frac)
                 integer == p[1] = Len(s) + 1
                 fits == integer /\ (IF neg THEN all <= 2^(NumW - 1) ELSE all < 2^NumW)
             IN  /\ ~whole => num.kind = "bad" /\ Len(int) + exp > NumTop
                 /\ whole =>
                      /\ (num.kind \in {"sint", "uint"}) = fits
                      /\ num.neg = neg
                      /\ fits => num.sig = all /\ num.exp = 0
                      /\ ~fits /\ num.sig # 0 =>
                           /\ cut >= 0
                           /\ 2 * (num.sig * 10^cut - all) \in (-(10^cut))..(10^cut)
                      /\ num.sig = 0 => all = 0
                      /\ KeepCount(-1, lift_i64(num, NumW)) =
                           CASE fits /\ ~neg /\ all < 2^(NumW - 1) -> all
                             [] fits /\ (all >= 2^(NumW - 1) \/ (neg /\ all > 0)) -> -1
                             [] OTHER -> 0

-----------------------------------------------------------------------------
(* Numbers of any length: their digits, multiplied by a small number and
   compared. *)
Times(digits, n) ==
  LET Step(d, r) == [out |-> <<(d * n + r.carry) % 10>> \o r.out, carry |-> (d * n + r.carry) \div 10]
      end == FoldRight(Step, digits, [out |-> <<>>, carry |-> 0])
  IN  write_u64(end.carry, 10) \o end.out

\* -1, 0 or 1.
Compare(a, b) ==
  LET x == Zeroes(Len(b) - Len(a)) \o a
      y == Zeroes(Len(a) - Len(b)) \o b
      differ == {n \in DOMAIN x : x[n] # y[n]}
  IN  IF differ = {} THEN 0 ELSE IF x[Min(differ)] < y[Min(differ)] THEN -1 ELSE 1

\* A text of a number: its digits, and how many places they are above the last.
Decimal(s) ==
  LET p    == CHOOSE q \in Parts(s) : TRUE
      from == IF s[1] = Minus THEN 2 ELSE 1
      frac == SubSeq(s, p[1] + 1, p[2] - 1)
  IN  [digits |-> SubSeq(s, from, p[1] - 1) \o frac,
       places |-> ReadExp(s, p[2]).e - Len(frac)]

\* The decimal d against sig * 2^exp.
Against(d, sig, exp) ==
  Compare(Times(d.digits, Pow2(-exp)) \o Zeroes(d.places),
          Times(write_u64(sig, 10), Pow2(exp)) \o Zeroes(-d.places))

\* Whether no double is nearer to d than raw, an even one in the middle.
IsNearest(d, raw) ==
  LET here == Decode(raw)
      even == here.sig % 2 = 0
      near == here.sig = 2^F64_SIG_BITS /\ raw >= 2 * 2^F64_SIG_BITS
      up   == Against(d, 2 * here.sig + 1, here.exp - 1)
      down == IF near THEN Against(d, 4 * here.sig - 1, here.exp - 2)
              ELSE Against(d, 2 * here.sig - 1, here.exp - 1)
  IN  /\ up = -1 \/ (even /\ up = 0)
      /\ raw = 0 \/ down = 1 \/ (even /\ down = 0)

(* The digits behind those that a number half way between two doubles has,
   and how many are behind the point of a text. *)
DigitsBehind(d) ==
  LET lead == {n \in DOMAIN d.digits : d.digits[n] # 0}
  IN  IF lead = {} THEN <<>>
      ELSE SubSeq(d.digits, Min(lead) + F64_MAX_DEC_DIG, Len(d.digits))

Fraction(s) == LET p == CHOOSE q \in Parts(s) : TRUE IN Max({0, p[2] - p[1] - 1})

HasPoint(s) == \E n \in DOMAIN s : s[n] = Dot

(* Read as the double above raw, the nearest one: a number half way that is
   written with zeroes behind F64_MAX_DEC_DIG digits, the first of which the
   code takes for a 1, or one with its point among the digits that are left
   out, which the code counts as one of them (yyjson.c:3703-3710, 3721). *)
ReadAbove(s, d, raw) ==
  LET below == Decode(raw)
      more  == DigitsBehind(d)
  IN  /\ more # <<>> /\ IsNearest(d, raw)
      /\ \/ /\ \A n \in DOMAIN more : more[n] = 0
            /\ Against(d, 2 * below.sig + 1, below.exp - 1) = 0
         \/ HasPoint(s) /\ Fraction(s) < Len(more) - 1

(* A real becomes the double nearest to it and is refused only when that is
   infinite, however many digits it has, with the two exceptions of
   ReadAbove. *)
RealsAsWritten ==
  Answered("real") /\ Parts(query.s) # {} =>
    LET d    == Decimal(query.s)
        num  == answer[1].num
        raw  == answer[1].raw
        last == Decode(F64_BITS_INF - 1)
    IN  num.kind \in {"real", "bad"} =>
          IF raw = F64_BITS_INF
          THEN \/ Against(d, 2 * last.sig + 1, last.exp - 1) >= 0
               \/ ReadAbove(query.s, d, F64_BITS_INF - 1)
          ELSE \/ IsNearest(d, raw)
               \/ raw > 0 /\ ReadAbove(query.s, d, raw - 1)

(* A double is written as a number with a point or an exponent that reads
   back as the same double, and no decimal with a digit less does. *)
DoublesComeBack ==
  Answered("double") =>
    LET s == answer[1]
        d == Decimal(s)
        digits == IF query.raw = 0 THEN <<0>> ELSE Trim(d.digits)
        low == ValueOf(SubSeq(digits, 1, Len(digits) - 1))
        places == d.places + Len(d.digits) - Len(digits) + 1
        Reads(v) == ReadReal(write_u64(v, 10) \o write_f64_exp(places)).raw
    IN  /\ Parts(s) # {}
        /\ ReadReal(s).num.kind = "real" /\ ReadReal(s).num.neg = query.neg
        /\ ReadReal(s).raw = query.raw
        /\ low > 0 => \A v \in {low, low + 1} : Reads(v) # query.raw

(* An integer is written with its digits and no zero before them. *)
IntegersAsWritten ==
  Answered("digits") =>
    LET digits == answer[1]
    IN  /\ FoldLeft(LAMBDA v, n : v * WriteRadix + n, 0, digits) = query.v
        /\ \A n \in DOMAIN digits : digits[n] \in 0..(WriteRadix - 1)
        /\ Len(digits) > 1 => digits[1] # 0

-----------------------------------------------------------------------------
(* What the request and response code takes for granted of its JSON library:
   a text is read when it is JSON and copied, merged and written as it
   should be, in the room there is (src/request.c builds and merges every
   body with it, src/response.c reads every answer). *)
JsonAsDefined == ReadsAsGrammar /\ MergesInTheRing /\ PoolsHold

(* Scalars survive: strings with their escapes, in and out, the counts of
   tokens that src/response.c lifts, and the numbers of a request - its
   temperature, what an extra body holds - as they are read and written. *)
ScalarsAsDefined ==
  SpellsBack /\ CountsAsWritten /\ RealsAsWritten /\ DoublesComeBack /\ IntegersAsWritten
=============================================================================
