------------------------------ MODULE JsonText ------------------------------
(***************************************************************************)
(* How the vendored yyjson reads a document (src/yyjson.c): three readers, *)
(* for one scalar, for minified and for indented text, that write a flat   *)
(* array of values.  While a container is open its cell holds the way back *)
(* to its parent and, once another is opened in it, the count so far; when *)
(* it is closed it holds the way to the value after it and its size.       *)
(* A text is a sequence of symbols: a string or another scalar that is     *)
(* spelled right is one symbol (JsonScan spells them), and so is anything  *)
(* no production of JSON starts with.                                      *)
(***************************************************************************)
EXTENDS Integers, Sequences, SequencesExt

CONSTANTS
  Words,      \* strings, each one symbol
  Atoms       \* numbers, true, false and null, each one symbol

Blanks == {"sp", "nl"}

\* The text is padded with zeroes.
At(t, i) == IF i \in DOMAIN t THEN t[i] ELSE "end"

Cell(type, len, ofs, str) == [type |-> type, len |-> len, ofs |-> ofs, str |-> str]

Container(cell) == cell.type \in {"arr", "obj"}

(* The array is allocated with the header of the document in front, so many
   cells for so many bytes; here a symbol is one byte, the fewest it has. *)
DocCells == 4
Estimate(bytes, ratio) == DocCells + bytes \div ratio + 4

-----------------------------------------------------------------------------
(* A reader: where it is (at, cur), the cells, the open container and the  *)
(* number of values in it, the cells allocated and whether every write so  *)
(* far was to one of them.                                                 *)

(* The next cell; val_incr grows the array two cells ahead of its end, and
   the value of a member is written after its key without asking. *)
Put(s, cell, checked) ==
  LET index == DocCells + Len(s.cells)
      room  == IF checked /\ index >= s.cap - 2 THEN s.cap + s.cap \div 2 ELSE s.cap
  IN  [s EXCEPT !.cells = Append(@, cell), !.cap = room, !.inside = @ /\ index < room]

Go(s, label) == [s EXCEPT !.cur = @ + 1, !.at = label]

Fail(s) == [s EXCEPT !.at = "fail"]

ScalarCell(c) == IF c \in Words THEN Cell("str", 1, 0, c) ELSE Cell("atom", 0, 0, c)

Lone(s, checked, label) ==
  Go([Put(s, ScalarCell(At(s.t, s.cur)), checked) EXCEPT !.ctn_len = @ + 1], label)

(* arr_begin, obj_begin *)
Begin(s, type) ==
  LET kept   == [s EXCEPT !.cells[s.ctn].len = s.ctn_len + 1]
      opened == Put(kept, Cell(type, 0, Len(s.cells) + 1 - s.ctn, ""), TRUE)
  IN  Go([opened EXCEPT !.ctn = Len(opened.cells), !.ctn_len = 0],
         IF type = "arr" THEN "arr_val_begin" ELSE "obj_key_begin")

(* arr_end, obj_end *)
End(s) ==
  LET parent == s.ctn - s.cells[s.ctn].ofs
      size   == IF s.cells[s.ctn].type = "obj" THEN s.ctn_len \div 2 ELSE s.ctn_len
      closed == [s EXCEPT !.cells[s.ctn].ofs = Len(s.cells) - s.ctn + 1,
                          !.cells[s.ctn].len = size]
  IN  IF parent = s.ctn THEN Go(closed, "doc_end")
      ELSE Go([closed EXCEPT !.ctn = parent, !.ctn_len = s.cells[parent].len],
              IF s.cells[parent].type = "obj" THEN "obj_val_end" ELSE "arr_val_end")

arr_val_begin(s) ==
  LET c == At(s.t, s.cur) IN
  CASE c = "{" -> Begin(s, "obj")
    [] c = "[" -> Begin(s, "arr")
    [] c \in Words \cup Atoms -> Lone(s, TRUE, "arr_val_end")
    [] c = "]" /\ s.ctn_len = 0 -> End(s)
    [] c \in Blanks -> Go(s, s.at)
    [] OTHER -> Fail(s)

arr_val_end(s) ==
  LET c == At(s.t, s.cur) IN
  CASE c = "," -> Go(s, "arr_val_begin")
    [] c = "]" -> End(s)
    [] c \in Blanks -> Go(s, s.at)
    [] OTHER -> Fail(s)

obj_key_begin(s) ==
  LET c == At(s.t, s.cur) IN
  CASE c \in Words -> Lone(s, TRUE, "obj_key_end")
    [] c = "}" /\ s.ctn_len = 0 -> End(s)
    [] c \in Blanks -> Go(s, s.at)
    [] OTHER -> Fail(s)

obj_key_end(s) ==
  LET c == At(s.t, s.cur) IN
  CASE c = ":" -> Go(s, "obj_val_begin")
    [] c \in Blanks -> Go(s, s.at)
    [] OTHER -> Fail(s)

obj_val_begin(s) ==
  LET c == At(s.t, s.cur) IN
  CASE c \in Words \cup Atoms -> Lone(s, FALSE, "obj_val_end")
    [] c = "{" -> Begin(s, "obj")
    [] c = "[" -> Begin(s, "arr")
    [] c \in Blanks -> Go(s, s.at)
    [] OTHER -> Fail(s)

obj_val_end(s) ==
  LET c == At(s.t, s.cur) IN
  CASE c = "," -> Go(s, "obj_key_begin")
    [] c = "}" -> End(s)
    [] c \in Blanks -> Go(s, s.at)
    [] OTHER -> Fail(s)

(* Only blanks may follow the document. *)
doc_end(s) ==
  LET c == At(s.t, s.cur) IN
  CASE c \in Blanks -> Go(s, s.at)
    [] c = "end" -> [s EXCEPT !.at = "done"]
    [] OTHER -> Fail(s)

Minified(s) ==
  CASE s.at = "arr_val_begin" -> arr_val_begin(s)
    [] s.at = "arr_val_end"   -> arr_val_end(s)
    [] s.at = "obj_key_begin" -> obj_key_begin(s)
    [] s.at = "obj_key_end"   -> obj_key_end(s)
    [] s.at = "obj_val_begin" -> obj_val_begin(s)
    [] s.at = "obj_val_end"   -> obj_val_end(s)
    [] s.at = "doc_end"       -> doc_end(s)
    [] OTHER -> s

-----------------------------------------------------------------------------
(* The indented reader expects two blanks, again and again, before a value *)
(* or a key, a line end after a container begins or ends and after a       *)
(* comma, and a blank after a colon; it takes them in one stride.          *)

SkipPairs(s) ==
  LET blanks == {n \in 0..(Len(s.t) + 1 - s.cur) :
                   \A k \in 0..(2 * n - 1) : At(s.t, s.cur + k) = "sp"}
  IN  [s EXCEPT !.cur = @ + 2 * (CHOOSE n \in blanks : \A k \in blanks : k <= n)]

SkipOne(s, blank) == IF At(s.t, s.cur) = blank THEN [s EXCEPT !.cur = @ + 1] ELSE s

(* In an array, and at the marks that begin or end one. *)
PrettyArray(s) ==
  LET here == IF s.at = "arr_val_begin" THEN SkipPairs(s) ELSE s
      next == Minified(here)
  IN  IF At(here.t, here.cur) \in {"[", "{", ",", "]"} /\ next.at \notin {"fail", "doc_end"}
      THEN SkipOne(next, "nl") ELSE next

(* In an object. *)
PrettyObject(s) ==
  LET here == IF s.at = "obj_key_begin" THEN SkipPairs(s) ELSE s
      next == Minified(here)
      c    == At(here.t, here.cur)
  IN  CASE c \in {"{", "[", ",", "}"} /\ next.at \notin {"fail", "doc_end"} -> SkipOne(next, "nl")
        [] c = ":" /\ next.at # "fail" -> SkipOne(next, "sp")
        [] OTHER -> next

Pretty(s) ==
  IF s.at \in {"arr_val_begin", "arr_val_end"} THEN PrettyArray(s) ELSE PrettyObject(s)

-----------------------------------------------------------------------------
Fresh(t, cur, cap) ==
  [t |-> t, cur |-> cur, at |-> "fail", cells |-> <<>>, ctn |-> 1, ctn_len |-> 0,
   cap |-> cap, inside |-> TRUE]

Root(t, cur, ratio) ==
  LET type == IF t[cur] = "{" THEN "obj" ELSE "arr"
      s    == [Fresh(t, cur, Estimate(Len(t) + 1 - cur, ratio))
                 EXCEPT !.cells = <<Cell(type, 0, 0, "")>>]
  IN  Go(s, IF type = "arr" THEN "arr_val_begin" ELSE "obj_key_begin")

\* Every step takes a symbol, or ends.
Run(Step(_), s) == FoldLeft(LAMBDA r, n : Step(r), s, [n \in 1..(Len(s.t) + 2) |-> n])

read_root_single(t, cur) ==
  LET s == Fresh(t, cur, DocCells + 1)
  IN  IF t[cur] \in Words \cup Atoms
      THEN Run(Minified, Go(Put(s, ScalarCell(t[cur]), FALSE), "doc_end"))
      ELSE s

read_root_minify(t, cur) == Run(Minified, Root(t, cur, 6))

read_root_pretty(t, cur) == Run(Pretty, SkipOne(Root(t, cur, 16), "nl"))

(* No document for an empty text or one of blanks. *)
yyjson_read_opts(t) ==
  LET begins == {n \in DOMAIN t : t[n] \notin Blanks}
      cur    == CHOOSE n \in begins : \A k \in begins : n <= k
  IN  IF begins = {} THEN Fresh(t, 1, DocCells)
      ELSE CASE t[cur] \notin {"{", "["} -> read_root_single(t, cur)
             [] /\ t[cur] \in {"{", "["}
                /\ At(t, cur + 1) \in Blanks /\ At(t, cur + 2) \in Blanks ->
                  read_root_pretty(t, cur)
             [] OTHER -> read_root_minify(t, cur)

-----------------------------------------------------------------------------
(* Finding the way in the cells.                                           *)

unsafe_yyjson_get_next(cells, i) == i + (IF Container(cells[i]) THEN cells[i].ofs ELSE 1)

(* Where the values of the array at i begin. *)
ArrayAt(cells, i) ==
  LET place[n \in 1..cells[i].len] ==
        IF n = 1 THEN i + 1 ELSE unsafe_yyjson_get_next(cells, place[n - 1])
  IN  place

(* Where the keys of the object at i are; each value follows its key. *)
KeysAt(cells, i) ==
  LET place[n \in 1..cells[i].len] ==
        IF n = 1 THEN i + 1 ELSE unsafe_yyjson_get_next(cells, place[n - 1] + 1)
  IN  place

(* The value of the first key of that name in the value at i, 0 if there is
   none or i is no object. *)
yyjson_obj_getn(cells, i, name) ==
  LET hits == SelectSeq(KeysAt(cells, i), LAMBDA key : cells[key].str = name)
  IN  IF cells[i].type # "obj" \/ hits = <<>> THEN 0 ELSE Head(hits) + 1
=============================================================================
