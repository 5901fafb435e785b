------------------------------- MODULE JsonDoc -------------------------------
(***************************************************************************)
(* The document a body is built in (src/yyjson.c, src/yyjson.h): values in *)
(* a pool, a container's values in a ring, the container pointing to the   *)
(* last one (the last key, in an object).  Parsed documents are copied in, *)
(* the extra body is merged over what is there (src/request.c), and the    *)
(* document is written out, minified.                                      *)
(***************************************************************************)
EXTENDS JsonText

Value(type, len, ptr, str) ==
  [type |-> type, len |-> len, next |-> 0, ptr |-> ptr, str |-> str]

NewStr(mem, str) == Append(mem, Value("str", 1, 0, str))

(* The values of doc are mem; a container that has none points nowhere. *)
unsafe_yyjson_mut_obj_add(mem, obj, key, val) ==
  LET prev_val == mem[mem[obj].ptr].next
      linked   == IF mem[obj].len = 0 THEN [mem EXCEPT ![val].next = key]
                  ELSE [mem EXCEPT ![prev_val].next = key, ![val].next = mem[prev_val].next]
  IN  [linked EXCEPT ![key].next = val, ![obj].ptr = key, ![obj].len = @ + 1]

yyjson_mut_arr_append(mem, arr, val) ==
  LET prev == mem[arr].ptr
  IN  [(IF mem[arr].len = 0 THEN [mem EXCEPT ![val].next = val]
        ELSE [mem EXCEPT ![prev].next = val, ![val].next = mem[prev].next])
         EXCEPT ![arr].ptr = val, ![arr].len = @ + 1]

NextKey(mem, key) == mem[mem[key].next].next

\* Mutant: the object goes on pointing to a key that is gone.
RemoveKeepTail(obj, str, r) ==
  LET next == NextKey(r.mem, r.cur)
      cut  == [r.mem EXCEPT ![r.mem[r.pre].next].next = next]
  IN  IF r.mem[r.cur].str = str
      THEN [r EXCEPT !.mem = cut, !.cur = next, !.len = @ - 1]
      ELSE [r EXCEPT !.pre = r.cur, !.cur = next, !.i = @ + 1]

(* One look at a key of obj: a hit is linked over, and when it was the last
   one the object points to the one before. *)
RemoveStep(obj, str, r) ==
  LET next == NextKey(r.mem, r.cur)
      cut  == [r.mem EXCEPT ![r.mem[r.pre].next].next = next]
  IN  IF r.mem[r.cur].str = str
      THEN [r EXCEPT !.mem = IF r.i + 1 = r.len THEN [cut EXCEPT ![obj].ptr = r.pre] ELSE cut,
                     !.cur = next, !.len = @ - 1]
      ELSE [r EXCEPT !.pre = r.cur, !.cur = next, !.i = @ + 1]

unsafe_yyjson_mut_obj_remove(mem, obj, str) ==
  LET pre   == mem[obj].ptr
      start == [mem |-> mem, pre |-> pre, cur |-> NextKey(mem, pre), i |-> 0,
                len |-> mem[obj].len]
      end   == FoldLeft(LAMBDA r, n : RemoveStep(obj, str, r), start,
                        [n \in 1..mem[obj].len |-> n])
  IN  IF mem[obj].len = 0 THEN mem ELSE [end.mem EXCEPT ![obj].len = end.len]

-----------------------------------------------------------------------------
(* Copying a parsed value: its cells one to one, then the rings.           *)

\* The cells that make the ring of the container at i.
Ring(cells, i) ==
  IF cells[i].type = "arr" THEN ArrayAt(cells, i)
  ELSE [n \in 1..(2 * cells[i].len) |-> KeysAt(cells, i)[(n + 1) \div 2] + (1 - (n % 2))]

Connect(mem, cells, i, shift) ==
  LET ring == Ring(cells, i)
      last == IF cells[i].type = "arr" THEN Len(ring) ELSE Len(ring) - 1
      Link(m, n) == [m EXCEPT ![ring[n] + shift].next = ring[(n % Len(ring)) + 1] + shift]
  IN  IF ~Container(cells[i]) \/ cells[i].len = 0 THEN mem
      ELSE [FoldLeft(Link, mem, [n \in DOMAIN ring |-> n])
              EXCEPT ![i + shift].ptr = ring[last] + shift]

(* The copy of the value at i is behind what mem has. *)
yyjson_val_mut_copy(mem, cells, i) ==
  LET size  == unsafe_yyjson_get_next(cells, i) - i
      shift == Len(mem) + 1 - i
      from  == [n \in 1..size |-> i + n - 1]
      m_val(j) == Value(cells[j].type, cells[j].len, cells[j].ofs, cells[j].str)
  IN  FoldLeft(LAMBDA m, j : Connect(m, cells, j, shift),
               mem \o [n \in 1..size |-> m_val(from[n])], from)

(* The extra body over the members of root: for each of its keys, what root
   has by that name goes and the copy comes last. *)
MergeExtraBody(mem, root, cells) ==
  LET keys == KeysAt(cells, 1)
      Merge(m, key) ==
        LET named  == NewStr(m, cells[key].str)
            copied == yyjson_val_mut_copy(named, cells, key + 1)
        IN  unsafe_yyjson_mut_obj_add(
              unsafe_yyjson_mut_obj_remove(copied, root, cells[key].str),
              root, Len(named), Len(named) + 1)
  IN  FoldLeft(Merge, mem, keys)

-----------------------------------------------------------------------------
(* Writing: a walk round the rings with the containers around the current  *)
(* one on a stack.  Every value writes the comma behind it, and the end of *)
(* a container takes the last one back.                                    *)

First(mem, ctn) ==
  IF mem[ctn].type = "obj" THEN NextKey(mem, mem[ctn].ptr) ELSE mem[mem[ctn].ptr].next

\* Two values for a member.
Count(v) == IF v.type = "obj" THEN 2 * v.len ELSE v.len

OpenMark(type) == IF type = "obj" THEN "{" ELSE "["
CloseMark(type) == IF type = "obj" THEN "}" ELSE "]"

(* The text grows from the front of the block and the stack from its end,
   16 bytes a container; the block grows before they meet, half as large
   again or by what is asked for, and the stack moves to its new end. *)
Aligned(n) == ((n + 15) \div 16) * 16
Stack(w) == 16 * Len(w.ctx)
Bigger(w, ext_len) ==
  w.cap + Aligned(IF w.cap \div 2 > ext_len THEN w.cap \div 2 ELSE ext_len)

(* Asking for room; a closing mark takes what the value before it left. *)
incr_len(w, ext_len) ==
  IF w.used + ext_len >= w.cap - Stack(w) THEN [w EXCEPT !.cap = Bigger(w, ext_len)] ELSE w

Apart(w) == [w EXCEPT !.inside = @ /\ w.used + Stack(w) <= w.cap]

(* The most bytes of a string of one byte with its quotes, of a number; what
   the writer asks for before it writes one. *)
Longest == [str |-> 8, atom |-> 24, empty |-> 2]
Asked == [str |-> 22, atom |-> 40, empty |-> 16]

Wrote(w, form, symbols) ==
  LET room == incr_len(w, Asked[form])
  IN  Apart([room EXCEPT !.out = @ \o symbols, !.at = "val_end", !.used = @ + Longest[form] + 1])

Enter(w, ctn) ==
  Apart([w EXCEPT !.ctn = ctn, !.ctn_len = Count(w.mem[ctn]), !.val = First(w.mem, ctn),
                  !.at = "val_begin", !.out = Append(@, OpenMark(w.mem[ctn].type)),
                  !.used = @ + 1])

IsKey(w) == w.mem[w.ctn].type = "obj" /\ w.ctn_len % 2 = 0

val_begin(w) ==
  LET v == w.mem[w.val] IN
  CASE v.type = "str" /\ v.str \in Words -> Wrote(w, "str", <<v.str, IF IsKey(w) THEN ":" ELSE ",">>)
    [] v.type = "str" /\ v.str \notin Words -> [w EXCEPT !.at = "fail"]
    [] v.type = "atom" -> Wrote(w, "atom", <<v.str, ",">>)
    [] Container(v) /\ v.len = 0 -> Wrote(w, "empty", <<OpenMark(v.type), CloseMark(v.type), ",">>)
    [] Container(v) /\ v.len > 0 ->
         Enter([incr_len(w, Asked["empty"]) EXCEPT
                  !.ctx = <<[ctn |-> w.ctn, len |-> w.ctn_len]>> \o @], w.val)

val_end(w) ==
  IF w.ctn_len = 1 THEN [w EXCEPT !.ctn_len = 0, !.at = "ctn_end"]
  ELSE [w EXCEPT !.ctn_len = @ - 1, !.val = w.mem[@].next, !.at = "val_begin"]

ctn_end(w) ==
  LET closed == Apart([w EXCEPT !.used = @ + 1,
                                !.out = SubSeq(@, 1, Len(@) - 1)
                                          \o <<CloseMark(w.mem[w.ctn].type), ",">>])
      top    == Head(w.ctx)
  IN  IF w.ctx = <<>> THEN [closed EXCEPT !.at = "done", !.out = SubSeq(@, 1, Len(@) - 1)]
      ELSE [closed EXCEPT !.val = w.mem[w.ctn].next, !.ctx = Tail(@), !.ctn = top.ctn,
                          !.ctn_len = top.len - 1,
                          !.at = IF top.len > 1 THEN "val_begin" ELSE "ctn_end"]

WriteStep(w) ==
  CASE w.at = "val_begin" -> val_begin(w)
    [] w.at = "val_end" -> val_end(w)
    [] w.at = "ctn_end" -> ctn_end(w)
    [] OTHER -> w

(* Every value is begun and ended, every container ended; at first there is
   room for 18 bytes a value. *)
yyjson_mut_write_minify(mem, root) ==
  FoldLeft(LAMBDA w, n : WriteStep(w),
           Enter([mem |-> mem, ctn |-> 0, ctn_len |-> 0, val |-> 0, ctx |-> <<>>,
                  out |-> <<>>, at |-> "", used |-> 0, inside |-> TRUE,
                  cap |-> Aligned(18 * Len(mem) + 64)], root),
           [n \in 1..(3 * Len(mem)) |-> n])

(* A scalar or an empty container is written by itself. *)
yyjson_mut_write_opts_impl(mem, root) ==
  LET v == mem[root] IN
  CASE Container(v) /\ v.len > 0 -> yyjson_mut_write_minify(mem, root)
    [] Container(v) /\ v.len = 0 -> [at |-> "done", inside |-> TRUE, out |-> <<OpenMark(v.type), CloseMark(v.type)>>]
    [] v.type = "str" /\ v.str \notin Words -> [at |-> "fail", inside |-> TRUE, out |-> <<>>]
    [] OTHER -> [at |-> "done", inside |-> TRUE, out |-> <<v.str>>]
=============================================================================
