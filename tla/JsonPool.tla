------------------------------- MODULE JsonPool -------------------------------
(***************************************************************************)
(* The memory of a document that is built (src/yyjson.c, src/yyjson.h):    *)
(* one pool of chunks for its strings, one for its values.  What is asked  *)
(* for is cut from the newest chunk; where it does not fit, a new chunk is *)
(* made and what is left of the old one is given up.                       *)
(*                                                                         *)
(* Sizes are bytes of a word that ends at UsizeEnd.  A chunk is a block of *)
(* its own, known by its place in the order in which they were made; the   *)
(* allocator fails for the calls of a set F, counted from 1.               *)
(***************************************************************************)
EXTENDS Integers, Sequences, SequencesExt

CONSTANTS
  UsizeEnd,       \* USIZE_MAX + 1
  StrHead,        \* sizeof(yyjson_str_chunk)
  ValSize,        \* sizeof(yyjson_mut_val), which holds the head of a chunk of values
  PoolInit, PoolMax   \* [str, val]: the sizes of the first chunk and of the greatest

ASSUME PoolAssumption ==
  /\ UsizeEnd \in Nat /\ {StrHead, ValSize} \subseteq 1..UsizeEnd
  /\ \A kind \in {"str", "val"} : PoolInit[kind] < PoolMax[kind] /\ 2 * PoolMax[kind] <= UsizeEnd
  /\ StrHead < PoolInit.str /\ ValSize < PoolInit.val
  /\ PoolInit.val % ValSize = 0 /\ PoolMax.val % ValSize = 0

\* A pool without a chunk; chunks holds their sizes, the newest first.
Pool(kind) ==
  [chunks |-> <<>>, cur |-> 0, end |-> 0, chunk_size |-> PoolInit[kind]]

HeadOf(kind) == IF kind = "str" THEN StrHead ELSE ValSize

(* A document: its pools, the calls of the allocator, what was handed out,
   the blocks that live. *)
yyjson_mut_doc_new(F) ==
  [str |-> Pool("str"), val |-> Pool("val"), mallocs |-> 1, given |-> <<>>, refused |-> 1 \in F,
   live |-> IF 1 \in F THEN {} ELSE {<<"doc">>}]

\* Two greatest sizes do not wrap; the smaller of both is taken all the same.
NextSize(pool, kind) ==
  LET twice == (2 * pool.chunk_size) % UsizeEnd
      size  == IF twice < PoolMax[kind] THEN twice ELSE PoolMax[kind]
  IN  IF size < pool.chunk_size THEN PoolMax[kind] ELSE size

(* A chunk for this many bytes and its head; 0 where none can be made. *)
ChunkFor(pool, kind, bytes) ==
  LET need == bytes + HeadOf(kind)
  IN  IF bytes > UsizeEnd - 1 - HeadOf(kind) THEN 0
      ELSE IF pool.chunk_size > need THEN pool.chunk_size ELSE need

\* unsafe_yyjson_str_pool_grow and unsafe_yyjson_val_pool_grow.
Grow(doc, kind, bytes, F) ==
  LET pool == doc[kind]
      size == ChunkFor(pool, kind, bytes)
  IN  IF size = 0 THEN doc
      ELSE IF doc.mallocs + 1 \in F THEN [doc EXCEPT !.mallocs = @ + 1]
      ELSE [doc EXCEPT ![kind] = [chunks |-> <<size>> \o pool.chunks, cur |-> HeadOf(kind),
                                  end |-> size, chunk_size |-> NextSize(pool, kind)],
                       !.mallocs = @ + 1, !.live = @ \cup {<<kind, Len(pool.chunks) + 1>>}]

\* Bytes cut from the newest chunk.
Cut(doc, kind, bytes) ==
  [doc EXCEPT ![kind].cur = @ + bytes,
              !.given = Append(@, [kind |-> kind, chunk |-> Len(doc[kind].chunks),
                                   from |-> doc[kind].cur, bytes |-> bytes])]

GrowAndCut(doc, kind, bytes, F) ==
  LET grown == Grow(doc, kind, bytes, F)
  IN  IF grown[kind] = doc[kind] THEN [grown EXCEPT !.refused = TRUE] ELSE Cut(grown, kind, bytes)

(* A string and the zero behind it. *)
unsafe_yyjson_mut_str_alc(doc, len, F) ==
  IF doc.str.end - doc.str.cur <= len THEN GrowAndCut(doc, "str", len + 1, F)
  ELSE Cut(doc, "str", len + 1)

(* Values next to each other: one, or two for a key and its value. *)
unsafe_yyjson_mut_val(doc, count, F) ==
  LET bytes == count * ValSize
  IN  IF doc.val.end - doc.val.cur < bytes THEN GrowAndCut(doc, "val", bytes, F)
      ELSE Cut(doc, "val", bytes)

\* The values the writer makes room for: all cut, and what was given up.
yyjson_mut_doc_estimated_val_num(doc) ==
  LET sum == FoldLeft(LAMBDA n, size : n + size \div ValSize - 1, 0, doc.val.chunks)
  IN  sum - (doc.val.end - doc.val.cur) \div ValSize

\* The chunks a walk along the list of a pool comes to.
Released(doc, kind) == {<<kind, Len(doc[kind].chunks) + 1 - n>> : n \in DOMAIN doc[kind].chunks}

yyjson_mut_doc_free(doc) ==
  doc.live \ (Released(doc, "str") \cup Released(doc, "val") \cup {<<"doc">>})

(* A document in which these are asked for, one behind the other: strings
   and rows of values, [kind, n] each.  Nothing more is asked of it once
   something was refused, as sicha_build_chat_body gives up then. *)
Furnished(requests, F) ==
  LET Ask(doc, r) == CASE doc.refused -> doc
                       [] ~doc.refused /\ r.kind = "str" -> unsafe_yyjson_mut_str_alc(doc, r.n, F)
                       [] ~doc.refused /\ r.kind = "val" -> unsafe_yyjson_mut_val(doc, r.n, F)
  IN  FoldLeft(Ask, yyjson_mut_doc_new(F), requests)
=============================================================================
