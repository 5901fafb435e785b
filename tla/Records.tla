------------------------------- MODULE Records -------------------------------
(***************************************************************************)
(* The memory of what is collected one by one: the attempts of a result    *)
(* (src/response.c), the responses and the log of the scripted transport   *)
(* (src/transport_script.c), the headers of a transfer                     *)
(* (src/transport_curl.c).  Blocks and the set F are as in SetUp; every    *)
(* use of a name is numbered, so that no two blocks share one.             *)
(***************************************************************************)
EXTENDS SetUp, SequencesExt

\* A list whose array is a block that doubles, beginning with first entries.
List == [items |-> <<>>, cap |-> 0]

Doubled(list, first) == IF list.cap = 0 THEN first ELSE 2 * list.cap

ArrayOf(name, list) == IF list.cap = 0 THEN {} ELSE {<<name, list.cap>>}

(* Room for one more, with the blocks that live then; realloc leaves the old
   array where it finds no new one. *)
RoomIn(o, member, first, F) ==
  LET list  == o[member]
      grown == [list EXCEPT !.cap = Doubled(list, first)]
  IN  IF Len(list.items) < list.cap THEN [ok |-> TRUE, o |-> o]
      ELSE IF ArrayOf(member, grown) \cap F # {} THEN [ok |-> FALSE, o |-> o]
      ELSE [ok |-> TRUE,
            o  |-> [o EXCEPT ![member] = grown,
                             !.live = (@ \ ArrayOf(member, list)) \cup ArrayOf(member, grown)]]

Added(o, member, i) == [o EXCEPT ![member].items = Append(@, i)]

\* The call is done, with this success.
Done(o, ok) == [o EXCEPT !.done = Append(@, ok)]

-----------------------------------------------------------------------------
(* A result: what the last answer left in it, and the attempts.  model and *)
(* finish_raw are the number of the call that set them, 0 where NULL.      *)

Content == {<<"text">>, <<"reasoning">>, <<"raw_body">>}

Named(part, i) == IF i = 0 THEN {} ELSE {<<part, i>>}

AttemptBlocks(i) == {<<part, i>> : part \in {"attempt model", "message", "raw_body_excerpt"}}

\* has: the content it has at first.
sicha_result_create(has, F) ==
  [attempts |-> List, done |-> <<>>, model |-> 0, finish_raw |-> 0, finish |-> "unknown",
   live |-> IF <<"result">> \in F THEN {} ELSE {<<"result">>} \cup has]

(* All three strings are copied before the first look at any of them. *)
sicha_result_add_attempt(r, i, F) ==
  LET room == RoomIn(r, "attempts", 4, F)
      got  == [room.o EXCEPT !.live = @ \cup (AttemptBlocks(i) \ F)]
  IN  IF ~room.ok THEN Done(r, FALSE)
      ELSE IF AttemptBlocks(i) \cap F # {}
      THEN Done([got EXCEPT !.live = @ \ AttemptBlocks(i)], FALSE)
      ELSE Done(Added(got, "attempts", i), TRUE)

\* The old string goes once there is a new one.
SetString(r, member, i, F) ==
  IF <<member, i>> \in F THEN Done(r, FALSE)
  ELSE Done([r EXCEPT ![member] = i,
                      !.live = (@ \ Named(member, r[member])) \cup {<<member, i>>}], TRUE)

sicha_result_set_model(r, i, F) == SetString(r, "model", i, F)

map_finish(raw) ==
  IF raw \in {"stop", "length", "tool_calls", "content_filter"} THEN raw ELSE "unknown"

sicha_result_set_finish(r, raw, i, F) ==
  LET set == SetString(r, "finish_raw", i, F)
  IN  IF <<"finish_raw", i>> \in F THEN set ELSE [set EXCEPT !.finish = map_finish(raw)]

\* The buffers keep their blocks.
sicha_result_reset_content(r) ==
  [Done(r, TRUE) EXCEPT !.live = @ \ (Named("model", r.model) \cup {<<"raw_body">>}
                                      \cup Named("finish_raw", r.finish_raw)),
                        !.model = 0, !.finish_raw = 0, !.finish = "unknown"]

\* What is left.
sicha_result_destroy(r) ==
  r.live \ (Content \cup {<<"result">>} \cup ArrayOf("attempts", r.attempts)
            \cup Named("model", r.model) \cup Named("finish_raw", r.finish_raw)
            \cup UNION {AttemptBlocks(r.attempts.items[k]) : k \in DOMAIN r.attempts.items})

-----------------------------------------------------------------------------
(* Copies of headers, all of them or none.                                 *)

CopyBlocks(of, i, n) ==
  {<<of, "array", i>>} \cup {<<of, part, i, k>> : part \in {"name", "value"}, k \in 1..n}

headers_deep_free(live, of, i, n) == live \ CopyBlocks(of, i, n)

\* Headers behind the first that fails are not copied.
headers_deep_copy(live, of, i, n, F) ==
  LET Pair(k) == {<<of, part, i, k>> : part \in {"name", "value"}}
      failing == Least({k \in 1..n : Pair(k) \cap F # {}}, 0)
      array   == {<<of, "array", i>>}
  IN  IF array \cap F # {} THEN [ok |-> FALSE, live |-> live]
      ELSE IF failing = 0 THEN [ok |-> TRUE, live |-> live \cup CopyBlocks(of, i, n)]
      ELSE [ok   |-> FALSE,
            live |-> headers_deep_free(live \cup array
                                       \cup ((UNION {Pair(k) : k \in 1..failing}) \ F), of, i, n)]

-----------------------------------------------------------------------------
(* The scripted transport: nHeaders headers in every response and request. *)

sicha_script_create(nHeaders) ==
  [queue |-> List, calls |-> List, n |-> nHeaders, done |-> <<>>, live |-> {<<"script">>}]

response_free_owned(s, i) ==
  [s EXCEPT !.live = headers_deep_free(@ \ {<<"response body", i>>}, "response", i, s.n)]

sicha_script_push(s, i, F) ==
  LET copied == headers_deep_copy(s.live \cup ({<<"response body", i>>} \ F), "response", i, s.n, F)
      copy   == [s EXCEPT !.live = copied.live]
      room   == RoomIn(copy, "queue", 8, F)
  IN  CASE <<"response body", i>> \in F \/ ~copied.ok \/ ~room.ok ->
             Done(response_free_owned(copy, i), FALSE)
        [] OTHER -> Done(Added(room.o, "queue", i), TRUE)

CallStrings(i) == {<<"url", i>>, <<"body", i>>}

(* A call that is recorded takes the first response and frees it when it
   was played; one that cannot be recorded takes none. *)
script_perform(s, i, F) ==
  LET room   == RoomIn(s, "calls", 8, F)
      copied == headers_deep_copy(room.o.live \cup (CallStrings(i) \ F), "call", i, s.n, F)
      whole  == CallStrings(i) \cap F = {} /\ copied.ok
      logged == Added([room.o EXCEPT !.live = copied.live], "calls", i)
      played == response_free_owned([logged EXCEPT !.queue.items = Tail(@)], Head(s.queue.items))
  IN  IF ~room.ok THEN Done(s, FALSE)
      ELSE IF ~whole
      THEN Done([room.o EXCEPT !.live = headers_deep_free(copied.live \ CallStrings(i),
                                                          "call", i, s.n)], FALSE)
      ELSE Done(IF s.queue.items = <<>> THEN logged ELSE played, TRUE)

sicha_script_destroy(s) ==
  LET Responses == UNION {{<<"response body", s.queue.items[k]>>}
                          \cup CopyBlocks("response", s.queue.items[k], s.n)
                            : k \in DOMAIN s.queue.items}
      Logged == UNION {CallStrings(s.calls.items[k]) \cup CopyBlocks("call", s.calls.items[k], s.n)
                      : k \in DOMAIN s.calls.items}
  IN  s.live \ (Responses \cup Logged \cup ArrayOf("queue", s.queue) \cup ArrayOf("calls", s.calls)
                \cup {<<"script">>})

-----------------------------------------------------------------------------
(* The headers of a transfer.  A status line begins a block of headers, and
   an interim block ends with them thrown away. *)

Field(i) == {<<part, i>> : part \in {"field name", "field value"}}

xfer_free_headers(x) ==
  [x EXCEPT !.live = @ \ UNION {Field(x.headers[k]) : k \in DOMAIN x.headers}, !.headers = <<>>]

(* A header that cannot be copied ends the transfer. *)
dup_field(x, i, F) ==
  IF Field(i) \cap F = {}
  THEN Done([x EXCEPT !.headers = Append(@, i), !.live = @ \cup Field(i)], TRUE)
  ELSE Done([x EXCEPT !.live = (@ \cup (Field(i) \ F)) \ Field(i), !.oom = TRUE], FALSE)

header_cb(x, op, i, F) ==
  CASE x.oom -> x
    [] ~x.oom /\ op = "field" -> dup_field(x, i, F)
    [] ~x.oom /\ op \in {"status", "interim end"} -> Done(xfer_free_headers(x), TRUE)

-----------------------------------------------------------------------------
(* Rows of these operations, numbered.                                     *)

(* A call that finds no memory for the record of a round trip is over. *)
CallOver(r, ops) ==
  r.live = {} \/ \E k \in DOMAIN r.done : ops[k] = "attempt" /\ ~r.done[k]

CollectOne(r, i, ops, F) ==
  IF CallOver(r, ops) THEN r
  ELSE CASE ops[i] = "attempt" -> sicha_result_add_attempt(r, i, F)
         [] ops[i] = "model"   -> sicha_result_set_model(r, i, F)
         [] ops[i] = "reset"   -> sicha_result_reset_content(r)
         [] OTHER              -> sicha_result_set_finish(r, ops[i], i, F)

Collected(has, ops, F) ==
  FoldLeft(LAMBDA r, i : CollectOne(r, i, ops, F),
           sicha_result_create(has, F), [i \in DOMAIN ops |-> i])

ScriptOne(s, i, ops, F) ==
  IF ops[i] = "push" THEN sicha_script_push(s, i, F) ELSE script_perform(s, i, F)

Scripted(ops, nHeaders, F) ==
  FoldLeft(LAMBDA s, i : ScriptOne(s, i, ops, F),
           sicha_script_create(nHeaders), [i \in DOMAIN ops |-> i])

NoTransfer == [headers |-> <<>>, oom |-> FALSE, done |-> <<>>, live |-> {}]

Transferred(ops, F) ==
  FoldLeft(LAMBDA x, i : header_cb(x, ops[i], i, F), NoTransfer, [i \in DOMAIN ops |-> i])
=============================================================================
