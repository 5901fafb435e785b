-------------------------------- MODULE SetUp --------------------------------
(***************************************************************************)
(* The memory of a client and of the pieces of a call: which blocks        *)
(* sicha_backend_init, sicha_client_create, sicha_build_headers and the    *)
(* set-up of chat_common allocate, and which ones their clean-up frees,    *)
(* when the blocks of a set F cannot be allocated.                         *)
(*                                                                         *)
(* A block is a tuple that names the member that points to it.  The value  *)
(* of an operator holds its status and the blocks that live at its return. *)
(***************************************************************************)
EXTENDS Integers, Sequences, FiniteSets, FiniteSetsExt

Least(S, none) == IF S = {} THEN none ELSE Min(S)

-----------------------------------------------------------------------------
(* A backend: d tells its optional parts, i its index.                     *)

HeaderBlocks(i, n) == {<<part, i, n>> : part \in {"extra name", "extra value"}}

Strings(d, i) ==
  {<<s, i>> : s \in {"base_url", "url_chat", "model"} \cup d.strings}

(* url_chat is made only where base_url was copied. *)
CopiedStrings(d, i, F) ==
  LET copied == Strings(d, i) \ F
  IN  IF <<"base_url", i>> \in F THEN copied \ {<<"url_chat", i>>} ELSE copied

(* The blocks sicha_backend_free reaches: nExtra is n_extra_headers. *)
sicha_backend_free(blocks, i, nExtra) ==
  { b \in blocks :
      \/ b \in UNION {HeaderBlocks(i, n) : n \in 1..nExtra}
      \/ b[1] \notin {"extra name", "extra value"} }

(* Mutant: n_extra_headers counts the headers that are copied. *)
CountCopied(d, failing) == IF failing = 0 THEN d.nExtra ELSE failing - 1

(* n_extra_headers is set before the first header is copied, in an array of
   zeroes; failing is the header whose copy fails, or 0. *)
CountAll(d, failing) == d.nExtra

sicha_backend_init(d, i, F) ==
  LET strings == CopiedStrings(d, i, F)
      abort   == IF ~d.assist THEN {}
                 ELSE {<<"url_abort", i>>} \ (IF <<"origin", i>> \in F THEN {<<"url_abort", i>>}
                                              ELSE F)
      array   == IF d.nExtra = 0 THEN {} ELSE {<<"extra_headers", i>>} \ F
      failing == Least({n \in 1..d.nExtra : HeaderBlocks(i, n) \cap F # {}}, 0)
      copied  == UNION {HeaderBlocks(i, n) \ F :
                          n \in 1..(IF failing = 0 THEN d.nExtra ELSE failing)}
      Fails(blocks, nExtra) ==
        [st |-> "NOMEM", live |-> blocks \ sicha_backend_free(blocks, i, nExtra)]
  IN  CASE d.assist /\ abort = {} -> Fails(strings, 0)
        [] d.nExtra > 0 /\ array = {} -> Fails(strings \cup abort, 0)
        [] failing > 0 ->
             Fails(strings \cup abort \cup array \cup copied, CountAll(d, failing))
        [] strings # Strings(d, i) ->
             Fails(strings \cup abort \cup array \cup copied, d.nExtra)
        [] OTHER -> [st |-> "OK", live |-> strings \cup abort \cup array \cup copied]

-----------------------------------------------------------------------------
(* A client.  nBackends counts the backends that were made, so destroying  *)
(* a client that is only half made reaches those and no others.            *)

sicha_client_destroy(live, o, nBackends) ==
  { b \in live :
      \/ b[1] \in {"client", "backends", "overrides", "curl", "user_agent", "debug"}
      \/ \E i \in 1..nBackends :
           b \in sicha_backend_free({x \in live : Len(x) > 1 /\ x[2] = i}, i,
                                    o.backends[i].nExtra) }

(* The blocks made one behind the other once all backends are there. *)
Rest(o) ==
  (IF o.overrides THEN << <<"overrides">> >> ELSE <<>>)
  \o (IF o.curl THEN << <<"curl">> >> ELSE <<>>)
  \o << <<"user_agent">> >>

sicha_client_create(o, F) ==
  LET N     == Len(o.backends)
      made  == [i \in 1..N |-> sicha_backend_init(o.backends[i], i, F)]
      bad   == Least({i \in 1..N : made[i].st # "OK"}, 0)
      short == Least({n \in DOMAIN Rest(o) : Rest(o)[n] \in F}, 0)
      Backends(n) == UNION {made[i].live : i \in 1..n}
      Base  == {<<"client">>, <<"backends">>}
      Upto(n) == {Rest(o)[k] : k \in 1..n}
      Fails(live, n) == [st |-> "NOMEM", live |-> live \ sicha_client_destroy(live, o, n)]
  IN  CASE <<"client">> \in F -> [st |-> "NOMEM", live |-> {}]
        [] <<"client">> \notin F /\ <<"backends">> \in F -> Fails({<<"client">>}, 0)
        [] Base \cap F = {} /\ bad > 0 -> Fails(Base \cup Backends(bad), bad - 1)
        [] Base \cap F = {} /\ bad = 0 /\ short > 0 ->
             Fails(Base \cup Backends(N) \cup Upto(short - 1), N)
        [] OTHER ->    \* a debug file that cannot be opened is done without
             [st |-> "OK",
              live |-> Base \cup Backends(N) \cup Upto(Len(Rest(o))) \cup
                       (IF o.debug THEN {<<"debug">>} \ F ELSE {})]

-----------------------------------------------------------------------------
(* The pieces of a call.                                                   *)

PieceBlocks(i, nHeaders) ==
  {<<part, i, n>> : part \in {"name", "value"}, n \in 1..nHeaders} \cup {<<"array", i>>}

(* sicha_build_headers: all names and values, or none. *)
sicha_build_headers_blocks(i, nHeaders, F) ==
  LET got == PieceBlocks(i, nHeaders) \ F
  IN  IF got = PieceBlocks(i, nHeaders) THEN [st |-> "OK", live |-> got]
      ELSE [st |-> "NOMEM", live |-> {}]

Arrays == {<<"bodies">>, <<"body_lens">>, <<"headers">>, <<"n_headers">>}

(* The clean-up at done walks headers with the lengths in n_headers: it
   stops the program where there is the one array and not the other. *)
DoneReads(arrays) == <<"headers">> \in arrays => <<"n_headers">> \in arrays

(* The first reached backends of a call build their body and their headers
   before their first round trip; a piece that fails ends the call, with a
   status Engine tells (BuildErrors).  All of it is freed at the end, and the
   result is handed out. *)
CallBlocks(reached, nHeaders, F) ==
  LET arrays == Arrays \ F
      heads  == [i \in 1..reached |-> sicha_build_headers_blocks(i, nHeaders, F)]
      bad    == Least({i \in 1..reached : <<"body", i>> \in F \/ heads[i].st # "OK"}, 0)
      built  == UNION { heads[i].live \cup ({<<"body", i>>} \ F) :
                          i \in 1..(IF bad = 0 THEN reached ELSE bad) }
      freed  == UNION {PieceBlocks(i, nHeaders) \cup {<<"body", i>>} : i \in 1..reached}
  IN  IF <<"result">> \in F
      THEN [out |-> FALSE, live |-> {}, crashed |-> FALSE]
      ELSE IF arrays # Arrays
      THEN [out |-> DoneReads(arrays), live |-> {<<"result">>},
            crashed |-> ~DoneReads(arrays)]
      ELSE [out |-> TRUE,
            live |-> {<<"result">>} \cup (built \ freed), crashed |-> FALSE]
=============================================================================
