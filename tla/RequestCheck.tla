---------------------------- MODULE RequestCheck ----------------------------
(***************************************************************************)
(* The operators of Request and SetUp against definitions of their own: a  *)
(* behaviour asks one question and gets one answer, as in ClassifyCheck,   *)
(* whose questions are asked as well.                                      *)
(***************************************************************************)
EXTENDS ClassifyCheck, Request, Records

CONSTANTS
  ByteTexts,     \* texts validated as UTF-8
  CodePoints,    \* code points typed in the chat
  Descs,         \* backend descriptions
  Opts,          \* the options of a client besides
  Environments,  \* of the chat demo
  Arguments,     \* sequences of arguments of the chat demo
  BodyDescs,     \* those a body is built for
  Requests,      \* requests
  Chains,        \* [backends, overrides, curl, debug] records, see SetUp
  Failures,      \* sets of blocks that cannot be allocated
  Calls,         \* [reached, nHeaders] records
  Rows           \* [op, ops, F] records, see Records

(* A body is built for a backend that sicha_client_create accepted. *)
ASSUME BodyAssumption ==
  \A d \in BodyDescs :
    /\ BackendValid(d) = "OK"
    /\ d.extra_body_json # Null => d.extra_body_json.keys \in Seq(STRING)

Octet == {b \in Nat : b < 256}
CodePoint(cp) == cp \in Nat /\ cp <= 1114111

(* Bytes are bytes, words are strings; a pointer is none of these. *)
ASSUME InputAssumption ==
  /\ ByteTexts \subseteq Seq(Octet) /\ \A cp \in CodePoints : CodePoint(cp)
  /\ Null \notin STRING /\ Null \notin Seq(Octet) /\ AuthRoom \in Nat
  /\ \A e \in Environments :
       e \in [{"base_url", "model", "api_key"} -> STRING \cup {Null}]
  /\ Arguments \subseteq Seq(STRING)
  /\ \A d \in Descs :
       /\ {"api_key", "extra_headers"} \subseteq DOMAIN d
       /\ d.base_url # Null => d.base_url \in Seq(STRING)
       /\ d.api_key # Null => d.api_key \in Seq(Octet)
       /\ d.extra_headers \in Seq(Range(d.extra_headers))
       /\ \A h \in Range(d.extra_headers) :
            DOMAIN h = {"name", "value"} /\ (h.value # Null => h.value \in Seq(Octet))
  /\ \A o \in Opts : o.user_agent # Null => o.user_agent \in Seq(Octet)

Reasons == {"stop", "length", "tool_calls", "content_filter", "other"}

ASSUME MemoryAssumption ==
  /\ \A o \in Chains :
       /\ o.backends \in Seq([strings : SUBSET {"api_key", "extra_body_json"},
                              assist : BOOLEAN, nExtra : Nat])
       /\ {o.overrides, o.curl, o.debug} \subseteq BOOLEAN
  /\ \A c \in Calls : c.reached \in Nat /\ c.nHeaders \in Nat
  /\ \A w \in Rows :
       \/ w.op = "collect" /\ w.ops \in Seq({"attempt", "model", "reset"} \cup Reasons)
       \/ w.op = "script" /\ w.ops \in Seq({"push", "perform"})
       \/ w.op = "transfer" /\ w.ops \in Seq({"status", "field", "interim end"})

TextOrPointQueries == [op : {"utf8"}, text : ByteTexts] \cup [op : {"type"}, cp : CodePoints]

ByteQueries == [op : {"byte"}, b : 0..255]

BackendQueries == [op : {"backend"}, d : Descs, o : Opts]

ArgumentQueries == [op : {"arguments"}, env : Environments, args : Arguments]

BodyQueries ==
  [op : {"body"}, d : BodyDescs, r : Requests, stream : BOOLEAN, memory : BOOLEAN]

MemoryQueries ==
  [op : {"create"}, o : Chains, F : Failures] \cup [op : {"call"}, c : Calls, F : Failures]
  \cup Rows

RequestInit ==
  /\ \/ query \in TextOrPointQueries \cup ByteQueries
     \/ query \in BackendQueries \cup ArgumentQueries
     \/ query \in BodyQueries
     \/ query \in MemoryQueries
  /\ answer = <<>>

AskText8 ==
  \/ query.op = "utf8" /\ Reply(sicha_utf8_valid(query.text))
  \/ query.op = "type" /\ Reply(utf8_encode(query.cp))

AskByte == query.op = "byte" /\ Reply(is_token_char(query.b))

(* What the wire log holds of a request and an abort. *)
WireLog(b, o) ==
  debug_request(sicha_build_headers(b, UserAgent(o))) \o debug_request(AbortHeaders(b))

(* Create a client with this backend, and what a request to it, and an abort,
   is sent with and logged. *)
BackendReply(d, o) ==
  LET ok == BackendValid(d) = "OK" /\ OptsValid(o) = "OK"
      b  == IF ok THEN Resolved(d) ELSE Null
  IN  [st |-> IF ok THEN "OK" ELSE "INVALID_ARG", b |-> b,
       sent |-> IF ok THEN sicha_build_headers(b, UserAgent(o)) ELSE <<>>,
       abort |-> IF ok THEN AbortHeaders(b) ELSE <<>>,
       logged |-> IF ok THEN WireLog(b, o) ELSE <<>>]

AskBackend == query.op = "backend" /\ Reply(BackendReply(query.d, query.o))

AskArguments == query.op = "arguments" /\ Reply(ParseArgs(query.env, query.args))

AskBody ==
  /\ query.op = "body"
  /\ Reply(sicha_build_chat_body(Resolved(query.d), query.r, query.stream, query.memory))

AskMemory ==
  \/ query.op = "create" /\ Reply(sicha_client_create(query.o, query.F))
  \/ query.op = "call" /\ Reply(CallBlocks(query.c.reached, query.c.nHeaders, query.F))
  \/ query.op = "collect" /\ Reply(Collected(Content, query.ops, query.F))
  \/ query.op = "script" /\ Reply(Scripted(query.ops, 2, query.F))
  \/ query.op = "transfer" /\ Reply(Transferred(query.ops, query.F))

RequestNext == AskText8 \/ AskByte \/ AskBackend \/ AskArguments \/ AskBody \/ AskMemory

RequestSpec == RequestInit /\ [][RequestNext]_checkVars

-----------------------------------------------------------------------------
(* Well-formed UTF-8 by its numbers: a text is a row of segments, each the *)
(* shortest form of a scalar value.                                        *)

Scalar(cp) == (0 <= cp /\ cp <= 55295) \/ (57344 <= cp /\ cp <= 1114111)

LeadBits(n) == CASE n = 1 -> 0 [] n = 2 -> 192 [] n = 3 -> 224 [] n = 4 -> 240
LeadRange(n) == CASE n = 1 -> 128 [] n = 2 -> 32 [] n = 3 -> 16 [] n = 4 -> 8
SmallestOf(n) == CASE n = 1 -> 0 [] n = 2 -> 128 [] n = 3 -> 2048 [] n = 4 -> 65536

(* The number a segment spells. *)
Spelled(seg) ==
  FoldLeft(LAMBDA v, b : v * 64 + (b - 128), seg[1] - LeadBits(Len(seg)), Tail(seg))

Segment(seg) ==
  /\ seg[1] >= LeadBits(Len(seg)) /\ seg[1] < LeadBits(Len(seg)) + LeadRange(Len(seg))
  /\ \A n \in 2..Len(seg) : seg[n] >= 128 /\ seg[n] < 192
  /\ Spelled(seg) >= SmallestOf(Len(seg))
  /\ Scalar(Spelled(seg))

WellFormed(s) ==
  LET upto[n \in 0..Len(s)] ==
        n = 0 \/ \E k \in 1..4 : k <= n /\ upto[n - k] /\ Segment(SubSeq(s, n - k + 1, n))
  IN  upto[Len(s)]

(* A text passes exactly when it is well-formed UTF-8: overlong forms,
   surrogates, numbers above U+10FFFF and sequences cut at the end do not.
   The chat demo makes such a text of every code point but a surrogate, so
   a surrogate typed there is a request that is refused. *)
Utf8AsDefined ==
  /\ Answered("utf8") => (answer[1] <=> WellFormed(query.text))
  /\ Answered("type") =>
       /\ sicha_utf8_valid(answer[1]) <=> Scalar(query.cp)
       /\ Spelled(answer[1]) = query.cp

-----------------------------------------------------------------------------
(* The words that are the value of the option before them. *)
OptionValues(args) ==
  LET value[n \in 0..Len(args)] == n > 1 /\ args[n - 1] \in Valued /\ ~value[n - 1]
  IN  value

IsOption(args, n) == args[n] = "--kobold" \/ (args[n] \in Valued /\ n < Len(args))

Positionals(args) == {n \in DOMAIN args : ~OptionValues(args)[n] /\ ~IsOption(args, n)}

(* What the n-th of them says, or the environment where there are fewer. *)
Said(args, n, env) ==
  LET P == Positionals(args)
  IN  IF Cardinality(P) < n THEN env
      ELSE args[CHOOSE m \in P : Cardinality({k \in P : k <= m}) = n]

(* "positionals override env, in order: base_url, model, api_key" (chat.c): the
   words that are no option and no option's value; an option that wants a value
   and is the last word is such a word too.  An empty key is none, so the client
   is not refused for it, and a demo that starts has a URL and a model. *)
ArgumentsAsDocumented ==
  Answered("arguments") =>
    LET args == query.args
        env == query.env
        key == Said(args, Max({3, Cardinality(Positionals(args))}), env.api_key)
        cfg == answer[1].cfg
        d   == make_client(cfg)
    IN  /\ cfg.base_url = Said(args, 1, env.base_url)
        /\ cfg.model = Said(args, 2, env.model)
        /\ cfg.api_key = IF key = "" THEN Null ELSE key
        /\ answer[1].runs <=> Null \notin {d.base_url, d.model}
        /\ cfg.kobold <=> \E n \in DOMAIN args : ~OptionValues(args)[n] /\ args[n] = "--kobold"
        /\ d.assist <=> cfg.kobold
        /\ \A n \in DOMAIN args : OptionValues(args)[n] => \E k \in Valued : cfg[k] # Null

-----------------------------------------------------------------------------
(* A token character by RFC 7230: visible, and no delimiter. *)
Delimiters == {34, 40, 41, 44, 47, 58, 59, 60, 61, 62, 63, 64, 91, 92, 93, 123, 125}

(* A URL up to its third slash; the host is behind the second. *)
SlashesTo(url, n) == Cardinality({k \in 1..n : url[k] = "/"})
Origin(url) == SubSeq(url, 1, Max({n \in 0..Len(url) : SlashesTo(url, n) <= 2}))

Clean(v) == \A n \in DOMAIN v : v[n] = 9 \/ (v[n] >= 32 /\ v[n] # 127)

Holds(text, part) ==
  \E n \in 0..(Len(text) - Len(part)) : SubSeq(text, n + 1, n + Len(part)) = part

(* A description with every secret starred out: the key, and the values of
   Authorization headers of one's own, in whatever cases these are written. *)
Stars(v) == [n \in DOMAIN v |-> 42]
StarredHeaders(xs) ==
  [n \in DOMAIN xs |-> IF xs[n].name.word # "Authorization" THEN xs[n]
                       ELSE [xs[n] EXCEPT !.value = Stars(@)]]
Starred(d) ==
  [d EXCEPT !.api_key = IF @ = Null THEN Null ELSE Stars(@),
            !.extra_headers = StarredHeaders(@)]

(* What a client accepts can be sent: request and abort go to the host of
   the base URL, whose scheme may be in any case, with one slash at the seam
   however many it ended in; the headers sicha generates come once, whatever
   cases the extra ones are written in, and nothing in them ends the line;
   names are tokens; what is typed is UTF-8, and so is what is let through.  A
   log of the call shows the three that are always there whatever cases it is
   asked in.  The key is sent in whole and "never written to any log"
   (sicha.h:120): the log is what it would be with the secrets starred out. *)
Sendable ==
  /\ Utf8AsDefined
  /\ ArgumentsAsDocumented
  /\ Answered("byte") => (answer[1] <=> query.b \in 33..126 \ Delimiters)
  /\ Answered("backend") /\ answer[1].st = "OK" =>
       LET b    == answer[1].b
           sent == answer[1].sent
           base == query.d.base_url
           kept == Len(b.url_chat) - Len(ChatPath)
       IN  /\ \E n \in DOMAIN Origin(base) : SlashesTo(base, n) = 2 /\ base[n] # "/"
           /\ Origin(b.url_chat) = Origin(base)
           /\ SubSeq(b.url_chat, kept + 1, Len(b.url_chat)) = ChatPath
           /\ IsPrefix(SubSeq(b.url_chat, 1, kept), base)
           /\ b.url_chat[kept] # "/"
           /\ \A n \in (kept + 1)..Len(base) : base[n] = "/"
           /\ query.d.assist => b.url_abort = Origin(base) \o AbortPath
           /\ \A j, k \in DOMAIN sent :
                /\ Clean(sent[k].value) /\ sent[k].name.chars # <<>>
                /\ k <= 3 + (IF query.d.api_key = Null THEN 0 ELSE 1) /\ j # k =>
                     sent[j].name.word # sent[k].name.word
           /\ \A k \in 1..3 : sicha_script_call_header(sent, [sent[k].name EXCEPT !.case = "upper"])
                              = sent[k].value
           /\ answer[1].logged = WireLog(Resolved(Starred(query.d)), query.o)
           /\ query.d.api_key # Null =>
                \A h \in Range(sent \o answer[1].abort) :
                  h.name.word = "Authorization" => Holds(h.value, query.d.api_key)

-----------------------------------------------------------------------------
KeyAt(members, key) == {n \in DOMAIN members : members[n].key = key}

ExtraKeys == IF query.d.extra_body_json = Null THEN <<>> ELSE query.d.extra_body_json.keys

(* "Complete: after this passes, body building can only fail on OOM" (the
   comment on sicha_request_validate): a request that passed is sent where
   memory suffices.  A body holds each key once, though the extra body may
   name it, also twice: the last one there wins, and the members it does not
   name stay as the request has them, before it and in their order. *)
BodyAsAsked ==
  Answered("body") =>
    LET body == answer[1]
        own  == OwnMembers(Resolved(query.d), query.r, query.stream)
        left == {n \in DOMAIN own : \A k \in DOMAIN ExtraKeys : ExtraKeys[k] # own[n].key}
    IN  /\ query.memory => (body.st = "OK") = (sicha_request_validate(query.r) = "OK")
        /\ body.st = "OK" =>
             /\ \A m, n \in DOMAIN body.members :
                  body.members[m].key = body.members[n].key => m = n
             /\ \A n \in DOMAIN ExtraKeys :
                  (\A k \in (n + 1)..Len(ExtraKeys) : ExtraKeys[k] # ExtraKeys[n]) =>
                     \E m \in KeyAt(body.members, ExtraKeys[n]) : body.members[m].from = n
             /\ \A n \in left :
                  LET place == Cardinality({k \in left : k <= n})
                  IN  place \in DOMAIN body.members /\ body.members[place] = own[n]

-----------------------------------------------------------------------------
(* What was done last, of these kinds and since a reset; 0 if nothing was. *)
Latest(done, kinds) ==
  Max({0} \cup {k \in DOMAIN done : /\ query.ops[k] \in kinds /\ done[k]
                                   /\ \A j \in k..Len(done) : query.ops[j] # "reset"})

Succeeded(done, kind) == {k \in DOMAIN done : query.ops[k] = kind /\ done[k]}

(* The list of these, first to last. *)
Listed(list, those) ==
  /\ Range(list) = those
  /\ \A j, k \in DOMAIN list : j < k => list[j] < list[k]

Blocks(list, BlocksOf(_)) == UNION {BlocksOf(list.items[k]) : k \in DOMAIN list.items}

(* What is collected one by one is what was added, in order, and owns the blocks
   it lives from: an operation that fails for want of memory leaves no trace, and
   nothing is left when the whole is destroyed. *)
CollectionsHold ==
  /\ Answered("collect") /\ answer[1].live # {} =>
       LET r == answer[1] IN
       /\ Listed(r.attempts.items, Succeeded(r.done, "attempt"))
       /\ r.model = Latest(r.done, {"model"})
       /\ r.finish_raw = Latest(r.done, Reasons)
       /\ r.finish = IF r.finish_raw = 0 \/ query.ops[r.finish_raw] = "other" THEN "unknown"
                     ELSE query.ops[r.finish_raw]
       /\ sicha_result_destroy(r) = {}
       /\ r.live \ Content = {<<"result">>} \cup ArrayOf("attempts", r.attempts)
                             \cup Named("model", r.model) \cup Named("finish_raw", r.finish_raw)
                             \cup Blocks(r.attempts, AttemptBlocks)
  /\ Answered("script") =>
       LET s == answer[1]
           Response(i) == {<<"response body", i>>} \cup CopyBlocks("response", i, s.n)
           Call(i) == CallStrings(i) \cup CopyBlocks("call", i, s.n)
           pushed == Succeeded(s.done, "push")
           played == pushed \ Range(s.queue.items)
       IN  /\ Listed(s.calls.items, Succeeded(s.done, "perform"))
           /\ Listed(s.queue.items, pushed \ played)
           /\ \A p \in played, q \in pushed \ played : p < q
           /\ Len(s.calls.items) >= Cardinality(played)
           /\ sicha_script_destroy(s) = {}
           /\ s.live = {<<"script">>} \cup ArrayOf("queue", s.queue) \cup ArrayOf("calls", s.calls)
                       \cup Blocks(s.queue, Response) \cup Blocks(s.calls, Call)
  /\ Answered("transfer") =>
       LET x == answer[1]
           begun == Max({0} \cup {k \in DOMAIN x.done : query.ops[k] # "field"})
       IN  /\ Listed(x.headers, {k \in Succeeded(x.done, "field") : k > begun})
           /\ x.live = UNION {Field(k) : k \in Range(x.headers)}
           /\ xfer_free_headers(x).live = {}
  /\ query.op \in {"collect", "script", "transfer"} /\ answer # <<>> /\ query.F = {} =>
       \A k \in DOMAIN answer[1].done : answer[1].done[k]

(* The blocks a client of o owns. *)
Owned(o) ==
  {<<"client">>, <<"backends">>, <<"user_agent">>}
  \cup (IF o.overrides THEN {<<"overrides">>} ELSE {})
  \cup (IF o.curl THEN {<<"curl">>} ELSE {})
  \cup UNION { Strings(o.backends[i], i)
               \cup (IF o.backends[i].assist THEN {<<"url_abort", i>>} ELSE {})
               \cup (IF o.backends[i].nExtra > 0 THEN {<<"extra_headers", i>>} ELSE {})
               \cup UNION {HeaderBlocks(i, n) : n \in 1..o.backends[i].nExtra}
                 : i \in DOMAIN o.backends }

(* Wherever memory runs short while a client is made, nothing of it stays
   allocated, and a client that is handed out is whole and goes as a whole.
   A call keeps nothing but its result, and hands it out ("On every return
   except SICHA_E_INVALID_ARG (and a NOMEM so early the result itself could
   not be allocated) *out receives a result", sicha.h:605) - but for one
   set-up: with an array of headers and none of their lengths the clean-up
   reads through a null pointer. *)
FailuresLeaveNothing ==
  /\ CollectionsHold
  /\ Answered("create") =>
       LET o == query.o IN
       IF answer[1].st = "OK"
       THEN /\ answer[1].live \ {<<"debug">>} = Owned(o)
            /\ answer[1].live \subseteq
                 sicha_client_destroy(answer[1].live, o, Len(o.backends))
       ELSE answer[1].live = {} /\ query.F # {}
  /\ Answered("call") =>
       /\ answer[1].live \subseteq {<<"result">>}
       /\ answer[1].crashed <=> /\ <<"result">> \notin query.F
                                /\ <<"headers">> \notin query.F
                                /\ <<"n_headers">> \in query.F
       /\ ~answer[1].crashed => answer[1].out = (<<"result">> \notin query.F)
=============================================================================
