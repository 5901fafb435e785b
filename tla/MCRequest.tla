------------------------------ MODULE MCRequest ------------------------------
(* The questions of RequestCheck: bytes on both sides of every boundary,    *)
(* descriptions and requests that are good but for one thing, and up to     *)
(* two blocks that cannot be allocated.                                    *)
EXTENDS RequestCheck, MCClassify

MCBytes == {0, 65, 127, 128, 143, 144, 159, 160, 191, 192, 193, 194, 223, 224, 225, 236, 237,
            238, 239, 240, 243, 244, 245, 255}

MCByteTexts ==
  UNION {[1..n -> MCBytes] : n \in 0..3}
  \cup { <<a>> \o t : a \in {65, 224, 237, 240, 241, 243, 244, 245},
                      t \in [1..3 -> {65, 128, 143, 144, 159, 160, 191, 192}] }
  \cup { <<a, 144, 128, 128, b>> : a \in {240, 244}, b \in MCBytes }

MCCodePoints ==
  {0, 65, 127, 128, 2047, 2048, 4095, 4096, 55295, 55296, 57343, 57344, 65535, 65536, 262143,
   262144, 1114111}

-----------------------------------------------------------------------------
Word(word, case) == [word |-> word, case |-> case, chars |-> <<88>>]

Extra(name, value) == << [name |-> name, value |-> value] >>

MCSchemes ==
  {Http, Https, <<"H", "T", "t", "P", "S", ":", "/", "/">>, SubSeq(Https, 1, 7), Tail(Http),
   <<"h", "t", "t", "p", "S", "S", ":", "/", "/">>, <<"forbidden">> \o Http}

MCUrls ==
  {s \o rest : s \in MCSchemes,
               rest \in UNION {[1..n -> {"a", "/"}] : n \in 0..5} \cup {<<"a", "forbidden">>}}

MCHeaders ==
  {<<>>, Extra(Null, <<65>>), Extra(Word("X-Title", "as written"), Null),
   Extra([Word("X-Title", "as written") EXCEPT !.chars = <<>>], <<65>>),
   Extra([Word("X-Title", "as written") EXCEPT !.chars = <<88, 58>>], <<65>>)}
  \cup {Extra(Word("X-Title", "as written"), v) : v \in {<<65, 9, 200>>, <<65, 10>>, <<127>>}}
  \cup {Extra(Generated(w), <<65>>) : w \in {"Accept", "Authorization"}}
  \cup {Extra(Word(w, "upper"), <<65>>) :
          w \in {"Content-Type", "Accept", "User-Agent", "Authorization", "Host"}}

Extras == {Null, [kind |-> "broken", keys |-> <<>>], [kind |-> "array", keys |-> <<>>]}
  \cup { [kind |-> "object", keys |-> k] :
           k \in {<<>>, <<"stream", "min_p">>, <<"min_p", "top_k", "min_p">>,
                  <<"model", "model", "messages">>} }

GoodDesc ==
  [struct_size |-> TRUE, known_flags |-> TRUE,
   base_url |-> Https \o <<"a", "/", "a", "/">>,
   model |-> <<109>>, api_key |-> <<107>>, extra_headers |-> <<>>, extra_body_json |-> Null,
   assist |-> TRUE, usage |-> TRUE,
   timeouts |-> [connect |-> 0, first_byte |-> 5, idle |-> 0, total |-> 9]]

MCDescs ==
  {[GoodDesc EXCEPT !.struct_size = FALSE], [GoodDesc EXCEPT !.known_flags = FALSE],
   [GoodDesc EXCEPT !.base_url = Null], [GoodDesc EXCEPT !.usage = FALSE]}
  \cup {[GoodDesc EXCEPT !.base_url = u, !.assist = a] : u \in MCUrls, a \in BOOLEAN}
  \cup {[GoodDesc EXCEPT !.model = m] : m \in {Null, <<>>, <<255>>}}
  \cup {[GoodDesc EXCEPT !.extra_headers = h, !.api_key = k] :
          h \in MCHeaders, k \in {Null, <<>>, <<107>>, <<107, 13>>, <<107, 108, 109, 110>>}}
  \cup {[GoodDesc EXCEPT !.extra_body_json = e] : e \in Extras}

GoodOpts ==
  [struct_size |-> TRUE, n_backends |-> 1, policy |-> "OK", built |-> TRUE,
   transport |-> Null, clock |-> Null, user_agent |-> Null]

MCOpts ==
  {GoodOpts, [GoodOpts EXCEPT !.struct_size = FALSE], [GoodOpts EXCEPT !.n_backends = 0],
   [GoodOpts EXCEPT !.policy = "INVALID_ARG"], [GoodOpts EXCEPT !.built = FALSE]}
  \cup {[GoodOpts EXCEPT !.transport = t] :
          t \in {{"struct_size", "perform"}, {"struct_size"}, {"perform"}}}
  \cup {[GoodOpts EXCEPT !.clock = c] : c \in {{"now_ms", "wait_ms"}, {"now_ms"}, {"wait_ms"}}}
  \cup {[GoodOpts EXCEPT !.user_agent = u] : u \in {<<>>, <<65, 9>>, <<65, 10>>, <<13>>}}

MCEnvironments ==
  [base_url : {Null, "env url"}, model : {Null, "env model"}, api_key : {Null, "", "env key"}]

MCArguments ==
  UNION {[1..n -> {"--kobold", "--auto", "--demo-seconds", "", "one", "two"}] : n \in 0..4}

MCBodyDescs ==
  {[GoodDesc EXCEPT !.usage = FALSE]}
  \cup {[GoodDesc EXCEPT !.extra_body_json = e] : e \in {x \in Extras : x = Null \/ x.kind = "object"}}

-----------------------------------------------------------------------------
Says(role, content) == [role |-> role, content |-> content, tool_call_id |-> Null]
Tool(id) == [role |-> "tool", content |-> <<116>>, tool_call_id |-> id]

GoodRequest ==
  [struct_size |-> TRUE, known_flags |-> TRUE,
   messages |-> << Says("system", <<>>), Says("user", <<0, 65>>), Tool(<<105>>) >>,
   messages_json |-> Null, set |-> {"top_p", "max_tokens", "top_k"}, out_of_range |-> {"top_p"},
   stop |-> << <<46>> >>, response_format_json |-> Null]

Json(kind) == [kind |-> kind, keys |-> <<>>]

MCRequests ==
  LET good == [GoodRequest EXCEPT !.out_of_range = {"temperature"}]
  IN  {GoodRequest, good}
      \cup {[good EXCEPT !.struct_size = FALSE], [good EXCEPT !.known_flags = FALSE]}
      \cup {[good EXCEPT !.messages = m, !.messages_json = j] :
              m \in {Null, good.messages}, j \in {Null} \cup {Json(k) : k \in {"array", "object", "broken"}}}
      \cup {[good EXCEPT !.messages = m] :
              m \in {<<>>, <<Says("nobody", <<65>>)>>, <<Says("user", Null)>>,
                     <<Says("user", <<192>>)>>, <<Tool(<<>>)>>, <<Tool(<<255>>)>>,
                     <<[Says("user", <<65>>) EXCEPT !.tool_call_id = <<105>>]>>}}
      \cup {[good EXCEPT !.stop = s] : s \in {<<>>, <<Null>>, << <<>> >>, << <<46>>, <<128>> >>}}
      \cup {[good EXCEPT !.set = {}],
            [good EXCEPT !.set = {Params[n] : n \in DOMAIN Params}, !.out_of_range = {}]}
      \cup {[good EXCEPT !.response_format_json = Json(k)] : k \in {"object", "array", "broken"}}

-----------------------------------------------------------------------------
Part(strings, assist, nExtra) ==
  [strings |-> strings, assist |-> assist, nExtra |-> nExtra]

MCChains ==
  [backends : {<<Part({"api_key", "extra_body_json"}, TRUE, 2)>>,
               <<Part({"api_key"}, FALSE, 1), Part({}, TRUE, 1)>>,
               <<Part({}, FALSE, 0)>>},
   overrides : BOOLEAN, curl : BOOLEAN, debug : BOOLEAN]

MCCalls == [reached : 0..2, nHeaders : {3}]

AnyOf(blocks) == {{}} \cup {{a, b} : a, b \in blocks}

MCFailures ==
  AnyOf(UNION {Owned(o) : o \in MCChains} \cup {<<"debug">>, <<"origin", 1>>, <<"origin", 2>>})
  \cup SUBSET ({<<"result">>} \cup Arrays)
  \cup AnyOf({<<"body", 1>>, <<"body", 2>>} \cup PieceBlocks(1, 3) \cup PieceBlocks(2, 3))

-----------------------------------------------------------------------------
(* Rows of operations, long enough for two doublings, each with every block  *)
(* it may ask for missing.                                                   *)
Often(n, op) == [k \in 1..n |-> op]

RowsOf(op, ops, blocks) ==
  {[op |-> op, ops |-> o, F |-> F] : o \in ops, F \in {{}} \cup {{b} : b \in blocks}}

CollectBlocks(n) ==
  {<<"result">>} \cup {<<"attempts", cap>> : cap \in {4, 8, 16}}
  \cup UNION {AttemptBlocks(i) \cup Named("model", i) \cup Named("finish_raw", i) : i \in n}

ScriptBlocks(n) ==
  {<<list, cap>> : list \in {"queue", "calls"}, cap \in {8, 16}}
  \cup UNION {CallStrings(i) \cup CopyBlocks("call", i, 2) \cup {<<"response body", i>>}
              \cup CopyBlocks("response", i, 2) : i \in n}

TransferRows == UNION {[1..n -> {"status", "field", "interim end"}] : n \in 1..5}

MCRows ==
  RowsOf("collect", UNION {[1..n -> {"attempt", "model", "stop", "other", "reset"}] : n \in 0..3},
         CollectBlocks(1..3))
  \cup RowsOf("collect", {<<r, "model", "reset">> \o Often(9, "attempt") :
                            r \in {"length", "tool_calls", "content_filter"}},
              CollectBlocks({1, 2, 8, 12}))
  \cup RowsOf("script", UNION {[1..n -> {"push", "perform"}] : n \in 0..4}, ScriptBlocks(2..3))
  \cup RowsOf("script", {Often(9, "push") \o Often(10, "perform"), Often(9, "perform")},
              ScriptBlocks({1, 9, 18}))
  \cup RowsOf("transfer", {ops \in TransferRows : ops[1] = "status"
                            /\ \A k \in 2..Len(ops) : ops[k - 1] = "interim end"
                                                        => ops[k] = "status"},
              UNION {Field(i) : i \in 2..5})
=============================================================================
