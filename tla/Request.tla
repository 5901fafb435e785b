------------------------------- MODULE Request -------------------------------
(***************************************************************************)
(* src/request.c: what a client and a request are checked for, and what is *)
(* sent.  Everything is an operator over its inputs.                       *)
(*                                                                         *)
(* Bytes are numbers, text is a sequence of them.  A URL is a sequence of  *)
(* characters, "forbidden" any that is not allowed.  A JSON text is a      *)
(* record: its kind, or "broken", and for an object the sequence of its    *)
(* keys, which may repeat.                                                 *)
(***************************************************************************)
EXTENDS Integers, Sequences, FiniteSets, SequencesExt

CONSTANTS
  Null,     \* a pointer that is NULL
  AuthRoom  \* bytes of a key the abort assist has no room for

-----------------------------------------------------------------------------
(* UTF-8.                                                                  *)

ByteIn(s, i, lo, hi) == i \in DOMAIN s /\ lo <= s[i] /\ s[i] <= hi

Continues(s, i) == ByteIn(s, i, 128, 191)

(* No overlong forms and no surrogates. *)
SecondOfThree(b) == [lo |-> IF b = 224 THEN 160 ELSE 128, hi |-> IF b = 237 THEN 159 ELSE 191]

(* No overlong forms, nothing above U+10FFFF. *)
SecondOfFour(b) == [lo |-> IF b = 240 THEN 144 ELSE 128, hi |-> IF b = 244 THEN 143 ELSE 191]

(* The length of the character at i, 0 if there is none. *)
CharLen(s, i) ==
  LET b == s[i] IN
  CASE b < 128 -> 1
    [] /\ ByteIn(s, i, 194, 223)
       /\ Continues(s, i + 1) -> 2
    [] /\ ByteIn(s, i, 224, 239)
       /\ ByteIn(s, i + 1, SecondOfThree(b).lo, SecondOfThree(b).hi)
       /\ Continues(s, i + 2) -> 3
    [] /\ ByteIn(s, i, 240, 244)
       /\ ByteIn(s, i + 1, SecondOfFour(b).lo, SecondOfFour(b).hi)
       /\ Continues(s, i + 2) /\ Continues(s, i + 3) -> 4
    [] OTHER -> 0

sicha_utf8_valid(s) ==
  LET from[i \in 1..(Len(s) + 1)] ==
        \/ i = Len(s) + 1
        \/ CharLen(s, i) > 0 /\ from[i + CharLen(s, i)]
  IN  from[1]

(* demo/chat.c: what the line editor makes of a code point. *)
utf8_encode(cp) ==
  CASE cp < 128   -> <<cp>>
    [] cp >= 128 /\ cp < 2048 -> <<192 + (cp \div 64), 128 + (cp % 64)>>
    [] cp >= 2048 /\ cp < 65536 ->
         <<224 + (cp \div 4096), 128 + ((cp \div 64) % 64), 128 + (cp % 64)>>
    [] OTHER -> <<240 + (cp \div 262144), 128 + ((cp \div 4096) % 64),
                  128 + ((cp \div 64) % 64), 128 + (cp % 64)>>

-----------------------------------------------------------------------------
(* URLs.                                                                   *)

Capitals == [H |-> "h", T |-> "t", P |-> "p", S |-> "s"]
Lower(c) == IF c \in DOMAIN Capitals THEN Capitals[c] ELSE c

prefix_ci(s, prefix) ==
  Len(s) >= Len(prefix) /\ \A n \in DOMAIN prefix : Lower(s[n]) = prefix[n]

Https == <<"h", "t", "t", "p", "s", ":", "/", "/">>
Http  == <<"h", "t", "t", "p", ":", "/", "/">>

(* The length of "https://" or "http://" in front, 0 if there is neither. *)
scheme_len(url) == IF prefix_ci(url, Https) THEN Len(Https)
                   ELSE IF prefix_ci(url, Http) THEN Len(Http) ELSE 0

sicha_url_validate(url) ==
  IF /\ url # Null
     /\ scheme_len(url) > 0
     /\ Len(url) > scheme_len(url) /\ url[scheme_len(url) + 1] # "/"
     /\ \A n \in DOMAIN url : url[n] # "forbidden"
  THEN "OK" ELSE "INVALID_ARG"

sicha_url_join(url, path) ==
  LET kept == {n \in DOMAIN url : url[n] # "/"}
  IN  SubSeq(url, 1, CHOOSE n \in kept \cup {0} : \A k \in kept : k <= n) \o path

sicha_url_origin(url) ==
  LET slashes == {n \in DOMAIN url : n > scheme_len(url) /\ url[n] = "/"}
      end     == CHOOSE n \in slashes \cup {Len(url) + 1} : \A k \in slashes : n <= k
  IN  SubSeq(url, 1, end - 1)

ChatPath == <<"/", "chat", "/", "completions">>
AbortPath == <<"/", "api", "/", "extra", "/", "abort">>

-----------------------------------------------------------------------------
(* Headers.  A name is a word in some mixture of cases, and the characters *)
(* it is made of; a value is text.                                         *)

is_token_char(b) ==
  \/ b \in (97..122) \cup (65..90) \cup (48..57)
  \/ b \in {33, 35, 36, 37, 38, 39, 42, 43, 45, 46, 94, 95, 96, 124, 126}

value_bytes_ok(v) == \A n \in DOMAIN v : ~((v[n] < 32 /\ v[n] # 9) \/ v[n] = 127)

sicha_header_name_eq(a, b) == a.word = b.word

sicha_header_validate(name, value) ==
  IF /\ name # Null /\ value # Null
     /\ name.chars # <<>>
     /\ \A n \in DOMAIN name.chars : is_token_char(name.chars[n])
     /\ value_bytes_ok(value)
  THEN "OK" ELSE "INVALID_ARG"

Generated(word) == [word |-> word, case |-> "as written", chars |-> <<65>>]

Reserved == {"Content-Type", "Accept", "User-Agent", "Content-Length", "Host",
             "Transfer-Encoding"}

(* Mutant: a name in other cases is taken for another name. *)
IsReservedAsWritten(name, haveApiKey) ==
  \E word \in Reserved \cup (IF haveApiKey THEN {"Authorization"} ELSE {}) :
    name = Generated(word)

is_reserved_header(name, haveApiKey) ==
  \E word \in Reserved \cup (IF haveApiKey THEN {"Authorization"} ELSE {}) :
    sicha_header_name_eq(name, Generated(word))

(* The headers of a request, in order. *)
sicha_build_headers(b, userAgent) ==
  << [name |-> Generated("Content-Type"), value |-> <<65>>],
     [name |-> Generated("Accept"), value |-> <<65>>],
     [name |-> Generated("User-Agent"), value |-> userAgent] >>
  \o (IF b.api_key = Null THEN <<>>
      ELSE << [name |-> Generated("Authorization"), value |-> <<66, 32>> \o b.api_key] >>)
  \o b.extra_headers

(* The wire log: the header as it is written there. *)
debug_request(headers) ==
  [n \in DOMAIN headers |-> IF sicha_header_name_eq(headers[n].name, Generated("Authorization"))
                            THEN [headers[n] EXCEPT !.value = <<42>>]
                            ELSE headers[n]]

(* The header of a logged call that the scripted transport shows a test. *)
sicha_script_call_header(headers, name) ==
  LET found == {n \in DOMAIN headers : sicha_header_name_eq(headers[n].name, name)}
  IN  IF found = {} THEN Null ELSE headers[Min(found)].value

\* snprintf cuts what it has no room for; a key that would be cut is not sent.
AbortHeaders(b) ==
  LET Cut(key) == [n \in {k \in DOMAIN key : k < AuthRoom} |-> key[n]]
  IN  << [name |-> Generated("Content-Type"), value |-> <<65>>] >>
      \o (IF b.api_key = Null \/ Len(b.api_key) >= AuthRoom THEN <<>>
          ELSE << [name |-> Generated("Authorization"), value |-> <<66, 32>> \o Cut(b.api_key)] >>)

-----------------------------------------------------------------------------
(* Backends.                                                               *)

Defaults == [connect |-> 30000, first_byte |-> 60000, idle |-> 300000, total |-> 1800000]

timeouts_resolve(t) == [k \in DOMAIN t |-> IF t[k] = 0 THEN Defaults[k] ELSE t[k]]

validate_json_object(json) == IF json.kind = "object" THEN "OK" ELSE "INVALID_ARG"

(* The checks of sicha_backend_init. *)
BackendValid(d) ==
  IF /\ d.struct_size
     /\ d.known_flags
     /\ sicha_url_validate(d.base_url) = "OK"
     /\ d.model # Null /\ d.model # <<>> /\ sicha_utf8_valid(d.model)
     /\ d.api_key # Null => d.api_key # <<>> /\ value_bytes_ok(d.api_key)
     /\ \A n \in DOMAIN d.extra_headers :
          /\ sicha_header_validate(d.extra_headers[n].name, d.extra_headers[n].value) = "OK"
          /\ ~is_reserved_header(d.extra_headers[n].name, d.api_key # Null)
     /\ d.extra_body_json # Null => validate_json_object(d.extra_body_json) = "OK"
  THEN "OK" ELSE "INVALID_ARG"

(* The checks of sicha_client_create but for those of its backends.  A transport
   and a clock are the sets of their members that are there; built tells whether
   the library has a transport of its own. *)
OptsValid(o) ==
  IF /\ o.struct_size /\ o.n_backends > 0 /\ o.policy = "OK"
     /\ IF o.transport = Null THEN o.built ELSE o.transport = {"struct_size", "perform"}
     /\ o.clock # Null => o.clock = {"now_ms", "wait_ms"}
     /\ o.user_agent # Null =>
          sicha_header_validate(Generated("User-Agent"), o.user_agent) = "OK"
  THEN "OK" ELSE "INVALID_ARG"

UserAgent(o) == IF o.user_agent = Null THEN <<115>> ELSE o.user_agent

(* What is kept of a valid description; its strings are copies. *)
Resolved(d) ==
  [url_chat  |-> sicha_url_join(d.base_url, ChatPath),
   url_abort |-> IF d.assist THEN sicha_url_join(sicha_url_origin(d.base_url), AbortPath)
                 ELSE Null,
   api_key |-> d.api_key, extra_headers |-> d.extra_headers,
   extra_body_json |-> d.extra_body_json, usage |-> d.usage,
   timeouts |-> timeouts_resolve(d.timeouts)]

-----------------------------------------------------------------------------
(* Requests.  A parameter is named by its member; numbers holds those that *)
(* are out of range (not finite, negative where that is not allowed).      *)

Params == <<"max_tokens", "temperature", "top_p", "top_k", "presence_penalty",
            "frequency_penalty">>

Roles == {"system", "user", "assistant", "tool"}

MessageValid(m) ==
  /\ m.role \in Roles
  /\ m.content # Null /\ sicha_utf8_valid(m.content)
  /\ m.tool_call_id # Null =>
       m.role = "tool" /\ m.tool_call_id # <<>> /\ sicha_utf8_valid(m.tool_call_id)

(* Mutant: raw messages are only parsed. *)
RawMessagesParsed(json) == json # Null => json.kind # "broken"

RawMessagesValid(json) == json # Null => json.kind = "array"

sicha_request_validate(r) ==
  IF /\ r.struct_size
     /\ r.known_flags
     /\ (r.messages # Null) # (r.messages_json # Null)
     /\ r.messages # Null =>
          r.messages # <<>> /\ \A n \in DOMAIN r.messages : MessageValid(r.messages[n])
     /\ r.set \cap r.out_of_range = {}
     /\ \A n \in DOMAIN r.stop :
          r.stop[n] # Null /\ r.stop[n] # <<>> /\ sicha_utf8_valid(r.stop[n])
     /\ RawMessagesValid(r.messages_json)
     /\ r.response_format_json # Null => validate_json_object(r.response_format_json) = "OK"
  THEN "OK" ELSE "INVALID_ARG"

-----------------------------------------------------------------------------
(* The body: a sequence of members, each a key and where its value is from *)
(* ("sicha" or the extra body, with the place it had there).               *)

Own(key) == [key |-> key, from |-> 0]

When(condition, key) == IF condition THEN << Own(key) >> ELSE <<>>

OwnMembers(b, r, stream) ==
  << Own("model"), Own("messages") >>
  \o When(stream, "stream")
  \o When(stream /\ b.usage, "stream_options")
  \o FlattenSeq([n \in DOMAIN Params |-> When(Params[n] \in r.set, Params[n])])
  \o When(r.stop # <<>>, "stop")
  \o When(r.response_format_json # Null, "response_format")

(* The members with none of these keys, in their order. *)
Without(members, keys) ==
  LET kept[n \in 0..Len(members)] ==
        IF n = 0 THEN <<>>
        ELSE IF members[n].key \in keys THEN kept[n - 1]
        ELSE Append(kept[n - 1], members[n])
  IN  kept[Len(members)]

(* One member of the extra body: it replaces every member of its key. *)
MergeMember(members, m) == Append(Without(members, {m.key}), m)

Entries(keys) == [n \in DOMAIN keys |-> [key |-> keys[n], from |-> n]]

MergeExtra(members, keys) == FoldLeft(MergeMember, members, Entries(keys))

(* import_json: memory is short is the same as a text that does not parse. *)
Imports(json, kind, memory) == json = Null \/ (memory /\ json.kind = kind)

(* sicha_build_chat_body; memory is false where the parser finds none. *)
sicha_build_chat_body(b, r, stream, memory) ==
  IF \/ sicha_request_validate(r) # "OK"
     \/ ~Imports(r.messages_json, "array", memory)
     \/ ~Imports(r.response_format_json, "object", memory)
  THEN [st |-> "INVALID_ARG", members |-> <<>>]
  ELSE IF b.extra_body_json # Null /\ ~memory THEN [st |-> "NOMEM", members |-> <<>>]
  ELSE [st |-> "OK",
        members |-> MergeExtra(OwnMembers(b, r, stream),
                               IF b.extra_body_json = Null THEN <<>>
                               ELSE b.extra_body_json.keys)]

-----------------------------------------------------------------------------
(* demo/chat.c: its arguments, and the backend it makes of them.           *)

Valued == {"--auto", "--demo-seconds"}

Places == <<"base_url", "model", "api_key">>

\* Words beyond the third replace it.
Position(o, word) ==
  [o EXCEPT !.n_pos = @ + 1, !.cfg[Places[IF o.n_pos < 2 THEN o.n_pos + 1 ELSE 3]] = word]

\* One turn of the loop, or of the word before it.
ArgStep(o, n) ==
  LET word == o.args[n]
  IN  CASE o.skip -> [o EXCEPT !.skip = FALSE]
        [] ~o.skip /\ word = "--kobold" -> [o EXCEPT !.cfg.kobold = TRUE]
        [] ~o.skip /\ word \in Valued /\ n < Len(o.args) ->
             [o EXCEPT !.skip = TRUE, !.cfg[word] = o.args[n + 1]]
        [] OTHER -> Position(o, word)

\* env: what the environment says of base_url, model and api_key.
ParseArgs(env, args) ==
  LET start == [args |-> args, skip |-> FALSE, n_pos |-> 0,
                cfg |-> [k \in DOMAIN env \cup {"kobold"} \cup Valued |->
                           IF k \in DOMAIN env THEN env[k]
                           ELSE IF k = "kobold" THEN FALSE ELSE Null]]
      read  == FoldLeft(ArgStep, start, [n \in DOMAIN args |-> n]).cfg
      cfg   == [read EXCEPT !.api_key = IF @ = "" THEN Null ELSE @]
  IN  [cfg |-> cfg, runs |-> cfg.base_url # Null /\ cfg.model # Null]

Infinite == -1     \* SICHA_INFINITE

make_client(cfg) ==
  [base_url |-> cfg.base_url, model |-> cfg.model, api_key |-> cfg.api_key,
   assist |-> cfg.kobold, usage |-> cfg.kobold, extra_headers |-> <<>>, extra_body_json |-> Null,
   timeouts |-> [connect |-> 10000, first_byte |-> Infinite, idle |-> 120000, total |-> 600000]]
=============================================================================
