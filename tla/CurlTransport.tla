--------------------------- MODULE CurlTransport ---------------------------
(***************************************************************************)
(* curl_perform of src/transport_curl.c: one transfer driven by libcurl's  *)
(* multi interface, its header and body callbacks, and the deadlines and   *)
(* the cancel token that the loop looks at between two calls of            *)
(* curl_multi_perform.                                                     *)
(*                                                                         *)
(* libcurl is external: within curl_multi_perform it connects, calls the   *)
(* callbacks in the order of an HTTP response and may end the transfer.    *)
(* A new connection to an https server behind an HTTP proxy is a tunnel:   *)
(* libcurl asks the proxy for it with CONNECT and, as curl_perform does    *)
(* not set CURLOPT_SUPPRESS_CONNECT_HEADERS, passes the header blocks of   *)
(* the proxy's answer to the same callback, before those of the response.  *)
(* Time passes in curl_multi_poll, at most Poll at a time; the sink's      *)
(* callbacks are taken to be quick.                                        *)
(***************************************************************************)
EXTENDS Integers

CONSTANTS
  HasToken, HasSink,
  Infinite,         \* SICHA_INFINITE
  Timeouts,         \* the sets of budgets a request may carry
  Poll,             \* the 100 ms of curl_multi_poll
  Slack,            \* the 50 ms by which libcurl's timer may be early
  DefaultConnect,   \* libcurl's own connect timeout if none is set
  MaxHeaders,       \* SICHA_MAX_HEADERS
  MaxHeaderBytes,   \* SICHA_MAX_HEADER_BYTES, for one header
  MaxHeadersBytes,  \* SICHA_MAX_HEADERS_TOTAL_BYTES
  Lengths,          \* the lengths of header fields a server sends
  MayTunnel,        \* a transfer may have to go through a proxy's tunnel
  MaxCalls,         \* bound: calls of the header and body callbacks
  MaxTime           \* bound: the clock stops here

Budget == (Nat \ {0}) \cup {Infinite}

ASSUME TimeoutAssumption ==
  /\ Infinite \notin Int
  /\ Timeouts \subseteq [connect : Budget, first_byte : Budget, idle : Budget, total : Budget]
  /\ Poll \in Nat \ {0} /\ Slack \in Nat /\ DefaultConnect \in Nat \ {0}
ASSUME LimitAssumption ==
  /\ {MaxHeaders, MaxHeaderBytes, MaxHeadersBytes, MaxCalls, MaxTime} \subseteq Nat
  /\ Lengths \subseteq Nat
  /\ {HasToken, HasSink, MayTunnel} \subseteq BOOLEAN

VARIABLES
  pc,            \* "perform", "check", "poll" or "done"
  budgets,       \* req->timeouts
  now,           \* milliseconds since start
  last_activity,
  tunnelled,     \* this transfer opens a tunnel first
  phase,         \* whose header blocks libcurl reads: "tunnel", "response", or
                 \* none any more: "body", "rejected" (the proxy refused)
  connected,     \* libcurl's connection to the server is up
  block,         \* the header block being passed, Nothing between two
  http_status,   \* of the last status line header_cb looked at
  n_headers, header_bytes,
  told,          \* status_delivered
  chunks,        \* body chunks handed over
  refused,       \* sink_aborted
  caps, oom,     \* caps_exceeded, oom
  code,          \* how libcurl ended the transfer, "none" before
  token,
  result,
  broken,        \* history: curl_multi_perform itself failed
  calls,         \* bound used
  first,         \* history: the first block that was not interim, Nothing before
  triggered      \* history: when the token was triggered

heads == <<http_status, n_headers, header_bytes>>
link  == <<tunnelled, phase, connected, block, first>>
sinkVars == <<told, chunks, refused>>
xferVars == <<last_activity, link, heads, sinkVars, caps, oom>>
vars == <<pc, budgets, now, xferVars, code, token, result, broken, calls, triggered>>

Nothing == [from |-> "none", status |-> 0, fields |-> 0]

Init ==
  /\ pc = "perform"
  /\ budgets \in Timeouts
  /\ now = 0 /\ last_activity = 0
  /\ tunnelled \in (IF MayTunnel THEN BOOLEAN ELSE {FALSE})
  /\ phase = (IF tunnelled THEN "tunnel" ELSE "response")
  /\ connected = FALSE
  /\ block = Nothing /\ first = Nothing
  /\ http_status = 0 /\ n_headers = 0 /\ header_bytes = 0
  /\ told = FALSE /\ chunks = 0 /\ refused = FALSE
  /\ caps = FALSE /\ oom = FALSE
  /\ code = "none"
  /\ token \in (IF HasToken THEN BOOLEAN ELSE {FALSE})
  /\ result = "none" /\ broken = FALSE
  /\ calls = 0
  /\ triggered = 0

Crossed(budget, since) == budget # Infinite /\ now - since >= budget

-----------------------------------------------------------------------------
(* Inside curl_multi_perform.                                              *)

Transferring == pc = "perform" /\ code = "none"

(* The tunnel, if there is one, stands before the server can be reached. *)
Connect ==
  /\ Transferring /\ ~connected
  /\ phase = "response"
  /\ connected' = TRUE
  /\ UNCHANGED <<pc, budgets, now, last_activity, tunnelled, phase, block, first, heads,
                 sinkVars, caps, oom, code, token, result, broken, calls, triggered>>

(* A callback runs; one that returns 0 makes libcurl end the transfer. *)
CallBack(ok) ==
  /\ Transferring
  /\ calls < MaxCalls
  /\ calls' = calls + 1
  /\ last_activity' = now
  /\ code' = IF ok THEN "none" ELSE "WRITE_ERROR"
  /\ UNCHANGED <<pc, budgets, now, tunnelled, connected, token, result, broken, triggered>>

InBlock == block # Nothing

(* header_cb: a status line opens a header block, whoever sent it; behind the
   first block that was no interim one it is ignored, as all lines are. *)
StatusLine(status) ==
  /\ ~InBlock
  /\ phase = "tunnel" \/ (phase = "response" /\ connected)
  /\ CallBack(TRUE)
  /\ block' = [from |-> phase, status |-> status, fields |-> 0]
  /\ IF told THEN UNCHANGED heads
     ELSE http_status' = status /\ n_headers' = 0 /\ header_bytes' = 0
  /\ UNCHANGED <<phase, first, sinkVars, caps, oom>>

(* Mutant: the cap on the number is looked at one field too late. *)
HeadersFullLate(len) ==
  \/ n_headers > MaxHeaders
  \/ len > MaxHeaderBytes
  \/ header_bytes + len > MaxHeadersBytes

(* A field of that length is one too many. *)
HeadersFull(len) ==
  \/ n_headers >= MaxHeaders
  \/ len > MaxHeaderBytes
  \/ header_bytes + len > MaxHeadersBytes

(* header_cb: a header field is copied, unless a cap or the memory is used
   up; caps_exceeded or oom is then set. *)
HeaderField(len, room) ==
  /\ InBlock
  /\ CallBack(told \/ (~HeadersFull(len) /\ room))
  /\ block' = [block EXCEPT !.fields = @ + 1]
  /\ caps' = (caps \/ (~told /\ HeadersFull(len)))
  /\ oom' = (oom \/ (~told /\ ~HeadersFull(len) /\ ~room))
  /\ IF told \/ HeadersFull(len) \/ ~room THEN UNCHANGED heads
     ELSE /\ n_headers' = n_headers + 1
          /\ header_bytes' = header_bytes + len
          /\ UNCHANGED http_status
  /\ UNCHANGED <<phase, first, sinkVars>>

(* header_cb: a line without a colon and a trailer after the body are
   ignored. *)
IgnoredLine ==
  /\ InBlock \/ phase = "body"
  /\ CallBack(TRUE)
  /\ UNCHANGED <<phase, block, first, heads, sinkVars, caps, oom>>

(* Where the connection is after the block that ends; only a 2xx of the proxy
   opens the tunnel. *)
NextPhase ==
  IF block.status = 100 THEN phase
  ELSE IF phase = "response" THEN "body"
  ELSE IF block.status = 200 THEN "response" ELSE "rejected"

(* header_cb: an empty line ends the block. *)
EndBlock(ok) ==
  /\ InBlock
  /\ CallBack(ok)
  /\ block' = Nothing
  /\ phase' = NextPhase
  /\ first' = IF first = Nothing /\ block.status # 100 THEN block ELSE first
  /\ UNCHANGED <<chunks, caps, oom>>

(* xfer_finish_headers: an interim (1xx) response is thrown away. *)
Interim ==
  /\ ~told /\ http_status = 100
  /\ EndBlock(TRUE)
  /\ n_headers' = 0 /\ header_bytes' = 0
  /\ UNCHANGED <<http_status, told, refused>>

(* xfer_finish_headers: a final header block is complete. *)
OnStatus(refuse) ==
  /\ ~told /\ http_status # 100
  /\ refuse => HasSink
  /\ EndBlock(~refuse)
  /\ told' = TRUE
  /\ refused' = refuse
  /\ UNCHANGED heads

(* The end of a block behind the one on_status was told of. *)
Unheard ==
  /\ told
  /\ EndBlock(TRUE)
  /\ UNCHANGED <<heads, told, refused>>

(* write_cb: the body of the response; libcurl keeps that of a proxy. *)
OnBody(refuse) ==
  /\ phase = "body"
  /\ refuse => HasSink
  /\ CallBack(~refuse)
  /\ chunks' = chunks + 1
  /\ refused' = refuse
  /\ UNCHANGED <<phase, block, first, heads, told, caps, oom>>

(* libcurl times out the connect phase by the budget it was given, or by its
   own if it was given none. *)
ConnectLimit == IF budgets.connect = Infinite THEN DefaultConnect ELSE budgets.connect

MayEndWith(c) ==
  /\ c \in {"COULDNT_CONNECT", "TLS", "OPERATION_TIMEDOUT"} => ~connected
  /\ c = "OPERATION_TIMEDOUT" => now + Slack >= ConnectLimit
  /\ c = "OK" => connected
  /\ c = "RECV_ERROR" => connected \/ tunnelled

(* The transfer ends by itself. *)
End(c) ==
  /\ Transferring
  /\ MayEndWith(c)
  /\ code' = c
  /\ UNCHANGED <<pc, budgets, now, xferVars, token, result, broken, calls, triggered>>

Codes == {"OK", "COULDNT_CONNECT", "TLS", "OPERATION_TIMEDOUT", "RECV_ERROR", "OUT_OF_MEMORY", "OTHER"}

-----------------------------------------------------------------------------
(* After curl_multi_perform.                                               *)

Return(ts) == pc' = "done" /\ result' = ts

Settle(ts) ==
  /\ Return(ts)
  /\ UNCHANGED <<budgets, now, xferVars, code, token, broken, calls, triggered>>

(* Mutant: a refusal by the sink is an error of libcurl's. *)
MapNoSink ==
  IF oom THEN "NOMEM" ELSE IF caps THEN "PROTOCOL"
  ELSE CASE code = "OK" -> IF told THEN "OK" ELSE "RESET"
         [] code = "COULDNT_CONNECT" -> "CONNECT"
         [] code = "OPERATION_TIMEDOUT" ->
              IF ~told /\ budgets.connect # Infinite /\ now + Slack >= budgets.connect
              THEN "TIMEOUT_CONNECT" ELSE "OTHER"
         [] code = "TLS" -> "TLS"
         [] code = "RECV_ERROR" -> "RESET"
         [] code = "OUT_OF_MEMORY" -> "NOMEM"
         [] OTHER -> "OTHER"

(* map_curl_code: what the callbacks noted comes before libcurl's code. *)
map_curl_code ==
  IF oom THEN "NOMEM" ELSE IF caps THEN "PROTOCOL" ELSE IF refused THEN "ABORTED_BY_SINK"
  ELSE CASE code = "OK" -> IF told THEN "OK" ELSE "RESET"
         [] code = "COULDNT_CONNECT" -> "CONNECT"
         [] code = "OPERATION_TIMEDOUT" ->
              IF ~told /\ budgets.connect # Infinite /\ now + Slack >= budgets.connect
              THEN "TIMEOUT_CONNECT" ELSE "OTHER"
         [] code = "TLS" -> "TLS"
         [] code = "RECV_ERROR" -> "RESET"
         [] code = "OUT_OF_MEMORY" -> "NOMEM"
         [] OTHER -> "OTHER"

(* CURLMSG_DONE *)
Finish == pc = "perform" /\ code # "none" /\ Settle(map_curl_code)

(* curl_multi_perform itself fails. *)
MultiFails(ts) ==
  /\ pc = "perform"
  /\ Return(ts)
  /\ broken' = TRUE
  /\ UNCHANGED <<budgets, now, xferVars, code, token, calls, triggered>>

(* The end of the transfer may show only after another call. *)
StillRunning ==
  /\ pc = "perform"
  /\ code \in {"none", "WRITE_ERROR"}
  /\ pc' = "check"
  /\ UNCHANGED <<budgets, now, xferVars, code, token, result, broken, calls, triggered>>

Cancelled == HasToken /\ token

(* Mutant: bytes keep a transfer alive past its total budget. *)
LateWhenQuiet ==
  IF ~told /\ Crossed(budgets.total, 0) THEN "TIMEOUT_TOTAL"
  ELSE IF ~told /\ Crossed(budgets.first_byte, 0) THEN "TIMEOUT_FIRST_BYTE"
  ELSE IF told /\ Crossed(budgets.idle, last_activity) THEN "TIMEOUT_IDLE"
  ELSE "none"

(* The sicha-owned deadlines, in the order of the code. *)
Late ==
  IF Crossed(budgets.total, 0) THEN "TIMEOUT_TOTAL"
  ELSE IF ~told /\ Crossed(budgets.first_byte, 0) THEN "TIMEOUT_FIRST_BYTE"
  ELSE IF told /\ Crossed(budgets.idle, last_activity) THEN "TIMEOUT_IDLE"
  ELSE "none"

(* Mutant: the token is looked at last. *)
VerdictWithoutToken ==
  IF oom THEN "NOMEM"
  ELSE IF caps THEN "PROTOCOL"
  ELSE IF refused THEN "ABORTED_BY_SINK"
  ELSE Late

(* Why the loop stops here, if it does. *)
Verdict ==
  IF Cancelled THEN "CANCELLED"
  ELSE IF oom THEN "NOMEM"
  ELSE IF caps THEN "PROTOCOL"
  ELSE IF refused THEN "ABORTED_BY_SINK"
  ELSE Late

Stop == pc = "check" /\ Verdict # "none" /\ Settle(Verdict)

GoOn ==
  /\ pc = "check" /\ Verdict = "none"
  /\ pc' = "poll"
  /\ UNCHANGED <<budgets, now, xferVars, code, token, result, broken, calls, triggered>>

(* curl_multi_poll: until the socket is ready, or for Poll. *)
Wait(ms) ==
  /\ pc = "poll"
  /\ now' = IF now + ms > MaxTime THEN MaxTime ELSE now + ms
  /\ pc' = "perform"
  /\ UNCHANGED <<budgets, xferVars, code, token, result, broken, calls, triggered>>

(* Another thread triggers the token. *)
Trigger ==
  /\ HasToken /\ ~token /\ pc # "done"
  /\ token' = TRUE
  /\ triggered' = now
  /\ UNCHANGED <<pc, budgets, now, xferVars, code, result, broken, calls>>

CallBacks ==
  \/ \E status \in {100, 200, 400} : StatusLine(status)
  \/ \E len \in Lengths, room \in BOOLEAN : HeaderField(len, room)
  \/ IgnoredLine \/ Interim \/ Unheard
  \/ \E refuse \in BOOLEAN : OnStatus(refuse) \/ OnBody(refuse)

Loop == Finish \/ StillRunning \/ Stop \/ GoOn

Returned == pc = "done" /\ UNCHANGED vars

Next ==
  \/ Connect \/ CallBacks \/ (\E c \in Codes : End(c)) \/ Loop
  \/ (\E ts \in {"NOMEM", "OTHER"} : MultiFails(ts))
  \/ (\E ms \in 0..Poll : Wait(ms))
  \/ Trigger \/ Returned

Spec == Init /\ [][Next]_vars

(* The loop goes round, whatever the server does, and a quiet server lets each
   poll last. *)
FairSpec == Spec /\ WF_vars(Loop) /\ WF_vars(Wait(Poll))

-----------------------------------------------------------------------------
(* Properties.                                                             *)

(* A transfer outlives none of its budgets, nor a trigger of its token, by
   more than one poll, however the bytes of the response are timed ("at
   <=100 ms ticks so cancellation and the sicha-owned deadlines stay
   responsive", transport_curl.c); and one whose bytes keep coming is not cut
   off as idle, nor one within its budgets cut off at all.  The time to the
   first byte ends with on_status; connecting, tunnel included, is libcurl's to
   time, and called late only before the server was reached. *)
EndsInTime ==
  /\ pc # "done" =>
       /\ budgets.total # Infinite => now < budgets.total + Poll
       /\ ~told /\ budgets.first_byte # Infinite => now < budgets.first_byte + Poll
       /\ told /\ budgets.idle # Infinite => now - last_activity < budgets.idle + Poll
       /\ token => now - triggered <= Poll
  /\ result = "TIMEOUT_IDLE" => told /\ Crossed(budgets.idle, last_activity)
  /\ result = "TIMEOUT_FIRST_BYTE" => ~told /\ Crossed(budgets.first_byte, 0)
  /\ result = "TIMEOUT_TOTAL" => Crossed(budgets.total, 0)
  /\ result = "TIMEOUT_CONNECT" => ~connected /\ ~told /\ Crossed(budgets.connect, -Slack)

(* The status and the headers on_status sees belong to one header block, and
   it is the first one that is not interim: all of its fields, and never more
   than the caps.  That block is the response's own - but on a new tunnel it
   is the proxy's answer to CONNECT ("Fires on_status exactly once, when the
   final (non-1xx) header block completes", transport_curl.c), and neither
   the status nor the headers of the response itself are ever heard. *)
HeadersOfFirstBlock ==
  told =>
    /\ first = [from   |-> IF tunnelled THEN "tunnel" ELSE "response",
                status |-> http_status, fields |-> n_headers]
    /\ n_headers <= MaxHeaders /\ header_bytes <= MaxHeadersBytes

(* The promise of a transport. *)
Promise == INSTANCE Transport

(* CurlTransport implements Transport. *)
ImplementsTransport == Promise!Spec

(* Without any budget a triggered token still ends the transfer. *)
TriggerEndsTransfer == token ~> pc = "done"

=============================================================================
