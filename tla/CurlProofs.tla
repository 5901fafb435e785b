----------------------------- MODULE CurlProofs -----------------------------
(***************************************************************************)
(* Proofs about the libcurl transport: about one transfer (CurlTransport), *)
(* for every budget, poll, cap and server, and about the handles that      *)
(* transfers share (CurlPool), for any number of calls, handles and slots. *)
(***************************************************************************)
EXTENDS CurlTransport, CurlPool, FiniteSetTheorems, TLAPS

Statuses ==
  {"OK", "CONNECT", "TLS", "TIMEOUT_CONNECT", "TIMEOUT_FIRST_BYTE", "TIMEOUT_IDLE",
   "TIMEOUT_TOTAL", "RESET", "PROTOCOL", "NOMEM", "OTHER", "CANCELLED", "ABORTED_BY_SINK"}

Block == [from : {"none", "tunnel", "response"}, status : {0, 100, 200, 400}, fields : Nat]

(* The values the variables of a transfer may take. *)
TypeOK ==
  /\ pc \in {"perform", "check", "poll", "done"}
  /\ budgets \in [connect : Budget, first_byte : Budget, idle : Budget, total : Budget]
  /\ now \in Nat /\ now <= MaxTime
  /\ last_activity \in 0..now
  /\ n_headers \in Nat /\ header_bytes \in Nat /\ chunks \in Nat /\ calls \in Nat
  /\ tunnelled \in BOOLEAN /\ connected \in BOOLEAN
  /\ phase \in {"tunnel", "response", "body", "rejected"}
  /\ block \in Block /\ first \in Block
  /\ told \in BOOLEAN /\ refused \in BOOLEAN /\ caps \in BOOLEAN /\ oom \in BOOLEAN
  /\ code \in Codes \cup {"none", "WRITE_ERROR"}
  /\ token \in BOOLEAN /\ broken \in BOOLEAN
  /\ result \in Statuses \cup {"none"}
  /\ triggered \in 0..now

(* A loop that waits has just looked at every deadline and at the token; since
   then at most one wait has passed. *)
TimeInv ==
  /\ pc = "poll" =>
       /\ budgets.total # Infinite => now < budgets.total
       /\ ~told /\ budgets.first_byte # Infinite => now < budgets.first_byte
       /\ told /\ budgets.idle # Infinite => now - last_activity < budgets.idle
       /\ token => triggered = now
  /\ pc # "done" =>
       /\ budgets.total # Infinite => now < budgets.total + Poll
       /\ ~told /\ budgets.first_byte # Infinite => now < budgets.first_byte + Poll
       /\ told /\ budgets.idle # Infinite => now - last_activity < budgets.idle + Poll
       /\ token => now - triggered <= Poll
       /\ result = "none" /\ ~broken
  /\ token => HasToken

(* A timeout that is reported has its budget behind it. *)
CauseInv ==
  /\ result = "TIMEOUT_IDLE" => told /\ Crossed(budgets.idle, last_activity)
  /\ result = "TIMEOUT_FIRST_BYTE" => ~told /\ Crossed(budgets.first_byte, 0)
  /\ result = "TIMEOUT_TOTAL" => Crossed(budgets.total, 0)
  /\ result = "TIMEOUT_CONNECT" => ~connected /\ ~told /\ Crossed(budgets.connect, -Slack)

(* Header blocks come from the tunnel or the server, and a connect phase that
   timed out never reached the server. *)
LinkInv ==
  /\ InBlock => phase \in {"tunnel", "response"}
  /\ connected => phase \in {"response", "body"}
  /\ code = "OPERATION_TIMEDOUT" => ~connected

(* Whose blocks come before any other that is not interim. *)
FirstFrom == IF tunnelled THEN "tunnel" ELSE "response"

(* header_cb keeps the block libcurl passes, field by field, until one is
   complete that is not interim; a callback that fails is the last one. *)
HeadInv ==
  /\ caps \/ oom => ~told /\ code # "none"
  /\ ~told => /\ first = Nothing
              /\ phase = FirstFrom
              /\ InBlock => block.from = FirstFrom /\ block.status = http_status
              /\ InBlock /\ ~caps /\ ~oom => block.fields = n_headers
  /\ told => first = [from |-> FirstFrom, status |-> http_status, fields |-> n_headers]
  /\ n_headers <= MaxHeaders /\ header_bytes <= MaxHeadersBytes
  /\ refused => told /\ HasSink /\ code # "none"

IInv == TypeOK /\ TimeInv /\ LinkInv /\ CauseInv /\ HeadInv

-----------------------------------------------------------------------------
(* The steps: those of libcurl's callbacks seen as one.                    *)

(* Nothing a deadline is measured by changes but the last activity. *)
CallStep ==
  /\ pc = "perform" /\ code = "none"
  /\ code' \in {"none", "WRITE_ERROR"}
  /\ last_activity' = now
  /\ n_headers' \in Nat /\ header_bytes' \in Nat /\ chunks' \in Nat /\ calls' \in Nat
  /\ phase' \in {"tunnel", "response", "body", "rejected"}
  /\ block' \in Block /\ first' \in Block
  /\ told' \in BOOLEAN /\ refused' \in BOOLEAN /\ caps' \in BOOLEAN /\ oom' \in BOOLEAN
  /\ told => told'
  /\ UNCHANGED <<pc, budgets, now, tunnelled, connected, token, result, broken, triggered>>

LEMMA CallBackType ==
  ASSUME TypeOK, NEW ok \in BOOLEAN, CallBack(ok)
  PROVE  /\ pc = "perform" /\ code = "none" /\ code' \in {"none", "WRITE_ERROR"}
         /\ last_activity' = now /\ calls' \in Nat
         /\ UNCHANGED <<pc, budgets, now, tunnelled, connected, token, result, broken, triggered>>
BY DEF CallBack, Transferring, TypeOK

LEMMA EndBlockType ==
  ASSUME TypeOK, NEW ok \in BOOLEAN, EndBlock(ok)
  PROVE  /\ CallBack(ok)
         /\ phase' \in {"tunnel", "response", "body", "rejected"}
         /\ block' \in Block /\ first' \in Block
         /\ UNCHANGED <<chunks, caps, oom>>
<1>1. Nothing \in Block
  BY DEF Nothing, Block
<1> QED BY <1>1 DEF EndBlock, NextPhase, TypeOK

LEMMA CallBackSteps ==
  ASSUME TypeOK, CallBacks
  PROVE  CallStep
<1> USE LimitAssumption
<1>1. ASSUME NEW status \in {100, 200, 400}, StatusLine(status) PROVE CallStep
  <2>1. block' \in Block
    BY <1>1 DEF StatusLine, Block
  <2>2. n_headers' \in Nat /\ header_bytes' \in Nat
    BY <1>1 DEF StatusLine, TypeOK, heads
  <2>3. UNCHANGED <<phase, first, told, chunks, refused, caps, oom>> /\ CallBack(TRUE)
    BY <1>1 DEF StatusLine, sinkVars
  <2>4. /\ pc = "perform" /\ code = "none" /\ code' \in {"none", "WRITE_ERROR"}
        /\ last_activity' = now /\ calls' \in Nat
        /\ UNCHANGED <<pc, budgets, now, tunnelled, connected, token, result, broken, triggered>>
    BY <2>3, CallBackType
  <2> HIDE LimitAssumption
  <2> QED BY <2>1, <2>2, <2>3, <2>4 DEF CallStep, TypeOK
<1>2. ASSUME NEW len \in Lengths, NEW room \in BOOLEAN, HeaderField(len, room) PROVE CallStep
  <2>1. CallBack(told \/ (~HeadersFull(len) /\ room))
    BY <1>2 DEF HeaderField
  <2>2. (told \/ (~HeadersFull(len) /\ room)) \in BOOLEAN
    BY DEF TypeOK
  <2>3. n_headers' \in Nat /\ header_bytes' \in Nat
    BY <1>2 DEF HeaderField, TypeOK, heads
  <2>4. caps' \in BOOLEAN /\ oom' \in BOOLEAN
    BY <1>2, Zenon DEF HeaderField
  <2>5. block' \in Block
    BY <1>2 DEF HeaderField, TypeOK, Block
  <2>6. UNCHANGED <<phase, first, told, chunks, refused>>
    BY <1>2 DEF HeaderField, sinkVars
  <2> HIDE LimitAssumption
  <2> QED BY <2>1, <2>2, <2>3, <2>4, <2>5, <2>6, CallBackType DEF CallStep, TypeOK
<1>3. CASE IgnoredLine
  <2>1. CallBack(TRUE)
    BY <1>3 DEF IgnoredLine
  <2> QED BY <1>3, <2>1, CallBackType DEF CallStep, IgnoredLine, TypeOK, heads, sinkVars
<1>4. CASE Interim \/ Unheard
  <2>1. CASE Interim
    <3>1. EndBlock(TRUE) /\ n_headers' = 0 /\ header_bytes' = 0 /\ UNCHANGED <<told, refused>>
      BY <2>1 DEF Interim
    <3>2. CallBack(TRUE)
      BY <3>1 DEF EndBlock
    <3> QED BY <3>1, <3>2, EndBlockType, CallBackType DEF CallStep, TypeOK
  <2>2. CASE Unheard
    <3>1. EndBlock(TRUE) /\ UNCHANGED <<n_headers, header_bytes, told, refused>>
      BY <2>2 DEF Unheard, heads
    <3>2. CallBack(TRUE)
      BY <3>1 DEF EndBlock
    <3> QED BY <3>1, <3>2, EndBlockType, CallBackType DEF CallStep, TypeOK
  <2> QED BY <1>4, <2>1, <2>2
<1>5. ASSUME NEW refuse \in BOOLEAN, OnStatus(refuse) PROVE CallStep
  <2>1. EndBlock(~refuse) /\ told' = TRUE /\ refused' = refuse /\ UNCHANGED heads
    BY <1>5 DEF OnStatus
  <2>2. CallBack(~refuse)
    BY <2>1 DEF EndBlock
  <2> QED BY <2>1, <2>2, EndBlockType, CallBackType DEF CallStep, TypeOK, heads
<1>6. ASSUME NEW refuse \in BOOLEAN, OnBody(refuse) PROVE CallStep
  <2>1. /\ CallBack(~refuse) /\ chunks' = chunks + 1 /\ refused' = refuse
        /\ UNCHANGED <<phase, block, first, n_headers, header_bytes, told, caps, oom>>
    BY <1>6 DEF OnBody, heads
  <2>2. /\ pc = "perform" /\ code = "none" /\ code' \in {"none", "WRITE_ERROR"}
        /\ last_activity' = now /\ calls' \in Nat
        /\ UNCHANGED <<pc, budgets, now, tunnelled, connected, token, result, broken, triggered>>
    BY <2>1, CallBackType
  <2> HIDE LimitAssumption
  <2> QED BY <2>1, <2>2 DEF CallStep, TypeOK
<1> QED BY <1>1, <1>2, <1>3, <1>4, <1>5, <1>6 DEF CallBacks

(* What the loop says when it stops is a status of a transport. *)
LEMMA VerdictType ==
  /\ map_curl_code \in Statuses
  /\ Verdict \in Statuses \cup {"none"}
BY DEF map_curl_code, Verdict, Late, Statuses

LEMMA TypeStep ==
  ASSUME TypeOK, [Next]_vars
  PROVE  TypeOK'
<1> USE TimeoutAssumption, LimitAssumption
<1>1. CASE CallBacks
  BY <1>1, CallBackSteps DEF CallStep, TypeOK
<1>2. CASE \E c \in Codes : End(c)
  BY <1>2 DEF TypeOK, End, xferVars, link, heads, sinkVars
<1>8. CASE Connect
  BY <1>8 DEF TypeOK, Connect, xferVars, link, heads, sinkVars
<1>3. CASE Loop
  BY <1>3, VerdictType DEF Loop, Finish, StillRunning, Stop, GoOn, Settle, Return, TypeOK,
                           xferVars, link, heads, sinkVars
<1>4. CASE \E ts \in {"NOMEM", "OTHER"} : MultiFails(ts)
  BY <1>4 DEF MultiFails, Return, TypeOK, Statuses, xferVars, link, heads, sinkVars
<1>5. CASE \E ms \in 0..Poll : Wait(ms)
  BY <1>5 DEF Wait, TypeOK, xferVars, link, heads, sinkVars
<1>6. CASE Trigger
  BY <1>6 DEF Trigger, TypeOK, xferVars, link, heads, sinkVars
<1>7. CASE Returned \/ UNCHANGED vars
  BY <1>7 DEF Returned, vars, TypeOK, xferVars, link, heads, sinkVars
<1> QED BY <1>1, <1>2, <1>3, <1>4, <1>5, <1>6, <1>7, <1>8 DEF Next

LEMMA OneWait ==
  ASSUME NEW before \in Nat, NEW after \in Nat, NEW wait \in Nat, after <= before + wait
  PROVE  after - before <= wait
OBVIOUS

LEMMA TimeStep ==
  ASSUME TypeOK, TimeInv, [Next]_vars
  PROVE  TimeInv'
<1> USE TimeoutAssumption, LimitAssumption
<1>0. /\ now \in Nat /\ last_activity \in 0..now /\ triggered \in 0..now /\ Poll \in Nat \ {0}
      /\ \A b \in {budgets.total, budgets.first_byte, budgets.idle} :
           b # Infinite => b \in Nat \ {0}
  BY DEF TypeOK, Budget
<1>1. CASE CallBacks
  <2>1. CallStep
    BY <1>1, CallBackSteps
  <2> QED BY <1>0, <2>1 DEF CallStep, TimeInv
<1>2. CASE Connect \/ (\E c \in Codes : End(c))
  <2>1. pc = "perform" /\ UNCHANGED <<pc, budgets, now, last_activity, told, token, result,
                                      broken, triggered>>
    BY <1>2 DEF Connect, End, Transferring, xferVars, link, heads, sinkVars
  <2> QED BY <2>1 DEF TimeInv
<1>3. CASE Finish \/ Stop \/ (\E ts \in {"NOMEM", "OTHER"} : MultiFails(ts))
  <2>1. pc' = "done" /\ token' = token
    BY <1>3 DEF Finish, Stop, MultiFails, Settle, Return
  <2> QED BY <2>1 DEF TimeInv
<1>4. CASE StillRunning
  BY <1>4 DEF StillRunning, TimeInv, xferVars, link, heads, sinkVars
<1>5. CASE GoOn
  <2>1. /\ ~Cancelled /\ Late = "none" /\ pc = "check" /\ pc' = "poll"
        /\ UNCHANGED <<budgets, now, last_activity, told, token, result, broken, triggered>>
    BY <1>5 DEF GoOn, Verdict, xferVars, link, heads, sinkVars
  <2>2. /\ ~Crossed(budgets.total, 0)
        /\ ~told => ~Crossed(budgets.first_byte, 0)
        /\ told => ~Crossed(budgets.idle, last_activity)
    BY <2>1 DEF Late
  <2>3. ~token
    BY <2>1 DEF Cancelled, TimeInv
  <2> QED BY <1>0, <2>1, <2>2, <2>3 DEF TimeInv, Crossed
<1>6. CASE \E ms \in 0..Poll : Wait(ms)
  <2>1. /\ pc = "poll" /\ pc' = "perform" /\ now' \in Nat /\ now' <= now + Poll
        /\ UNCHANGED <<budgets, last_activity, told, token, result, broken, triggered>>
    BY <1>6 DEF Wait, TypeOK, xferVars, link, heads, sinkVars
  <2>2. /\ budgets.total # Infinite => now' < budgets.total + Poll
        /\ ~told /\ budgets.first_byte # Infinite => now' < budgets.first_byte + Poll
        /\ told /\ budgets.idle # Infinite => now' - last_activity < budgets.idle + Poll
    BY <1>0, <2>1 DEF TimeInv
  <2>3. ASSUME token PROVE now' - triggered <= Poll
    <3>1. triggered = now
      BY <2>1, <2>3 DEF TimeInv
    <3>2. triggered \in Nat /\ now' \in Nat /\ Poll \in Nat /\ now' <= now + Poll
      BY <1>0, <2>1
    <3>3. now' - now <= Poll
      BY <3>1, <3>2, OneWait
    <3> QED BY <3>1, <3>3
  <2> QED BY <2>1, <2>2, <2>3 DEF TimeInv
<1>7. CASE Trigger
  BY <1>0, <1>7 DEF Trigger, TimeInv, xferVars, link, heads, sinkVars
<1>8. CASE Returned \/ UNCHANGED vars
  BY <1>8 DEF Returned, vars, TimeInv, xferVars, link, heads, sinkVars
<1> QED BY <1>1, <1>2, <1>3, <1>4, <1>5, <1>6, <1>7, <1>8 DEF Next, Loop

LEMMA LinkStep ==
  ASSUME TypeOK, LinkInv, [Next]_vars
  PROVE  LinkInv'
<1>1. ASSUME NEW ok \in BOOLEAN, EndBlock(ok) PROVE LinkInv'
  <2>1. phase' = NextPhase /\ CallBack(ok) /\ InBlock /\ ~InBlock'
    BY <1>1 DEF EndBlock, InBlock
  <2>2. /\ UNCHANGED <<tunnelled, connected>> /\ code' # "OPERATION_TIMEDOUT"
        /\ code = "none"
    BY <2>1 DEF CallBack, Transferring
  <2>3. connected => phase' \in {"response", "body"}
    BY <2>1 DEF NextPhase, LinkInv
  <2> QED BY <2>1, <2>2, <2>3 DEF LinkInv
<1>2. CASE Interim
  BY <1>1, <1>2 DEF Interim
<1>3. CASE \E refuse \in BOOLEAN : OnStatus(refuse)
  BY <1>1, <1>3 DEF OnStatus
<1>4. CASE Unheard
  BY <1>1, <1>4 DEF Unheard
<1>5. CASE (\E status \in {100, 200, 400} : StatusLine(status)) \/ IgnoredLine
           \/ (\E len \in Lengths, room \in BOOLEAN : HeaderField(len, room))
           \/ (\E refuse \in BOOLEAN : OnBody(refuse))
  <2>1. /\ UNCHANGED <<phase, tunnelled, connected>> /\ code' # "OPERATION_TIMEDOUT"
        /\ block' = block \/ phase \in {"tunnel", "response"} \/ InBlock
    BY <1>5 DEF StatusLine, IgnoredLine, HeaderField, OnBody, CallBack
  <2> QED BY <2>1 DEF LinkInv, InBlock
<1>6. CASE Connect
  BY <1>6 DEF Connect, Transferring, LinkInv, InBlock, sinkVars
<1>7. ASSUME NEW c \in Codes, End(c) PROVE LinkInv'
  BY <1>7 DEF End, MayEndWith, LinkInv, InBlock, xferVars, link, sinkVars
<1>8. CASE UNCHANGED <<phase, block, connected, code>>
  BY <1>8 DEF LinkInv, InBlock
<1>9. CASE Loop \/ (\E ts \in {"NOMEM", "OTHER"} : MultiFails(ts))
           \/ (\E ms \in 0..Poll : Wait(ms)) \/ Trigger \/ Returned \/ UNCHANGED vars
  BY <1>8, <1>9 DEF Loop, Finish, StillRunning, Stop, GoOn, Settle, MultiFails, Wait, Trigger,
                    Returned, vars, xferVars, link, sinkVars
<1> QED BY <1>2, <1>3, <1>4, <1>5, <1>6, <1>7, <1>9 DEF Next, CallBacks

LEMMA CauseStep ==
  ASSUME TypeOK, TimeInv, LinkInv, CauseInv, [Next]_vars
  PROVE  CauseInv'
<1> DEFINE timeouts == {"TIMEOUT_IDLE", "TIMEOUT_FIRST_BYTE", "TIMEOUT_TOTAL", "TIMEOUT_CONNECT"}
<1>1. CASE pc = "done"
  <2>1. UNCHANGED <<result, told, budgets, now, last_activity, connected>>
    BY <1>1, CallBackSteps
       DEF Next, Connect, End, Transferring, CallStep, Loop, Finish, StillRunning, Stop, GoOn,
           MultiFails, Wait, Trigger, Returned, vars, xferVars, link, heads, sinkVars
  <2> QED BY <2>1 DEF CauseInv, Crossed
<1>2. CASE pc # "done"
  <2>0. result = "none"
    BY <1>2 DEF TimeInv
  <2>1. ASSUME result' \notin timeouts PROVE CauseInv'
    BY <2>1 DEF CauseInv
  <2>2. CASE CallBacks
    BY <2>0, <2>1, <2>2, CallBackSteps DEF CallStep
  <2>3. CASE Connect \/ (\E c \in Codes : End(c)) \/ StillRunning \/ GoOn
    BY <2>0, <2>1, <2>3 DEF Connect, End, StillRunning, GoOn
  <2>4. CASE (\E ms \in 0..Poll : Wait(ms)) \/ Trigger \/ Returned \/ UNCHANGED vars
    BY <2>0, <2>1, <2>4 DEF Wait, Trigger, Returned, vars
  <2>5. CASE \E ts \in {"NOMEM", "OTHER"} : MultiFails(ts)
    BY <2>1, <2>5 DEF MultiFails, Return
  <2>6. CASE Finish
    <3>1. result' = map_curl_code /\ UNCHANGED <<told, budgets, now, connected>>
      BY <2>6 DEF Finish, Settle, Return, xferVars, link, heads, sinkVars
    <3>2. CASE map_curl_code \notin timeouts
      BY <2>1, <3>1, <3>2
    <3>3. CASE map_curl_code \in timeouts
      <4>1. /\ map_curl_code = "TIMEOUT_CONNECT" /\ code = "OPERATION_TIMEDOUT" /\ ~told
            /\ budgets.connect # Infinite /\ now + Slack >= budgets.connect
        BY <3>3 DEF map_curl_code
      <4>2. now - (-Slack) = now + Slack
        BY TimeoutAssumption DEF TypeOK
      <4>3. Crossed(budgets.connect, -Slack) /\ ~connected
        BY <4>1, <4>2 DEF Crossed, LinkInv
      <4> QED BY <3>1, <4>1, <4>3 DEF CauseInv, Crossed
    <3> QED BY <3>2, <3>3
  <2>7. CASE Stop
    <3>1. result' = Verdict /\ UNCHANGED <<told, budgets, now, last_activity>>
      BY <2>7 DEF Stop, Settle, Return, xferVars, link, heads, sinkVars
    <3>2. Verdict \in timeouts => Verdict = Late
      BY DEF Verdict
    <3>3. CASE Verdict \notin timeouts
      BY <2>1, <3>1, <3>3
    <3>4. CASE Verdict \in timeouts
      BY <3>1, <3>2, <3>4 DEF CauseInv, Late, Crossed
    <3> QED BY <3>3, <3>4
  <2> QED BY <2>2, <2>3, <2>4, <2>5, <2>6, <2>7 DEF Next, Loop
<1> QED BY <1>1, <1>2

(* What the end of a block does to the record of the first one. *)
LEMMA EndBlockFirst ==
  ASSUME TypeOK, NEW ok \in BOOLEAN, EndBlock(ok)
  PROVE  /\ block' = Nothing /\ code = "none" /\ UNCHANGED <<tunnelled, caps, oom>>
         /\ block.status = 100 => UNCHANGED <<phase, first>>
         /\ first # Nothing => first' = first
         /\ first = Nothing /\ block.status # 100 => first' = block
BY DEF EndBlock, NextPhase, CallBack, Transferring

LEMMA HeadStep ==
  ASSUME TypeOK, HeadInv, [Next]_vars
  PROVE  HeadInv'
<1> USE LimitAssumption
<1>0. told \in BOOLEAN /\ n_headers \in Nat /\ header_bytes \in Nat
  BY DEF TypeOK
<1>1. ASSUME NEW status \in {100, 200, 400}, StatusLine(status) PROVE HeadInv'
  <2>1. /\ UNCHANGED <<told, refused, caps, oom, phase, first, tunnelled>> /\ code = "none"
        /\ block' = [from |-> phase, status |-> status, fields |-> 0]
        /\ phase \in {"tunnel", "response"}
        /\ IF told THEN UNCHANGED <<http_status, n_headers, header_bytes>>
           ELSE http_status' = status /\ n_headers' = 0 /\ header_bytes' = 0
    BY <1>1 DEF StatusLine, CallBack, Transferring, sinkVars, heads
  <2>2. ~caps /\ ~oom
    BY <2>1 DEF HeadInv
  <2> QED BY <2>1, <2>2 DEF HeadInv, FirstFrom
<1>2. ASSUME NEW len \in Lengths, NEW room \in BOOLEAN, HeaderField(len, room) PROVE HeadInv'
  <2>1. /\ ~caps /\ ~oom /\ InBlock /\ block \in Block /\ code = "none"
        /\ UNCHANGED <<told, refused, phase, first, tunnelled>>
        /\ block' = [block EXCEPT !.fields = @ + 1]
        /\ caps' = (~told /\ HeadersFull(len))
        /\ oom' = (~told /\ ~HeadersFull(len) /\ ~room)
        /\ code' = IF told \/ (~HeadersFull(len) /\ room) THEN "none" ELSE "WRITE_ERROR"
        /\ IF told \/ HeadersFull(len) \/ ~room THEN UNCHANGED <<http_status, n_headers, header_bytes>>
           ELSE /\ n_headers' = n_headers + 1
                /\ header_bytes' = header_bytes + len
                /\ UNCHANGED http_status
    BY <1>2 DEF HeaderField, CallBack, Transferring, HeadInv, TypeOK, heads, sinkVars
  <2>2. /\ block'.from = block.from /\ block'.status = block.status
        /\ block'.fields = block.fields + 1 /\ block.fields \in Nat
    BY <2>1 DEF Block
  <2>3. CASE told
    BY <2>1, <2>3 DEF HeadInv, FirstFrom
  <2>4. CASE ~told /\ (HeadersFull(len) \/ ~room)
    <3>1. /\ UNCHANGED <<told, http_status, n_headers, header_bytes>> /\ code' = "WRITE_ERROR"
          /\ caps' \/ oom'
      BY <2>1, <2>4
    <3> QED BY <2>1, <2>2, <2>4, <3>1 DEF HeadInv, FirstFrom
  <2>5. CASE ~told /\ ~HeadersFull(len) /\ room
    <3>1. /\ n_headers' = n_headers + 1 /\ header_bytes' = header_bytes + len
          /\ http_status' = http_status /\ ~caps' /\ ~oom' /\ told' = told
      BY <2>1, <2>5
    <3>2. n_headers' <= MaxHeaders /\ header_bytes' <= MaxHeadersBytes
      BY <1>0, <2>5, <3>1 DEF HeadersFull
    <3>3. block.fields = n_headers /\ block.from = FirstFrom /\ block.status = http_status
          /\ first = Nothing /\ phase = FirstFrom /\ ~refused
      BY <2>1, <2>5 DEF HeadInv
    <3>4. FirstFrom' = FirstFrom
      BY <2>1 DEF FirstFrom
    <3> QED BY <2>1, <2>2, <2>5, <3>1, <3>2, <3>3, <3>4 DEF HeadInv
  <2> QED BY <1>0, <2>3, <2>4, <2>5
<1>3. CASE Interim
  <2>1. /\ EndBlock(TRUE) /\ ~told /\ http_status = 100
        /\ n_headers' = 0 /\ header_bytes' = 0
        /\ UNCHANGED <<http_status, told, refused>> /\ InBlock
    BY <1>3 DEF Interim, EndBlock
  <2>2. block.status = 100
    BY <2>1 DEF HeadInv
  <2>3. code = "none" /\ UNCHANGED <<phase, first, tunnelled, caps, oom>> /\ block' = Nothing
    BY <2>1, <2>2, EndBlockFirst
  <2> QED BY <2>1, <2>3 DEF HeadInv, FirstFrom, InBlock
<1>4. CASE IgnoredLine
  <2>1. /\ UNCHANGED <<told, refused, caps, oom, phase, block, first, tunnelled, http_status,
                       n_headers, header_bytes>>
        /\ code = "none"
    BY <1>4 DEF IgnoredLine, CallBack, Transferring, heads, sinkVars
  <2> QED BY <2>1 DEF HeadInv, FirstFrom, InBlock
<1>5. ASSUME NEW refuse \in BOOLEAN, OnStatus(refuse) PROVE HeadInv'
  <2>1. /\ EndBlock(~refuse) /\ ~told /\ http_status # 100 /\ told' = TRUE /\ refused' = refuse
        /\ refuse => HasSink /\ code' # "none"
        /\ UNCHANGED <<http_status, n_headers, header_bytes>> /\ InBlock /\ block \in Block
    BY <1>5 DEF OnStatus, EndBlock, CallBack, heads, TypeOK
  <2>2. code = "none" /\ UNCHANGED <<tunnelled, caps, oom>> /\ block' = Nothing
    BY <2>1, EndBlockFirst
  <2>3. ~caps /\ ~oom
    BY <2>2 DEF HeadInv
  <2>4. /\ first = Nothing /\ block.from = FirstFrom /\ block.status = http_status
        /\ block.fields = n_headers /\ n_headers <= MaxHeaders
        /\ header_bytes <= MaxHeadersBytes
    BY <2>1, <2>3 DEF HeadInv
  <2>5. first' = block
    BY <2>1, <2>4, EndBlockFirst
  <2>6. block = [from |-> FirstFrom, status |-> http_status, fields |-> n_headers]
    BY <2>1, <2>4 DEF Block
  <2>7. FirstFrom' = FirstFrom
    BY <2>2 DEF FirstFrom
  <2> QED BY <2>1, <2>2, <2>3, <2>4, <2>5, <2>6, <2>7 DEF HeadInv
<1>6. CASE Unheard
  <2>1. /\ EndBlock(TRUE) /\ told
        /\ UNCHANGED <<http_status, n_headers, header_bytes, told, refused>>
    BY <1>6 DEF Unheard, heads
  <2>2. code = "none" /\ UNCHANGED <<tunnelled, caps, oom>>
    BY <2>1, EndBlockFirst
  <2>3. first # Nothing
    BY <2>1 DEF HeadInv, FirstFrom, Nothing
  <2>4. first' = first
    BY <2>1, <2>3, EndBlockFirst
  <2> QED BY <2>1, <2>2, <2>4 DEF HeadInv, FirstFrom
<1>7. ASSUME NEW refuse \in BOOLEAN, OnBody(refuse) PROVE HeadInv'
  <2>1. /\ phase = "body" /\ refused' = refuse /\ (refuse => HasSink /\ code' # "none") /\ code = "none"
        /\ UNCHANGED <<told, caps, oom, phase, block, first, tunnelled, http_status,
                       n_headers, header_bytes>>
    BY <1>7 DEF OnBody, CallBack, Transferring, heads
  <2>2. told
    BY <2>1 DEF HeadInv, FirstFrom
  <2> QED BY <2>1, <2>2 DEF HeadInv, FirstFrom
<1>8. CASE UNCHANGED <<xferVars, code>>
  BY <1>8 DEF HeadInv, FirstFrom, InBlock, xferVars, link, heads, sinkVars
<1>9. CASE Connect \/ (\E c \in Codes : End(c))
  <2>1. /\ code = "none"
        /\ UNCHANGED <<told, refused, caps, oom, phase, block, first, tunnelled, http_status,
                       n_headers, header_bytes>>
    BY <1>9 DEF Connect, End, Transferring, xferVars, link, heads, sinkVars
  <2> QED BY <2>1 DEF HeadInv, FirstFrom, InBlock
<1>10. CASE Loop \/ (\E ts \in {"NOMEM", "OTHER"} : MultiFails(ts))
            \/ (\E ms \in 0..Poll : Wait(ms)) \/ Trigger \/ Returned \/ UNCHANGED vars
  BY <1>8, <1>10 DEF Loop, Finish, StillRunning, Stop, GoOn, Settle, MultiFails, Wait, Trigger,
                     Returned, vars
<1> QED BY <1>1, <1>2, <1>3, <1>4, <1>5, <1>6, <1>7, <1>9, <1>10 DEF Next, CallBacks

-----------------------------------------------------------------------------
(* Theorems.                                                               *)

LEMMA InitIInv == Init => IInv
<1> SUFFICES ASSUME Init PROVE IInv
  OBVIOUS
<1> USE TimeoutAssumption, LimitAssumption DEF Init
<1>1. TypeOK
  <2>1. budgets \in [connect : Budget, first_byte : Budget, idle : Budget, total : Budget]
    OBVIOUS
  <2>2. token \in BOOLEAN /\ (token => HasToken)
    BY Zenon
  <2>3. /\ pc = "perform" /\ code = "none" /\ result \in Statuses \cup {"none"}
        /\ broken \in BOOLEAN
    OBVIOUS
  <2>4. /\ now \in Nat /\ now <= MaxTime /\ last_activity \in 0..now /\ triggered \in 0..now
        /\ n_headers \in Nat /\ header_bytes \in Nat /\ chunks \in Nat /\ calls \in Nat
    OBVIOUS
  <2>5. told \in BOOLEAN /\ refused \in BOOLEAN /\ caps \in BOOLEAN /\ oom \in BOOLEAN
    OBVIOUS
  <2>6. tunnelled \in BOOLEAN
    BY Zenon
  <2>7. phase \in {"tunnel", "response", "body", "rejected"} /\ connected \in BOOLEAN
    OBVIOUS
  <2>8. block \in Block /\ first \in Block
    BY DEF Block, Nothing
  <2> HIDE DEF Init
  <2> QED BY <2>1, <2>2, <2>3, <2>4, <2>5, <2>6, <2>7, <2>8 DEF TypeOK
<1>2. TimeInv
  <2>1. token => HasToken
    BY Zenon
  <2>2. \A b \in {budgets.total, budgets.first_byte, budgets.idle} :
          b # Infinite => b \in Nat \ {0}
    BY <1>1 DEF TypeOK, Budget
  <2> QED BY <2>1, <2>2 DEF TimeInv
<1>3. CauseInv /\ LinkInv /\ HeadInv
  BY <1>1 DEF CauseInv, LinkInv, HeadInv, InBlock, FirstFrom, TypeOK
<1> QED BY <1>1, <1>2, <1>3 DEF IInv

LEMMA StepIInv == IInv /\ [Next]_vars => IInv'
BY TypeStep, TimeStep, LinkStep, CauseStep, HeadStep DEF IInv

THEOREM InductiveInvariant == Spec => []IInv
BY InitIInv, StepIInv, PTL DEF Spec

(* Every variable of curl_perform keeps its values. *)
THEOREM TypeCorrect == Spec => []TypeOK
<1>1. IInv => TypeOK
  BY DEF IInv
<1> QED BY <1>1, InductiveInvariant, PTL

(* For all budgets and whatever the server does: no transfer outlives a budget
   or its token by more than one poll of the loop in curl_perform, and no
   timeout is reported before its time. *)
THEOREM TransfersEndInTime == Spec => []EndsInTime
<1>1. IInv => EndsInTime
  BY DEF IInv, TimeInv, CauseInv, EndsInTime
<1> QED BY <1>1, InductiveInvariant, PTL

(* For every cap, server and proxy: what header_cb hands on_status is one whole
   header block, the first that is not interim - the response's own, or the
   proxy's answer to CONNECT where a tunnel was opened. *)
THEOREM HeadersAreComplete == Spec => []HeadersOfFirstBlock
<1>1. IInv => HeadersOfFirstBlock
  BY DEF IInv, HeadInv, FirstFrom, HeadersOfFirstBlock, TypeOK
<1> QED BY <1>1, InductiveInvariant, PTL

-----------------------------------------------------------------------------
(* curl_perform implements the promise of a transport.                     *)

LEMMA CallBackPromises ==
  ASSUME IInv, CallBacks
  PROVE  [Promise!Next]_Promise!transportVars
<1> USE LimitAssumption DEF Promise!transportVars
<1>0. pc = "perform" /\ result = "none" /\ broken = FALSE
      /\ UNCHANGED <<token, result, broken>>
  BY CallBackSteps DEF IInv, TypeOK, TimeInv, CallStep
<1>1. CASE (\E status \in {100, 200, 400} : StatusLine(status)) \/ Interim \/ Unheard
           \/ IgnoredLine \/ (\E len \in Lengths, room \in BOOLEAN : HeaderField(len, room))
  <2>1. UNCHANGED <<told, chunks, refused>>
    BY <1>1 DEF StatusLine, Interim, Unheard, IgnoredLine, HeaderField, EndBlock, sinkVars
  <2> QED BY <1>0, <2>1
<1>2. ASSUME NEW refuse \in BOOLEAN, OnStatus(refuse)
      PROVE  Promise!Status
  <2>1. ~told /\ told' = TRUE /\ refused' = refuse /\ chunks' = chunks
    BY <1>2 DEF OnStatus, EndBlock
  <2>2. refused' \in (IF HasSink THEN BOOLEAN ELSE {FALSE})
    BY <1>2, <2>1 DEF OnStatus
  <2> QED BY <1>0, <2>1, <2>2 DEF Promise!Status
<1>3. ASSUME NEW refuse \in BOOLEAN, OnBody(refuse)
      PROVE  Promise!Body
  <2>1. told /\ ~refused /\ told' = told /\ refused' = refuse /\ chunks' = chunks + 1
    BY <1>3 DEF OnBody, CallBack, Transferring, IInv, HeadInv, FirstFrom
  <2>2. refused' \in (IF HasSink THEN BOOLEAN ELSE {FALSE})
    BY <1>3, <2>1 DEF OnBody
  <2> QED BY <1>0, <2>1, <2>2 DEF Promise!Body
<1> QED BY <1>1, <1>2, <1>3 DEF CallBacks, Promise!Next

(* Whatever curl_perform returns, the promise allows. *)
LEMMA ReturnPromises ==
  ASSUME IInv,
         \/ Finish \/ Stop
         \/ \E ts \in {"NOMEM", "OTHER"} : MultiFails(ts)
  PROVE  \E ts \in Promise!Failures \cup {"OK", "CANCELLED", "ABORTED_BY_SINK"} :
           Promise!Return(ts)
<1>0. /\ result = "none" /\ broken = FALSE
      /\ UNCHANGED <<told, chunks, refused, token>>
  BY DEF IInv, TimeInv, Finish, Stop, MultiFails, Settle, Return, xferVars, sinkVars
<1>1. /\ told \in BOOLEAN /\ refused \in BOOLEAN /\ caps \in BOOLEAN /\ oom \in BOOLEAN
      /\ refused => told /\ ~caps /\ ~oom
  BY DEF IInv, TypeOK, HeadInv
<1>2. CASE Finish
  <2>1. result' = map_curl_code /\ broken' = FALSE
    BY <1>0, <1>2 DEF Finish, Settle, Return
  <2>2. /\ map_curl_code \in Promise!Failures \cup {"OK", "ABORTED_BY_SINK"}
        /\ map_curl_code = "OK" => told /\ ~refused
        /\ map_curl_code # "CANCELLED" /\ (map_curl_code = "ABORTED_BY_SINK" <=> refused)
    BY <1>1 DEF map_curl_code, Promise!Failures
  <2>3. Promise!Return(map_curl_code)
    BY <1>0, <1>1, <2>1, <2>2 DEF Promise!Return
  <2> QED BY <2>1, <2>2, <2>3
<1>3. CASE Stop
  <2>1. result' = Verdict /\ Verdict # "none" /\ broken' = FALSE
    BY <1>0, <1>3 DEF Stop, Settle, Return
  <2>2. /\ Verdict \in Promise!Failures \cup {"none", "CANCELLED", "ABORTED_BY_SINK"}
        /\ Verdict # "OK" /\ (Verdict = "CANCELLED" => token)
        /\ Verdict = "ABORTED_BY_SINK" => refused
        /\ refused => Verdict \in {"CANCELLED", "ABORTED_BY_SINK"}
    BY <1>1 DEF Verdict, Late, Cancelled, Promise!Failures
  <2>3. Promise!Return(Verdict)
    BY <1>0, <1>1, <2>1, <2>2 DEF Promise!Return
  <2> QED BY <2>1, <2>2, <2>3
<1>4. ASSUME NEW ts \in {"NOMEM", "OTHER"}, MultiFails(ts)
      PROVE  Promise!Return(ts) /\ ts \in Promise!Failures
  <2>1. result' = ts /\ broken' = TRUE
    BY <1>4 DEF MultiFails, Return
  <2> QED BY <1>0, <1>4, <2>1 DEF Promise!Return, Promise!Failures
<1> QED BY <1>2, <1>3, <1>4

LEMMA StepPromises ==
  ASSUME IInv, [Next]_vars
  PROVE  [Promise!Next]_Promise!transportVars
<1>1. CASE CallBacks
  BY <1>1, CallBackPromises
<1>2. CASE Finish \/ Stop \/ (\E ts \in {"NOMEM", "OTHER"} : MultiFails(ts))
  BY <1>2, ReturnPromises DEF Promise!Next
<1>3. CASE Trigger
  BY <1>3 DEF Trigger, xferVars, sinkVars, Promise!Next, Promise!Trigger
<1>4. CASE Connect \/ (\E c \in Codes : End(c)) \/ StillRunning \/ GoOn
           \/ (\E ms \in 0..Poll : Wait(ms)) \/ Returned \/ UNCHANGED vars
  BY <1>4 DEF Connect, End, StillRunning, GoOn, Wait, Returned, vars, xferVars, sinkVars,
              Promise!transportVars
<1> QED BY <1>1, <1>2, <1>3, <1>4 DEF Next, Loop

(* For every budget, cap and server: the sink's callbacks come in the order the
   engine relies on, and the status curl_perform returns says of them no more
   than happened. *)
THEOREM CurlImplementsTransport == Spec => ImplementsTransport
<1>1. Init => Promise!Init
  BY Zenon DEF Init, Promise!Init
<1>2. IInv /\ [Next]_vars => [Promise!Next]_Promise!transportVars
  BY StepPromises
<1> QED BY <1>1, <1>2, InductiveInvariant, PTL DEF Spec, ImplementsTransport, Promise!Spec

-----------------------------------------------------------------------------
(* The pool: the handles are exclusive, accounted for and point at the call  *)
(* that uses them.                                                         *)

(* A call holds handles exactly between slot_acquire and the end of
   slot_release, and those of its slot are the ones it holds. *)
HoldInv ==
  \A c \in Calls :
    /\ mine[c] # None <=> stage[c] \in {"prepare", "transfer", "release", "giveBack"}
    /\ place[c] # None => mine[c] # None /\ place[c] \in inUse /\ slot[place[c]] = mine[c]
    /\ stage[c] = "giveBack" => place[c] # None

(* No two slots have the same handles, no two calls the same slot. *)
SlotInv ==
  /\ \A s, t \in Slots : s # t /\ slot[s] # None => slot[s] # slot[t]
  /\ \A c, d \in Calls : c # d /\ place[c] # None => place[c] # place[d]

(* Some call or slot has h. *)
Known(h) == (\E c \in Calls : mine[c] = h) \/ (\E s \in Slots : slot[s] = h)

(* Accounted, handle by handle. *)
EachAccounted == \A h \in Handles, k \in Pair : <<h, k>> \in live <=> Known(h)

PoolInv == PoolTypeOK /\ HoldInv /\ SlotInv /\ Exclusive /\ EachAccounted /\ OwnContext

LEMMA AccountedTogether ==
  ASSUME PoolTypeOK, EachAccounted
  PROVE  Accounted
<1>1. Held \cup Pooled = {h \in Handles : Known(h)}
  BY PoolAssumption DEF PoolTypeOK, Held, Pooled, Known
<1>2. (Held \cup Pooled) \X Pair = {p \in Handles \X Pair : Known(p[1])}
  BY <1>1
<1>3. \A p \in Handles \X Pair : p = <<p[1], p[2]>> /\ p[1] \in Handles /\ p[2] \in Pair
  OBVIOUS
<1>4. live \subseteq Handles \X Pair
  BY DEF PoolTypeOK
<1>5. \A p \in Handles \X Pair : p \in live <=> Known(p[1])
  <2> TAKE p \in Handles \X Pair
  <2>1. <<p[1], p[2]>> \in live <=> Known(p[1])
    BY <1>3 DEF EachAccounted
  <2> QED BY <2>1, <1>3
<1> QED BY <1>2, <1>4, <1>5 DEF Accounted

LEMMA GoOne ==
  ASSUME PoolTypeOK, NEW c \in Calls, NEW where, Go(c, where)
  PROVE  stage'[c] = where /\ \A d \in Calls : d # c => stage'[d] = stage[d]
BY DEF PoolTypeOK, Go

LEMMA UnusedIsUnknown ==
  ASSUME EachAccounted, NEW h \in Unused
  PROVE  h \in Handles /\ ~Known(h)
<1>1. h \in Handles /\ <<h, "easy">> \notin live
  BY DEF Unused, Both, Pair
<1> QED BY <1>1 DEF EachAccounted, Pair

LEMMA HalfMadeIsGone ==
  ASSUME NEW h \in Unused, NEW made \in SUBSET Pair
  PROVE  HalfMade(h, made) = live
BY DEF HalfMade, Unused, Both

LEMMA BothOf ==
  ASSUME NEW h, NEW g, NEW k \in Pair
  PROVE  <<g, k>> \in Both(h) <=> g = h
BY DEF Both

-----------------------------------------------------------------------------
(* slot_acquire.                                                           *)

(* A slot is taken with handles nobody else has. *)
LEMMA SlotTaken ==
  ASSUME PoolInv, NEW c \in Calls, NEW s \in Slots \ inUse, NEW h \in Handles,
         stage[c] = "scan", TakeSlot(c, s, h),
         slot' = [slot EXCEPT ![s] = h],
         slot[s] = None \/ slot[s] = h,
         \A d \in Calls : mine[d] # h,
         \A t \in Slots : t # s => slot[t] # h,
         live' = live \cup Both(h),
         UNCHANGED <<context, open>>
  PROVE  PoolInv'
<1> USE PoolAssumption
<1>1. /\ mine[c] = None /\ place[c] = None /\ lock = c
      /\ mine' = [mine EXCEPT ![c] = h] /\ place' = [place EXCEPT ![c] = s]
      /\ inUse' = inUse \cup {s} /\ lock' = None
      /\ PoolTypeOK /\ HoldInv /\ SlotInv /\ Exclusive /\ EachAccounted /\ OwnContext
  BY DEF PoolInv, HoldInv, PoolTypeOK, TakeSlot
<1>2. stage'[c] = "prepare" /\ \A d \in Calls : d # c => stage'[d] = stage[d]
  BY <1>1, GoOne DEF TakeSlot
<1>3. /\ mine'[c] = h /\ place'[c] = s /\ slot'[s] = h
      /\ \A d \in Calls : d # c => mine'[d] = mine[d] /\ place'[d] = place[d]
      /\ \A t \in Slots : t # s => slot'[t] = slot[t]
  BY <1>1 DEF PoolTypeOK
<1>4. PoolTypeOK'
  <2>1. stage' \in [Calls -> Places]
    BY <1>1 DEF PoolTypeOK, TakeSlot, Go, Places
  <2>2. live' \subseteq Handles \X Pair
    BY <1>1 DEF PoolTypeOK, Both
  <2> QED BY <1>1, <1>2, <2>1, <2>2 DEF PoolTypeOK
<1>5. HoldInv'
  BY <1>1, <1>2, <1>3 DEF HoldInv, PoolTypeOK
<1>6. SlotInv'
  BY <1>1, <1>3 DEF SlotInv, HoldInv, PoolTypeOK
<1>7. Exclusive'
  BY <1>1, <1>3 DEF Exclusive
<1>8. EachAccounted'
  <2> SUFFICES ASSUME NEW g \in Handles, NEW k \in Pair
               PROVE  <<g, k>> \in live' <=> Known(g)'
    BY DEF EachAccounted
  <2>1. Known(g)' <=> Known(g) \/ g = h
    BY <1>1, <1>3 DEF Known
  <2> QED BY <1>1, <2>1, BothOf DEF EachAccounted
<1>9. OwnContext'
  BY <1>1, <1>2, <1>3 DEF OwnContext
<1> QED BY <1>4, <1>5, <1>6, <1>7, <1>8, <1>9 DEF PoolInv

LEMMA ReuseStep ==
  ASSUME PoolInv, NEW c \in Calls, Reuse(c)
  PROVE  PoolInv'
<1> USE PoolAssumption
<1>1. PICK s \in Idle : TakeSlot(c, s, slot[s])
  BY DEF Reuse
<1>2. PICK h \in Handles : h = slot[s]
  BY DEF Idle, PoolInv, PoolTypeOK
<1>3. /\ s \in Slots \ inUse /\ slot[s] = h /\ TakeSlot(c, s, h)
      /\ slot' = slot /\ slot \in [Slots -> Handles \cup {None}]
      /\ stage[c] = "scan" /\ live' = live /\ UNCHANGED <<context, open>>
      /\ PoolTypeOK /\ HoldInv /\ SlotInv /\ Exclusive /\ EachAccounted
  BY <1>1, <1>2 DEF Idle, PoolInv, PoolTypeOK, Reuse
<1>4. slot' = [slot EXCEPT ![s] = h]
  BY <1>3
<1>5. \A t \in Slots : t # s => slot[t] # h
  BY <1>3 DEF SlotInv
<1>6. \A d \in Calls : mine[d] # h
  <2> SUFFICES ASSUME NEW d \in Calls, mine[d] = h PROVE FALSE
    OBVIOUS
  <2>1. place[d] # None
    BY <1>3 DEF Exclusive
  <2>2. place[d] \in Slots /\ place[d] \in inUse /\ slot[place[d]] = h
    BY <1>3, <2>1 DEF HoldInv, PoolTypeOK
  <2> QED BY <1>3, <1>5, <2>2
<1>7. live' = live \cup Both(h)
  <2>1. \A k \in Pair : <<h, k>> \in live
    BY <1>3 DEF EachAccounted, Known
  <2> QED BY <1>3, <2>1 DEF Both
<1>8. /\ s \in Slots \ inUse /\ (slot[s] = None \/ slot[s] = h) /\ TakeSlot(c, s, h)
      /\ stage[c] = "scan" /\ UNCHANGED <<context, open>>
  BY <1>3
<1> HIDE PoolAssumption
<1> QED BY <1>4, <1>5, <1>6, <1>7, <1>8, SlotTaken, ZenonT(30)

LEMMA CreateStep ==
  ASSUME PoolInv, NEW c \in Calls, Create(c)
  PROVE  PoolInv'
<1>1. PICK s \in Bare, h \in Unused :
        /\ slot' = [slot EXCEPT ![s] = h] /\ live' = live \cup Both(h) /\ TakeSlot(c, s, h)
  BY DEF Create
<1>2. s \in Slots \ inUse /\ slot[s] = None
  BY DEF Bare
<1>3. h \in Handles /\ ~Known(h)
  BY UnusedIsUnknown DEF PoolInv
<1>4. (\A d \in Calls : mine[d] # h) /\ (\A t \in Slots : slot[t] # h)
  BY <1>3 DEF Known
<1> QED BY <1>1, <1>2, <1>3, <1>4, SlotTaken DEF Create

LEMMA CreateTransientStep ==
  ASSUME PoolInv, NEW c \in Calls, CreateTransient(c)
  PROVE  PoolInv'
<1> USE PoolAssumption
<1>1. PICK h \in Unused : live' = live \cup Both(h) /\ mine' = [mine EXCEPT ![c] = h]
  BY DEF CreateTransient
<1>2. h \in Handles /\ ~Known(h)
  BY UnusedIsUnknown DEF PoolInv
<1>3. /\ stage[c] = "transient" /\ mine[c] = None /\ place[c] = None
      /\ UNCHANGED <<slot, inUse, lock, context, place, open>>
      /\ PoolTypeOK /\ HoldInv /\ SlotInv /\ Exclusive /\ EachAccounted /\ OwnContext
  BY DEF PoolInv, HoldInv, CreateTransient
<1>4. stage'[c] = "prepare" /\ \A d \in Calls : d # c => stage'[d] = stage[d]
  BY <1>3, GoOne DEF CreateTransient
<1>5. mine'[c] = h /\ \A d \in Calls : d # c => mine'[d] = mine[d]
  BY <1>1, <1>3 DEF PoolTypeOK
<1>6. PoolTypeOK'
  <2>1. stage' \in [Calls -> Places] /\ mine' \in [Calls -> Handles \cup {None}]
    BY <1>1, <1>2, <1>3 DEF PoolTypeOK, CreateTransient, Go, Places
  <2>2. live' \subseteq Handles \X Pair
    BY <1>1, <1>2, <1>3 DEF PoolTypeOK, Both
  <2> QED BY <1>3, <1>4, <2>1, <2>2 DEF PoolTypeOK
<1>7. HoldInv' /\ SlotInv'
  BY <1>2, <1>3, <1>4, <1>5 DEF HoldInv, SlotInv
<1>8. Exclusive'
  BY <1>2, <1>3, <1>5 DEF Exclusive, Known
<1>9. EachAccounted'
  <2> SUFFICES ASSUME NEW g \in Handles, NEW k \in Pair
               PROVE  <<g, k>> \in live' <=> Known(g)'
    BY DEF EachAccounted
  <2>1. Known(g)' <=> Known(g) \/ g = h
    BY <1>3, <1>5 DEF Known
  <2> QED BY <1>1, <1>3, <2>1, BothOf DEF EachAccounted
<1>10. OwnContext'
  BY <1>3, <1>4, <1>5 DEF OwnContext
<1> QED BY <1>6, <1>7, <1>8, <1>9, <1>10 DEF PoolInv

Holding == {"prepare", "transfer", "release", "giveBack"}

(* A call goes on without taking or giving back anything. *)
LEMMA OnlyMoved ==
  ASSUME PoolInv, NEW c \in Calls, NEW where \in Places \ {"transfer"}, Go(c, where),
         where \in Holding <=> stage[c] \in Holding,
         where = "giveBack" => place[c] # None,
         lock' \in Calls \cup {None},
         \A d \in Calls : stage'[d] \in {"scan", "giveBack"} <=> lock' = d,
         UNCHANGED <<slot, inUse, live, context, mine, place, open>>
  PROVE  PoolInv'
<1>1. PoolTypeOK /\ HoldInv /\ SlotInv /\ Exclusive /\ EachAccounted /\ OwnContext
  BY DEF PoolInv
<1>2. stage'[c] = where /\ \A d \in Calls : d # c => stage'[d] = stage[d]
  BY <1>1, GoOne
<1>3. PoolTypeOK'
  BY <1>1 DEF PoolTypeOK, Go
<1>4. HoldInv' /\ OwnContext'
  BY <1>1, <1>2 DEF HoldInv, Holding, OwnContext
<1>5. SlotInv' /\ Exclusive' /\ EachAccounted'
  BY <1>1 DEF SlotInv, Exclusive, EachAccounted, Known
<1> QED BY <1>3, <1>4, <1>5 DEF PoolInv

LEMMA AcquireStep ==
  ASSUME PoolInv, NEW c \in Calls, Acquire(c)
  PROVE  PoolInv'
<1> USE PoolAssumption
<1>1. PoolTypeOK
  BY DEF PoolInv
<1>2. CASE Enter(c)
  <2>1. stage'[c] = "acquire" /\ \A d \in Calls : d # c => stage'[d] = stage[d]
    BY <1>1, <1>2, GoOne DEF Enter
  <2> QED BY <1>1, <1>2, <2>1, OnlyMoved DEF Enter, Places, Holding, PoolTypeOK
<1>3. CASE Lock(c)
  <2>1. stage'[c] = "scan" /\ \A d \in Calls : d # c => stage'[d] = stage[d]
    BY <1>1, <1>3, GoOne DEF Lock
  <2> QED BY <1>1, <1>3, <2>1, OnlyMoved DEF Lock, Places, Holding, PoolTypeOK
<1>4. CASE CreateFails(c) \/ TransientFails(c)
  <2>1. live' = live
    BY <1>4, HalfMadeIsGone DEF CreateFails, TransientFails
  <2>2. stage'[c] = "idle" /\ \A d \in Calls : d # c => stage'[d] = stage[d]
    BY <1>1, <1>4, GoOne DEF CreateFails, TransientFails
  <2> QED BY <1>1, <1>4, <2>1, <2>2, OnlyMoved
          DEF CreateFails, TransientFails, Places, Holding, PoolTypeOK
<1>5. CASE Saturated(c)
  <2>1. stage'[c] = "transient" /\ \A d \in Calls : d # c => stage'[d] = stage[d]
    BY <1>1, <1>5, GoOne DEF Saturated
  <2> QED BY <1>1, <1>5, <2>1, OnlyMoved DEF Saturated, Places, Holding, PoolTypeOK
<1> QED BY <1>2, <1>3, <1>4, <1>5, ReuseStep, CreateStep, CreateTransientStep DEF Acquire

-----------------------------------------------------------------------------
(* The use of the handles.                                                 *)

LEMMA UseStep ==
  ASSUME PoolInv, NEW c \in Calls, Use(c)
  PROVE  PoolInv'
<1> USE PoolAssumption
<1>1. PoolTypeOK /\ HoldInv /\ SlotInv /\ Exclusive /\ EachAccounted /\ OwnContext
  BY DEF PoolInv
<1>2. CASE EndTransfer(c)
  <2>1. stage'[c] = "release" /\ \A d \in Calls : d # c => stage'[d] = stage[d]
    BY <1>1, <1>2, GoOne DEF EndTransfer
  <2> QED BY <1>1, <1>2, <2>1, OnlyMoved DEF EndTransfer, Places, Holding, PoolTypeOK
<1>3. CASE Prepare(c) \/ PrepareFails(c)
  <2>1. /\ stage[c] = "prepare" /\ stage'[c] \in {"transfer", "release"}
        /\ \A d \in Calls : d # c => stage'[d] = stage[d]
        /\ UNCHANGED <<slot, inUse, lock, live, mine, place, open>>
    BY <1>1, <1>3, GoOne DEF Prepare, PrepareFails
  <2>2. mine[c] \in Handles /\ context \in [Handles -> Calls \cup {None}]
    BY <1>1, <2>1 DEF PoolTypeOK, HoldInv
  <2>3. PICK user \in {None, c} :
          /\ context' = [context EXCEPT ![mine[c]] = user]
          /\ stage'[c] = "transfer" => user = c
    <3>1. CASE Prepare(c)
      BY <3>1 DEF Prepare
    <3>2. CASE PrepareFails(c)
      <4>1. stage'[c] = "release"
        BY <1>1, <3>2, GoOne DEF PrepareFails
      <4> QED BY <3>2, <4>1 DEF PrepareFails
    <3> QED BY <1>3, <3>1, <3>2
  <2>4. /\ \A h \in Handles : h # mine[c] => context'[h] = context[h]
        /\ context' \in [Handles -> Calls \cup {None}]
        /\ stage'[c] = "transfer" => context'[mine[c]] = c
    BY <2>2, <2>3
  <2>5. PoolTypeOK'
    <3>1. stage' \in [Calls -> Places]
      BY <1>1, <1>3 DEF Prepare, PrepareFails, Go, Places, PoolTypeOK
    <3> QED BY <1>1, <2>1, <2>4, <3>1 DEF PoolTypeOK
  <2>6. HoldInv' /\ SlotInv' /\ Exclusive' /\ EachAccounted'
    BY <1>1, <2>1 DEF HoldInv, SlotInv, Exclusive, EachAccounted, Known
  <2>7. OwnContext'
    BY <1>1, <2>1, <2>4 DEF OwnContext, HoldInv, Exclusive, PoolTypeOK
  <2> QED BY <2>5, <2>6, <2>7 DEF PoolInv
<1> QED BY <1>2, <1>3 DEF Use

-----------------------------------------------------------------------------
(* slot_release, and the end of the transport.                             *)

(* A call returns: nobody else is disturbed, and what it held is in the pool
   or cleaned up. *)
LEMMA Released ==
  ASSUME PoolInv, NEW c \in Calls, mine[c] # None, Leave(c),
         inUse' = inUse \ {place[c]},
         lock' \in Calls \cup {None},
         \A d \in Calls : stage'[d] \in {"scan", "giveBack"} <=> lock' = d,
         \A h \in Handles : h # mine[c] => context'[h] = context[h],
         context' \in [Handles -> Calls \cup {None}],
         live' = IF place[c] = None THEN live \ Both(mine[c]) ELSE live,
         UNCHANGED <<slot, open>>
  PROVE  PoolInv'
<1> USE PoolAssumption
<1>1. /\ PoolTypeOK /\ HoldInv /\ SlotInv /\ Exclusive /\ EachAccounted /\ OwnContext
      /\ mine' = [mine EXCEPT ![c] = None] /\ place' = [place EXCEPT ![c] = None]
  BY DEF PoolInv, Leave
<1>2. /\ mine'[c] = None /\ place'[c] = None
      /\ \A d \in Calls : d # c => mine'[d] = mine[d] /\ place'[d] = place[d]
  BY <1>1 DEF PoolTypeOK
<1>3. stage'[c] = "idle" /\ \A d \in Calls : d # c => stage'[d] = stage[d]
  BY <1>1, GoOne DEF Leave
<1>4. PoolTypeOK'
  <2>1. stage' \in [Calls -> Places]
    BY <1>1 DEF PoolTypeOK, Leave, Go, Places
  <2>2. live' \subseteq Handles \X Pair /\ inUse' \subseteq Slots
    BY <1>1 DEF PoolTypeOK
  <2> QED BY <1>1, <2>1, <2>2 DEF PoolTypeOK
<1>5. HoldInv' /\ SlotInv'
  BY <1>1, <1>2, <1>3 DEF HoldInv, SlotInv
<1>6. Exclusive'
  BY <1>1, <1>2 DEF Exclusive
<1>7. EachAccounted'
  <2> SUFFICES ASSUME NEW g \in Handles, NEW k \in Pair
               PROVE  <<g, k>> \in live' <=> Known(g)'
    BY DEF EachAccounted
  <2>1. CASE place[c] = None
    <3>1. Known(g)' <=> Known(g) /\ g # mine[c]
      BY <1>1, <1>2, <2>1 DEF Known, Exclusive
    <3> QED BY <1>1, <2>1, <3>1, BothOf DEF EachAccounted
  <2>2. CASE place[c] # None
    <3>1. place[c] \in Slots /\ slot[place[c]] = mine[c]
      BY <1>1, <2>2 DEF HoldInv, PoolTypeOK
    <3>2. Known(g)' <=> Known(g)
      BY <1>1, <1>2, <3>1 DEF Known
    <3> QED BY <1>1, <2>2, <3>2 DEF EachAccounted
  <2> QED BY <2>1, <2>2
<1>8. OwnContext'
  <2> SUFFICES ASSUME NEW d \in Calls, stage'[d] = "transfer"
               PROVE  context'[mine'[d]] = d
    BY DEF OwnContext
  <2>1. d # c /\ stage[d] = "transfer" /\ mine'[d] = mine[d]
    BY <1>2, <1>3
  <2>2. mine[d] \in Handles /\ mine[d] # mine[c]
    BY <1>1, <2>1 DEF HoldInv, Exclusive, PoolTypeOK
  <2> QED BY <1>1, <2>1, <2>2 DEF OwnContext
<1> QED BY <1>4, <1>5, <1>6, <1>7, <1>8 DEF PoolInv

LEMMA ReleaseStep ==
  ASSUME PoolInv, NEW c \in Calls, Release(c)
  PROVE  PoolInv'
<1> USE PoolAssumption
<1>1. PoolTypeOK /\ HoldInv
  BY DEF PoolInv
<1>2. CASE LockRelease(c)
  <2>1. stage'[c] = "giveBack" /\ \A d \in Calls : d # c => stage'[d] = stage[d]
    BY <1>1, <1>2, GoOne DEF LockRelease
  <2> QED BY <1>1, <1>2, <2>1, OnlyMoved DEF LockRelease, Places, Holding, PoolTypeOK
<1>3. CASE GiveBack(c)
  <2>1. mine[c] # None /\ place[c] # None /\ lock = c
    BY <1>1, <1>3 DEF HoldInv, GiveBack, PoolTypeOK
  <2>2. stage'[c] = "idle" /\ \A d \in Calls : d # c => stage'[d] = stage[d]
    BY <1>1, <1>3, GoOne DEF GiveBack, Leave
  <2>3. \A d \in Calls : stage'[d] \in {"scan", "giveBack"} <=> lock' = d
    BY <1>1, <1>3, <2>1, <2>2 DEF GiveBack, PoolTypeOK
  <2> QED BY <1>1, <1>3, <2>1, <2>3, Released DEF GiveBack, PoolTypeOK
<1>4. CASE CleanUp(c)
  <2>1. mine[c] # None /\ place[c] = None /\ mine[c] \in Handles
    BY <1>1, <1>4 DEF HoldInv, CleanUp, PoolTypeOK
  <2>2. stage'[c] = "idle" /\ \A d \in Calls : d # c => stage'[d] = stage[d]
    BY <1>1, <1>4, GoOne DEF CleanUp, Leave
  <2>3. \A d \in Calls : stage'[d] \in {"scan", "giveBack"} <=> lock' = d
    BY <1>1, <1>4, <2>2 DEF CleanUp, PoolTypeOK
  <2>4. inUse' = inUse \ {place[c]}
    BY <1>1, <1>4, <2>1 DEF CleanUp, PoolTypeOK
  <2>5. /\ \A h \in Handles : h # mine[c] => context'[h] = context[h]
        /\ context' \in [Handles -> Calls \cup {None}]
    BY <1>1, <1>4, <2>1 DEF CleanUp, PoolTypeOK
  <2> QED BY <1>1, <1>4, <2>1, <2>3, <2>4, <2>5, Released DEF CleanUp, PoolTypeOK
<1> QED BY <1>2, <1>3, <1>4 DEF Release

LEMMA DestroyStep ==
  ASSUME PoolInv, Destroy
  PROVE  PoolInv'
<1> USE PoolAssumption
<1>1. PoolTypeOK /\ HoldInv /\ EachAccounted
  BY DEF PoolInv
<1>2. \A c \in Calls : stage[c] = "idle" /\ mine[c] = None /\ place[c] = None
  BY <1>1 DEF Destroy, Active, HoldInv
<1>3. /\ UNCHANGED <<stage, inUse, lock, mine, place>>
      /\ \A s \in Slots : slot'[s] = None
  BY DEF Destroy
<1>4. live' = {}
  <2>1. \A h \in Handles, k \in Pair :
          <<h, k>> \in live => \E s \in Slots : slot[s] # None /\ <<h, k>> \in Both(slot[s])
    BY <1>1, <1>2, BothOf DEF EachAccounted, Known
  <2>2. live \subseteq Handles \X Pair
    BY <1>1 DEF PoolTypeOK
  <2>3. \A p \in live : p \in UNION {Both(slot[s]) : s \in {t \in Slots : slot[t] # None}}
    BY <2>1, <2>2
  <2> QED BY <2>3 DEF Destroy
<1>5. PoolTypeOK'
  BY <1>1, <1>4 DEF PoolTypeOK, Destroy
<1>6. EachAccounted'
  BY <1>2, <1>3, <1>4 DEF EachAccounted, Known
<1> QED BY <1>1, <1>2, <1>3, <1>5, <1>6 DEF PoolInv, HoldInv, SlotInv, Exclusive, OwnContext

-----------------------------------------------------------------------------
(* The theorems.                                                           *)

LEMMA PoolInvariant == PoolSpec => []PoolInv
<1>1. PoolInit => PoolInv
  BY PoolAssumption DEF PoolInit, PoolInv, PoolTypeOK, HoldInv, SlotInv, Exclusive,
     EachAccounted, Known, OwnContext, Places
<1>2. PoolInv /\ [PoolNext]_poolVars => PoolInv'
  <2> SUFFICES ASSUME PoolInv, [PoolNext]_poolVars PROVE PoolInv'
    OBVIOUS
  <2>1. CASE UNCHANGED poolVars
    BY <2>1 DEF PoolInv, PoolTypeOK, HoldInv, SlotInv, Exclusive, EachAccounted, Known,
       OwnContext, poolVars
  <2> QED BY <2>1, AcquireStep, UseStep, ReleaseStep, DestroyStep DEF PoolNext
<1> QED BY <1>1, <1>2, PTL DEF PoolSpec

(* For any number of calls, handles and slots: the state of the pool keeps
   its types, and whoever scans or frees slots holds the mutex. *)
THEOREM PoolTypeCorrect == PoolSpec => []PoolTypeOK
<1>1. PoolInv => PoolTypeOK
  BY DEF PoolInv
<1> QED BY <1>1, PoolInvariant, PTL

(* A curl handle is used by one thread at a time, whatever fails in
   slot_acquire and however many calls share the pool. *)
THEOREM HandlesAreExclusive == PoolSpec => []Exclusive
<1>1. PoolInv => Exclusive
  BY DEF PoolInv
<1> QED BY <1>1, PoolInvariant, PTL

(* No handle of the pool leaks or is used after its clean-up. *)
THEOREM HandlesAreAccounted == PoolSpec => []Accounted
<1>1. PoolInv => Accounted
  BY AccountedTogether DEF PoolInv
<1> QED BY <1>1, PoolInvariant, PTL

(* The callbacks of a transfer get the context of its own call. *)
THEOREM ContextsAreOwn == PoolSpec => []OwnContext
<1>1. PoolInv => OwnContext
  BY DEF PoolInv
<1> QED BY <1>1, PoolInvariant, PTL

(* The handle a call uses is its own, and so is what it calls back. *)
THEOREM OwnHandles == PoolSpec => []HandlesAreOwn
BY HandlesAreExclusive, ContextsAreOwn, PTL DEF HandlesAreOwn

-----------------------------------------------------------------------------
(* When the pool is full.                                                  *)

(* A slot in use is the slot of some call. *)
InUseInv == \A s \in inUse : \E c \in Calls : place[c] = s

LEMMA InUseStep ==
  ASSUME PoolInv, InUseInv, [PoolNext]_poolVars
  PROVE  InUseInv'
<1> USE PoolAssumption
<1>1. PoolTypeOK /\ HoldInv /\ SlotInv
  BY DEF PoolInv
<1>2. ASSUME NEW c \in Calls, NEW s \in Slots, NEW h, TakeSlot(c, s, h), stage[c] = "scan"
      PROVE  InUseInv'
  <2>1. place[c] = None
    BY <1>1, <1>2 DEF HoldInv
  <2>2. place'[c] = s /\ \A d \in Calls : d # c => place'[d] = place[d]
    BY <1>1, <1>2 DEF TakeSlot, PoolTypeOK
  <2> QED BY <1>1, <1>2, <2>1, <2>2 DEF InUseInv, TakeSlot, PoolTypeOK
<1>3. ASSUME NEW c \in Calls, Leave(c), inUse' = inUse \ {place[c]}
      PROVE  InUseInv'
  <2>1. \A d \in Calls : d # c => place'[d] = place[d]
    BY <1>1, <1>3 DEF Leave, PoolTypeOK
  <2> QED BY <1>3, <2>1 DEF InUseInv
<1>4. ASSUME NEW c \in Calls, Reuse(c) \/ Create(c)
      PROVE  InUseInv'
  <2>1. CASE Reuse(c)
    BY <1>2, <2>1 DEF Reuse, Idle
  <2>2. CASE Create(c)
    BY <1>2, <2>2 DEF Create, Bare
  <2> QED BY <1>4, <2>1, <2>2
<1>5. ASSUME NEW c \in Calls, CleanUp(c)
      PROVE  InUseInv'
  <2>1. Leave(c) /\ inUse' = inUse \ {place[c]}
    BY <1>1, <1>5 DEF CleanUp, PoolTypeOK
  <2> QED BY <1>3, <2>1
<1>6. ASSUME NEW c \in Calls, GiveBack(c)
      PROVE  InUseInv'
  BY <1>3, <1>6 DEF GiveBack
<1>7. CASE UNCHANGED <<inUse, place>>
  BY <1>7 DEF InUseInv
<1>8. CASE Destroy \/ UNCHANGED poolVars
  BY <1>7, <1>8 DEF Destroy, poolVars
<1>9. ASSUME NEW c \in Calls,
             \/ Enter(c) \/ Lock(c) \/ CreateFails(c) \/ Saturated(c) \/ CreateTransient(c)
             \/ TransientFails(c) \/ Use(c) \/ LockRelease(c)
      PROVE  InUseInv'
  BY <1>7, <1>9 DEF Enter, Lock, CreateFails, Saturated, CreateTransient, TransientFails, Use,
     Prepare, PrepareFails, EndTransfer, LockRelease
<1> QED BY <1>4, <1>5, <1>6, <1>8, <1>9 DEF PoolNext, Acquire, Release

(* All slots are taken by calls other than the one that finds them so. *)
LEMMA SaturatedIsFull ==
  ASSUME PoolInv, InUseInv, NEW c \in Calls, Saturated(c)
  PROVE  Cardinality(Active) > Cap
<1> USE PoolAssumption
<1> DEFINE takers == {d \in Calls : place[d] # None}
<1>1. PoolTypeOK /\ HoldInv
  BY DEF PoolInv
<1>2. inUse = Slots
  BY <1>1 DEF Saturated, Idle, Bare, PoolTypeOK
<1>3. c \notin takers /\ takers \cup {c} \subseteq Active /\ Active \subseteq Calls
  BY <1>1 DEF Saturated, HoldInv, Active
<1>4. IsFiniteSet(takers) /\ IsFiniteSet(Active)
  BY <1>3, CallsAssumption, FS_Subset
<1>5. [d \in takers |-> place[d]] \in Surjection(takers, Slots)
  BY <1>1, <1>2 DEF Surjection, InUseInv, PoolTypeOK
<1>6. Cardinality(Slots) <= Cardinality(takers)
  BY <1>4, <1>5, FS_Surjection
<1>7. Cardinality(Slots) = Cap
  BY FS_Interval DEF Slots
<1>8. /\ IsFiniteSet(takers \cup {c})
      /\ Cardinality(takers \cup {c}) = Cardinality(takers) + 1
  BY <1>3, <1>4, FS_AddElement
<1>9. Cardinality(takers \cup {c}) <= Cardinality(Active)
  BY <1>3, <1>4, FS_Subset
<1>10. Cardinality(takers) \in Nat /\ Cardinality(Active) \in Nat
  BY <1>4, FS_CardinalityType
<1> HIDE DEF takers
<1> QED BY <1>6, <1>7, <1>8, <1>9, <1>10

(* A call gets transient handles only while all slots of the pool are busy
   with other calls: no failed creation and no release loses a slot. *)
THEOREM TransientsAreNeeded == PoolSpec => TransientOnlyWhenFull
<1>1. PoolInit => InUseInv
  BY DEF PoolInit, InUseInv
<1>2. PoolInv /\ InUseInv /\ [PoolNext]_poolVars => InUseInv'
  BY InUseStep
<1>3. PoolInv /\ InUseInv /\ [PoolNext]_poolVars
        => [\A c \in Calls : Saturated(c) => Cardinality(Active) > Cap]_poolVars
  BY SaturatedIsFull
<1> QED BY <1>1, <1>2, <1>3, PoolInvariant, PTL DEF PoolSpec, TransientOnlyWhenFull
=============================================================================
