------------------------------ MODULE ChatDemo ------------------------------
(***************************************************************************)
(* demo/chat.c: the window of a chat.  The UI thread goes round its loop,  *)
(* frame by frame; each message is sent by a worker thread that blocks in  *)
(* sicha_chat_stream and talks to the window only through the hand-over    *)
(* state, which io_mu guards.  Every critical section is one step.         *)
(*                                                                         *)
(* A turn is named by its role and the number of the send it belongs to, a *)
(* delta by its number within the reply.  Layout, colours and the status   *)
(* line are left out; the line editor keeps the length of its text.        *)
(***************************************************************************)
EXTENDS Integers, Sequences, FiniteSets

CONSTANTS
  MaxTurns,     \* MAX_TURNS
  PendingCap,   \* sizeof(io_pending)
  DeltaSizes,   \* the lengths of deltas
  LineCap,      \* characters the line editor holds
  AutoFrames,   \* frames in the 1.2 s between its reply and the exit
  MaxSends,     \* bound: messages sent
  MaxDeltas     \* bound: deltas of one reply

ASSUME ChatAssumption ==
  /\ MaxTurns \in Nat /\ MaxTurns >= 2
  /\ PendingCap \in Nat
  /\ DeltaSizes \subseteq Nat \ {0}
  /\ LineCap \in Nat \ {0}
  /\ AutoFrames \in Nat
  /\ MaxSends \in Nat /\ MaxDeltas \in Nat

VARIABLES
  ui,           \* "keys", "send", "drain", "join", "unwind", "unwind_join", "free", "closed"
  line, wantSend, quit, escWhileStreaming,
  auto,         \* --auto: one message is sent unattended
  autoSent, autoAge,   \* auto_done_at: 0, or frames since it was set
  turns,        \* the history
  warg,         \* the worker's argument: messages and token
  worker,       \* "none", "call", "returned" or "exited"
  ret,          \* what sicha_chat_stream returned
  cancel,       \* the token of the UI thread, 0 for NULL
  triggered,    \* it is triggered
  pending, pendingLen, ioDone, ioStatus, ioResult,   \* guarded by io_mu
  liveTokens, liveResults, client,   \* objects allocated and not destroyed
  sends,        \* history: messages sent
  heard, dropped, shown,  \* history: deltas of the running reply, those that found no room, those drawn
  failed,       \* history: the messages of the last request, if it failed
  unanswered,   \* history: some user turn stays without its answer
  lost          \* history: some turn could not be allocated

keyVars == <<line, wantSend, quit, escWhileStreaming>>
autoVars == <<auto, autoSent, autoAge>>
io == <<pending, pendingLen, ioDone, ioStatus, ioResult>>
objects == <<liveTokens, liveResults, client>>
past == <<sends, failed, unanswered, lost>>
chatVars == <<ui, keyVars, autoVars, turns, warg, worker, ret, cancel, triggered, io,
              objects, past, heard, dropped, shown>>

NoCall == [msgs |-> <<>>, token |-> 0]
NoReturn == [st |-> "OK", result |-> 0]
NoFailure == [known |-> FALSE, msgs |-> <<>>]

(* The state before the first frame; start is "closed" for a program that
   does not run. *)
ChatStart(start) ==
  /\ ui = start
  /\ line = 0 /\ wantSend = FALSE /\ quit = FALSE /\ escWhileStreaming = FALSE
  /\ auto \in {FALSE, start = "keys"} /\ autoSent = FALSE /\ autoAge = 0
  /\ turns = <<>>
  /\ warg = NoCall
  /\ worker = "none"
  /\ ret = NoReturn
  /\ cancel = 0 /\ triggered = FALSE
  /\ pending = <<>> /\ pendingLen = 0
  /\ ioDone = FALSE /\ ioStatus = "OK" /\ ioResult = 0
  /\ liveTokens = {} /\ liveResults = {} /\ client = (start = "keys")
  /\ sends = 0
  /\ heard = 0 /\ dropped = {} /\ shown = <<>>
  /\ failed = NoFailure /\ unanswered = FALSE /\ lost = FALSE

WorkerActive == worker # "none"

-----------------------------------------------------------------------------
(* Keys: the loop that drains the terminal's input.                        *)

Typing == ui = "keys" /\ ~WorkerActive

(* Esc cancels the running stream and, a second time, quits. *)
KeyEsc ==
  /\ ui = "keys"
  /\ IF WorkerActive
     THEN /\ triggered' = (triggered \/ cancel # 0)
          /\ quit' = (quit \/ escWhileStreaming)
          /\ escWhileStreaming' = TRUE
     ELSE quit' = TRUE /\ UNCHANGED <<triggered, escWhileStreaming>>
  /\ UNCHANGED <<ui, line, wantSend, autoVars, turns, warg, worker, ret, cancel, io,
                 objects, past, heard, dropped, shown>>

(* Enter asks for a send once the keys are drained; keys behind it still
   edit the line. *)
KeyEnter ==
  /\ Typing
  /\ sends < MaxSends
  /\ wantSend' = (line > 0)
  /\ UNCHANGED <<ui, line, quit, escWhileStreaming, autoVars, turns, warg, worker, ret,
                 cancel, triggered, io, objects, past, heard, dropped, shown>>

(* Backspace and text. *)
KeyEdit ==
  /\ Typing
  /\ line' \in (IF line > 0 THEN {line - 1} ELSE {}) \cup
               (IF line < LineCap THEN {line + 1} ELSE {})
  /\ UNCHANGED <<ui, wantSend, quit, escWhileStreaming, autoVars, turns, warg, worker, ret,
                 cancel, triggered, io, objects, past, heard, dropped, shown>>

AutoOver == autoAge > AutoFrames

(* No more keys: leave, or go on with the frame.  The unattended message is
   sent in the first frame. *)
EndKeys ==
  /\ ui = "keys"
  /\ LET unattended == auto /\ ~autoSent /\ ~WorkerActive
         send == wantSend \/ unattended
     IN  \E over \in BOOLEAN :   \* --demo-seconds, or notcurses reports an error
           IF quit \/ over
           THEN ui' = "unwind" /\ UNCHANGED <<keyVars, autoVars>>
           ELSE /\ ui' = IF AutoOver THEN "unwind" ELSE IF send THEN "send" ELSE "drain"
                /\ line' = IF unattended THEN 1 ELSE line
                /\ autoSent' = (autoSent \/ unattended)
                /\ autoAge' = IF autoAge > 0 /\ ~AutoOver THEN autoAge + 1 ELSE autoAge
                /\ UNCHANGED <<auto, wantSend, quit, escWhileStreaming>>
  /\ UNCHANGED <<turns, warg, worker, ret, cancel, triggered, io, objects, past,
                 heard, dropped, shown>>

-----------------------------------------------------------------------------
(* turns_push                                                              *)

(* A full history drops its first two turns. *)
MakeRoom(ts) == IF Len(ts) = MaxTurns THEN SubSeq(ts, 3, Len(ts)) ELSE ts

(* The new turn is left out if its text cannot be allocated. *)
turns_push(ts, turn, allocated) ==
  IF allocated THEN Append(MakeRoom(ts), turn) ELSE MakeRoom(ts)

User(k) == [role |-> "user", of |-> k]
Assistant(k) == [role |-> "assistant", of |-> k]

(* Record the turn, reset the hand-over state and launch the worker. *)
Send ==
  /\ ui = "send"
  /\ LET k == sends + 1 IN
     \E allocated \in BOOLEAN, token \in {0, k}, started \in BOOLEAN :
       /\ turns' = turns_push(turns, User(k), allocated)
       /\ lost' = (lost \/ ~allocated)
       /\ unanswered' = (unanswered \/ ~started)
       /\ warg' = [msgs |-> turns', token |-> token]
       /\ worker' = IF started THEN "call" ELSE worker
       /\ cancel' = IF started THEN token ELSE 0
       /\ liveTokens' = IF started THEN liveTokens \cup ({token} \ {0}) ELSE liveTokens
       /\ failed' = IF started THEN failed ELSE NoFailure
  /\ sends' = sends + 1
  /\ triggered' = FALSE
  /\ line' = 0 /\ escWhileStreaming' = FALSE
  /\ pending' = <<>> /\ pendingLen' = 0 /\ ioDone' = FALSE /\ ioResult' = 0
  /\ heard' = 0 /\ dropped' = {} /\ shown' = <<>>
  /\ ui' = "drain"
  /\ UNCHANGED <<wantSend, quit, autoVars, ret, ioStatus, liveResults, client>>

-----------------------------------------------------------------------------
(* The worker thread.                                                      *)

(* on_delta: a delta that does not fit in is left out as a whole. *)
OnDelta(size) ==
  /\ worker = "call"
  /\ heard < MaxDeltas
  /\ heard' = heard + 1
  /\ IF pendingLen + size <= PendingCap
     THEN /\ pending' = Append(pending, heard')
          /\ pendingLen' = pendingLen + size
          /\ UNCHANGED dropped
     ELSE dropped' = dropped \cup {heard'} /\ UNCHANGED <<pending, pendingLen>>
  /\ UNCHANGED <<ui, keyVars, autoVars, turns, warg, worker, ret, cancel, triggered,
                 ioDone, ioStatus, ioResult, objects, past, shown>>

(* sicha_chat_stream returns, by itself or for the token; there is no result
   where it found no memory for one. *)
ChatReturns ==
  /\ worker = "call"
  /\ \E st \in {"OK", "CANCELLED", "FAILED"}, result \in {0, sends} :
       /\ st = "CANCELLED" => triggered
       /\ result = 0 => st = "FAILED"
       /\ ret' = [st |-> st, result |-> result]
       /\ liveResults' = liveResults \cup ({result} \ {0})
  /\ worker' = "returned"
  /\ UNCHANGED <<ui, keyVars, autoVars, turns, warg, cancel, triggered, io, liveTokens,
                 client, past, heard, dropped, shown>>

(* The worker hands over what it got and ends. *)
Report ==
  /\ worker = "returned"
  /\ ioStatus' = ret.st /\ ioResult' = ret.result /\ ioDone' = TRUE
  /\ worker' = "exited" /\ ret' = NoReturn
  /\ UNCHANGED <<ui, keyVars, autoVars, turns, warg, cancel, triggered, pending,
                 pendingLen, objects, past, heard, dropped, shown>>

-----------------------------------------------------------------------------
(* Mutant: the reply is taken to be over although the worker still runs. *)
DrainAndJoin ==
  /\ ui = "drain"
  /\ shown' = shown \o pending
  /\ pending' = <<>> /\ pendingLen' = 0
  /\ wantSend' = FALSE
  /\ ui' = IF WorkerActive THEN "join" ELSE "keys"
  /\ UNCHANGED <<line, quit, escWhileStreaming, autoVars, turns, warg, worker, ret, cancel,
                 triggered, ioDone, ioStatus, ioResult, objects, past, heard, dropped>>

(* Draw what is pending; the same critical section tells whether the reply
   is over.  The next frame begins. *)
Drain ==
  /\ ui = "drain"
  /\ shown' = shown \o pending
  /\ pending' = <<>> /\ pendingLen' = 0
  /\ wantSend' = FALSE
  /\ ui' = IF ioDone /\ WorkerActive THEN "join" ELSE "keys"
  /\ UNCHANGED <<line, quit, escWhileStreaming, autoVars, turns, warg, worker, ret, cancel,
                 triggered, ioDone, ioStatus, ioResult, objects, past, heard, dropped>>

(* The answer joins the history; a failed user turn is dropped, a cancelled
   one stays. *)
AfterReply(ts, st, allocated) ==
  CASE st = "OK"        -> turns_push(ts, Assistant(sends), allocated)
    [] st = "CANCELLED" -> ts
    [] st = "FAILED"    -> SubSeq(ts, 1, Len(ts) - 1)

(* Join the worker, settle the history, destroy result and token. *)
Settle ==
  /\ ui = "join"
  /\ worker = "exited"
  /\ worker' = "none"
  /\ ioDone' = FALSE
  /\ \E allocated \in (IF ioStatus = "OK" THEN BOOLEAN ELSE {TRUE}) :
       /\ turns' = AfterReply(turns, ioStatus, allocated)
       /\ lost' = (lost \/ ~allocated)
  /\ unanswered' = (unanswered \/ ioStatus = "CANCELLED")
  /\ failed' = IF ioStatus = "FAILED" THEN [known |-> TRUE, msgs |-> warg.msgs] ELSE NoFailure
  /\ liveResults' = liveResults \ {ioResult}
  /\ liveTokens' = liveTokens \ {cancel}
  /\ cancel' = 0
  /\ autoAge' = IF auto THEN 1 ELSE autoAge
  /\ ui' = "keys"
  /\ warg' = NoCall /\ heard' = 0 /\ dropped' = {} /\ shown' = <<>>
  /\ UNCHANGED <<keyVars, auto, autoSent, ret, triggered, pending, pendingLen, ioStatus,
                 ioResult, client, sends>>

-----------------------------------------------------------------------------
(* Leaving the window.                                                     *)

(* Mutant: the worker is waited for without being told to stop. *)
UnwindPatiently ==
  /\ ui = "unwind"
  /\ ui' = IF WorkerActive THEN "unwind_join" ELSE "free"
  /\ UNCHANGED <<keyVars, autoVars, turns, warg, worker, ret, cancel, triggered, io, objects,
                 past, heard, dropped, shown>>

(* A worker in flight is cancelled before anything is torn down. *)
Unwind ==
  /\ ui = "unwind"
  /\ ui' = IF WorkerActive THEN "unwind_join" ELSE "free"
  /\ triggered' = (triggered \/ (WorkerActive /\ cancel # 0))
  /\ UNCHANGED <<keyVars, autoVars, turns, warg, worker, ret, cancel, io, objects, past,
                 heard, dropped, shown>>

UnwindJoin ==
  /\ ui = "unwind_join"
  /\ worker = "exited"
  /\ worker' = "none"
  /\ liveResults' = liveResults \ {ioResult}
  /\ liveTokens' = liveTokens \ {cancel}
  /\ ioResult' = 0
  /\ ui' = "free"
  /\ UNCHANGED <<keyVars, autoVars, turns, warg, ret, cancel, triggered, pending, pendingLen,
                 ioDone, ioStatus, client, past, heard, dropped, shown>>

(* The turns and the client go. *)
Free ==
  /\ ui = "free"
  /\ turns' = <<>>
  /\ client' = FALSE
  /\ ui' = "closed"
  /\ UNCHANGED <<keyVars, autoVars, warg, worker, ret, cancel, triggered, io, liveTokens,
                 liveResults, past, heard, dropped, shown>>

-----------------------------------------------------------------------------
Keys == KeyEsc \/ KeyEnter \/ KeyEdit

Frame == EndKeys \/ Send \/ Drain \/ Settle \/ Unwind \/ UnwindJoin \/ Free

Worker == (\E size \in DeltaSizes : OnDelta(size)) \/ ChatReturns \/ Report

ChatNext == Keys \/ Frame \/ Worker

(* The UI thread runs on (keys arrive with pauses between them), and a call
   returns once its token is triggered. *)
ChatFairness ==
  /\ WF_chatVars(Frame)
  /\ WF_chatVars(triggered /\ ChatReturns)
  /\ WF_chatVars(Report)

(* total_ms is finite, so every call returns. *)
ChatBudgetsExpire == WF_chatVars(ChatReturns)

-----------------------------------------------------------------------------
(* Properties.                                                             *)

(* The deltas s lists, each once and in the order they came. *)
InOrder(s, deltas) ==
  /\ {s[k] : k \in DOMAIN s} = deltas
  /\ \A j, k \in DOMAIN s : j < k => s[j] < s[k]

(* What is on the screen, and what is about to be, are the deltas of this
   very reply in the order they came, each once, but for those that found
   the hand-over buffer too full as a whole; and once the worker is joined
   all of them are on the screen, although the window and the worker race to
   the last one. *)
Transcript ==
  /\ InOrder(shown \o pending, (1..heard) \ dropped)
  /\ worker = "none" /\ ui \notin {"free", "closed"} => pending = <<>>

(* Where every turn was answered and every text allocated, the history is
   made of pairs of a user turn and its answer, and so are the two turns a
   full history drops; a cancelled turn breaks the pairs, but an answer
   always stands behind its own question unless it is the oldest turn. *)
HistoryInOrder ==
  ~lost =>
    /\ \A k \in DOMAIN turns :
         turns[k].role = "assistant" => k = 1 \/ turns[k - 1] = User(turns[k].of)
    /\ \A j, k \in DOMAIN turns : j < k =>
         turns[j].of < turns[k].of \/ (turns[j].of = turns[k].of /\ turns[k].role = "assistant")
    /\ ~unanswered =>
         \A k \in DOMAIN turns : turns[k].role = IF k % 2 = 1 THEN "user" ELSE "assistant"

(* "drop the failed user turn so a retry rebuilds the same prompt"
   (demo/chat.c): the request sent next after a failed one carries the same
   messages before the new user turn, even where the history was full. *)
RetryRebuildsPrompt ==
  failed.known /\ WorkerActive /\ ~lost =>
    SubSeq(warg.msgs, 1, Len(warg.msgs) - 1) = SubSeq(failed.msgs, 1, Len(failed.msgs) - 1)

(* What a call in flight uses is alive: the texts of its messages, its token,
   the client; what is destroyed at its end was not destroyed before; and
   the closed window leaves nothing behind. *)
ChatOwnership ==
  /\ worker = "call" =>
       /\ \A k \in DOMAIN warg.msgs : \E n \in DOMAIN turns : turns[n] = warg.msgs[k]
       /\ warg.token # 0 => warg.token \in liveTokens
       /\ warg.token = cancel
       /\ client
  /\ ui \in {"join", "unwind_join"} /\ worker = "exited" =>
       cancel \in liveTokens \cup {0} /\ ioResult \in liveResults \cup {0}
  /\ ui = "closed" => worker = "none" /\ liveTokens = {} /\ liveResults = {} /\ ~client
=============================================================================
