---------------------------- MODULE FallbackDemo ----------------------------
(***************************************************************************)
(* demo/fallback.c: a window in which wire events are queued on a scripted *)
(* transport and a request is fired by a worker thread, whose attempts the *)
(* window counts to tell how much of the queue is left.                    *)
(*                                                                         *)
(* The engine below the worker is the chain of Engine with the policy of   *)
(* make_client: two tries on each of three backends, 429 retried.  With    *)
(* --selftest the program has no window: it queues four events, calls the  *)
(* worker and looks at what was handed over.  Memory may run short wherever *)
(* it is asked for.  Drawing is left out.                                  *)
(***************************************************************************)
EXTENDS Integers, Sequences, FiniteSets

CONSTANTS
  Letters,       \* the keys that queue an event
  QueueCap,      \* sizeof(queued)
  NBackends, Tries,  \* the chain and pol.max_tries
  Scenario,      \* what the showcase queues and fires
  ReplyDeltas,   \* the deltas of SSE_REPLY
  StreamCap,     \* those sizeof(stream_text) has no room for
  LogLines,      \* LOG_LINES
  MaxPushed,     \* bound: events queued by hand
  MaxFires,      \* bound: requests fired
  MaxClears      \* bound: times the wire is rebuilt

Retried == {"r", "5", "9", "refused"}
Advanced == {"t", "m"}

\* Answered with a body, which is read into memory.
WithBody == {"o", "5", "9", "m", "a"}

ASSUME FallbackAssumption ==
  /\ Letters \subseteq ({"o", "a"} \cup Retried \cup Advanced) \ {"refused"}
  /\ QueueCap \in Nat /\ NBackends \in Nat \ {0} /\ Tries \in Nat \ {0}
  /\ Scenario \in Seq(Letters)
  /\ {ReplyDeltas, StreamCap, LogLines} \subseteq Nat \ {0}
  /\ MaxPushed \in Nat /\ MaxFires \in Nat /\ MaxClears \in Nat

(* What demo/fallback.c fixes: make_client chains three backends and allows
   two tries, and the reply of SSE_REPLY fits in stream_text. *)
ASSUME MakeClientAssumption == NBackends >= 3 /\ Tries = 2 /\ ReplyDeltas < StreamCap

VARIABLES
  fui,          \* "selftest", "keys", "draw", "join", "unwind", "unwind_join", "free" or "closed"
  fire, fquit, autoFired,
  fclient, fscript,     \* what the window holds, 0 for NULL
  wire,         \* the queue of the scripted transport
  nQueued,      \* n_queued
  fworker,      \* "none", "top", "trip", "counted", "returned" or "exited"
  event,        \* the event a trip took, or what became of the trip
  given, unread,      \* deltas of the trip, and those whose event could not be read
  backend, tryOf,     \* of the engine
  status,       \* of the call
  uses, ftoken, \* the client and the token the worker was given, 0 for NULL
  ftriggered,
  consumed, fdone,    \* events_consumed and io_done, guarded by io_mu
  curBackend,   \* cur_backend, 0 for none
  flog,         \* log_lines, an entry [fire, backend, tryOf] each
  streamLen,    \* the deltas in stream_text
  liveClients, liveScripts, liveFTokens,  \* made and not destroyed
  built, fires, pushed,     \* history: rebuilds of the wire, requests, events queued
  madeFTokens, twice, \* history: tokens made; something was destroyed that was not live
  uncounted, unmatched      \* history: events taken and not counted, counted and not taken

fview == <<curBackend, flog, streamLen>>
uiVars == <<fui, fire, fquit, autoFired>>
engineVars == <<event, given, unread, backend, tryOf, status>>
wires == <<fclient, fscript, liveClients, liveScripts, built, twice>>
tokens == <<ftoken, liveFTokens, madeFTokens>>
amiss == <<uncounted, unmatched>>
fallbackVars == <<uiVars, wires, wire, nQueued, fworker, engineVars, uses, tokens, ftriggered,
                  fview, consumed, fdone, fires, pushed, amiss>>

SelfTestWire == <<"r", "5", "t", "o">>

Lesser(a, b) == IF a < b THEN a ELSE b

Increasing(n, m) == {p \in [1..n -> 1..m] : \A i, k \in 1..n : i < k => p[i] < p[k]}

(* What a story of events leaves in a queue: those that could be pushed, in
   its order, as many as there is room for. *)
Queueing(story, room) ==
  UNION {{[k \in 1..n |-> story[pick[k]]] : pick \in Increasing(n, Len(story))} :
           n \in 0..Lesser(Len(story), room)}

(* Without memory for a script the client takes the built-in transport, for
   which the demo's hosts do not exist, and no event can be pushed. *)
FallbackStart(start) ==
  /\ fui = start /\ fire = FALSE /\ fquit = FALSE
  /\ autoFired \in {TRUE, start # "keys"}      \* TRUE without --demo-seconds
  /\ fclient = (IF start = "closed" THEN 0 ELSE 1) /\ fscript \in {0, fclient}
  /\ liveClients = {fclient} \ {0} /\ liveScripts = {fscript} \ {0} /\ twice = FALSE
  /\ wire \in Queueing(SelfTestWire, IF start = "selftest" /\ fscript # 0 THEN 4 ELSE 0)
  /\ nQueued = 0
  /\ fworker = IF start = "selftest" THEN "top" ELSE "none"
  /\ event = "refused" /\ given = 0 /\ unread = 0 /\ backend = 1 /\ tryOf = 0 /\ status = "none"
  /\ uses = fclient /\ ftoken = 0 /\ ftriggered = FALSE /\ liveFTokens = {} /\ madeFTokens = {}
  /\ consumed = 0 /\ fdone = FALSE
  /\ curBackend = 0 /\ flog = <<>> /\ streamLen = 0
  /\ built = 1 /\ fires = (IF start = "selftest" THEN 1 ELSE 0) /\ pushed = Len(wire)
  /\ uncounted = 0 /\ unmatched = 0

FWorkerActive == fworker # "none"

-----------------------------------------------------------------------------
(* Keys.  The q key ends the reading.                                      *)

Reading == fui = "keys" /\ ~fquit

KeyQuit ==
  /\ Reading
  /\ fquit' = TRUE
  /\ UNCHANGED <<fui, fire, autoFired, wires, wire, nQueued, fworker, engineVars, uses, tokens,
                 ftriggered, fview, consumed, fdone, fires, pushed, amiss>>

KeyFire ==
  /\ Reading /\ fires < MaxFires
  /\ fire' = ~FWorkerActive
  /\ UNCHANGED <<fui, fquit, autoFired, wires, wire, nQueued, fworker, engineVars, uses, tokens,
                 ftriggered, fview, consumed, fdone, fires, pushed, amiss>>

KeyCancel ==
  /\ Reading /\ FWorkerActive
  /\ ftriggered' = (ftriggered \/ ftoken # 0)
  /\ UNCHANGED <<uiVars, wires, wire, nQueued, fworker, engineVars, uses, tokens, fview, consumed,
                 fdone, fires, pushed, amiss>>

\* To destroy NULL does nothing.
Gone(p, live) == p # 0 /\ p \notin live

(* Client and transport are destroyed and made anew, if there is memory. *)
Rebuild ==
  /\ built <= MaxClears
  /\ twice' = (twice \/ Gone(fclient, liveClients) \/ Gone(fscript, liveScripts))
  /\ fclient' \in {0, built + 1} /\ liveClients' = (liveClients \ {fclient}) \cup ({fclient'} \ {0})
  /\ fscript' \in {0, built + 1} /\ liveScripts' = (liveScripts \ {fscript}) \cup ({fscript'} \ {0})
  /\ built' = built + 1
  /\ wire' = <<>> /\ nQueued' = 0 /\ consumed' = 0 /\ curBackend' = 0
  /\ uncounted' = 0 /\ unmatched' = 0
  /\ UNCHANGED <<uiVars, fworker, engineVars, uses, tokens, ftriggered, flog, streamLen, fdone,
                 fires, pushed>>

(* Mutant: the wire is rebuilt under a running request. *)
ClearAnyTime == Reading /\ Rebuild

KeyClear == Reading /\ ~FWorkerActive /\ Rebuild

(* queue_event: an event that cannot be pushed is not counted. *)
KeyEvent ==
  /\ Reading /\ ~FWorkerActive
  /\ fscript # 0
  /\ nQueued < QueueCap /\ pushed < MaxPushed
  /\ \E letter \in Letters :
       wire' = Append(wire, letter) /\ nQueued' = nQueued + 1
  /\ pushed' = pushed + 1
  /\ UNCHANGED <<uiVars, wires, fworker, engineVars, uses, tokens, ftriggered, fview, consumed,
                 fdone, fires, amiss>>

-----------------------------------------------------------------------------
(* Mutant: the count of the last request is carried on. *)
LaunchCountingOn(k) ==
  \E token \in {0, k}, started \in BOOLEAN :
    /\ consumed' = consumed /\ fdone' = FALSE
    /\ ftoken' = IF started THEN token ELSE 0
    /\ liveFTokens' = IF started THEN liveFTokens \cup ({token} \ {0}) ELSE liveFTokens
    /\ madeFTokens' = IF started THEN madeFTokens \cup ({token} \ {0}) ELSE madeFTokens
    /\ fworker' = IF started THEN "top" ELSE fworker
    /\ uses' = fclient

(* Reset the hand-over state and start the worker.  The token of the last
   request is not destroyed, that of a thread that does not start is. *)
Launch(k) ==
  \E token \in {0, k}, started \in BOOLEAN :
    /\ consumed' = 0 /\ fdone' = FALSE
    /\ ftoken' = IF started THEN token ELSE 0
    /\ liveFTokens' = IF started THEN liveFTokens \cup ({token} \ {0}) ELSE liveFTokens
    /\ madeFTokens' = IF started THEN madeFTokens \cup ({token} \ {0}) ELSE madeFTokens
    /\ fworker' = IF started THEN "top" ELSE fworker
    /\ uses' = fclient

(* The showcase queues its scenario and fires, once. *)
Showcase == ~autoFired /\ ~FWorkerActive

Room == IF Showcase /\ fscript # 0 THEN QueueCap - nQueued ELSE 0

EndFallbackKeys ==
  /\ fui = "keys"
  /\ \E over \in BOOLEAN :   \* --demo-seconds, or notcurses reports an error
       IF fquit \/ over
       THEN /\ fui' = "unwind"
            /\ UNCHANGED <<fire, fquit, autoFired, wire, nQueued, fworker, engineVars, uses, tokens,
                           ftriggered, fview, consumed, fdone, fires>>
       ELSE /\ fui' = "draw"
            /\ fire' = FALSE
            /\ \E story \in Queueing(Scenario, Room) :
                 wire' = wire \o story /\ nQueued' = nQueued + Len(story)
            /\ autoFired' = (autoFired \/ Showcase)
            /\ IF fire \/ Showcase
               THEN /\ Launch(fires + 1)
                    /\ fires' = fires + 1
                    /\ ftriggered' = FALSE
                    /\ backend' = 1 /\ tryOf' = 0 /\ status' = "none"
                    /\ curBackend' = 0 /\ streamLen' = 0
                    /\ UNCHANGED <<event, given, unread, flog>>
               ELSE UNCHANGED <<fworker, engineVars, uses, tokens, ftriggered, fview, consumed,
                                fdone, fires>>
            /\ UNCHANGED fquit
  /\ UNCHANGED <<wires, pushed, amiss>>

-----------------------------------------------------------------------------
(* The worker: sicha_chat_stream over the scripted transport.              *)

CallReturns(st) == fworker' = "returned" /\ status' = st

(* No call without a client. *)
NoClient ==
  /\ fworker = "top" /\ uses = 0
  /\ CallReturns("INVALID_ARG")
  /\ UNCHANGED <<uiVars, wires, wire, nQueued, event, given, unread, backend, tryOf, uses, tokens,
                 ftriggered, fview, consumed, fdone, fires, pushed, amiss>>

AtTop == fworker = "top" /\ uses # 0

(* The token is looked at before a round trip and throughout a wait. *)
StopForToken ==
  /\ AtTop /\ ftriggered
  /\ CallReturns("CANCELLED")
  /\ UNCHANGED <<uiVars, wires, wire, nQueued, event, given, unread, backend, tryOf, uses, tokens,
                 ftriggered, fview, consumed, fdone, fires, pushed, amiss>>

(* The result of the call, or the body and the headers of a backend, are not
   made. *)
NothingToSend ==
  /\ AtTop /\ tryOf = 0
  /\ CallReturns("NOMEM")
  /\ UNCHANGED <<uiVars, wires, wire, nQueued, event, given, unread, backend, tryOf, uses, tokens,
                 ftriggered, fview, consumed, fdone, fires, pushed, amiss>>

(* The transport takes the next event; an empty queue refuses. *)
Trip ==
  /\ AtTop /\ ~ftriggered
  /\ fworker' = "trip"
  /\ event' = IF wire = <<>> THEN "refused" ELSE Head(wire)
  /\ given' = 0 /\ unread' = 0
  /\ wire' = IF wire = <<>> THEN <<>> ELSE Tail(wire)
  /\ UNCHANGED <<uiVars, wires, nQueued, backend, tryOf, status, uses, tokens, ftriggered, fview,
                 consumed, fdone, fires, pushed, amiss>>

(* The transport cannot record the call and takes no event. *)
TripWithoutMemory ==
  /\ AtTop /\ ~ftriggered
  /\ fworker' = "trip"
  /\ event' = "nocall"
  /\ UNCHANGED <<uiVars, wires, wire, nQueued, given, unread, backend, tryOf, status, uses, tokens,
                 ftriggered, fview, consumed, fdone, fires, pushed, amiss>>

(* on_delta: what has no room is dropped.  An event that yyjson_read finds no
   memory for is handed on raw, and its delta is lost. *)
OnFallbackDelta(read) ==
  /\ fworker = "trip" /\ event = "o"
  /\ given < ReplyDeltas
  /\ given' = given + 1
  /\ unread' = IF read THEN unread ELSE unread + 1
  /\ streamLen' = IF read /\ streamLen + 1 < StreamCap THEN streamLen + 1 ELSE streamLen
  /\ UNCHANGED <<uiVars, wires, wire, nQueued, fworker, event, backend, tryOf, status, uses, tokens,
                 ftriggered, curBackend, flog, consumed, fdone, fires, pushed, amiss>>

(* How a round trip ends: as the event says, by the token, or for want of
   memory for its body.  A refusal by the queue is over at once. *)
TripEnds(how) ==
  /\ fworker = "trip"
  /\ \/ how = event /\ (event = "o" => given = ReplyDeltas)
     \/ how = "cancelled" /\ ftriggered /\ event # "nocall" /\ (event = "refused" => fscript = 0)
     \/ how = "nomem" /\ event \in WithBody
  /\ event' = how
  /\ UNCHANGED <<uiVars, wires, wire, nQueued, given, unread, backend, tryOf, uses, tokens,
                 ftriggered, flog, streamLen, fdone, fires, pushed>>

Took == event \notin {"refused", "nocall"}

(* on_attempt counts it. *)
Land(how) ==
  /\ TripEnds(how)
  /\ fworker' = "counted"
  /\ curBackend' = backend
  /\ consumed' = consumed + 1
  /\ unmatched' = IF event = "nocall" THEN unmatched + 1 ELSE unmatched
  /\ UNCHANGED <<status, uncounted>>

(* There is no memory for its record: the call ends without on_attempt. *)
LandUnrecorded(how) ==
  /\ TripEnds(how)
  /\ CallReturns("NOMEM")
  /\ uncounted' = IF Took THEN uncounted + 1 ELSE uncounted
  /\ UNCHANGED <<curBackend, consumed, unmatched>>

\* A full log loses its first line.
log_push(line) ==
  flog' = Append(IF Len(flog) = LogLines THEN Tail(flog) ELSE flog, line)

NextBackend ==
  IF backend = NBackends THEN CallReturns("EXHAUSTED") /\ UNCHANGED <<backend, tryOf>>
  ELSE fworker' = "top" /\ backend' = backend + 1 /\ tryOf' = 0 /\ UNCHANGED status

Final == [o |-> "OK", a |-> "ABORTED", cancelled |-> "CANCELLED", nomem |-> "NOMEM",
          nocall |-> "NOMEM"]

(* The second half of on_attempt, in a critical section of its own; then the
   engine decides by the class of the attempt. *)
Decide ==
  /\ fworker = "counted"
  /\ log_push([fire |-> fires, backend |-> backend, tryOf |-> tryOf])
  /\ CASE event \in DOMAIN Final -> CallReturns(Final[event]) /\ UNCHANGED <<backend, tryOf>>
       [] event \in Advanced -> NextBackend
       [] event \in Retried  ->
            IF tryOf + 1 < Tries
            THEN fworker' = "top" /\ tryOf' = tryOf + 1 /\ UNCHANGED <<backend, status>>
            ELSE NextBackend
  /\ UNCHANGED <<uiVars, wires, wire, nQueued, event, given, unread, uses, tokens, ftriggered,
                 curBackend, streamLen, consumed, fdone, fires, pushed, amiss>>

(* The worker reports and destroys its result itself. *)
FReport ==
  /\ fworker = "returned"
  /\ fdone' = TRUE
  /\ fworker' = "exited"
  /\ UNCHANGED <<uiVars, wires, wire, nQueued, engineVars, uses, tokens, ftriggered, fview,
                 consumed, fires, pushed, amiss>>

-----------------------------------------------------------------------------
(* The rest of the frame.                                                  *)

Draw ==
  /\ fui = "draw"
  /\ fui' = IF fdone /\ FWorkerActive THEN "join" ELSE "keys"
  /\ UNCHANGED <<fire, fquit, autoFired, wires, wire, nQueued, fworker, engineVars, uses, tokens,
                 ftriggered, fview, consumed, fdone, fires, pushed, amiss>>

(* The queue is as much shorter as attempts were made.  The engine's own
   variables went with the call. *)
FSettle ==
  /\ fui = "join"
  /\ fworker = "exited"
  /\ fworker' = "none"
  /\ fdone' = FALSE
  /\ nQueued' = nQueued - Lesser(consumed, nQueued)
  /\ fui' = "keys"
  /\ event' = "refused" /\ given' = 0 /\ unread' = 0 /\ backend' = 1 /\ tryOf' = 0 /\ status' = "none"
  /\ UNCHANGED <<fire, fquit, autoFired, wires, wire, uses, tokens, ftriggered, fview, consumed,
                 fires, pushed, amiss>>

(* Leaving: a running request is cancelled and its worker joined. *)
FUnwind ==
  /\ fui = "unwind"
  /\ fui' = IF FWorkerActive THEN "unwind_join" ELSE "free"
  /\ ftriggered' = (ftriggered \/ (FWorkerActive /\ ftoken # 0))
  /\ UNCHANGED <<fire, fquit, autoFired, wires, wire, nQueued, fworker, engineVars, uses, tokens,
                 fview, consumed, fdone, fires, pushed, amiss>>

FUnwindJoin ==
  /\ fui = "unwind_join"
  /\ fworker = "exited"
  /\ fworker' = "none"
  /\ fui' = "free"
  /\ UNCHANGED <<fire, fquit, autoFired, wires, wire, nQueued, engineVars, uses, tokens, ftriggered,
                 fview, consumed, fdone, fires, pushed, amiss>>

(* The token of the last request, client and transport are destroyed. *)
Destroy ==
  /\ fui' = "closed"
  /\ twice' = (twice \/ Gone(ftoken, liveFTokens) \/ Gone(fclient, liveClients)
                     \/ Gone(fscript, liveScripts))
  /\ liveFTokens' = liveFTokens \ {ftoken}
  /\ liveClients' = liveClients \ {fclient}
  /\ liveScripts' = liveScripts \ {fscript}
  /\ UNCHANGED <<fire, fquit, autoFired, fclient, fscript, built, wire, nQueued, engineVars, uses,
                 ftoken, madeFTokens, ftriggered, fview, consumed, fdone, fires, pushed, amiss>>

FFree == fui = "free" /\ Destroy /\ UNCHANGED fworker

(* main of --selftest, whose call has no token. *)
SelfTestEnds ==
  /\ fui = "selftest"
  /\ fworker = "exited"
  /\ fworker' = "none"
  /\ Destroy

-----------------------------------------------------------------------------
FKeys == KeyQuit \/ KeyFire \/ KeyCancel \/ KeyClear \/ KeyEvent

FFrame == EndFallbackKeys \/ Draw \/ FSettle \/ FUnwind \/ FUnwindJoin \/ FFree \/ SelfTestEnds

Ends == {event, "cancelled", "nomem"}

Call ==
  \/ NoClient \/ StopForToken \/ NothingToSend \/ Trip \/ TripWithoutMemory
  \/ (\E read \in BOOLEAN : OnFallbackDelta(read))
  \/ (\E how \in Ends : Land(how) \/ LandUnrecorded(how))
  \/ Decide

FallbackNext == FKeys \/ FFrame \/ Call \/ FReport

(* The UI thread runs on; the events of the script and the back-off end by
   themselves (all budgets are finite), and a worker runs on. *)
FallbackFairness ==
  /\ WF_fallbackVars(FFrame)
  /\ WF_fallbackVars(Call)
  /\ WF_fallbackVars(FReport)

-----------------------------------------------------------------------------
(* Properties.                                                             *)

(* The number of queued events the window shows is the number the transport
   still holds whenever no request runs: attempts that were refused, cut
   short by the token or answered are told apart by nothing but their count.
   Memory may have run short since the wire was built, and then it is off by
   no more than one event for each time: too many, where an attempt took one
   and could not be recorded (client.c:739); too few, where the transport
   could not record the call and took none (transport_script.c:175). *)
QueueIsCounted ==
  fui = "keys" /\ ~FWorkerActive =>
    /\ nQueued <= Len(wire) + uncounted
    /\ Len(wire) <= nQueued + unmatched

(* The lines are those of the last attempts, of each request from its first on
   and none left out, try by try and backend by backend; the backend marked is
   that of the last line of the running request, or of the line to come. *)
LogInOrder ==
  /\ \A n \in 2..Len(flog) :
       LET e == flog[n - 1]
           f == flog[n]
       IN  \/ f = [e EXCEPT !.tryOf = @ + 1]
           \/ f.fire = e.fire /\ f.backend = e.backend + 1 /\ f.tryOf = 0
           \/ f.fire > e.fire /\ f.backend = 1 /\ f.tryOf = 0
  /\ FWorkerActive =>
       LET mine == {n \in DOMAIN flog : flog[n].fire = fires}
       IN  /\ Cardinality(mine) = Lesser(LogLines,
                                         consumed - (IF fworker = "counted" THEN 1 ELSE 0))
           /\ curBackend = IF fworker = "counted" THEN backend
                           ELSE IF mine = {} THEN 0 ELSE flog[Len(flog)].backend

(* The reply shown is whole once a request succeeded, and no part of an earlier
   one, but for the deltas whose events yyjson_read found no memory for: the
   call goes on without them and succeeds (response.c:531).  The self-test,
   with its four events queued, finds what it looks for or is out of memory. *)
ReplyShown ==
  /\ fworker = "returned" => (status = "OK" => streamLen = ReplyDeltas - unread)
  /\ fworker = "trip" => streamLen = IF event = "o" THEN given - unread ELSE 0
  /\ fui = "selftest" /\ fworker = "exited" /\ pushed = Len(SelfTestWire) =>
       /\ fdone /\ status \in {"OK", "NOMEM"}
       /\ status = "OK" =>
            /\ consumed = 4 /\ curBackend = 3 /\ streamLen = ReplyDeltas - unread
            /\ Len(flog) = Lesser(4, LogLines)

(* A running request uses the client, the transport and the token that are
   live, and nothing is destroyed twice.  A closed window has no worker and
   leaves nothing behind but the tokens of all requests before the last one,
   whose only pointer the next one overwrites (fallback.c:467). *)
FallbackOwnership ==
  /\ fworker \in {"top", "trip", "counted"} =>
       /\ uses = fclient /\ uses \in liveClients \cup {0}
       /\ fscript \in liveScripts \cup {0}
       /\ ftoken \in liveFTokens \cup {0}
  /\ ~twice
  /\ fui = "closed" =>
       /\ fworker = "none" /\ liveClients = {} /\ liveScripts = {}
       /\ liveFTokens = madeFTokens \ {ftoken}
=============================================================================
