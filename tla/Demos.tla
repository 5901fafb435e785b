------------------------------- MODULE Demos -------------------------------
(***************************************************************************)
(* The two demos, demo/chat.c and demo/fallback.c.  They are programs of   *)
(* their own that share the shape of their main loop, a worker thread that *)
(* hands over to the window under a mutex: a behaviour runs one of them,   *)
(* the window of the other one is closed from the start.                   *)
(***************************************************************************)
EXTENDS ChatDemo, FallbackDemo

demoVars == <<chatVars, fallbackVars>>

Init ==
  \/ ChatStart("keys") /\ FallbackStart("closed")
  \/ ChatStart("closed") /\ \E start \in {"keys", "selftest"} : FallbackStart(start)

Next ==
  \/ ChatNext /\ UNCHANGED fallbackVars
  \/ FallbackNext /\ UNCHANGED chatVars

Spec == Init /\ [][Next]_demoVars /\ ChatFairness /\ FallbackFairness

(* What a worker uses is alive while it runs and nothing is destroyed twice,
   in both programs.  A closed chat leaves nothing behind; a closed fallback
   window leaves the tokens of all its requests but the last one. *)
Ownership == ChatOwnership /\ FallbackOwnership

(* What is shown is what was said: the reply in order, the history with each
   answer behind its question; the attempts in order. *)
ShownAsSaid == Transcript /\ HistoryInOrder /\ LogInOrder /\ ReplyShown

(* What the programs believe of the other side: the prompt a retry sends, the
   events the transport still holds. *)
BelievedIsSo == RetryRebuildsPrompt /\ QueueIsCounted

(* A window that is being left closes: a chat's worker is waited for without
   a limit, and its token alone brings it back; without a token (it could not
   be allocated) only the budgets of the call do.  The events of the script
   end by themselves.  And if the budgets expire no reply keeps its window
   waiting for ever. *)
Closes ==
  /\ (ui = "unwind" /\ (cancel # 0 \/ ~WorkerActive)) \/ fui = "unwind"
       ~> ui = "closed" /\ fui = "closed"
  /\ ChatBudgetsExpire => (WorkerActive \/ FWorkerActive ~> ~WorkerActive /\ ~FWorkerActive)
=============================================================================
