----------------------------- MODULE CancelWait -----------------------------
(***************************************************************************)
(* What a cancel token and a wait on it promise, as atomic operations: a   *)
(* wait returns "cancelled" exactly when the token it is attached to is    *)
(* triggered, and "elapsed" only when its time is over.  CancelToken, with *)
(* its mutex, condition variable and two clocks, implements it.            *)
(***************************************************************************)
EXTENDS Integers

CONSTANTS Waiters, Forever

VARIABLES
  triggered,   \* of the token
  call,        \* of each waiter: "waiting", or how its last wait ended
  attached,    \* the wait was given the token
  deadline,    \* of each wait, Forever or a time
  now          \* the monotonic clock

waitVars == <<triggered, call, attached, deadline, now>>

Over(w) == deadline[w] # Forever /\ now >= deadline[w]

Init ==
  /\ triggered = FALSE
  /\ call = [w \in Waiters |-> "elapsed"]
  /\ attached = [w \in Waiters |-> FALSE]
  /\ deadline = [w \in Waiters |-> Forever]
  /\ now \in Nat

Begin(w) ==
  /\ call[w] # "waiting"
  /\ call' = [call EXCEPT ![w] = "waiting"]
  /\ \E a \in BOOLEAN : attached' = [attached EXCEPT ![w] = a]
  /\ deadline'[w] \in Nat \cup {Forever}
  /\ deadline'[w] # Forever => deadline'[w] >= now
  /\ deadline' = [deadline EXCEPT ![w] = deadline'[w]]
  /\ UNCHANGED <<triggered, now>>

Return(w, how) ==
  /\ call[w] = "waiting"
  /\ how = "cancelled" => attached[w] /\ triggered
  /\ how = "elapsed" =>
       \/ Over(w) /\ ~(attached[w] /\ triggered)
       \/ ~attached[w] /\ deadline[w] = Forever
  /\ call' = [call EXCEPT ![w] = how]
  /\ UNCHANGED <<triggered, attached, deadline, now>>

Trigger ==
  /\ triggered' = TRUE
  /\ UNCHANGED <<call, attached, deadline, now>>

(* Only while no wait uses the token. *)
Reset ==
  /\ \A w \in Waiters : call[w] = "waiting" => ~attached[w]
  /\ triggered' = FALSE
  /\ UNCHANGED <<call, attached, deadline, now>>

Tick ==
  /\ now' = now + 1
  /\ UNCHANGED <<triggered, call, attached, deadline>>

Next ==
  \/ \E w \in Waiters : Begin(w) \/ Return(w, "cancelled") \/ Return(w, "elapsed")
  \/ Trigger \/ Reset \/ Tick

Spec == Init /\ [][Next]_waitVars
=============================================================================
