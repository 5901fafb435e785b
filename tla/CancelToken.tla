---------------------------- MODULE CancelToken ----------------------------
(***************************************************************************)
(* The cancel token and the real clock's wait of src/cancel.c, at the      *)
(* grain of its mutex, its condition variable and the atomic flag, with    *)
(* any number of waiting threads and of threads that trigger or reset.     *)
(*                                                                         *)
(* Two clocks: deadlines are kept on the monotonic one (now), while        *)
(* sicha_cond_timedwait_ms sleeps until a time of the wall clock, which    *)
(* may be set back or forward while a thread sleeps.                       *)
(***************************************************************************)
EXTENDS Integers, FiniteSets

CONSTANTS
  Waiters,       \* threads that call wait_ms
  Controllers,   \* threads that call sicha_cancel_trigger and _reset
  Forever,       \* stands for every wait of SICHA_WAIT_FOREVER_MS or more
  Waits,         \* the ms arguments, Forever among them
  Chunk,         \* the 100 ms of a token-less wait
  MaxTime,       \* bound: the monotonic clock stops here
  MaxWaits,      \* bound: waits begun
  MaxCalls,      \* bound: triggers and resets begun
  MaxSpurious,   \* bound: spurious wakeups and interrupted sleeps
  MaxSteps       \* bound: settings of the wall clock

Nobody == "nobody"
Threads == Waiters \cup Controllers

ASSUME ThreadAssumption ==
  /\ Waiters \cap Controllers = {}
  /\ Nobody \notin Threads
ASSUME TimeAssumption ==
  /\ Forever \notin Int
  /\ Waits \subseteq Nat \cup {Forever}
  /\ Chunk \in Nat \ {0}
  /\ {MaxTime, MaxWaits, MaxCalls, MaxSpurious, MaxSteps} \subseteq Nat

VARIABLES
  lock,       \* holder of the mutex, or Nobody
  flag,       \* the atomic flag
  pc,         \* of each thread
  op,         \* of each controller: "trigger" or "reset"
  attached,   \* of each wait: it was given the token
  deadline,   \* of each wait, on the monotonic clock
  until,      \* of each sleep: on the wall clock (a nap's: monotonic)
  call,       \* of each waiter: "waiting", or what its last wait returned
  now,        \* the monotonic clock
  skew,       \* the wall clock minus the monotonic one
  spent       \* bounds used: waits, calls, spurious, steps

vars == <<lock, flag, pc, op, attached, deadline, until, call, now, skew, spent>>

Init ==
  /\ lock = Nobody
  /\ flag = FALSE
  /\ pc = [t \in Threads |-> "idle"]
  /\ op = [c \in Controllers |-> "trigger"]
  /\ attached = [w \in Waiters |-> FALSE]
  /\ deadline = [w \in Waiters |-> Forever]
  /\ until = [w \in Waiters |-> Forever]
  /\ call = [w \in Waiters |-> "elapsed"]
  /\ now = 0
  /\ skew = 0
  /\ spent = [waits |-> 0, calls |-> 0, spurious |-> 0, steps |-> 0]

Go(t, place) == pc' = [pc EXCEPT ![t] = place]

Expired(w) == deadline[w] # Forever /\ now >= deadline[w]

InReset(c) == pc[c] # "idle" /\ op[c] = "reset"

-----------------------------------------------------------------------------
(* real_wait_ms with a token.                                              *)

(* The caller keeps the contract of sicha_cancel_reset: no wait of a call
   that uses the token begins while it is being reset. *)
BeginWait(w, ms) ==
  /\ pc[w] = "idle"
  /\ spent.waits < MaxWaits
  /\ ms # Forever => now + ms <= MaxTime
  /\ \A c \in Controllers : ~InReset(c)
  /\ deadline' = [deadline EXCEPT ![w] = IF ms = Forever THEN Forever ELSE now + ms]
  /\ attached' = [attached EXCEPT ![w] = TRUE]
  /\ call' = [call EXCEPT ![w] = "waiting"]
  /\ spent' = [spent EXCEPT !.waits = @ + 1]
  /\ Go(w, "lock")
  /\ UNCHANGED <<lock, flag, op, until, now, skew>>

(* Taking the mutex, the first time or on the way out of the condition
   variable; both lead to the test of the flag. *)
LockWait(w) ==
  /\ pc[w] \in {"lock", "woken"}
  /\ lock = Nobody
  /\ lock' = w
  /\ Go(w, "test")
  /\ UNCHANGED <<flag, op, attached, deadline, until, call, now, skew, spent>>

(* while (load(flag) == 0) *)
TestFlag(w) ==
  /\ pc[w] = "test"
  /\ Go(w, IF flag THEN "leave" ELSE "arm")
  /\ UNCHANGED <<lock, flag, op, attached, deadline, until, call, now, skew, spent>>

(* Mutant: a sleep has no end of its own. *)
WakeTimeForever(w) == Forever

(* The wall-clock time a sleep ends at: what remains of the wait, from now. *)
WakeTime(w) ==
  IF deadline[w] = Forever THEN Forever ELSE now + skew + (deadline[w] - now)

(* The deadline is past: break. *)
GiveUp(w) ==
  /\ pc[w] = "arm"
  /\ Expired(w)
  /\ Go(w, "leave")
  /\ UNCHANGED <<lock, flag, op, attached, deadline, until, call, now, skew, spent>>

(* sicha_cond_timedwait_ms: on the condition variable and off the mutex. *)
Sleep(w) ==
  /\ pc[w] = "arm"
  /\ ~Expired(w)
  /\ until' = [until EXCEPT ![w] = WakeTime(w)]
  /\ lock' = Nobody
  /\ Go(w, "asleep")
  /\ UNCHANGED <<flag, op, attached, deadline, call, now, skew, spent>>

(* ETIMEDOUT. *)
TimeOut(w) ==
  /\ pc[w] = "asleep"
  /\ until[w] # Forever /\ now + skew >= until[w]
  /\ Go(w, "woken")
  /\ UNCHANGED <<lock, flag, op, attached, deadline, until, call, now, skew, spent>>

(* A wakeup without a reason. *)
Spurious(w) ==
  /\ pc[w] = "asleep"
  /\ spent.spurious < MaxSpurious
  /\ spent' = [spent EXCEPT !.spurious = @ + 1]
  /\ Go(w, "woken")
  /\ UNCHANGED <<lock, flag, op, attached, deadline, until, call, now, skew>>

(* Mutant: a wait that ran out of time does not look at the flag again. *)
VerdictOfLoop(w) == IF Expired(w) THEN "elapsed" ELSE "cancelled"

(* The flag is loaded once more, whatever ended the loop; what a finished
   call had in its locals is forgotten. *)
Verdict(w) == IF flag THEN "cancelled" ELSE "elapsed"

Leave(w) ==
  /\ pc[w] = "leave"
  /\ call' = [call EXCEPT ![w] = Verdict(w)]
  /\ lock' = Nobody
  /\ until' = [until EXCEPT ![w] = Forever]
  /\ Go(w, "idle")
  /\ UNCHANGED <<flag, op, attached, deadline, now, skew, spent>>

-----------------------------------------------------------------------------
(* real_wait_ms without a token: sleeps of at most Chunk.  A wait of 0 ms   *)
(* returns at once and is left out.                                        *)

NapTime(d) == IF d = Forever \/ d - now > Chunk THEN now + Chunk ELSE d

BeginNap(w, ms) ==
  /\ pc[w] = "idle"
  /\ spent.waits < MaxWaits
  /\ ms # 0
  /\ ms # Forever => now + ms <= MaxTime
  /\ LET d == IF ms = Forever THEN Forever ELSE now + ms IN
       /\ deadline' = [deadline EXCEPT ![w] = d]
       /\ until' = [until EXCEPT ![w] = NapTime(d)]
  /\ attached' = [attached EXCEPT ![w] = FALSE]
  /\ call' = [call EXCEPT ![w] = "waiting"]
  /\ spent' = [spent EXCEPT !.waits = @ + 1]
  /\ Go(w, "nap")
  /\ UNCHANGED <<lock, flag, op, now, skew>>

(* nanosleep returns: its time is over, or a signal interrupted it. *)
NapDone(w) == pc[w] = "nap" /\ now >= until[w]

NapInterrupted(w) == pc[w] = "nap" /\ now < until[w] /\ spent.spurious < MaxSpurious

(* Without a token "forever" is over after one nap; another wait goes on
   until its deadline. *)
NapEndsWait(w) == deadline[w] = Forever \/ Expired(w)

Nap(w) ==
  /\ \/ NapDone(w) /\ spent' = spent
     \/ NapInterrupted(w) /\ spent' = [spent EXCEPT !.spurious = @ + 1]
  /\ \/ /\ NapEndsWait(w)
        /\ call' = [call EXCEPT ![w] = "elapsed"]
        /\ Go(w, "idle")
        /\ until' = [until EXCEPT ![w] = Forever]
     \/ /\ ~NapEndsWait(w)
        /\ until' = [until EXCEPT ![w] = NapTime(deadline[w])]
        /\ UNCHANGED <<call, pc>>
  /\ UNCHANGED <<lock, flag, op, attached, deadline, now, skew>>

-----------------------------------------------------------------------------
(* sicha_cancel_trigger and sicha_cancel_reset.                            *)

BeginCall(c, what) ==
  /\ pc[c] = "idle"
  /\ spent.calls < MaxCalls
  /\ what = "reset" => \A w \in Waiters : pc[w] \in {"idle", "nap"}
  /\ op' = [op EXCEPT ![c] = what]
  /\ spent' = [spent EXCEPT !.calls = @ + 1]
  /\ Go(c, "lock")
  /\ UNCHANGED <<lock, flag, attached, deadline, until, call, now, skew>>

LockCall(c) ==
  /\ pc[c] = "lock"
  /\ lock = Nobody
  /\ lock' = c
  /\ Go(c, "store")
  /\ UNCHANGED <<flag, op, attached, deadline, until, call, now, skew, spent>>

Store(c) ==
  /\ pc[c] = "store"
  /\ flag' = (op[c] = "trigger")
  /\ Go(c, IF op[c] = "trigger" THEN "broadcast" ELSE "unlock")
  /\ UNCHANGED <<lock, op, attached, deadline, until, call, now, skew, spent>>

Asleep == {w \in Waiters : pc[w] = "asleep"}

(* Mutant: sicha_cond_signal, which wakes one thread. *)
WokenBySignal == IF Asleep = {} THEN {} ELSE {CHOOSE w \in Asleep : TRUE}

(* sicha_cond_broadcast wakes every thread on the condition variable. *)
WokenByBroadcast == Asleep

Broadcast(c) ==
  /\ pc[c] = "broadcast"
  /\ pc' = [t \in Threads |-> IF t = c THEN "unlock"
                              ELSE IF t \in WokenByBroadcast THEN "woken" ELSE pc[t]]
  /\ UNCHANGED <<lock, flag, op, attached, deadline, until, call, now, skew, spent>>

Unlock(c) ==
  /\ pc[c] = "unlock"
  /\ lock' = Nobody
  /\ op' = [op EXCEPT ![c] = "trigger"]
  /\ Go(c, "idle")
  /\ UNCHANGED <<flag, attached, deadline, until, call, now, skew, spent>>

-----------------------------------------------------------------------------
(* Time.                                                                   *)

(* Past MaxTime by the wall clock's settings, so that every sleep can end. *)
Tick ==
  /\ now < MaxTime + MaxSteps
  /\ now' = now + 1
  /\ UNCHANGED <<lock, flag, pc, op, attached, deadline, until, call, skew, spent>>

(* Somebody sets the wall clock. *)
SetWallClock ==
  /\ spent.steps < MaxSteps
  /\ skew' \in {skew - 1, skew + 1}
  /\ spent' = [spent EXCEPT !.steps = @ + 1]
  /\ UNCHANGED <<lock, flag, pc, op, attached, deadline, until, call, now>>

-----------------------------------------------------------------------------
WaitStep(w) ==
  LockWait(w) \/ TestFlag(w) \/ GiveUp(w) \/ Sleep(w) \/ TimeOut(w) \/ Leave(w)

CallStep(c) == LockCall(c) \/ Store(c) \/ Broadcast(c) \/ Unlock(c)

Next ==
  \/ \E w \in Waiters :
       \/ \E ms \in Waits : BeginWait(w, ms) \/ BeginNap(w, ms)
       \/ WaitStep(w) \/ Spurious(w) \/ Nap(w)
  \/ \E c \in Controllers :
       \/ \E what \in {"trigger", "reset"} : BeginCall(c, what)
       \/ CallStep(c)
  \/ Tick \/ SetWallClock

Spec == Init /\ [][Next]_vars

(* Every thread inside an operation is scheduled and time passes.  The mutex
   need not be fair: each thread asks for it finitely often. *)
FairSpec ==
  /\ Spec
  /\ \A w \in Waiters : WF_vars(WaitStep(w)) /\ WF_vars(Nap(w))
  /\ \A c \in Controllers : WF_vars(CallStep(c))
  /\ WF_vars(Tick)

-----------------------------------------------------------------------------
(* Properties.                                                             *)

WaitPlaces == {"idle", "lock", "test", "arm", "asleep", "woken", "leave", "nap"}
CallPlaces == {"idle", "lock", "store", "broadcast", "unlock"}

(* The values the token, the threads and the clocks may take; a thread is in a
   wait exactly as long as the wait has no result. *)
TypeOK ==
  /\ lock \in Threads \cup {Nobody}
  /\ flag \in BOOLEAN
  /\ pc \in [Threads -> WaitPlaces \cup CallPlaces]
  /\ \A w \in Waiters : pc[w] \in WaitPlaces
  /\ \A c \in Controllers : pc[c] \in CallPlaces
  /\ op \in [Controllers -> {"trigger", "reset"}]
  /\ attached \in [Waiters -> BOOLEAN]
  /\ deadline \in [Waiters -> Nat \cup {Forever}]
  /\ until \in [Waiters -> Int \cup {Forever}]
  /\ call \in [Waiters -> {"waiting", "cancelled", "elapsed"}]
  /\ \A w \in Waiters : call[w] = "waiting" <=> pc[w] # "idle"
  /\ now \in Nat
  /\ skew \in Int
  /\ spent \in [waits : Nat, calls : Nat, spurious : Nat, steps : Nat]

(* "a waiter cannot check the flag, decide to sleep, and miss the broadcast":
   whoever sleeps on a triggered token, or is about to, will be woken by the
   broadcast of a controller that holds the mutex. *)
NoLostWakeup ==
  \A w \in Waiters :
    flag /\ pc[w] \in {"arm", "asleep"} =>
      \E c \in Controllers : lock = c /\ pc[c] = "broadcast"

(* However often a wait is woken and sleeps again, no sleep is set to end
   after the deadline of the wait ("Block for up to ms", sicha.h). *)
SleepEndsByDeadline ==
  \A w \in Waiters :
    pc[w] = "asleep" /\ deadline[w] # Forever => until[w] - skew <= deadline[w]

(* The token as atomic operations. *)
Promise == INSTANCE CancelWait WITH triggered <- flag

(* CancelToken implements CancelWait. *)
ImplementsWait == Promise!Spec

(* A trigger wakes every wait on the token, endless ones too, and a finite
   wait ends without a trigger, with or without a token. *)
WaitsEnd ==
  \A w \in Waiters :
    /\ flag /\ pc[w] = "asleep" ~> pc[w] = "idle"
    /\ call[w] = "waiting" /\ deadline[w] # Forever ~> call[w] # "waiting"
=============================================================================
