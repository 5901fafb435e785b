---------------------------- MODULE RequestProofs ----------------------------
(***************************************************************************)
(* Proofs about what a call is given and what it takes: the cancel token   *)
(* (CancelToken), for any threads, waits and wall clock, and memory        *)
(* (RequestCheck), for any rows of operations, chains, calls and failures. *)
(***************************************************************************)
EXTENDS CancelToken, RequestCheck, FiniteSetTheorems, SequenceTheorems,
        WellFoundedInduction, TLAPS

(* The mutex has the holder its threads believe in. *)
MutexInv ==
  /\ \A w \in Waiters : pc[w] \in {"test", "arm", "leave"} <=> lock = w
  /\ \A c \in Controllers : pc[c] \in {"store", "broadcast", "unlock"} <=> lock = c

(* A wait inside the critical section or on the condition variable was given
   the token, and a token in use is not being reset. *)
UseInv ==
  /\ \A w \in Waiters :
       /\ pc[w] = "nap" => ~attached[w]
       /\ pc[w] \notin {"idle", "nap"} => attached[w]
  /\ \A c \in Controllers : InReset(c) => \A w \in Waiters : pc[w] \in {"idle", "nap"}

(* A wait leaves its loop for the flag or for its deadline. *)
ExitInv == \A w \in Waiters : pc[w] = "leave" => flag \/ Expired(w)

IInv == TypeOK /\ MutexInv /\ UseInv /\ ExitInv /\ NoLostWakeup

LEMMA InitIInv == Init => IInv
<1> SUFFICES ASSUME Init PROVE IInv
  OBVIOUS
<1> USE ThreadAssumption, TimeAssumption DEF Init, Threads
<1>1. TypeOK
  <2>1. pc \in [Threads -> WaitPlaces \cup CallPlaces]
    BY DEF WaitPlaces
  <2>2. \A w \in Waiters : pc[w] \in WaitPlaces /\ (call[w] = "waiting" <=> pc[w] # "idle")
    BY DEF WaitPlaces
  <2>3. \A c \in Controllers : pc[c] \in CallPlaces
    BY DEF CallPlaces
  <2>4. spent \in [waits : Nat, calls : Nat, spurious : Nat, steps : Nat]
    OBVIOUS
  <2>5. /\ op \in [Controllers -> {"trigger", "reset"}]
        /\ attached \in [Waiters -> BOOLEAN]
        /\ deadline \in [Waiters -> Nat \cup {Forever}]
        /\ until \in [Waiters -> Int \cup {Forever}]
        /\ call \in [Waiters -> {"waiting", "cancelled", "elapsed"}]
    OBVIOUS
  <2> QED BY <2>1, <2>2, <2>3, <2>4, <2>5 DEF TypeOK
<1>2. MutexInv
  <2>1. \A t \in Threads : t # Nobody /\ pc[t] = "idle"
    OBVIOUS
  <2> QED BY <2>1 DEF MutexInv
<1>3. UseInv /\ ExitInv /\ NoLostWakeup
  BY DEF UseInv, ExitInv, NoLostWakeup, InReset
<1> QED BY <1>1, <1>2, <1>3 DEF IInv

(* The steps of a waiter that move only itself and the mutex. *)
WaiterMove(w) ==
  LockWait(w) \/ TestFlag(w) \/ GiveUp(w) \/ Sleep(w) \/ TimeOut(w) \/ Spurious(w)

LEMMA StepCases ==
  ASSUME [Next]_vars
  PROVE  \/ \E w \in Waiters, ms \in Waits : BeginWait(w, ms) \/ BeginNap(w, ms)
         \/ \E w \in Waiters : WaiterMove(w) \/ Leave(w) \/ Nap(w)
         \/ \E c \in Controllers, what \in {"trigger", "reset"} : BeginCall(c, what)
         \/ \E c \in Controllers : LockCall(c) \/ Store(c) \/ Broadcast(c) \/ Unlock(c)
         \/ Tick \/ SetWallClock \/ UNCHANGED vars
BY DEF Next, WaitStep, CallStep, WaiterMove

-----------------------------------------------------------------------------
(* Types.                                                                  *)

LEMMA TypeStep ==
  ASSUME TypeOK, [Next]_vars
  PROVE  TypeOK'
<1> USE ThreadAssumption, TimeAssumption
<1>1. ASSUME NEW w \in Waiters, NEW ms \in Waits, BeginWait(w, ms) \/ BeginNap(w, ms)
      PROVE  TypeOK'
  <2>1. deadline' \in [Waiters -> Nat \cup {Forever}]
    BY <1>1 DEF TypeOK, BeginWait, BeginNap
  <2>2. until' \in [Waiters -> Int \cup {Forever}]
    <3>1. CASE BeginWait(w, ms)
      BY <3>1 DEF TypeOK, BeginWait
    <3>2. CASE BeginNap(w, ms)
      <4>1. NapTime(IF ms = Forever THEN Forever ELSE now + ms) \in Int \cup {Forever}
        BY DEF TypeOK, NapTime
      <4> QED BY <3>2, <4>1 DEF TypeOK, BeginNap
    <3> QED BY <1>1, <3>1, <3>2
  <2>3. spent' \in [waits : Nat, calls : Nat, spurious : Nat, steps : Nat]
    BY <1>1 DEF TypeOK, BeginWait, BeginNap
  <2>4. pc' \in [Threads -> WaitPlaces \cup CallPlaces]
    BY <1>1 DEF TypeOK, BeginWait, BeginNap, Go, Threads, WaitPlaces
  <2>5. /\ \A v \in Waiters : pc'[v] \in WaitPlaces
        /\ \A c \in Controllers : pc'[c] \in CallPlaces
        /\ \A v \in Waiters : call'[v] = "waiting" <=> pc'[v] # "idle"
    BY <1>1 DEF TypeOK, BeginWait, BeginNap, Go, Threads, WaitPlaces
  <2>6. /\ attached' \in [Waiters -> BOOLEAN]
        /\ call' \in [Waiters -> {"waiting", "cancelled", "elapsed"}]
        /\ UNCHANGED <<lock, flag, op, now, skew>>
    BY <1>1 DEF TypeOK, BeginWait, BeginNap
  <2> QED BY <2>1, <2>2, <2>3, <2>4, <2>5, <2>6 DEF TypeOK
<1>2. ASSUME NEW w \in Waiters, WaiterMove(w) \/ Leave(w)
      PROVE  TypeOK'
  <2>1. until' \in [Waiters -> Int \cup {Forever}]
    <3>1. WakeTime(w) \in Int \cup {Forever}
      BY DEF TypeOK, WakeTime
    <3> QED BY <1>2, <3>1 DEF TypeOK, WaiterMove, LockWait, TestFlag, GiveUp, Sleep,
                              TimeOut, Spurious, Leave
  <2>2. spent' \in [waits : Nat, calls : Nat, spurious : Nat, steps : Nat]
    BY <1>2 DEF TypeOK, WaiterMove, LockWait, TestFlag, GiveUp, Sleep, TimeOut, Spurious,
                Leave
  <2>3. CASE WaiterMove(w)
    BY <2>1, <2>2, <2>3
       DEF TypeOK, WaiterMove, LockWait, TestFlag, GiveUp, Sleep, TimeOut, Spurious, Go,
           Threads, WaitPlaces, CallPlaces
  <2>4. CASE Leave(w)
    BY <2>1, <2>2, <2>4 DEF TypeOK, Leave, Verdict, Go, Threads, WaitPlaces, CallPlaces
  <2> QED BY <1>2, <2>3, <2>4
<1>3. ASSUME NEW w \in Waiters, Nap(w)
      PROVE  TypeOK'
  <2>1. until' \in [Waiters -> Int \cup {Forever}]
    <3>1. NapTime(deadline[w]) \in Int \cup {Forever}
      BY DEF TypeOK, NapTime
    <3> QED BY <1>3, <3>1 DEF TypeOK, Nap
  <2>2. spent' \in [waits : Nat, calls : Nat, spurious : Nat, steps : Nat]
    BY <1>3 DEF TypeOK, Nap
  <2>3. pc[w] = "nap"
    BY <1>3 DEF Nap, NapDone, NapInterrupted
  <2> QED BY <1>3, <2>1, <2>2, <2>3 DEF TypeOK, Nap, Go, Threads, WaitPlaces, CallPlaces
<1>4. ASSUME NEW c \in Controllers, NEW what \in {"trigger", "reset"}, BeginCall(c, what)
      PROVE  TypeOK'
  <2>1. spent' \in [waits : Nat, calls : Nat, spurious : Nat, steps : Nat]
    BY <1>4 DEF TypeOK, BeginCall
  <2>2. op' \in [Controllers -> {"trigger", "reset"}]
    BY <1>4 DEF TypeOK, BeginCall
  <2>3. /\ pc' \in [Threads -> WaitPlaces \cup CallPlaces]
        /\ \A v \in Waiters : pc'[v] \in WaitPlaces /\ pc'[v] = pc[v]
        /\ \A d \in Controllers : pc'[d] \in CallPlaces
    BY <1>4 DEF TypeOK, BeginCall, Go, Threads, CallPlaces
  <2> QED BY <1>4, <2>1, <2>2, <2>3 DEF TypeOK, BeginCall
<1>5. ASSUME NEW c \in Controllers, LockCall(c) \/ Store(c) \/ Unlock(c)
      PROVE  TypeOK'
  <2>1. lock' \in Threads \cup {Nobody} /\ flag' \in BOOLEAN
    BY <1>5 DEF TypeOK, LockCall, Store, Unlock, Threads
  <2>2. /\ pc' \in [Threads -> WaitPlaces \cup CallPlaces]
        /\ \A v \in Waiters : pc'[v] \in WaitPlaces /\ pc'[v] = pc[v]
        /\ \A d \in Controllers : pc'[d] \in CallPlaces
    BY <1>5 DEF TypeOK, LockCall, Store, Unlock, Go, Threads, CallPlaces
  <2> QED BY <1>5, <2>1, <2>2 DEF TypeOK, LockCall, Store, Unlock
<1>6. ASSUME NEW c \in Controllers, Broadcast(c)
      PROVE  TypeOK'
  BY <1>6 DEF TypeOK, Broadcast, WokenByBroadcast, Asleep, Threads, WaitPlaces, CallPlaces
<1>7. CASE Tick \/ SetWallClock \/ UNCHANGED vars
  BY <1>7 DEF TypeOK, Tick, SetWallClock, vars
<1> QED BY <1>1, <1>2, <1>3, <1>4, <1>5, <1>6, <1>7, StepCases

-----------------------------------------------------------------------------
(* The mutex and what it protects.                                         *)

LEMMA MoveOne ==
  ASSUME TypeOK, NEW t \in Threads, NEW place, Go(t, place)
  PROVE  pc'[t] = place /\ \A s \in Threads : s # t => pc'[s] = pc[s]
BY DEF TypeOK, Go

LEMMA MutexStep ==
  ASSUME TypeOK, MutexInv, [Next]_vars
  PROVE  MutexInv'
<1> USE ThreadAssumption DEF Threads
<1>1. ASSUME NEW w \in Waiters, NEW ms \in Waits, BeginWait(w, ms) \/ BeginNap(w, ms)
      PROVE  MutexInv'
  BY <1>1, MoveOne DEF MutexInv, BeginWait, BeginNap
<1>2. ASSUME NEW w \in Waiters, LockWait(w)
      PROVE  MutexInv'
  BY <1>2, MoveOne DEF MutexInv, LockWait
<1>3. ASSUME NEW w \in Waiters, TestFlag(w) \/ GiveUp(w)
      PROVE  MutexInv'
  BY <1>3, MoveOne DEF MutexInv, TestFlag, GiveUp
<1>4. ASSUME NEW w \in Waiters, Sleep(w) \/ Leave(w)
      PROVE  MutexInv'
  BY <1>4, MoveOne DEF MutexInv, Sleep, Leave
<1>5. ASSUME NEW w \in Waiters, TimeOut(w) \/ Spurious(w)
      PROVE  MutexInv'
  BY <1>5, MoveOne DEF MutexInv, TimeOut, Spurious
<1>6. ASSUME NEW w \in Waiters, Nap(w)
      PROVE  MutexInv'
  <2>1. pc[w] = "nap" /\ lock' = lock
    BY <1>6 DEF Nap, NapDone, NapInterrupted
  <2>2. Go(w, "idle") \/ pc' = pc
    BY <1>6 DEF Nap
  <2> QED BY <2>1, <2>2, MoveOne DEF MutexInv
<1>7. ASSUME NEW c \in Controllers, NEW what \in {"trigger", "reset"}, BeginCall(c, what)
      PROVE  MutexInv'
  BY <1>7, MoveOne DEF MutexInv, BeginCall
<1>8. ASSUME NEW c \in Controllers, LockCall(c)
      PROVE  MutexInv'
  BY <1>8, MoveOne DEF MutexInv, LockCall
<1>9. ASSUME NEW c \in Controllers, Store(c)
      PROVE  MutexInv'
  BY <1>9, MoveOne DEF MutexInv, Store
<1>10. ASSUME NEW c \in Controllers, Broadcast(c)
       PROVE  MutexInv'
  <2>1. /\ pc[c] = "broadcast" /\ pc'[c] = "unlock" /\ lock' = lock
        /\ \A t \in Threads \ {c} :
             pc'[t] = pc[t] \/ (t \in Waiters /\ pc[t] = "asleep" /\ pc'[t] = "woken")
    BY <1>10 DEF Broadcast, WokenByBroadcast, Asleep
  <2> QED BY <2>1 DEF MutexInv
<1>11. ASSUME NEW c \in Controllers, Unlock(c)
       PROVE  MutexInv'
  BY <1>11, MoveOne DEF MutexInv, Unlock
<1>12. CASE Tick \/ SetWallClock \/ UNCHANGED vars
  BY <1>12 DEF MutexInv, Tick, SetWallClock, vars
<1> QED BY <1>1, <1>2, <1>3, <1>4, <1>5, <1>6, <1>7, <1>8, <1>9, <1>10, <1>11, <1>12,
           StepCases DEF WaiterMove

LEMMA WakeupStep ==
  ASSUME TypeOK, MutexInv, NoLostWakeup, [Next]_vars
  PROVE  NoLostWakeup'
<1> USE ThreadAssumption DEF Threads
<1>1. ASSUME NEW w \in Waiters, NEW ms \in Waits, BeginWait(w, ms) \/ BeginNap(w, ms)
      PROVE  NoLostWakeup'
  <2>1. UNCHANGED <<lock, flag>> /\ pc'[w] \in {"lock", "nap"}
    BY <1>1, MoveOne DEF BeginWait, BeginNap
  <2>2. \A t \in Threads : t # w => pc'[t] = pc[t]
    BY <1>1, MoveOne DEF BeginWait, BeginNap
  <2> QED BY <2>1, <2>2 DEF NoLostWakeup
<1>2. ASSUME NEW w \in Waiters, LockWait(w)
      PROVE  NoLostWakeup'
  BY <1>2, MoveOne DEF NoLostWakeup, LockWait, MutexInv
<1>3. ASSUME NEW w \in Waiters, TestFlag(w) \/ GiveUp(w)
      PROVE  NoLostWakeup'
  BY <1>3, MoveOne DEF NoLostWakeup, MutexInv, TestFlag, GiveUp
<1>4. ASSUME NEW w \in Waiters, Sleep(w) \/ Leave(w)
      PROVE  NoLostWakeup'
  <2>1. lock = w /\ flag' = flag /\ pc[w] \in {"arm", "leave"}
    BY <1>4 DEF Sleep, Leave, MutexInv
  <2>2. flag => \A v \in Waiters : pc[v] \notin {"arm", "asleep"}
    BY <2>1 DEF NoLostWakeup, MutexInv
  <2>3. \A v \in Waiters : v # w => pc'[v] = pc[v]
    BY <1>4, MoveOne DEF Sleep, Leave
  <2>4. pc'[w] = "asleep" => pc[w] = "arm"
    BY <1>4, MoveOne DEF Sleep, Leave
  <2>5. pc'[w] # "arm"
    BY <1>4, MoveOne DEF Sleep, Leave
  <2> QED BY <2>1, <2>2, <2>3, <2>4, <2>5 DEF NoLostWakeup
<1>5. ASSUME NEW w \in Waiters, TimeOut(w) \/ Spurious(w)
      PROVE  NoLostWakeup'
  BY <1>5, MoveOne DEF NoLostWakeup, TimeOut, Spurious
<1>6. ASSUME NEW w \in Waiters, Nap(w)
      PROVE  NoLostWakeup'
  <2>1. UNCHANGED <<lock, flag>>
    BY <1>6 DEF Nap
  <2>2. Go(w, "idle") \/ pc' = pc
    BY <1>6 DEF Nap
  <2> QED BY <2>1, <2>2, MoveOne DEF NoLostWakeup
<1>7. ASSUME NEW c \in Controllers, NEW what \in {"trigger", "reset"}, BeginCall(c, what)
      PROVE  NoLostWakeup'
  BY <1>7, MoveOne DEF NoLostWakeup, BeginCall
<1>8. ASSUME NEW c \in Controllers, LockCall(c)
      PROVE  NoLostWakeup'
  BY <1>8, MoveOne DEF NoLostWakeup, MutexInv, LockCall
<1>9. ASSUME NEW c \in Controllers, Store(c)
      PROVE  NoLostWakeup'
  <2>1. lock = c /\ lock' = c
    BY <1>9 DEF Store, MutexInv
  <2>2. flag' => pc'[c] = "broadcast"
    BY <1>9, MoveOne DEF Store
  <2> QED BY <2>1, <2>2 DEF NoLostWakeup
<1>10. ASSUME NEW c \in Controllers, Broadcast(c)
       PROVE  NoLostWakeup'
  <2>1. /\ pc[c] = "broadcast"
        /\ \A w \in Waiters : pc[w] = "asleep" => pc'[w] = "woken"
        /\ \A w \in Waiters : pc[w] # "asleep" => pc'[w] = pc[w]
    BY <1>10 DEF Broadcast, WokenByBroadcast, Asleep
  <2>2. \A w \in Waiters : pc[w] # "arm"
    BY <2>1 DEF MutexInv
  <2> QED BY <2>1, <2>2 DEF NoLostWakeup
<1>11. ASSUME NEW c \in Controllers, Unlock(c)
       PROVE  NoLostWakeup'
  <2>1. lock = c /\ pc[c] = "unlock" /\ flag' = flag
    BY <1>11 DEF Unlock, MutexInv
  <2>2. ~(flag /\ \E w \in Waiters : pc[w] \in {"arm", "asleep"})
    BY <2>1 DEF NoLostWakeup, MutexInv
  <2>3. \A w \in Waiters : pc'[w] = pc[w]
    BY <1>11, MoveOne DEF Unlock
  <2> QED BY <2>1, <2>2, <2>3 DEF NoLostWakeup
<1>12. CASE Tick \/ SetWallClock \/ UNCHANGED vars
  BY <1>12 DEF NoLostWakeup, Tick, SetWallClock, vars
<1> QED BY <1>1, <1>2, <1>3, <1>4, <1>5, <1>6, <1>7, <1>8, <1>9, <1>10, <1>11, <1>12,
           StepCases DEF WaiterMove

-----------------------------------------------------------------------------
(* Who uses the token, and why a wait leaves its loop.                     *)

LEMMA UseStep ==
  ASSUME TypeOK, UseInv, [Next]_vars
  PROVE  UseInv'
<1> USE ThreadAssumption DEF Threads
<1>1. ASSUME NEW w \in Waiters, NEW ms \in Waits, BeginWait(w, ms)
      PROVE  UseInv'
  <2>1. \A c \in Controllers : ~InReset(c)'
    BY <1>1, MoveOne DEF BeginWait, InReset
  <2>2. \A v \in Waiters : v # w => pc'[v] = pc[v] /\ attached'[v] = attached[v]
    BY <1>1, MoveOne DEF BeginWait, TypeOK
  <2>3. pc'[w] = "lock" /\ attached'[w]
    BY <1>1, MoveOne DEF BeginWait, TypeOK
  <2> QED BY <2>1, <2>2, <2>3 DEF UseInv
<1>2. ASSUME NEW w \in Waiters, NEW ms \in Waits, BeginNap(w, ms)
      PROVE  UseInv'
  <2>1. \A c \in Controllers : InReset(c)' = InReset(c)
    BY <1>2, MoveOne DEF BeginNap, InReset
  <2>2. \A v \in Waiters : v # w => pc'[v] = pc[v] /\ attached'[v] = attached[v]
    BY <1>2, MoveOne DEF BeginNap, TypeOK
  <2>3. pc'[w] = "nap" /\ ~attached'[w]
    BY <1>2, MoveOne DEF BeginNap, TypeOK
  <2> QED BY <2>1, <2>2, <2>3 DEF UseInv
<1>3. ASSUME NEW w \in Waiters, WaiterMove(w) \/ Leave(w)
      PROVE  UseInv'
  <2>1. /\ pc[w] \notin {"idle", "nap"} /\ pc'[w] # "nap"
        /\ \A t \in Threads : t # w => pc'[t] = pc[t]
        /\ UNCHANGED <<attached, op>>
    <3>1. CASE LockWait(w) \/ TestFlag(w) \/ GiveUp(w)
      BY <3>1, MoveOne DEF LockWait, TestFlag, GiveUp
    <3>2. CASE Sleep(w) \/ TimeOut(w) \/ Spurious(w) \/ Leave(w)
      BY <3>2, MoveOne DEF Sleep, TimeOut, Spurious, Leave
    <3> QED BY <1>3, <3>1, <3>2 DEF WaiterMove
  <2>2. \A c \in Controllers : ~InReset(c)'
    BY <2>1 DEF UseInv, InReset
  <2> QED BY <2>1, <2>2 DEF UseInv
<1>4. ASSUME NEW w \in Waiters, Nap(w)
      PROVE  UseInv'
  <2>1. pc[w] = "nap" /\ UNCHANGED <<attached, op>>
    BY <1>4 DEF Nap, NapDone, NapInterrupted
  <2>2. Go(w, "idle") \/ pc' = pc
    BY <1>4 DEF Nap
  <2> QED BY <2>1, <2>2, MoveOne DEF UseInv, InReset
<1>5. ASSUME NEW c \in Controllers, NEW what \in {"trigger", "reset"}, BeginCall(c, what)
      PROVE  UseInv'
  <2>1. /\ \A t \in Threads : t # c => pc'[t] = pc[t]
        /\ \A d \in Controllers : d # c => op'[d] = op[d]
        /\ pc'[c] = "lock" /\ op'[c] = what /\ attached' = attached
    BY <1>5, MoveOne DEF BeginCall, TypeOK
  <2>2. what = "reset" => \A w \in Waiters : pc[w] \in {"idle", "nap"}
    BY <1>5 DEF BeginCall
  <2> QED BY <2>1, <2>2 DEF UseInv, InReset
<1>6. ASSUME NEW c \in Controllers, LockCall(c) \/ Store(c) \/ Unlock(c)
      PROVE  UseInv'
  <2>1. /\ \A t \in Threads : t # c => pc'[t] = pc[t]
        /\ pc[c] # "idle" /\ UNCHANGED attached
    BY <1>6, MoveOne DEF LockCall, Store, Unlock
  <2>2. \A d \in Controllers : op'[d] = op[d] \/ op'[d] = "trigger"
    BY <1>6 DEF LockCall, Store, Unlock, TypeOK
  <2> QED BY <2>1, <2>2 DEF UseInv, InReset
<1>7. ASSUME NEW c \in Controllers, Broadcast(c)
      PROVE  UseInv'
  <2>1. /\ \A t \in Threads \ {c} :
             pc'[t] = pc[t] \/ (t \in Waiters /\ pc[t] = "asleep" /\ pc'[t] = "woken")
        /\ pc[c] # "idle" /\ UNCHANGED <<attached, op>>
    BY <1>7 DEF Broadcast, WokenByBroadcast, Asleep
  <2> QED BY <2>1 DEF UseInv, InReset
<1>8. CASE Tick \/ SetWallClock \/ UNCHANGED vars
  BY <1>8 DEF UseInv, InReset, Tick, SetWallClock, vars
<1> QED BY <1>1, <1>2, <1>3, <1>4, <1>5, <1>6, <1>7, <1>8, StepCases

LEMMA ExitStep ==
  ASSUME TypeOK, MutexInv, UseInv, ExitInv, [Next]_vars
  PROVE  ExitInv'
<1> USE ThreadAssumption, TimeAssumption DEF Threads
<1>1. ASSUME NEW w \in Waiters, NEW ms \in Waits, BeginWait(w, ms) \/ BeginNap(w, ms)
      PROVE  ExitInv'
  <2>1. /\ pc'[w] # "leave" /\ UNCHANGED <<flag, now>>
        /\ \A v \in Waiters : v # w => pc'[v] = pc[v] /\ deadline'[v] = deadline[v]
    BY <1>1, MoveOne DEF BeginWait, BeginNap, TypeOK
  <2> QED BY <2>1 DEF ExitInv, Expired
<1>2. ASSUME NEW w \in Waiters, TestFlag(w) \/ GiveUp(w)
      PROVE  ExitInv'
  <2>1. /\ UNCHANGED <<flag, now, deadline>>
        /\ pc'[w] = "leave" => flag \/ Expired(w)
        /\ \A v \in Waiters : v # w => pc'[v] = pc[v]
    BY <1>2, MoveOne DEF TestFlag, GiveUp
  <2> QED BY <2>1 DEF ExitInv, Expired
<1>3. ASSUME NEW w \in Waiters,
             LockWait(w) \/ Sleep(w) \/ TimeOut(w) \/ Spurious(w) \/ Leave(w)
      PROVE  ExitInv'
  <2>1. /\ UNCHANGED <<flag, now, deadline>> /\ pc'[w] # "leave"
        /\ \A v \in Waiters : v # w => pc'[v] = pc[v]
    BY <1>3, MoveOne DEF LockWait, Sleep, TimeOut, Spurious, Leave
  <2> QED BY <2>1 DEF ExitInv, Expired
<1>4. ASSUME NEW w \in Waiters, Nap(w)
      PROVE  ExitInv'
  <2>1. UNCHANGED <<flag, now, deadline>> /\ (Go(w, "idle") \/ pc' = pc)
    BY <1>4 DEF Nap
  <2> QED BY <2>1, MoveOne DEF ExitInv, Expired
<1>5. ASSUME NEW c \in Controllers, NEW what \in {"trigger", "reset"}, BeginCall(c, what)
      PROVE  ExitInv'
  <2>1. UNCHANGED <<flag, now, deadline>> /\ \A v \in Waiters : pc'[v] = pc[v]
    BY <1>5, MoveOne DEF BeginCall
  <2> QED BY <2>1 DEF ExitInv, Expired
<1>6. ASSUME NEW c \in Controllers, LockCall(c) \/ Unlock(c)
      PROVE  ExitInv'
  <2>1. UNCHANGED <<flag, now, deadline>> /\ \A v \in Waiters : pc'[v] = pc[v]
    BY <1>6, MoveOne DEF LockCall, Unlock
  <2> QED BY <2>1 DEF ExitInv, Expired
<1>7. ASSUME NEW c \in Controllers, Store(c)
      PROVE  ExitInv'
  <2>1. \A v \in Waiters : pc'[v] = pc[v] /\ pc[v] # "leave"
    BY <1>7, MoveOne DEF Store, MutexInv
  <2> QED BY <2>1 DEF ExitInv
<1>8. ASSUME NEW c \in Controllers, Broadcast(c)
      PROVE  ExitInv'
  <2>1. /\ UNCHANGED <<flag, now, deadline>>
        /\ \A v \in Waiters : pc'[v] = pc[v] \/ pc'[v] = "woken"
    BY <1>8 DEF Broadcast, WokenByBroadcast, Asleep
  <2> QED BY <2>1 DEF ExitInv, Expired
<1>9. CASE Tick
  <2>1. \A v \in Waiters : Expired(v) => Expired(v)'
    BY <1>9 DEF Tick, Expired, TypeOK
  <2> QED BY <1>9, <2>1 DEF ExitInv, Tick
<1>10. CASE SetWallClock \/ UNCHANGED vars
  BY <1>10 DEF ExitInv, Expired, SetWallClock, vars
<1> QED BY <1>1, <1>2, <1>3, <1>4, <1>5, <1>6, <1>7, <1>8, <1>9, <1>10, StepCases
        DEF WaiterMove

-----------------------------------------------------------------------------
(* Theorems.                                                               *)

THEOREM InductiveInvariant == Spec => []IInv
<1>1. IInv /\ [Next]_vars => IInv'
  BY TypeStep, MutexStep, UseStep, ExitStep, WakeupStep DEF IInv
<1> QED BY InitIInv, <1>1, PTL DEF Spec

(* Every field of the token and every place of a thread keeps its type, and a
   thread is in a wait exactly until the wait has a result. *)
THEOREM TypeCorrect == Spec => []TypeOK
<1>1. IInv => TypeOK
  BY DEF IInv
<1> QED BY <1>1, InductiveInvariant, PTL

(* For any number of threads: no wait of real_wait_ms sleeps through the
   broadcast of sicha_cancel_trigger. *)
THEOREM NoWakeupIsLost == Spec => []NoLostWakeup
<1>1. IInv => NoLostWakeup
  BY DEF IInv
<1> QED BY <1>1, InductiveInvariant, PTL

LEMMA PromiseStep ==
  ASSUME IInv, [Next]_vars
  PROVE  [Promise!Next]_Promise!waitVars
<1> USE ThreadAssumption, TimeAssumption
<1>1. ASSUME NEW w \in Waiters, NEW ms \in Waits, BeginWait(w, ms) \/ BeginNap(w, ms)
      PROVE  Promise!Begin(w)
  <2>1. call[w] # "waiting" /\ call' = [call EXCEPT ![w] = "waiting"]
    BY <1>1 DEF IInv, TypeOK, BeginWait, BeginNap
  <2>2. \E a \in BOOLEAN : attached' = [attached EXCEPT ![w] = a]
    BY <1>1 DEF BeginWait, BeginNap
  <2> DEFINE d == IF ms = Forever THEN Forever ELSE now + ms
  <2>3. deadline' = [deadline EXCEPT ![w] = d]
    BY <1>1 DEF BeginWait, BeginNap
  <2>4. deadline'[w] = d
    BY <2>3 DEF IInv, TypeOK
  <2>5. d \in Nat \cup {Forever} /\ (d # Forever => d >= now)
    BY DEF IInv, TypeOK
  <2>6. UNCHANGED <<flag, now>>
    BY <1>1 DEF BeginWait, BeginNap
  <2> HIDE DEF d
  <2> QED BY <2>1, <2>2, <2>3, <2>4, <2>5, <2>6 DEF Promise!Begin
<1>2. ASSUME NEW w \in Waiters, Leave(w)
      PROVE  Promise!Return(w, "cancelled") \/ Promise!Return(w, "elapsed")
  <2>1. call[w] = "waiting" /\ attached[w] /\ pc[w] = "leave"
    BY <1>2 DEF IInv, TypeOK, UseInv, Leave
  <2>2. flag \/ Expired(w)
    BY <2>1 DEF IInv, ExitInv
  <2>3. CASE flag
    BY <1>2, <2>1, <2>3 DEF Leave, Verdict, Promise!Return
  <2>4. CASE ~flag
    BY <1>2, <2>1, <2>2, <2>4 DEF Leave, Verdict, Expired, Promise!Return, Promise!Over
  <2> QED BY <2>3, <2>4
<1>3. ASSUME NEW w \in Waiters, Nap(w)
      PROVE  Promise!Return(w, "elapsed") \/ UNCHANGED Promise!waitVars
  <2>1. pc[w] = "nap" /\ call[w] = "waiting" /\ ~attached[w]
    BY <1>3 DEF Nap, NapDone, NapInterrupted, IInv, TypeOK, UseInv
  <2>2. CASE NapEndsWait(w)
    BY <1>3, <2>1, <2>2 DEF Nap, NapEndsWait, Expired, Promise!Return, Promise!Over
  <2>3. CASE ~NapEndsWait(w)
    BY <1>3, <2>3 DEF Nap, Promise!waitVars
  <2> QED BY <2>2, <2>3
<1>4. ASSUME NEW c \in Controllers, Store(c)
      PROVE  Promise!Trigger \/ Promise!Reset
  <2>1. CASE op[c] = "trigger"
    BY <1>4, <2>1 DEF Store, Promise!Trigger
  <2>2. CASE op[c] = "reset"
    <3>1. \A w \in Waiters : pc[w] \in {"idle", "nap"}
      BY <1>4, <2>2 DEF Store, IInv, UseInv, InReset
    <3>2. \A w \in Waiters : call[w] = "waiting" => ~attached[w]
      BY <3>1 DEF IInv, TypeOK, UseInv
    <3> QED BY <1>4, <2>2, <3>2 DEF Store, Promise!Reset
  <2> QED BY <2>1, <2>2 DEF IInv, TypeOK
<1>5. ASSUME NEW w \in Waiters, WaiterMove(w)
      PROVE  UNCHANGED Promise!waitVars
  BY <1>5 DEF WaiterMove, LockWait, TestFlag, GiveUp, Sleep, TimeOut, Spurious,
              Promise!waitVars
<1>6. ASSUME NEW c \in Controllers,
             (\E what \in {"trigger", "reset"} : BeginCall(c, what))
               \/ LockCall(c) \/ Broadcast(c) \/ Unlock(c)
      PROVE  UNCHANGED Promise!waitVars
  BY <1>6 DEF BeginCall, LockCall, Broadcast, Unlock, Promise!waitVars
<1>7. CASE Tick
  BY <1>7 DEF Tick, Promise!Tick, Promise!Next
<1>8. CASE SetWallClock \/ UNCHANGED vars
  BY <1>8 DEF SetWallClock, vars, Promise!waitVars
<1> QED BY <1>1, <1>2, <1>3, <1>4, <1>5, <1>6, <1>7, <1>8, StepCases DEF Promise!Next

(* The token, its mutex, its condition variable and two clocks implement
   waits, triggers and resets that are atomic. *)
THEOREM TokenImplementsWait == Spec => ImplementsWait
<1>1. Init => Promise!Init
  BY DEF Init, Promise!Init
<1>2. IInv /\ [Next]_vars => [Promise!Next]_Promise!waitVars
  BY PromiseStep
<1> QED BY <1>1, <1>2, InductiveInvariant, PTL DEF Spec, ImplementsWait, Promise!Spec

-----------------------------------------------------------------------------
(* Memory that runs out (Records, SetUp, RequestCheck).                     *)

(* A nonempty set of naturals has a least element: the first failure. *)
LEMMA LeastNat ==
  ASSUME NEW T \in SUBSET Nat, T # {}
  PROVE  \E x \in T : \A y \in T : x <= y
<1>1. PICK x \in T : \A y \in T : ~(<<y, x>> \in OpToRel(<, Nat))
  BY NatLessThanWellFounded, WFMin, Zenon
<1>2. \A y \in T : ~(y < x)
  BY <1>1 DEF OpToRel
<1> QED BY <1>2

(* The operation numbered e of the row that is asked about, of each of the three
   kinds of row: what their folds go over. *)
CollectStep(r, e) == CollectOne(r, e, query.ops, query.F)
ScriptStep(s, e) == ScriptOne(s, e, query.ops, query.F)
TransferStep(x, e) == header_cb(x, query.ops[e], e, query.F)

Collecting == INSTANCE FoldFacts WITH Op <- CollectStep
Scripting == INSTANCE FoldFacts WITH Op <- ScriptStep
Transferring == INSTANCE FoldFacts WITH Op <- TransferStep

(* The numbers of the operations, in order. *)
UpTo(n) == [k \in 1..n |-> k]

(* A row of results is a fold over the numbers of its operations. *)
LEMMA CollectedIs ==
  ASSUME NEW S, query.ops \in Seq(S)
  PROVE  Collected(Content, query.ops, query.F)
           = Collecting!Fold(sicha_result_create(Content, query.F), UpTo(Len(query.ops)))
<1>1. [e \in DOMAIN query.ops |-> e] = UpTo(Len(query.ops))
  BY DEF UpTo
<1>2. Collected(Content, query.ops, query.F)
        = Collecting!Fold(sicha_result_create(Content, query.F), [e \in DOMAIN query.ops |-> e])
  BY DEF Collected, CollectStep, Collecting!Fold, Collecting!FoldLeft, FoldLeft,
         Collecting!MapThenFoldSet, MapThenFoldSet, Collecting!Max, Max
<1> QED BY <1>1, <1>2

(* One number more. *)
LEMMA UpToGrows ==
  ASSUME NEW n \in Nat
  PROVE  UpTo(n) \in Seq(Nat) /\ UpTo(n + 1) = Append(UpTo(n), n + 1)
<1>1. UpTo(n) \in Seq(Nat) /\ UpTo(n + 1) \in Seq(Nat)
  BY DEF UpTo
<1>2. Len(UpTo(n)) = n /\ Len(UpTo(n + 1)) = n + 1
  BY DEF UpTo
<1> QED BY <1>1, <1>2 DEF UpTo

(* The result of the first n + 1 operations is the last of them made on the
   result of the first n. *)
LEMMA CollectGrows ==
  ASSUME NEW base, NEW n \in Nat
  PROVE  Collecting!Fold(base, UpTo(n + 1)) = CollectStep(Collecting!Fold(base, UpTo(n)), n + 1)
<1>0. UpTo(n) \in Seq(Nat) /\ n + 1 \in Nat /\ UpTo(n + 1) = Append(UpTo(n), n + 1)
  <2>1. n + 1 \in Nat
    OBVIOUS
  <2> QED BY <2>1, UpToGrows, Zenon
<1> DEFINE s == UpTo(n)
           x == n + 1
<1>1. s \in Seq(Nat) /\ x \in Nat /\ UpTo(n + 1) = Append(s, x)
  BY <1>0
<1> HIDE DEF s, x
<1>2. Collecting!Fold(base, Append(s, x)) = CollectStep(Collecting!Fold(base, s), x)
  BY <1>1, Collecting!FoldAppend
<1> QED BY <1>1, <1>2 DEF s, x

-----------------------------------------------------------------------------
(* What is done, one more operation later.                                 *)

LEMMA DoneGrows ==
  ASSUME NEW done \in Seq(BOOLEAN), NEW ok \in BOOLEAN
  PROVE  LET e    == Len(done) + 1
             more == Append(done, ok)
         IN  /\ more \in Seq(BOOLEAN) /\ Len(more) = e /\ e \in Nat
             /\ DOMAIN more = DOMAIN done \cup {e} /\ e \notin DOMAIN done
             /\ more[e] = ok /\ \A k \in DOMAIN done : more[k] = done[k]
  OBVIOUS

(* The operations that succeeded, and one more. *)
LEMMA SucceededGrows ==
  ASSUME NEW done \in Seq(BOOLEAN), NEW ok \in BOOLEAN, NEW kind
  PROVE  Succeeded(Append(done, ok), kind)
           = Succeeded(done, kind)
             \cup {k \in {Len(done) + 1} : query.ops[k] = kind /\ ok}
<1> DEFINE e == Len(done) + 1
           more == Append(done, ok)
<1>1. /\ DOMAIN more = DOMAIN done \cup {e} /\ e \notin DOMAIN done
      /\ more[e] = ok /\ \A k \in DOMAIN done : more[k] = done[k]
  BY DoneGrows
<1> HIDE DEF e, more
<1>2. Succeeded(more, kind) = Succeeded(done, kind) \cup {k \in {e} : query.ops[k] = kind /\ ok}
  BY <1>1 DEF Succeeded
<1> QED BY <1>2 DEF e, more

(* A list in order stays so when a later operation goes behind it. *)
LEMMA OrderGrows ==
  ASSUME NEW n \in Nat, NEW list \in Seq(1..n), NEW those, Listed(list, those)
  PROVE  /\ Listed(Append(list, n + 1), those \cup {n + 1})
         /\ Append(list, n + 1) \in Seq(1..(n + 1))
<1> DEFINE e == n + 1
           more == Append(list, e)
           m == Len(list) + 1
<1>1. list \in Seq(1..e) /\ e \in 1..e
  OBVIOUS
<1>2. /\ more \in Seq(1..e) /\ DOMAIN more = DOMAIN list \cup {m} /\ m \notin DOMAIN list
      /\ more[m] = e /\ (\A k \in DOMAIN list : more[k] = list[k] /\ list[k] \in 1..n /\ k \in Nat /\ k < m)
      /\ m \in Nat
  BY <1>1, AppendProperties
<1> HIDE DEF more, m
<1>3. Range(more) = Range(list) \cup {e}
  BY <1>2 DEF Range
<1>4. \A j, k \in DOMAIN more : j < k => more[j] < more[k]
  BY <1>2 DEF Listed
<1> QED BY <1>2, <1>3, <1>4 DEF Listed, more

(* Later numbers change nothing about a list of earlier ones. *)
LatestOf(done, kinds) ==
  {k \in DOMAIN done : /\ query.ops[k] \in kinds /\ done[k]
                       /\ \A j \in k..Len(done) : query.ops[j] # "reset"}

(* m is the last of these operations to have succeeded, 0 for none: Latest
   without its fold. *)
IsLatest(m, done, kinds) ==
  m \in {0} \cup LatestOf(done, kinds) /\ \A k \in LatestOf(done, kinds) : k <= m

(* There is one such number, and Latest returns it. *)
LEMMA LatestIs ==
  ASSUME NEW done \in Seq(BOOLEAN), NEW kinds, NEW m, IsLatest(m, done, kinds)
  PROVE  Latest(done, kinds) = m
<1> DEFINE T == {0} \cup LatestOf(done, kinds)
<1>1. T \subseteq Nat /\ m \in T /\ \A k \in T : k <= m
  BY DEF IsLatest, LatestOf
<1> HIDE DEF T
<1>2. \A x \in T : (\A y \in T : x >= y) => x = m
  BY <1>1
<1>3. \A y \in T : m >= y
  BY <1>1
<1>4. Max(T) = m
  BY <1>1, <1>2, <1>3 DEF Max
<1> QED BY <1>4 DEF Latest, LatestOf, T

(* The last to have succeeded, when one more is noted. *)
LEMMA LatestGrows ==
  ASSUME NEW done \in Seq(BOOLEAN), NEW ok \in BOOLEAN, NEW kinds, "reset" \notin kinds,
         NEW m, IsLatest(m, done, kinds)
  PROVE  LET e == Len(done) + 1 IN
         /\ query.ops[e] = "reset" => IsLatest(0, Append(done, ok), kinds)
         /\ query.ops[e] \in kinds /\ ok => IsLatest(e, Append(done, ok), kinds)
         /\ query.ops[e] # "reset" /\ (query.ops[e] \notin kinds \/ ~ok) =>
              IsLatest(m, Append(done, ok), kinds)
<1> DEFINE e == Len(done) + 1
           more == Append(done, ok)
<1>1. /\ Len(more) = e /\ e \in Nat \ {0} /\ Len(done) \in Nat
      /\ DOMAIN more = 1..e /\ DOMAIN done = 1..(e - 1)
      /\ more[e] = ok /\ \A k \in DOMAIN done : more[k] = done[k]
  BY DoneGrows
<1>2. Len(done) = e - 1
  OBVIOUS
<1> HIDE DEF e, more
<1>3. ASSUME query.ops[e] = "reset" PROVE LatestOf(more, kinds) = {}
  BY <1>1, <1>3 DEF LatestOf
<1>4. ASSUME query.ops[e] # "reset"
      PROVE  LatestOf(more, kinds)
               = LatestOf(done, kinds) \cup {k \in {e} : query.ops[k] \in kinds /\ ok}
  <2>1. ASSUME NEW k \in LatestOf(more, kinds), k # e PROVE k \in LatestOf(done, kinds)
    BY <1>1, <1>2, <2>1 DEF LatestOf
  <2>2. ASSUME NEW k \in LatestOf(done, kinds) PROVE k \in LatestOf(more, kinds)
    <3>1. k \in 1..(e - 1) /\ query.ops[k] \in kinds /\ done[k]
          /\ \A j \in k..(e - 1) : query.ops[j] # "reset"
      BY <1>1, <1>2 DEF LatestOf
    <3>2. \A j \in k..e : j = e \/ j \in k..(e - 1)
      BY <1>1, <3>1
    <3> QED BY <1>1, <1>4, <3>1, <3>2 DEF LatestOf
  <2>3. e \in LatestOf(more, kinds) <=> query.ops[e] \in kinds /\ ok
    <3>1. \A j \in e..e : query.ops[j] # "reset"
      BY <1>1, <1>4
    <3>2. e \in DOMAIN more /\ Len(more) = e /\ more[e] = ok
      BY <1>1
    <3> QED BY <3>1, <3>2 DEF LatestOf
  <2> QED BY <2>1, <2>2, <2>3
<1>5. \A k \in LatestOf(done, kinds) : k \in Nat /\ k <= e
  BY <1>1 DEF LatestOf
<1> QED
  <2>1. ASSUME query.ops[e] = "reset" PROVE IsLatest(0, more, kinds)
    BY <1>3, <2>1 DEF IsLatest
  <2>2. ASSUME query.ops[e] \in kinds, ok PROVE IsLatest(e, more, kinds)
    BY <1>1, <1>4, <1>5, <2>2 DEF IsLatest
  <2>3. ASSUME query.ops[e] # "reset", query.ops[e] \notin kinds \/ ~ok PROVE IsLatest(m, more, kinds)
    BY <1>4, <2>3 DEF IsLatest
  <2> QED BY <2>1, <2>2, <2>3 DEF e, more


-----------------------------------------------------------------------------
(* Room in a list.                                                         *)

IsList(list) ==
  /\ list = [items |-> list.items, cap |-> list.cap]
  /\ list.cap \in Nat /\ list.items \in Seq(Nat) /\ Len(list.items) <= list.cap

(* The room after making place for one more entry. *)
Room(list, first) ==
  IF Len(list.items) < list.cap THEN list.cap ELSE IF list.cap = 0 THEN first ELSE 2 * list.cap

Roomy(list, first) == [items |-> list.items, cap |-> Room(list, first)]

(* Making place leaves the entries. *)
LEMMA RoomyIs ==
  ASSUME NEW list, IsList(list), NEW first \in Nat \ {0}
  PROVE  /\ Room(list, first) \in Nat \ {0} /\ Len(list.items) < Room(list, first)
         /\ IsList(Roomy(list, first)) /\ Roomy(list, first).items = list.items
  BY DEF IsList, Room, Roomy

(* Making place for one more entry allocates the new array and frees the old
   one, or fails and changes nothing. *)
LEMMA RoomIs ==
  ASSUME NEW o, NEW member \in DOMAIN o, "live" \in DOMAIN o, member # "live",
         NEW first \in Nat \ {0}, NEW F, IsList(o[member]), ArrayOf(member, o[member]) \subseteq o.live
  PROVE  LET room == RoomIn(o, member, first, F)
             list == o[member]
             more == Roomy(list, first)
         IN  /\ room.ok \in BOOLEAN /\ (F = {} => room.ok)
             /\ room.ok => /\ DOMAIN room.o = DOMAIN o /\ room.o[member] = more
                           /\ room.o.live = (o.live \ ArrayOf(member, list))
                                            \cup ArrayOf(member, more)
                           /\ \A p \in DOMAIN o \ {member, "live"} : room.o[p] = o[p]
<1> DEFINE list == o[member]
           grown == [list EXCEPT !.cap = Doubled(list, first)]
           room == RoomIn(o, member, first, F)
           G == Roomy(list, first)
           A == ArrayOf(member, list)
           D == ArrayOf(member, G)
           more == [o EXCEPT ![member] = G, !.live = (@ \ A) \cup D]
<1>1. CASE Len(list.items) < list.cap
  <2>1. room = [ok |-> TRUE, o |-> o]
    BY <1>1 DEF RoomIn
  <2>2. G = list
    BY <1>1 DEF Roomy, Room, IsList
  <2>3. (o.live \ A) \cup D = o.live
    BY <2>2
  <2> HIDE DEF A, D, G, list, room
  <2>4. room.ok = TRUE /\ room.o = o
    BY <2>1
  <2> QED BY <2>2, <2>3, <2>4 DEF A, D, G, list, room
<1>2. CASE ~(Len(list.items) < list.cap)
  <2>1. grown = G
    BY <1>2 DEF IsList, Roomy, Room, Doubled
  <2>2. room = IF ArrayOf(member, grown) \cap F # {} THEN [ok |-> FALSE, o |-> o]
               ELSE [ok |-> TRUE,
                     o  |-> [o EXCEPT ![member] = grown,
                                      !.live = (@ \ A) \cup ArrayOf(member, grown)]]
    BY <1>2 DEF RoomIn
  <2> HIDE DEF grown, G
  <2>3. room = IF D \cap F # {} THEN [ok |-> FALSE, o |-> o] ELSE [ok |-> TRUE, o |-> more]
    BY <2>1, <2>2
  <2> HIDE DEF A, D
  <2>4. /\ DOMAIN more = DOMAIN o /\ more[member] = G /\ more.live = (o.live \ A) \cup D
        /\ \A p \in DOMAIN o \ {member, "live"} : more[p] = o[p]
    OBVIOUS
  <2> HIDE DEF more, room
  <2>5. room.ok \in BOOLEAN /\ (F = {} => room.ok) /\ (room.ok => room.o = more)
    BY <2>3
  <2> QED BY <2>4, <2>5 DEF room, A, D, G
<1> QED BY <1>1, <1>2

-----------------------------------------------------------------------------
(* A result.                                                               *)

IsResult(r) ==
  {"attempts", "done", "model", "finish_raw", "finish", "live"} \subseteq DOMAIN r

Recorded(items) == UNION {AttemptBlocks(items[k]) : k \in DOMAIN items}

ResultOwns(r) ==
  {<<"result">>} \cup ArrayOf("attempts", r.attempts) \cup Named("model", r.model)
  \cup Named("finish_raw", r.finish_raw) \cup Recorded(r.attempts.items)

ResultSo(r) ==
  /\ IsList(r.attempts) /\ r.attempts.items \in Seq(1..Len(r.done))
  /\ Listed(r.attempts.items, Succeeded(r.done, "attempt"))
  /\ IsLatest(r.model, r.done, {"model"})
  /\ IsLatest(r.finish_raw, r.done, Reasons)
  /\ r.finish = IF r.finish_raw = 0 \/ query.ops[r.finish_raw] = "other" THEN "unknown"
                ELSE query.ops[r.finish_raw]
  /\ r.live \ Content = ResultOwns(r)

ResultInv(r, n) ==
  /\ IsResult(r) /\ r.done \in Seq(BOOLEAN)
  /\ CallOver(r, query.ops) \/ Len(r.done) = n
  /\ query.F = {} => r.live # {} /\ \A k \in DOMAIN r.done : r.done[k]
  /\ r.live # {} => ResultSo(r)

(* Blocks are told apart by the member that points to them. *)
LEMMA ResultApart ==
  ASSUME NEW list, NEW e, NEW j, NEW k
  PROVE  LET A == ArrayOf("attempts", list)
             M == Named("model", e)
             V == Named("finish_raw", j)
             E == AttemptBlocks(k)
         IN  /\ \A b \in Content : b[1] \in {"text", "reasoning", "raw_body"}
             /\ \A b \in A : b[1] = "attempts"
             /\ \A b \in M : b[1] = "model"
             /\ \A b \in V : b[1] = "finish_raw"
             /\ \A b \in E : b[1] \in {"attempt model", "message", "raw_body_excerpt"} /\ b[2] = k
<1>1. \A b \in Content : b[1] \in {"text", "reasoning", "raw_body"}
  BY DEF Content
<1>2. \A b \in ArrayOf("attempts", list) : b[1] = "attempts"
  BY DEF ArrayOf
<1>3. \A b \in Named("model", e) : b[1] = "model"
  BY DEF Named
<1>4. \A b \in Named("finish_raw", j) : b[1] = "finish_raw"
  BY DEF Named
<1>5. \A b \in AttemptBlocks(k) :
        b[1] \in {"attempt model", "message", "raw_body_excerpt"} /\ b[2] = k
  <2>1. ASSUME NEW b \in AttemptBlocks(k)
        PROVE  b[1] \in {"attempt model", "message", "raw_body_excerpt"} /\ b[2] = k
    <3>1. PICK part \in {"attempt model", "message", "raw_body_excerpt"} : b = <<part, k>>
      BY DEF AttemptBlocks
    <3> QED BY <3>1
  <2> QED BY <2>1
<1> QED BY <1>1, <1>2, <1>3, <1>4, <1>5

(* The blocks of the records, and those of one record more. *)
LEMMA RecordedGrow ==
  ASSUME NEW items \in Seq(Nat), NEW e \in Nat
  PROVE  Recorded(Append(items, e)) = Recorded(items) \cup AttemptBlocks(e)
<1> DEFINE t == Append(items, e)
           m == Len(items) + 1
<1>1. /\ DOMAIN t = DOMAIN items \cup {m} /\ t[m] = e
      /\ \A k \in DOMAIN items : t[k] = items[k]
  BY AppendProperties
<1> HIDE DEF t, m
<1>2. \A b : b \in Recorded(t) <=> \E k \in DOMAIN t : b \in AttemptBlocks(t[k])
  BY DEF Recorded
<1>3. \A b : b \in Recorded(items) <=> \E k \in DOMAIN items : b \in AttemptBlocks(items[k])
  BY DEF Recorded
<1>4. \A b : b \in Recorded(t) <=> b \in Recorded(items) \/ b \in AttemptBlocks(e)
  BY <1>1, <1>2, <1>3
<1>5. Recorded(t) = Recorded(items) \cup AttemptBlocks(e)
  BY <1>4
<1> QED BY <1>5 DEF t

(* An operation is done, and the result is as it should be. *)
LEMMA ResultStays ==
  ASSUME NEW n \in Nat, NEW r, ResultInv(r, n), ~CallOver(r, query.ops), NEW ok \in BOOLEAN,
         query.F = {} => ok, NEW q, IsResult(q), q.done = Append(r.done, ok),
         IsList(q.attempts),
         q.attempts.items = IF query.ops[n + 1] = "attempt" /\ ok
                            THEN Append(r.attempts.items, n + 1) ELSE r.attempts.items,
         IsLatest(q.model, q.done, {"model"}), IsLatest(q.finish_raw, q.done, Reasons),
         q.finish = IF q.finish_raw = 0 \/ query.ops[q.finish_raw] = "other" THEN "unknown"
                    ELSE query.ops[q.finish_raw],
         q.live \ Content = ResultOwns(q)
  PROVE  ResultInv(q, n + 1)
<1> DEFINE e == n + 1
<1>1. r.live # {} /\ Len(r.done) = n /\ r.done \in Seq(BOOLEAN) /\ ResultSo(r)
  BY DEF ResultInv, CallOver
<1>2. /\ q.done \in Seq(BOOLEAN) /\ Len(q.done) = e
      /\ DOMAIN q.done = DOMAIN r.done \cup {e}
      /\ q.done[e] = ok /\ \A k \in DOMAIN r.done : q.done[k] = r.done[k]
  BY <1>1, DoneGrows
<1>3. q.live # {}
  BY DEF ResultOwns
<1>4. query.F = {} => \A k \in DOMAIN q.done : q.done[k]
  BY <1>2 DEF ResultInv
<1>5. Listed(q.attempts.items, Succeeded(q.done, "attempt"))
      /\ q.attempts.items \in Seq(1..Len(q.done))
  <2>1. Succeeded(q.done, "attempt") = Succeeded(r.done, "attempt")
          \cup {k \in {e} : query.ops[k] = "attempt" /\ ok}
    BY <1>1, SucceededGrows
  <2>2. Listed(r.attempts.items, Succeeded(r.done, "attempt")) /\ r.attempts.items \in Seq(1..n)
    BY <1>1 DEF ResultSo
  <2>3. CASE query.ops[e] = "attempt" /\ ok
    <3>1. Succeeded(q.done, "attempt") = Succeeded(r.done, "attempt") \cup {e}
      BY <2>1, <2>3
    <3>2. q.attempts.items = Append(r.attempts.items, e)
      BY <2>3
    <3>3. /\ Listed(Append(r.attempts.items, n + 1), Succeeded(r.done, "attempt") \cup {n + 1})
          /\ Append(r.attempts.items, n + 1) \in Seq(1..(n + 1))
      BY <2>2, OrderGrows
    <3> QED BY <1>2, <3>1, <3>2, <3>3, Zenon
  <2>4. CASE ~(query.ops[e] = "attempt" /\ ok)
    <3>1. Succeeded(q.done, "attempt") = Succeeded(r.done, "attempt")
      BY <2>1, <2>4
    <3>2. q.attempts.items = r.attempts.items
      BY <2>4
    <3>3. r.attempts.items \in Seq(1..e)
      BY <2>2
    <3> QED BY <1>2, <2>2, <3>1, <3>2, <3>3
  <2> QED BY <2>3, <2>4
<1>6. ResultSo(q)
  BY <1>2, <1>5 DEF ResultSo
<1> QED BY <1>2, <1>3, <1>4, <1>6 DEF ResultInv

(* Replacing one set of blocks by another, in the order the code does it. *)
LEMMA BlocksMove ==
  ASSUME NEW live, NEW C, NEW A, NEW D, NEW G, NEW Rest1, NEW F,
         live \ C = Rest1 \cup A,
         \A b \in A : b \notin Rest1 /\ b \notin C, \A b \in D : b \notin C,
         \A b \in G : b \notin Rest1 /\ b \notin C /\ b \notin D
  PROVE  /\ A \subseteq live
         /\ ((live \ A) \cup D) \ C = Rest1 \cup D
         /\ ((((live \ A) \cup D) \cup (G \ F)) \ G) \ C = Rest1 \cup D
         /\ G \cap F = {} => (((live \ A) \cup D) \cup (G \ F)) \ C = Rest1 \cup D \cup G
  OBVIOUS

(* The blocks of a new attempt are no blocks the result has. *)
LEMMA AttemptIsNew ==
  ASSUME NEW n \in Nat, NEW r, ResultSo(r), Len(r.done) = n
  PROVE  \A b \in AttemptBlocks(n + 1) : b \notin ResultOwns(r) /\ b \notin Content
<1> DEFINE e == n + 1
<1>1. ASSUME NEW b \in AttemptBlocks(e), b \in Recorded(r.attempts.items) PROVE FALSE
  <2>1. PICK k \in DOMAIN r.attempts.items : b \in AttemptBlocks(r.attempts.items[k])
    BY <1>1 DEF Recorded
  <2>2. r.attempts.items[k] \in 1..n
    BY <2>1 DEF ResultSo
  <2>3. b[2] = e /\ b[2] = r.attempts.items[k]
    BY <1>1, <2>1, ResultApart
  <2> QED BY <2>2, <2>3
<1>2. ASSUME NEW b \in AttemptBlocks(e)
      PROVE  /\ b \notin Content /\ b # <<"result">> /\ b \notin ArrayOf("attempts", r.attempts)
             /\ b \notin Named("model", r.model) /\ b \notin Named("finish_raw", r.finish_raw)
  <2>1. b[1] \in {"attempt model", "message", "raw_body_excerpt"}
    BY ResultApart
  <2>2. b \notin Content
    BY <2>1, ResultApart
  <2>3. b # <<"result">>
    <3>1. <<"result">>[1] = "result"
      OBVIOUS
    <3> QED BY <2>1, <3>1
  <2>4. b \notin ArrayOf("attempts", r.attempts)
    BY <2>1, ResultApart
  <2>5. b \notin Named("model", r.model) /\ b \notin Named("finish_raw", r.finish_raw)
    BY <2>1, ResultApart
  <2> QED BY <2>2, <2>3, <2>4, <2>5
<1> QED BY <1>1, <1>2 DEF ResultOwns

(* All but the array of attempts. *)
ResultHas(r) ==
  {<<"result">>} \cup Named("model", r.model) \cup Named("finish_raw", r.finish_raw)
  \cup Recorded(r.attempts.items)

(* The array of records is none of the other blocks. *)
LEMMA ArrayIsApart ==
  ASSUME NEW r, NEW list
  PROVE  /\ ResultOwns(r) = ResultHas(r) \cup ArrayOf("attempts", r.attempts)
         /\ \A b \in ArrayOf("attempts", list) : b \notin ResultHas(r) /\ b \notin Content
<1>1. ResultOwns(r) = ResultHas(r) \cup ArrayOf("attempts", r.attempts)
  BY DEF ResultOwns, ResultHas
<1>2. ASSUME NEW b \in ArrayOf("attempts", list) PROVE b \notin ResultHas(r) /\ b \notin Content
  <2>1. b[1] = "attempts"
    BY ResultApart
  <2>2. b \notin Content
    BY <2>1, ResultApart
  <2>3. b # <<"result">>
    <3>1. <<"result">>[1] = "result"
      OBVIOUS
    <3> QED BY <2>1, <3>1
  <2>4. b \notin Named("model", r.model) /\ b \notin Named("finish_raw", r.finish_raw)
    BY <2>1, ResultApart
  <2>5. b \notin Recorded(r.attempts.items)
    <3>1. ASSUME b \in Recorded(r.attempts.items) PROVE FALSE
      <4>1. PICK k \in DOMAIN r.attempts.items : b \in AttemptBlocks(r.attempts.items[k])
        BY <3>1 DEF Recorded
      <4>2. b[1] \in {"attempt model", "message", "raw_body_excerpt"}
        BY <4>1, ResultApart
      <4> QED BY <2>1, <4>2
    <3> QED BY <3>1
  <2> QED BY <2>2, <2>3, <2>4, <2>5 DEF ResultHas
<1> QED BY <1>1, <1>2

(* sicha_result_add_attempt adds a record with its blocks, or nothing. *)
LEMMA AttemptKeepsResult ==
  ASSUME NEW n \in Nat, NEW r, ResultInv(r, n), ~CallOver(r, query.ops),
         query.ops[n + 1] = "attempt"
  PROVE  ResultInv(sicha_result_add_attempt(r, n + 1, query.F), n + 1)
<1> DEFINE e == n + 1
           F == query.F
           E == AttemptBlocks(e)
           list == r.attempts
           grown == Roomy(list, 4)
           room == RoomIn(r, "attempts", 4, F)
           A == ArrayOf("attempts", list)
           D == ArrayOf("attempts", grown)
           H == ResultHas(r)
<1>1. r.live # {} /\ Len(r.done) = n /\ r.done \in Seq(BOOLEAN) /\ ResultSo(r) /\ IsResult(r)
  BY DEF ResultInv, CallOver
<1>2. /\ IsList(list) /\ r.live \ Content = H \cup A
      /\ IsLatest(r.model, r.done, {"model"}) /\ IsLatest(r.finish_raw, r.done, Reasons)
      /\ r.finish = IF r.finish_raw = 0 \/ query.ops[r.finish_raw] = "other" THEN "unknown"
                    ELSE query.ops[r.finish_raw]
  BY <1>1, ArrayIsApart DEF ResultSo
<1>3. /\ \A b \in A : b \notin H /\ b \notin Content
      /\ \A b \in D : b \notin H /\ b \notin Content
      /\ \A b \in E : b \notin H /\ b \notin Content
      /\ \A b \in E : b \notin D
  <2>1. \A b \in E : b \notin H /\ b \notin Content
    BY <1>1, AttemptIsNew, ArrayIsApart
  <2>2. \A b \in E : b \notin D
    BY ResultApart
  <2> QED BY <2>1, <2>2, ArrayIsApart
<1>4. IsList(grown) /\ grown.items = list.items /\ 4 \in Nat \ {0}
  <2>1. 4 \in Nat \ {0} /\ IsList(r.attempts)
    BY <1>2
  <2> QED BY <2>1, RoomyIs, Zenon
<1> DEFINE held == (r.live \ A) \cup D
           o == room.o
<1>5. /\ room.ok \in BOOLEAN /\ (F = {} => room.ok)
      /\ room.ok => /\ IsResult(o) /\ o.attempts = grown /\ o.live = held
                    /\ o.done = r.done /\ o.model = r.model /\ o.finish_raw = r.finish_raw
                    /\ o.finish = r.finish
  <2>1. "attempts" \in DOMAIN r /\ "live" \in DOMAIN r /\ IsList(r["attempts"])
        /\ ArrayOf("attempts", r["attempts"]) \subseteq r.live
    BY <1>1, <1>2 DEF IsResult
  <2>2. /\ room.ok \in BOOLEAN /\ (F = {} => room.ok)
        /\ room.ok => /\ DOMAIN o = DOMAIN r /\ o["attempts"] = Roomy(r["attempts"], 4)
                      /\ o.live = held
                      /\ \A p \in DOMAIN r \ {"attempts", "live"} : o[p] = r[p]
    BY <1>4, <2>1, RoomIs
  <2> HIDE DEF room, held
  <2> QED BY <1>1, <2>2 DEF IsResult
<1> DEFINE q == sicha_result_add_attempt(r, e, F)
           got == held \cup (E \ F)
           Like(d) == /\ IsResult(q) /\ q.done = Append(r.done, d) /\ q.model = r.model
                      /\ q.finish_raw = r.finish_raw /\ q.finish = r.finish
<1>6. /\ ~room.ok => Like(FALSE) /\ q.attempts = list /\ q.live = r.live
      /\ room.ok /\ E \cap F # {} => Like(FALSE) /\ q.attempts = grown /\ q.live = got \ E
      /\ room.ok /\ E \cap F = {} =>
           /\ Like(TRUE) /\ q.attempts.items = Append(list.items, e) /\ q.live = got
           /\ q.attempts.cap = grown.cap
           /\ q.attempts = [items |-> q.attempts.items, cap |-> q.attempts.cap]
  <2> HIDE DEF A, D, held, room, o
  <2>1. ASSUME ~room.ok PROVE Like(FALSE) /\ q.attempts = list /\ q.live = r.live
    BY <1>1, <2>1 DEF sicha_result_add_attempt, Done, room, IsResult
  <2> DEFINE more == [o EXCEPT !.live = @ \cup (E \ F)]
  <2>2. ASSUME room.ok
        PROVE  q = IF E \cap F # {}
                   THEN [[more EXCEPT !.live = @ \ E] EXCEPT !.done = Append(@, FALSE)]
                   ELSE [[more EXCEPT !["attempts"].items = Append(@, e)]
                           EXCEPT !.done = Append(@, TRUE)]
    BY <2>2 DEF sicha_result_add_attempt, Done, Added, room, E, o
  <2> HIDE DEF E, q
  <2>3. ASSUME room.ok, E \cap F # {} PROVE Like(FALSE) /\ q.attempts = grown /\ q.live = got \ E
    BY <1>1, <1>5, <2>2, <2>3 DEF IsResult
  <2>4. ASSUME room.ok, E \cap F = {}
        PROVE  /\ Like(TRUE) /\ q.attempts.items = Append(list.items, e) /\ q.live = got
               /\ q.attempts.cap = grown.cap
               /\ q.attempts = [items |-> q.attempts.items, cap |-> q.attempts.cap]
    <3>1. /\ IsResult(more) /\ more.attempts = grown /\ more.done = r.done /\ more.model = r.model
          /\ more.finish_raw = r.finish_raw /\ more.finish = r.finish /\ more.live = got
      BY <1>5, <2>4 DEF IsResult
    <3>2. [grown EXCEPT !.items = Append(@, e)] = [items |-> Append(list.items, e), cap |-> grown.cap]
      <4> DEFINE t == list.items
                 c == Room(list, 4)
                 u == Append(t, e)
      <4>1. grown = [items |-> t, cap |-> c]
        BY DEF grown, Roomy
      <4> HIDE DEF t, c, grown
      <4>2. grown.items = t /\ grown.cap = c
        BY <4>1
      <4> HIDE DEF u
      <4>3. [[items |-> t, cap |-> c] EXCEPT !.items = u] = [items |-> u, cap |-> c]
        OBVIOUS
      <4> QED BY <4>1, <4>2, <4>3 DEF t, u
    <3>3. q = [[more EXCEPT !["attempts"].items = Append(@, e)] EXCEPT !.done = Append(@, TRUE)]
      BY <2>2, <2>4
    <3> HIDE DEF more, got, grown, list
    <3>4. IsResult(q) /\ q.done = Append(r.done, TRUE) /\ q.live = got /\ q.model = r.model
          /\ q.finish_raw = r.finish_raw /\ q.finish = r.finish
      BY <3>1, <3>3 DEF IsResult
    <3>5. q.attempts = [grown EXCEPT !.items = Append(@, e)]
      BY <3>1, <3>3 DEF IsResult
    <3> QED BY <3>2, <3>4, <3>5
  <2> QED BY <2>1, <2>3, <2>4
<1>7. /\ (got \ E) \ Content = H \cup D
      /\ E \cap F = {} => got \ Content = H \cup D \cup E
  <2> HIDE DEF A, D, E, H
  <2> QED BY <1>2, <1>3, BlocksMove
<1>8. /\ IsLatest(r.model, Append(r.done, FALSE), {"model"})
      /\ IsLatest(r.finish_raw, Append(r.done, FALSE), Reasons)
      /\ IsLatest(r.model, Append(r.done, TRUE), {"model"})
      /\ IsLatest(r.finish_raw, Append(r.done, TRUE), Reasons)
  <2>1. "reset" \notin {"model"} /\ "reset" \notin Reasons /\ query.ops[e] # "reset"
        /\ query.ops[e] \notin {"model"} /\ query.ops[e] \notin Reasons
    BY DEF Reasons
  <2> QED BY <1>1, <1>2, <2>1, LatestGrows
<1> HIDE DEF q
<1>9. ASSUME ~room.ok PROVE ResultInv(q, e)
  <2>1. q.live \ Content = ResultOwns(q)
    BY <1>2, <1>6, <1>9, ArrayIsApart DEF ResultHas, ResultOwns
  <2>2. F # {}
    BY <1>5, <1>9
  <2> QED BY <1>1, <1>2, <1>6, <1>8, <1>9, <2>1, <2>2, ResultStays
<1>10. ASSUME room.ok, E \cap F # {} PROVE ResultInv(q, e)
  <2>1. q.live \ Content = ResultOwns(q)
    BY <1>4, <1>6, <1>7, <1>10 DEF ResultHas, ResultOwns
  <2>2. F # {} /\ IsList(q.attempts) /\ q.attempts.items = list.items
    BY <1>4, <1>6, <1>10
  <2>3. Like(FALSE)
    BY <1>6, <1>10
  <2> HIDE DEF grown, room, E
  <2> QED BY <1>2, <1>8, <2>1, <2>2, <2>3, ResultStays
<1>11. ASSUME room.ok, E \cap F = {} PROVE ResultInv(q, e)
  <2>1. q.live \ Content = ResultOwns(q)
    <3>1. Recorded(q.attempts.items) = Recorded(list.items) \cup E
      <4>0. list.items \in Seq(Nat) /\ e \in Nat
        BY <1>2 DEF IsList
      <4>1. q.attempts.items = Append(list.items, e)
        BY <1>6, <1>11
      <4> HIDE DEF list, e
      <4>2. Recorded(Append(list.items, e)) = Recorded(list.items) \cup AttemptBlocks(e)
        BY <4>0, RecordedGrow
      <4> QED BY <4>1, <4>2
    <3>2. ArrayOf("attempts", q.attempts) = D
      BY <1>6, <1>11 DEF ArrayOf
    <3> QED BY <1>6, <1>7, <1>11, <3>1, <3>2 DEF ResultHas, ResultOwns
  <2>2. IsList(q.attempts)
    <3> DEFINE t == list.items
               c == grown.cap
    <3>1. /\ t \in Seq(Nat) /\ c \in Nat /\ Len(t) < c /\ e \in Nat
          /\ q.attempts = [items |-> Append(t, e), cap |-> c]
      <4>1. list.items \in Seq(Nat) /\ 4 \in Nat \ {0} /\ IsList(r.attempts)
        BY <1>2 DEF IsList
      <4>2. Room(list, 4) \in Nat /\ Len(list.items) < Room(list, 4)
        BY <4>1, RoomyIs
      <4>3. grown.cap = Room(list, 4)
        BY DEF Roomy
      <4>4. q.attempts = [items |-> Append(t, e), cap |-> c]
        <5> HIDE DEF grown
        <5> QED BY <1>6, <1>11
      <4>5. e \in Nat
        OBVIOUS
      <4> HIDE DEF grown, list, e
      <4> QED BY <4>1, <4>2, <4>3, <4>4, <4>5
    <3> HIDE DEF t, c
    <3>2. Append(t, e) \in Seq(Nat) /\ Len(Append(t, e)) = Len(t) + 1
      BY <3>1
    <3> QED BY <3>1, <3>2 DEF IsList
  <2>3. Like(TRUE) /\ q.attempts.items = Append(list.items, e)
    BY <1>6, <1>11
  <2> HIDE DEF grown, room, E
  <2> QED BY <1>2, <1>8, <2>1, <2>2, <2>3, ResultStays
<1> QED BY <1>5, <1>9, <1>10, <1>11 DEF q

(* The strings of a result are apart from all else it owns. *)
LEMMA StringsAreApart ==
  ASSUME NEW r, NEW e, NEW j
  PROVE  LET rest == {<<"result">>} \cup ArrayOf("attempts", r.attempts)
                     \cup Recorded(r.attempts.items)
         IN  /\ ResultOwns(r) = rest \cup Named("model", r.model)
                                \cup Named("finish_raw", r.finish_raw)
             /\ \A b \in Named("model", e) \cup Named("finish_raw", j) : b \notin rest /\ b \notin Content
             /\ \A b \in Named("model", e) : b \notin Named("finish_raw", j)
<1> DEFINE rest == {<<"result">>} \cup ArrayOf("attempts", r.attempts)
                   \cup Recorded(r.attempts.items)
<1>1. ASSUME NEW b \in rest \cup Content PROVE b[1] \notin {"model", "finish_raw"}
  <2>1. CASE b \in Content
    BY <2>1, ResultApart
  <2>2. CASE b = <<"result">>
    <3>1. <<"result">>[1] = "result"
      OBVIOUS
    <3> QED BY <2>2, <3>1
  <2>3. CASE b \in ArrayOf("attempts", r.attempts)
    BY <2>3, ResultApart
  <2>4. CASE b \in Recorded(r.attempts.items)
    <3>1. PICK k \in DOMAIN r.attempts.items : b \in AttemptBlocks(r.attempts.items[k])
      BY <2>4 DEF Recorded
    <3>2. b[1] \in {"attempt model", "message", "raw_body_excerpt"}
      BY <3>1, ResultApart
    <3> QED BY <3>2
  <2> QED BY <2>1, <2>2, <2>3, <2>4
<1>2. /\ \A b \in Named("model", e) : b[1] = "model"
      /\ \A b \in Named("finish_raw", j) : b[1] = "finish_raw"
  BY ResultApart
<1>3. ResultOwns(r) = rest \cup Named("model", r.model) \cup Named("finish_raw", r.finish_raw)
  BY DEF ResultOwns
<1> HIDE DEF rest
<1>4. \A b \in Named("model", e) \cup Named("finish_raw", j) : b \notin rest /\ b \notin Content
  BY <1>1, <1>2
<1>5. \A b \in Named("model", e) : b \notin Named("finish_raw", j)
  BY <1>2
<1> QED BY <1>3, <1>4, <1>5 DEF rest

(* sicha_result_set_model replaces the name of the model, or leaves the old one. *)
LEMMA ModelKeepsResult ==
  ASSUME NEW n \in Nat, NEW r, ResultInv(r, n), ~CallOver(r, query.ops),
         query.ops[n + 1] = "model"
  PROVE  ResultInv(sicha_result_set_model(r, n + 1, query.F), n + 1)
<1> DEFINE e == n + 1
           F == query.F
           M == Named("model", r.model)
           D == {<<"model", e>>}
           q == sicha_result_set_model(r, e, F)
           rest == {<<"result">>} \cup ArrayOf("attempts", r.attempts)
                   \cup Recorded(r.attempts.items)
           others == rest \cup Named("finish_raw", r.finish_raw)
<1>1. r.live # {} /\ Len(r.done) = n /\ r.done \in Seq(BOOLEAN) /\ ResultSo(r) /\ IsResult(r)
  BY DEF ResultInv, CallOver
<1>2. D = Named("model", e) /\ e # 0
  BY DEF Named
<1>3. /\ IsList(r.attempts) /\ r.live \ Content = others \cup M
      /\ IsLatest(r.model, r.done, {"model"}) /\ IsLatest(r.finish_raw, r.done, Reasons)
      /\ r.finish = IF r.finish_raw = 0 \/ query.ops[r.finish_raw] = "other" THEN "unknown"
                    ELSE query.ops[r.finish_raw]
  BY <1>1, StringsAreApart DEF ResultSo
<1>4. /\ \A b \in M : b \notin others /\ b \notin Content
      /\ \A b \in D : b \notin Content
  BY <1>2, StringsAreApart
<1>5. "reset" \notin {"model"} /\ "reset" \notin Reasons /\ query.ops[e] # "reset"
      /\ query.ops[e] \in {"model"} /\ query.ops[e] \notin Reasons
  BY DEF Reasons
<1> DEFINE Like(ok) == /\ IsResult(q) /\ q.done = Append(r.done, ok) /\ q.attempts = r.attempts
                       /\ q.finish_raw = r.finish_raw /\ q.finish = r.finish
<1>6. ASSUME <<"model", e>> \in F PROVE ResultInv(q, e)
  <2>1. Like(FALSE) /\ q.model = r.model /\ q.live = r.live
    BY <1>1, <1>6 DEF sicha_result_set_model, SetString, Done, IsResult
  <2>2. IsLatest(r.model, Append(r.done, FALSE), {"model"})
        /\ IsLatest(r.finish_raw, Append(r.done, FALSE), Reasons)
    BY <1>1, <1>3, <1>5, LatestGrows
  <2> HIDE DEF q
  <2>3. q.live \ Content = ResultOwns(q)
    BY <1>1, <2>1 DEF ResultOwns, ResultSo
  <2> QED BY <1>3, <1>6, <2>1, <2>2, <2>3, ResultStays
<1>7. ASSUME <<"model", e>> \notin F PROVE ResultInv(q, e)
  <2>1. Like(TRUE) /\ q.model = e /\ q.live = (r.live \ M) \cup D
    BY <1>1, <1>7 DEF sicha_result_set_model, SetString, Done, IsResult
  <2>2. IsLatest(e, Append(r.done, TRUE), {"model"})
        /\ IsLatest(r.finish_raw, Append(r.done, TRUE), Reasons)
    BY <1>1, <1>3, <1>5, LatestGrows
  <2> HIDE DEF q
  <2>3. q.live \ Content = others \cup D
    <3> HIDE DEF others, M, D
    <3> QED BY <1>3, <1>4, <2>1, BlocksMove
  <2>4. q.live \ Content = ResultOwns(q)
    BY <1>2, <2>1, <2>3 DEF ResultOwns
  <2> HIDE DEF D, M, others
  <2>5. query.ops[n + 1] # "attempt"
    BY <1>5
  <2> QED BY <1>3, <2>1, <2>2, <2>4, <2>5, ResultStays
<1> QED BY <1>6, <1>7 DEF q

(* sicha_result_set_finish replaces the reason and its text, or leaves the old ones. *)
LEMMA FinishKeepsResult ==
  ASSUME NEW n \in Nat, NEW r, ResultInv(r, n), ~CallOver(r, query.ops),
         query.ops[n + 1] \in Reasons
  PROVE  ResultInv(sicha_result_set_finish(r, query.ops[n + 1], n + 1, query.F), n + 1)
<1> DEFINE e == n + 1
           F == query.F
           raw == query.ops[e]
           M == Named("finish_raw", r.finish_raw)
           D == {<<"finish_raw", e>>}
           q == sicha_result_set_finish(r, raw, e, F)
           rest == {<<"result">>} \cup ArrayOf("attempts", r.attempts)
                   \cup Recorded(r.attempts.items)
           others == rest \cup Named("model", r.model)
<1>1. r.live # {} /\ Len(r.done) = n /\ r.done \in Seq(BOOLEAN) /\ ResultSo(r) /\ IsResult(r)
  BY DEF ResultInv, CallOver
<1>2. D = Named("finish_raw", e) /\ e # 0
  BY DEF Named
<1>3. /\ IsList(r.attempts) /\ r.live \ Content = others \cup M
      /\ IsLatest(r.model, r.done, {"model"}) /\ IsLatest(r.finish_raw, r.done, Reasons)
      /\ r.finish = IF r.finish_raw = 0 \/ query.ops[r.finish_raw] = "other" THEN "unknown"
                    ELSE query.ops[r.finish_raw]
  BY <1>1, StringsAreApart DEF ResultSo
<1>4. /\ \A b \in M : b \notin others /\ b \notin Content
      /\ \A b \in D : b \notin Content
  BY <1>2, StringsAreApart
<1>5. /\ "reset" \notin {"model"} /\ "reset" \notin Reasons /\ raw # "reset"
      /\ raw \notin {"model"} /\ raw # "attempt"
      /\ map_finish(raw) = IF raw = "other" THEN "unknown" ELSE raw
  BY DEF Reasons, map_finish
<1> DEFINE Like(ok) == /\ IsResult(q) /\ q.done = Append(r.done, ok) /\ q.attempts = r.attempts
                       /\ q.model = r.model
<1>6. ASSUME <<"finish_raw", e>> \in F PROVE ResultInv(q, e)
  <2>1. Like(FALSE) /\ q.finish_raw = r.finish_raw /\ q.finish = r.finish /\ q.live = r.live
    BY <1>1, <1>6 DEF sicha_result_set_finish, SetString, Done, IsResult
  <2>2. IsLatest(r.model, Append(r.done, FALSE), {"model"})
        /\ IsLatest(r.finish_raw, Append(r.done, FALSE), Reasons)
    BY <1>1, <1>3, <1>5, LatestGrows
  <2> HIDE DEF q
  <2>3. q.live \ Content = ResultOwns(q)
    BY <1>1, <2>1 DEF ResultOwns, ResultSo
  <2> QED BY <1>3, <1>6, <2>1, <2>2, <2>3, ResultStays
<1>7. ASSUME <<"finish_raw", e>> \notin F PROVE ResultInv(q, e)
  <2>1. /\ Like(TRUE) /\ q.finish_raw = e /\ q.live = (r.live \ M) \cup D
        /\ q.finish = map_finish(raw)
    BY <1>1, <1>7 DEF sicha_result_set_finish, SetString, Done, IsResult
  <2>2. IsLatest(r.model, Append(r.done, TRUE), {"model"})
        /\ IsLatest(e, Append(r.done, TRUE), Reasons)
    BY <1>1, <1>3, <1>5, LatestGrows
  <2> HIDE DEF q
  <2>3. q.live \ Content = others \cup D
    <3> HIDE DEF others, M, D
    <3> QED BY <1>3, <1>4, <2>1, BlocksMove
  <2>4. q.live \ Content = ResultOwns(q)
    BY <1>2, <2>1, <2>3 DEF ResultOwns
  <2> HIDE DEF D, M, others
  <2>5. q.finish = IF q.finish_raw = 0 \/ query.ops[q.finish_raw] = "other" THEN "unknown"
                   ELSE query.ops[q.finish_raw]
    BY <1>2, <1>5, <2>1
  <2> QED BY <1>3, <1>5, <2>1, <2>2, <2>4, <2>5, ResultStays
<1> QED BY <1>6, <1>7 DEF q

(* sicha_result_reset_content frees the content and keeps the records. *)
LEMMA ResetKeepsResult ==
  ASSUME NEW n \in Nat, NEW r, ResultInv(r, n), ~CallOver(r, query.ops),
         query.ops[n + 1] = "reset"
  PROVE  ResultInv(sicha_result_reset_content(r), n + 1)
<1> DEFINE e == n + 1
           M == Named("model", r.model)
           W2 == Named("finish_raw", r.finish_raw)
           q == sicha_result_reset_content(r)
           rest == {<<"result">>} \cup ArrayOf("attempts", r.attempts)
                   \cup Recorded(r.attempts.items)
<1>1. r.live # {} /\ Len(r.done) = n /\ r.done \in Seq(BOOLEAN) /\ ResultSo(r) /\ IsResult(r)
  BY DEF ResultInv, CallOver
<1>2. /\ IsList(r.attempts) /\ r.live \ Content = rest \cup M \cup W2
      /\ IsLatest(r.model, r.done, {"model"}) /\ IsLatest(r.finish_raw, r.done, Reasons)
  BY <1>1, StringsAreApart DEF ResultSo
<1>3. \A b \in M \cup W2 : b \notin rest /\ b \notin Content
  BY StringsAreApart
<1>4. /\ IsResult(q) /\ q.done = Append(r.done, TRUE) /\ q.attempts = r.attempts
      /\ q.model = 0 /\ q.finish_raw = 0 /\ q.finish = "unknown"
      /\ q.live = r.live \ (M \cup {<<"raw_body">>} \cup W2)
  BY <1>1 DEF sicha_result_reset_content, Done, IsResult
<1>5. IsLatest(0, Append(r.done, TRUE), {"model"}) /\ IsLatest(0, Append(r.done, TRUE), Reasons)
  <2>1. "reset" \notin {"model"} /\ "reset" \notin Reasons
    BY DEF Reasons
  <2> QED BY <1>1, <1>2, <2>1, LatestGrows
<1> HIDE DEF q
<1>6. q.live \ Content = rest
  <2>1. <<"raw_body">> \in Content
    BY DEF Content
  <2> HIDE DEF rest, M, W2
  <2> QED BY <1>2, <1>3, <1>4, <2>1
<1>7. q.live \ Content = ResultOwns(q)
  BY <1>4, <1>6 DEF ResultOwns, Named
<1>8. ResultInv(q, e)
  <2> HIDE DEF rest, M, W2
  <2>1. query.ops[n + 1] # "attempt"
    OBVIOUS
  <2> QED BY <1>2, <1>4, <1>5, <1>7, <2>1, ResultStays
<1> QED BY <1>8 DEF q

(* Every operation on a result keeps what it holds. *)
LEMMA ResultStep ==
  ASSUME NEW n \in Nat, NEW r, ResultInv(r, n),
         query.ops[n + 1] \in {"attempt", "model", "reset"} \cup Reasons
  PROVE  ResultInv(CollectStep(r, n + 1), n + 1)
<1>1. CASE CallOver(r, query.ops)
  <2>1. CollectStep(r, n + 1) = r
    BY <1>1 DEF CollectStep, CollectOne
  <2>2. ResultInv(r, n + 1)
    BY <1>1 DEF ResultInv
  <2> QED BY <2>1, <2>2
<1>2. CASE ~CallOver(r, query.ops)
  <2>1. CASE query.ops[n + 1] = "attempt"
    BY <1>2, <2>1, AttemptKeepsResult DEF CollectStep, CollectOne
  <2>2. CASE query.ops[n + 1] = "model"
    BY <1>2, <2>2, ModelKeepsResult DEF CollectStep, CollectOne
  <2>3. CASE query.ops[n + 1] = "reset"
    BY <1>2, <2>3, ResetKeepsResult DEF CollectStep, CollectOne
  <2>4. CASE query.ops[n + 1] \in Reasons
    <3>1. query.ops[n + 1] \notin {"attempt", "model", "reset"}
      BY <2>4 DEF Reasons
    <3>2. CollectStep(r, n + 1) = sicha_result_set_finish(r, query.ops[n + 1], n + 1, query.F)
      BY <1>2, <3>1 DEF CollectStep, CollectOne
    <3> QED BY <1>2, <2>4, <3>2, FinishKeepsResult
  <2> QED BY <2>1, <2>2, <2>3, <2>4
<1> QED BY <1>1, <1>2

(* No call is in a result that was just made. *)
LEMMA ResultStart == ResultInv(sicha_result_create(Content, query.F), 0)
<1> DEFINE r == sicha_result_create(Content, query.F)
<1>1. /\ r.attempts = List /\ r.done = <<>> /\ r.model = 0 /\ r.finish_raw = 0
      /\ r.finish = "unknown" /\ IsResult(r)
      /\ r.live = IF <<"result">> \in query.F THEN {} ELSE {<<"result">>} \cup Content
  BY DEF sicha_result_create, IsResult
<1> HIDE DEF r
<1>2. r.done \in Seq(BOOLEAN) /\ Len(r.done) = 0 /\ DOMAIN r.done = {}
  BY <1>1
<1>3. query.F = {} => r.live # {}
  BY <1>1
<1>4. ASSUME r.live # {} PROVE ResultSo(r)
  <2>1. List.items = <<>> /\ List.cap = 0 /\ List = [items |-> List.items, cap |-> List.cap]
    BY DEF List
  <2>2. IsList(r.attempts) /\ r.attempts.items \in Seq(1..0) /\ DOMAIN r.attempts.items = {}
    BY <1>1, <2>1 DEF IsList
  <2>3. Listed(r.attempts.items, Succeeded(r.done, "attempt"))
    BY <1>2, <2>2 DEF Listed, Succeeded, Range
  <2>4. \A kinds : LatestOf(r.done, kinds) = {}
    BY <1>2 DEF LatestOf
  <2>5. IsLatest(0, r.done, {"model"}) /\ IsLatest(0, r.done, Reasons)
    BY <2>4 DEF IsLatest
  <2>6. ResultOwns(r) = {<<"result">>}
    BY <1>1, <2>1, <2>2 DEF ResultOwns, ArrayOf, Named, Recorded
  <2>7. <<"result">> \notin Content
    <3>1. <<"result">>[1] = "result"
      OBVIOUS
    <3> QED BY <3>1, ResultApart
  <2>8. r.live \ Content = ResultOwns(r)
    BY <1>1, <1>4, <2>6, <2>7
  <2> QED BY <1>1, <1>2, <2>2, <2>3, <2>5, <2>8 DEF ResultSo
<1> QED BY <1>1, <1>2, <1>3, <1>4 DEF ResultInv, r

(* The result of a whole row. *)
LEMMA CollectedKeeps ==
  ASSUME query.ops \in Seq({"attempt", "model", "reset"} \cup Reasons)
  PROVE  ResultInv(Collected(Content, query.ops, query.F), Len(query.ops))
<1> DEFINE base == sicha_result_create(Content, query.F)
           Size == Len(query.ops)
           T == {n \in Nat : n <= Size => ResultInv(Collecting!Fold(base, UpTo(n)), n)}
<1>1. 0 \in T
  <2>1. UpTo(0) = <<>>
    BY DEF UpTo
  <2>2. Collecting!Fold(base, UpTo(0)) = base
    BY <2>1, Collecting!FoldEmpty
  <2> QED BY <2>2, ResultStart
<1>2. ASSUME NEW n \in Nat, n \in T PROVE n + 1 \in T
  <2> SUFFICES ASSUME n + 1 <= Size PROVE ResultInv(Collecting!Fold(base, UpTo(n + 1)), n + 1)
    OBVIOUS
  <2> DEFINE r == Collecting!Fold(base, UpTo(n))
  <2>1. ResultInv(r, n)
    BY <1>2
  <2>2. query.ops[n + 1] \in {"attempt", "model", "reset"} \cup Reasons
    BY <1>2
  <2>3. Collecting!Fold(base, UpTo(n + 1)) = CollectStep(r, n + 1)
    BY CollectGrows
  <2> HIDE DEF r
  <2> QED BY <2>1, <2>2, <2>3, ResultStep
<1>3. Size \in Nat
  OBVIOUS
<1> HIDE DEF T
<1>4. Size \in T
  BY <1>1, <1>2, <1>3, Collecting!Inductive
<1> QED BY <1>4, CollectedIs DEF T

(* What is held of a result is what FailuresLeaveNothing says of it. *)
LEMMA CollectHolds ==
  ASSUME NEW n, NEW r, ResultInv(r, n)
  PROVE  /\ r.live # {} =>
              /\ Listed(r.attempts.items, Succeeded(r.done, "attempt"))
              /\ r.model = Latest(r.done, {"model"})
              /\ r.finish_raw = Latest(r.done, Reasons)
              /\ r.finish = IF r.finish_raw = 0 \/ query.ops[r.finish_raw] = "other" THEN "unknown"
                            ELSE query.ops[r.finish_raw]
              /\ sicha_result_destroy(r) = {}
              /\ r.live \ Content = {<<"result">>} \cup ArrayOf("attempts", r.attempts)
                                    \cup Named("model", r.model) \cup Named("finish_raw", r.finish_raw)
                                    \cup Blocks(r.attempts, AttemptBlocks)
         /\ query.F = {} => \A k \in DOMAIN r.done : r.done[k]
<1>1. query.F = {} => \A k \in DOMAIN r.done : r.done[k]
  BY DEF ResultInv
<1>2. ASSUME r.live # {}
      PROVE  /\ Listed(r.attempts.items, Succeeded(r.done, "attempt"))
             /\ r.model = Latest(r.done, {"model"})
             /\ r.finish_raw = Latest(r.done, Reasons)
             /\ r.finish = IF r.finish_raw = 0 \/ query.ops[r.finish_raw] = "other" THEN "unknown"
                           ELSE query.ops[r.finish_raw]
             /\ sicha_result_destroy(r) = {}
             /\ r.live \ Content = {<<"result">>} \cup ArrayOf("attempts", r.attempts)
                                   \cup Named("model", r.model) \cup Named("finish_raw", r.finish_raw)
                                   \cup Blocks(r.attempts, AttemptBlocks)
  <2>1. ResultSo(r) /\ r.done \in Seq(BOOLEAN)
    BY <1>2 DEF ResultInv
  <2>2. r.model = Latest(r.done, {"model"}) /\ r.finish_raw = Latest(r.done, Reasons)
    BY <2>1, LatestIs DEF ResultSo
  <2>3. Blocks(r.attempts, AttemptBlocks) = Recorded(r.attempts.items)
    BY DEF Blocks, Recorded
  <2>4. r.live \ Content = {<<"result">>} \cup ArrayOf("attempts", r.attempts)
                           \cup Named("model", r.model) \cup Named("finish_raw", r.finish_raw)
                           \cup Blocks(r.attempts, AttemptBlocks)
    BY <2>1, <2>3 DEF ResultSo, ResultOwns
  <2>5. sicha_result_destroy(r)
          = r.live \ (Content \cup {<<"result">>} \cup ArrayOf("attempts", r.attempts)
                      \cup Named("model", r.model) \cup Named("finish_raw", r.finish_raw)
                      \cup Recorded(r.attempts.items))
    BY DEF sicha_result_destroy, Recorded
  <2>6. sicha_result_destroy(r) = {}
    BY <2>3, <2>4, <2>5
  <2> QED BY <2>1, <2>2, <2>4, <2>6 DEF ResultSo
<1> QED BY <1>1, <1>2

-----------------------------------------------------------------------------
(* The scripted transport.                                                 *)

IsScript(s) == {"queue", "calls", "n", "done", "live"} \subseteq DOMAIN s /\ s.n = 2

ResponseBlocks(e) == {<<"response body", e>>} \cup CopyBlocks("response", e, 2)
LoggedBlocks(e) == CallStrings(e) \cup CopyBlocks("call", e, 2)

OfResponses(those) == UNION {ResponseBlocks(e) : e \in those}
OfCalls(those) == UNION {LoggedBlocks(e) : e \in those}

ScriptOwns(s) ==
  {<<"script">>} \cup ArrayOf("queue", s.queue) \cup ArrayOf("calls", s.calls)
  \cup OfResponses(Range(s.queue.items)) \cup OfCalls(Range(s.calls.items))

Played(s) == Succeeded(s.done, "push") \ Range(s.queue.items)

ScriptInv(s, n) ==
  /\ IsScript(s) /\ s.done \in Seq(BOOLEAN) /\ Len(s.done) = n
  /\ query.F = {} => \A k \in DOMAIN s.done : s.done[k]
  /\ IsList(s.queue) /\ s.queue.items \in Seq(1..n)
  /\ IsList(s.calls) /\ s.calls.items \in Seq(1..n)
  /\ Listed(s.calls.items, Succeeded(s.done, "perform"))
  /\ Listed(s.queue.items, Range(s.queue.items))
  /\ Range(s.queue.items) \subseteq Succeeded(s.done, "push")
  /\ \A p \in Played(s), q \in Range(s.queue.items) : p < q
  /\ Len(s.calls.items) >= Cardinality(Played(s))
  /\ s.live = ScriptOwns(s)

(* The number in a block of a response or of a logged call. *)
NumberOf(b) == IF b[1] \in {"response body", "url", "body"} THEN b[2] ELSE b[3]

(* The blocks of a copy of headers bear the name of what they are copied for. *)
LEMMA CopyLabels ==
  ASSUME NEW of, NEW e, NEW m
  PROVE  \A b \in CopyBlocks(of, e, m) : b[1] = of /\ b[3] = e
<1>1. ASSUME NEW b \in CopyBlocks(of, e, m) PROVE b[1] = of /\ b[3] = e
  <2>1. CASE b = <<of, "array", e>>
    BY <2>1
  <2>2. CASE b \in {<<of, part, e, k>> : part \in {"name", "value"}, k \in 1..m}
    <3>1. PICK part \in {"name", "value"}, k \in 1..m : b = <<of, part, e, k>>
      BY <2>2
    <3> QED BY <3>1
  <2> QED BY <2>1, <2>2 DEF CopyBlocks
<1> QED BY <1>1

(* The blocks of responses and calls are told apart by their names and numbers. *)
LEMMA ScriptLabels ==
  ASSUME NEW e, NEW list
  PROVE  /\ \A b \in ResponseBlocks(e) : b[1] \in {"response body", "response"} /\ NumberOf(b) = e
         /\ \A b \in LoggedBlocks(e) : b[1] \in {"url", "body", "call"} /\ NumberOf(b) = e
         /\ \A b \in ArrayOf("queue", list) : b[1] = "queue"
         /\ \A b \in ArrayOf("calls", list) : b[1] = "calls"
         /\ <<"script">>[1] = "script"
<1>1. ASSUME NEW b \in ResponseBlocks(e)
      PROVE  b[1] \in {"response body", "response"} /\ NumberOf(b) = e
  <2>1. CASE b = <<"response body", e>>
    BY <2>1 DEF NumberOf
  <2>2. CASE b \in CopyBlocks("response", e, 2)
    <3>1. b[1] = "response" /\ b[3] = e
      BY <2>2, CopyLabels
    <3> QED BY <3>1 DEF NumberOf
  <2> QED BY <2>1, <2>2 DEF ResponseBlocks
<1>2. ASSUME NEW b \in LoggedBlocks(e)
      PROVE  b[1] \in {"url", "body", "call"} /\ NumberOf(b) = e
  <2>1. CASE b \in CallStrings(e)
    <3>1. b = <<"url", e>> \/ b = <<"body", e>>
      BY <2>1 DEF CallStrings
    <3>2. b[1] \in {"url", "body"} /\ b[2] = e
      BY <3>1
    <3> QED BY <3>2 DEF NumberOf
  <2>2. CASE b \in CopyBlocks("call", e, 2)
    <3>1. b[1] = "call" /\ b[3] = e
      BY <2>2, CopyLabels
    <3> QED BY <3>1 DEF NumberOf
  <2> QED BY <2>1, <2>2 DEF LoggedBlocks
<1>3. \A b \in ArrayOf("queue", list) : b[1] = "queue"
  BY DEF ArrayOf
<1>4. \A b \in ArrayOf("calls", list) : b[1] = "calls"
  BY DEF ArrayOf
<1>5. <<"script">>[1] = "script"
  OBVIOUS
<1> QED BY <1>1, <1>2, <1>3, <1>4, <1>5

(* The same of those of a set of responses, or of calls. *)
LEMMA SetsLabels ==
  ASSUME NEW those
  PROVE  /\ \A b \in OfResponses(those) :
              b[1] \in {"response body", "response"} /\ NumberOf(b) \in those
         /\ \A b \in OfCalls(those) : b[1] \in {"url", "body", "call"} /\ NumberOf(b) \in those
<1>1. ASSUME NEW b \in OfResponses(those)
      PROVE  b[1] \in {"response body", "response"} /\ NumberOf(b) \in those
  <2>1. PICK e \in those : b \in ResponseBlocks(e)
    BY DEF OfResponses
  <2>2. b[1] \in {"response body", "response"} /\ NumberOf(b) = e
    BY <2>1, ScriptLabels
  <2> QED BY <2>1, <2>2
<1>2. ASSUME NEW b \in OfCalls(those)
      PROVE  b[1] \in {"url", "body", "call"} /\ NumberOf(b) \in those
  <2>1. PICK e \in those : b \in LoggedBlocks(e)
    BY DEF OfCalls
  <2>2. b[1] \in {"url", "body", "call"} /\ NumberOf(b) = e
    BY <2>1, ScriptLabels
  <2> QED BY <2>1, <2>2
<1> QED BY <1>1, <1>2

(* The blocks of one response, or call, more or less. *)
LEMMA SetsChange ==
  ASSUME NEW those, NEW e
  PROVE  /\ OfResponses(those \cup {e}) = OfResponses(those) \cup ResponseBlocks(e)
         /\ OfCalls(those \cup {e}) = OfCalls(those) \cup LoggedBlocks(e)
         /\ e \in those => OfResponses(those \ {e}) = OfResponses(those) \ ResponseBlocks(e)
<1>1. /\ \A S, b : b \in OfResponses(S) <=> \E j \in S : b \in ResponseBlocks(j)
      /\ \A S, b : b \in OfCalls(S) <=> \E j \in S : b \in LoggedBlocks(j)
  BY DEF OfResponses, OfCalls
<1>2. OfResponses(those \cup {e}) = OfResponses(those) \cup ResponseBlocks(e)
  BY <1>1
<1>3. OfCalls(those \cup {e}) = OfCalls(those) \cup LoggedBlocks(e)
  BY <1>1
<1>4. ASSUME e \in those PROVE OfResponses(those \ {e}) = OfResponses(those) \ ResponseBlocks(e)
  <2>1. ASSUME NEW b \in OfResponses(those \ {e})
        PROVE  b \in OfResponses(those) /\ b \notin ResponseBlocks(e)
    <3>1. b \in OfResponses(those)
      BY <1>1
    <3>2. NumberOf(b) # e
      BY SetsLabels
    <3> QED BY <3>1, <3>2, ScriptLabels
  <2>2. ASSUME NEW b \in OfResponses(those), b \notin ResponseBlocks(e)
        PROVE  b \in OfResponses(those \ {e})
    BY <1>1, <2>2
  <2> QED BY <2>1, <2>2
<1> QED BY <1>2, <1>3, <1>4

(* A set of headers is copied whole or not at all. *)
LEMMA LeastIs ==
  ASSUME NEW m \in Nat, NEW S \in SUBSET (1..m)
  PROVE  /\ S = {} => Least(S, 0) = 0
         /\ S # {} => Least(S, 0) \in S /\ \A k \in S : Least(S, 0) <= k
<1>1. S = {} => Least(S, 0) = 0
  BY DEF Least
<1>2. ASSUME S # {} PROVE Least(S, 0) \in S /\ \A k \in S : Least(S, 0) <= k
  <2>1. PICK x \in S : \A y \in S : x <= y
    BY <1>2, LeastNat
  <2>2. Least(S, 0) = Min(S)
    BY <1>2 DEF Least
  <2>3. \E y \in S : \A k \in S : y <= k
    BY <2>1
  <2>4. Min(S) = CHOOSE y \in S : \A k \in S : y <= k
    BY DEF Min
  <2> QED BY <2>2, <2>3, <2>4
<1> QED BY <1>1, <1>2

(* headers_deep_copy leaves the blocks of the whole copy, or none of them. *)
LEMMA CopyIs ==
  ASSUME NEW live, NEW of, NEW e, NEW m \in Nat, NEW F
  PROVE  LET c == headers_deep_copy(live, of, e, m, F)
             E == CopyBlocks(of, e, m)
         IN  /\ c.ok \in BOOLEAN /\ (c.ok <=> E \cap F = {})
             /\ c.ok => \A b : b \in c.live <=> b \in live \/ b \in E
             /\ ~c.ok => \A b : b \notin E => (b \in c.live <=> b \in live)
<1> DEFINE c == headers_deep_copy(live, of, e, m, F)
           E == CopyBlocks(of, e, m)
           Pair(k) == {<<of, part, e, k>> : part \in {"name", "value"}}
           bad == {k \in 1..m : Pair(k) \cap F # {}}
           failing == Least(bad, 0)
           array == {<<of, "array", e>>}
           some == UNION {Pair(k) : k \in 1..failing}
<1>1. \A b : b \in E <=> b \in array \/ \E k \in 1..m : b \in Pair(k)
  BY DEF CopyBlocks
<1>2. (failing = 0 <=> bad = {})
  <2>1. bad \in SUBSET (1..m)
    OBVIOUS
  <2> HIDE DEF bad
  <2>2. bad = {} => failing = 0
    BY <2>1, LeastIs
  <2>3. bad # {} => failing \in bad
    BY <2>1, LeastIs
  <2>4. 0 \notin bad
    BY <2>1
  <2> QED BY <2>2, <2>3, <2>4
<1>3. E \cap F = {} <=> array \cap F = {} /\ bad = {}
  <2>1. bad = {} <=> \A k \in 1..m : Pair(k) \cap F = {}
    OBVIOUS
  <2> HIDE DEF Pair, bad, array, E
  <2> QED BY <1>1, <2>1
<1>a. headers_deep_copy(live, of, e, m, F)
        = IF array \cap F # {} THEN [ok |-> FALSE, live |-> live]
          ELSE IF failing = 0 THEN [ok |-> TRUE, live |-> live \cup E]
          ELSE [ok   |-> FALSE,
                live |-> headers_deep_free(live \cup array \cup (some \ F), of, e, m)]
  BY DEF headers_deep_copy
<1>4. c = IF array \cap F # {} THEN [ok |-> FALSE, live |-> live]
          ELSE IF failing = 0 THEN [ok |-> TRUE, live |-> live \cup E]
          ELSE [ok   |-> FALSE,
                live |-> (live \cup array \cup (some \ F)) \ E]
  BY <1>a DEF headers_deep_free
<1>5. ASSUME failing # 0 PROVE some \subseteq E
  <2>1. failing \in 1..m
    <3>1. bad \in SUBSET (1..m) /\ bad # {}
      BY <1>2, <1>5
    <3> HIDE DEF bad
    <3> QED BY <3>1, LeastIs
  <2>2. 1..failing \subseteq 1..m
    BY <2>1
  <2> HIDE DEF failing, Pair, E, array
  <2> QED BY <1>1, <2>2
<1>6. array \subseteq E
  BY <1>1
<1> HIDE DEF array, some, failing, bad, E, c
<1>7. CASE array \cap F # {}
  <2>1. c.ok = FALSE /\ c.live = live
    BY <1>4, <1>7
  <2> QED BY <1>3, <1>7, <2>1 DEF c, E
<1>8. CASE array \cap F = {} /\ failing = 0
  <2>1. c.ok = TRUE /\ c.live = live \cup E
    BY <1>4, <1>8
  <2> QED BY <1>2, <1>3, <1>8, <2>1 DEF c, E
<1>9. CASE array \cap F = {} /\ failing # 0
  <2>1. c.ok = FALSE /\ c.live = (live \cup array \cup (some \ F)) \ E
    BY <1>4, <1>9
  <2> QED BY <1>2, <1>3, <1>5, <1>6, <1>9, <2>1 DEF c, E
<1> QED BY <1>7, <1>8, <1>9

(* The blocks of an operation not yet made are not in use. *)
LEMMA ScriptIsNew ==
  ASSUME NEW n \in Nat, NEW s, ScriptInv(s, n), NEW list, NEW list2
  PROVE  LET e == n + 1 IN
         /\ \A b \in ResponseBlocks(e) \cup LoggedBlocks(e) : b \notin ScriptOwns(s)
         /\ \A b \in ResponseBlocks(e) \cup LoggedBlocks(e) :
              b \notin ArrayOf("queue", list) /\ b \notin ArrayOf("calls", list2)
<1> DEFINE e == n + 1
<1>1. Range(s.queue.items) \subseteq 1..n /\ Range(s.calls.items) \subseteq 1..n
  <2>1. s.queue.items \in Seq(1..n) /\ s.calls.items \in Seq(1..n)
    BY DEF ScriptInv
  <2>2. ASSUME NEW q \in Seq(1..n) PROVE Range(q) \subseteq 1..n
    BY DEF Range
  <2> QED BY <2>1, <2>2
<1>2. ASSUME NEW b \in ResponseBlocks(e) \cup LoggedBlocks(e)
      PROVE  /\ b \notin ArrayOf("queue", list) /\ b \notin ArrayOf("calls", list2)
             /\ b \notin ScriptOwns(s)
  <2>1. b[1] \in {"response body", "response", "url", "body", "call"} /\ NumberOf(b) = e
    BY ScriptLabels
  <2>2. b # <<"script">> /\ b \notin ArrayOf("queue", list) /\ b \notin ArrayOf("calls", list2)
        /\ b \notin ArrayOf("queue", s.queue) /\ b \notin ArrayOf("calls", s.calls)
    BY <2>1, ScriptLabels
  <2>3. b \notin OfResponses(Range(s.queue.items)) /\ b \notin OfCalls(Range(s.calls.items))
    <3>1. e \notin Range(s.queue.items) /\ e \notin Range(s.calls.items)
      BY <1>1
    <3> HIDE DEF e
    <3> QED BY <2>1, <3>1, SetsLabels
  <2> QED BY <2>2, <2>3 DEF ScriptOwns
<1> QED BY <1>2

(* All but one of the arrays. *)
LEMMA ScriptArraysApart ==
  ASSUME NEW s, NEW list
  PROVE  LET most == {<<"script">>} \cup OfResponses(Range(s.queue.items))
                     \cup OfCalls(Range(s.calls.items))
         IN  /\ ScriptOwns(s) = most \cup ArrayOf("queue", s.queue) \cup ArrayOf("calls", s.calls)
             /\ \A b \in ArrayOf("queue", list) : b \notin most /\ b \notin ArrayOf("calls", s.calls)
             /\ \A b \in ArrayOf("calls", list) : b \notin most /\ b \notin ArrayOf("queue", s.queue)
<1> DEFINE most == {<<"script">>} \cup OfResponses(Range(s.queue.items))
                   \cup OfCalls(Range(s.calls.items))
<1>1. ASSUME NEW b \in most PROVE b[1] \notin {"queue", "calls"}
  <2>1. CASE b = <<"script">>
    BY <2>1, ScriptLabels
  <2>2. CASE b \in OfResponses(Range(s.queue.items))
    BY <2>2, SetsLabels
  <2>3. CASE b \in OfCalls(Range(s.calls.items))
    BY <2>3, SetsLabels
  <2> QED BY <2>1, <2>2, <2>3
<1>2. ScriptOwns(s) = most \cup ArrayOf("queue", s.queue) \cup ArrayOf("calls", s.calls)
  BY DEF ScriptOwns
<1> HIDE DEF most
<1>3. \A b \in ArrayOf("queue", list) : b \notin most /\ b \notin ArrayOf("calls", s.calls)
  BY <1>1, ScriptLabels
<1>4. \A b \in ArrayOf("calls", list) : b \notin most /\ b \notin ArrayOf("queue", s.queue)
  BY <1>1, ScriptLabels
<1> QED BY <1>2, <1>3, <1>4 DEF most

(* An operation that fails leaves the lists as they are. *)
LEMMA ScriptFails ==
  ASSUME NEW n \in Nat, NEW s, ScriptInv(s, n), query.F # {},
         NEW q, IsScript(q), q.done = Append(s.done, FALSE),
         IsList(q.queue), q.queue.items = s.queue.items,
         IsList(q.calls), q.calls.items = s.calls.items,
         q.live = ScriptOwns(q)
  PROVE  ScriptInv(q, n + 1)
<1>1. s.done \in Seq(BOOLEAN) /\ Len(s.done) = n
  BY DEF ScriptInv
<1>2. q.done \in Seq(BOOLEAN) /\ Len(q.done) = n + 1
  BY <1>1, DoneGrows
<1>3. /\ Succeeded(q.done, "push") = Succeeded(s.done, "push")
      /\ Succeeded(q.done, "perform") = Succeeded(s.done, "perform")
  <2>1. /\ Succeeded(Append(s.done, FALSE), "push") = Succeeded(s.done, "push") \cup {}
        /\ Succeeded(Append(s.done, FALSE), "perform") = Succeeded(s.done, "perform") \cup {}
    BY <1>1, SucceededGrows
  <2> QED BY <2>1
<1>4. Played(q) = Played(s)
  BY <1>3 DEF Played
<1>5. s.queue.items \in Seq(1..(n + 1)) /\ s.calls.items \in Seq(1..(n + 1))
  BY DEF ScriptInv
<1> QED BY <1>2, <1>3, <1>4, <1>5 DEF ScriptInv

(* The entries of a list, and one more. *)
LEMMA RangeGrows ==
  ASSUME NEW n \in Nat, NEW list \in Seq(1..n)
  PROVE  /\ Range(Append(list, n + 1)) = Range(list) \cup {n + 1}
         /\ Range(list) \subseteq 1..n
<1> DEFINE e == n + 1
           more == Append(list, e)
           m == Len(list) + 1
<1>1. list \in Seq(1..e) /\ e \in 1..e
  OBVIOUS
<1>2. /\ DOMAIN more = DOMAIN list \cup {m} /\ more[m] = e
      /\ \A k \in DOMAIN list : more[k] = list[k] /\ list[k] \in 1..n
  BY <1>1, AppendProperties
<1> HIDE DEF more, m
<1>3. Range(more) = Range(list) \cup {e} /\ Range(list) \subseteq 1..n
  BY <1>2 DEF Range
<1> QED BY <1>3 DEF more

(* The list with an entry behind it, and the room for it. *)
IsGrown(more, list, first, m) ==
  /\ more.items = Append(list.items, m)
  /\ more = [items |-> more.items, cap |-> Room(list, first)]

(* An entry goes behind a list with place for it. *)
LEMMA ListGrows ==
  ASSUME NEW n \in Nat, NEW list, IsList(list), NEW first \in Nat \ {0}, NEW more,
         IsGrown(more, list, first, n + 1)
  PROVE  IsList(more) /\ \A name : ArrayOf(name, more) = ArrayOf(name, Roomy(list, first))
<1> DEFINE t == list.items
           c == Room(list, first)
           u == Append(t, n + 1)
<1>1. c \in Nat /\ Len(t) < c /\ t \in Seq(Nat)
  BY RoomyIs DEF IsList
<1>2. Roomy(list, first).cap = c /\ more.cap = c
  BY DEF Roomy, IsGrown
<1>3. u \in Seq(Nat) /\ Len(u) = Len(t) + 1 /\ Len(t) \in Nat
  BY <1>1
<1> HIDE DEF t, c
<1>4. more.items = u /\ more = [items |-> more.items, cap |-> more.cap]
  BY <1>2 DEF c, t, IsGrown
<1> HIDE DEF u
<1>5. Len(u) <= c
  BY <1>1, <1>3
<1>6. IsList(more)
  BY <1>1, <1>2, <1>3, <1>4, <1>5 DEF IsList
<1> QED BY <1>2, <1>6 DEF ArrayOf

(* sicha_script_push queues a response with its blocks, or leaves nothing of it. *)
LEMMA PushKeeps ==
  ASSUME NEW n \in Nat, NEW s, ScriptInv(s, n), query.ops[n + 1] = "push"
  PROVE  ScriptInv(sicha_script_push(s, n + 1, query.F), n + 1)
<1> DEFINE e == n + 1
           F == query.F
           RB == {<<"response body", e>>}
           CB == CopyBlocks("response", e, 2)
           E == ResponseBlocks(e)
           held == s.live \cup (RB \ F)
           copied == headers_deep_copy(held, "response", e, s.n, F)
           copy == [s EXCEPT !.live = copied.live]
           room == RoomIn(copy, "queue", 8, F)
           grown == Roomy(s.queue, 8)
           A == ArrayOf("queue", s.queue)
           D == ArrayOf("queue", grown)
           most == {<<"script">>} \cup OfResponses(Range(s.queue.items))
                   \cup OfCalls(Range(s.calls.items))
           C == ArrayOf("calls", s.calls)
           q == sicha_script_push(s, e, F)
<1>1. /\ IsScript(s) /\ s.n = 2 /\ s.done \in Seq(BOOLEAN) /\ Len(s.done) = n
      /\ IsList(s.queue) /\ IsList(s.calls) /\ s.live = most \cup A \cup C
  BY ScriptArraysApart DEF ScriptInv, IsScript
<1>2. E = RB \cup CB
  BY DEF ResponseBlocks
<1>3. /\ \A b \in E : b \notin s.live /\ b \notin A /\ b \notin D
      /\ \A b \in A \cup D : b \notin most /\ b \notin C
  <2>1. s.live = ScriptOwns(s)
    BY DEF ScriptInv
  <2> QED BY <2>1, ScriptIsNew, ScriptArraysApart
<1>4. /\ copied.ok \in BOOLEAN /\ (copied.ok <=> CB \cap F = {})
      /\ copied.ok => copied.live = held \cup CB
      /\ ~copied.ok => copied.live \ CB = held \ CB
  <2>1. PICK live, of, m, G, j : live = held /\ of = "response" /\ m = 2 /\ G = F /\ j = e
    OBVIOUS
  <2>2. m \in Nat
    BY <2>1
  <2> DEFINE c == headers_deep_copy(live, of, j, m, G)
             X == CopyBlocks(of, j, m)
  <2>3. /\ c.ok \in BOOLEAN /\ (c.ok <=> X \cap G = {})
        /\ c.ok => \A b : b \in c.live <=> b \in live \/ b \in X
        /\ ~c.ok => \A b : b \notin X => (b \in c.live <=> b \in live)
    BY <2>2, CopyIs
  <2>6. copied = c /\ CB = X
    BY <1>1, <2>1
  <2> HIDE DEF c, X, held, CB, F, copied, e
  <2> QED BY <2>1, <2>3, <2>6
<1> HIDE DEF copied, CB, RB, E, A, D, C, most
<1>5. /\ {"queue", "calls", "n", "done", "live"} \subseteq DOMAIN copy
      /\ copy.queue = s.queue /\ copy.live = copied.live /\ copy.calls = s.calls
      /\ copy.n = 2 /\ copy.done = s.done
  BY <1>1 DEF IsScript
<1> HIDE DEF copy
<1>6. ASSUME copied.ok
      PROVE  /\ room.ok \in BOOLEAN /\ (F = {} => room.ok)
             /\ room.ok =>
                  /\ IsScript(room.o) /\ room.o.queue = grown /\ room.o.calls = s.calls
                  /\ room.o.done = s.done
                  /\ room.o.live = (copied.live \ A) \cup D
  <2>1. /\ "queue" \in DOMAIN copy /\ "live" \in DOMAIN copy /\ "queue" # "live"
        /\ IsList(copy["queue"]) /\ 8 \in Nat \ {0} /\ copy["queue"] = s.queue
    BY <1>1, <1>5
  <2>2. ArrayOf("queue", copy["queue"]) \subseteq copy.live
    BY <1>1, <1>4, <1>5, <1>6, <2>1 DEF A
  <2>3. /\ room.ok \in BOOLEAN /\ (F = {} => room.ok)
        /\ room.ok => /\ DOMAIN room.o = DOMAIN copy
                      /\ room.o["queue"] = Roomy(copy["queue"], 8)
                      /\ room.o.live = (copy.live \ ArrayOf("queue", copy["queue"]))
                                       \cup ArrayOf("queue", Roomy(copy["queue"], 8))
                      /\ \A p \in DOMAIN copy \ {"queue", "live"} : room.o[p] = copy[p]
    BY <2>1, <2>2, RoomIs
  <2> HIDE DEF room
  <2> QED BY <1>5, <2>1, <2>3 DEF IsScript, A, D
<1>7. q = IF <<"response body", e>> \in F \/ ~copied.ok \/ ~room.ok
          THEN Done(response_free_owned(copy, e), FALSE)
          ELSE Done(Added(room.o, "queue", e), TRUE)
  BY DEF sicha_script_push, copied, copy, room, RB
<1> HIDE DEF room, q
<1>8. ASSUME <<"response body", e>> \in F \/ ~copied.ok \/ ~room.ok PROVE ScriptInv(q, e)
  <2>1. /\ IsScript(q) /\ q.done = Append(s.done, FALSE) /\ q.queue = s.queue
        /\ q.calls = s.calls
        /\ q.live = (copied.live \ RB) \ CB
    BY <1>1, <1>5, <1>7, <1>8
       DEF Done, response_free_owned, headers_deep_free, IsScript, RB, CB
  <2>2. q.live = s.live
    BY <1>2, <1>3, <1>4, <2>1
  <2>3. ScriptOwns(q) = ScriptOwns(s)
    BY <2>1 DEF ScriptOwns
  <2>4. q.live = ScriptOwns(q)
    BY <2>2, <2>3 DEF ScriptInv
  <2>5. F # {}
    BY <1>4, <1>6, <1>8
  <2> QED BY <1>1, <2>1, <2>4, <2>5, ScriptFails
<1>9. ASSUME <<"response body", e>> \notin F, copied.ok, room.ok PROVE ScriptInv(q, e)
  <2> DEFINE more == [grown EXCEPT !.items = Append(@, e)]
  <2>1. /\ IsScript(q) /\ q.done = Append(s.done, TRUE) /\ q.queue = more /\ q.calls = s.calls
        /\ q.live = (copied.live \ A) \cup D
    <3> HIDE DEF grown
    <3> QED BY <1>6, <1>7, <1>9 DEF Done, Added, IsScript
  <2>2. /\ q.queue.items = Append(s.queue.items, e) /\ IsList(q.queue)
        /\ ArrayOf("queue", q.queue) = D
    <3>1. 8 \in Nat \ {0}
      OBVIOUS
    <3>2. IsGrown(more, s.queue, 8, n + 1)
      <4> DEFINE t == s.queue.items
                 c == Room(s.queue, 8)
                 u == Append(t, n + 1)
      <4>1. more = [[items |-> t, cap |-> c] EXCEPT !.items = u]
        BY DEF Roomy
      <4> HIDE DEF t, c, u, more
      <4>2. [[items |-> t, cap |-> c] EXCEPT !.items = u] = [items |-> u, cap |-> c]
        OBVIOUS
      <4>3. more = [items |-> u, cap |-> c] /\ more.items = u
        BY <4>1, <4>2
      <4> QED BY <4>3 DEF t, c, u, IsGrown
    <3> HIDE DEF more
    <3>3. /\ more.items = Append(s.queue.items, n + 1) /\ IsList(more)
          /\ \A name : ArrayOf(name, more) = ArrayOf(name, Roomy(s.queue, 8))
      <4>1. IsList(more) /\ \A name : ArrayOf(name, more) = ArrayOf(name, Roomy(s.queue, 8))
        <5>1. n \in Nat /\ IsList(s.queue) /\ 8 \in Nat \ {0}
          BY <1>1, <3>1
        <5> QED BY <3>2, <5>1, ListGrows, SMTT(30)
      <4> QED BY <3>2, <4>1 DEF IsGrown
    <3> QED BY <2>1, <3>3 DEF D
  <2> DEFINE Q == Range(s.queue.items)
             P == Succeeded(s.done, "push")
  <2>3. /\ s.queue.items \in Seq(1..n) /\ s.calls.items \in Seq(1..n) /\ Listed(s.queue.items, Q)
        /\ Listed(s.calls.items, Succeeded(s.done, "perform")) /\ Q \subseteq P
        /\ (\A p \in P \ Q, x \in Q : p < x) /\ Len(s.calls.items) >= Cardinality(P \ Q)
        /\ query.F = {} => \A k \in DOMAIN s.done : s.done[k]
    BY DEF ScriptInv, Played
  <2>4. /\ q.done \in Seq(BOOLEAN) /\ Len(q.done) = e /\ DOMAIN q.done = DOMAIN s.done \cup {e}
        /\ q.done[e] = TRUE /\ (\A k \in DOMAIN s.done : q.done[k] = s.done[k])
        /\ DOMAIN s.done = 1..n
    <3> DEFINE after == Append(s.done, TRUE)
    <3>1. TRUE \in BOOLEAN /\ s.done \in Seq(BOOLEAN)
      BY <1>1
    <3>2. /\ after \in Seq(BOOLEAN) /\ Len(after) = Len(s.done) + 1
          /\ DOMAIN after = DOMAIN s.done \cup {Len(s.done) + 1}
          /\ after[Len(s.done) + 1] = TRUE /\ \A k \in DOMAIN s.done : after[k] = s.done[k]
      BY <3>1, DoneGrows
    <3> HIDE DEF after
    <3>3. Len(s.done) = n /\ q.done = after /\ DOMAIN s.done = 1..n
      BY <1>1, <2>1 DEF after
    <3> QED BY <3>2, <3>3
  <2>5. Succeeded(q.done, "push") = P \cup {e} /\ Succeeded(q.done, "perform") = Succeeded(s.done, "perform")
    <3>1. /\ Succeeded(q.done, "push") = P \cup {k \in {e} : query.ops[k] = "push" /\ TRUE}
          /\ Succeeded(q.done, "perform")
               = Succeeded(s.done, "perform") \cup {k \in {e} : query.ops[k] = "perform" /\ TRUE}
      <4>1. /\ Succeeded(Append(s.done, TRUE), "push")
                 = P \cup {k \in {Len(s.done) + 1} : query.ops[k] = "push" /\ TRUE}
            /\ Succeeded(Append(s.done, TRUE), "perform")
                 = Succeeded(s.done, "perform")
                   \cup {k \in {Len(s.done) + 1} : query.ops[k] = "perform" /\ TRUE}
        BY <1>1, SucceededGrows
      <4> QED BY <1>1, <2>1, <4>1
    <3>2. query.ops[e] # "perform" /\ query.ops[e] = "push"
      OBVIOUS
    <3> QED BY <3>1, <3>2
  <2>6. P \subseteq 1..n
    BY <2>4 DEF Succeeded
  <2> HIDE DEF Q, P, more
  <2>7. /\ Listed(q.queue.items, Q \cup {e}) /\ q.queue.items \in Seq(1..e)
        /\ Range(q.queue.items) = Q \cup {e}
    <3>1. /\ Listed(Append(s.queue.items, n + 1), Q \cup {n + 1})
          /\ Append(s.queue.items, n + 1) \in Seq(1..(n + 1))
      BY <2>3, OrderGrows
    <3>2. Listed(q.queue.items, Q \cup {e}) /\ q.queue.items \in Seq(1..e)
      BY <2>2, <3>1
    <3> QED BY <3>2 DEF Listed
  <2>8. s.calls.items \in Seq(1..e)
    BY <2>3
  <2>9. Played(q) = P \ Q
    BY <2>5, <2>6, <2>7 DEF Played
  <2>10. \A p \in Played(q), x \in Range(q.queue.items) : p < x
    <3>1. \A p \in P \ Q : p \in 1..n /\ p < e
      BY <2>6
    <3> QED BY <2>3, <2>7, <2>9, <3>1
  <2>11. q.live = ScriptOwns(q)
    <3>1. OfResponses(Q \cup {e}) = OfResponses(Q) \cup E
      BY SetsChange DEF E
    <3>2. ScriptOwns(q) = {<<"script">>} \cup D \cup C \cup OfResponses(Q) \cup E
                          \cup OfCalls(Range(s.calls.items))
      BY <2>1, <2>2, <2>7, <3>1 DEF ScriptOwns, C
    <3>3. most = {<<"script">>} \cup OfResponses(Q) \cup OfCalls(Range(s.calls.items))
      BY DEF most, Q
    <3>4. RB \cap F = {} /\ CB \cap F = {}
      BY <1>4, <1>9 DEF RB
    <3> HIDE DEF held
    <3>5. held = s.live \cup RB
      BY <3>4 DEF held
    <3>6. q.live = most \cup C \cup E \cup D
      BY <1>1, <1>2, <1>3, <1>4, <1>9, <2>1, <3>5
    <3> QED BY <3>2, <3>3, <3>6
  <2>12. query.F = {} => \A k \in DOMAIN q.done : q.done[k]
    BY <2>3, <2>4
  <2> QED BY <1>1, <2>1, <2>2, <2>3, <2>4, <2>5, <2>7, <2>8, <2>9, <2>10, <2>11, <2>12
          DEF ScriptInv
<1>10. copied.ok => room.ok \in BOOLEAN
  BY <1>6
<1> QED BY <1>4, <1>8, <1>9, <1>10 DEF q

(* A list without its first entry. *)
LEMMA TailIs ==
  ASSUME NEW n \in Nat, NEW list \in Seq(1..n), list # <<>>, NEW those, Listed(list, those)
  PROVE  /\ Head(list) \in those /\ Head(list) \in 1..n /\ Tail(list) \in Seq(1..n)
         /\ Listed(Tail(list), those \ {Head(list)})
         /\ \A x \in those \ {Head(list)} : Head(list) < x
         /\ Len(Tail(list)) = Len(list) - 1
<1> DEFINE h == Head(list)
           t == Tail(list)
           m == Len(list)
<1>1. /\ m \in Nat \ {0} /\ h = list[1] /\ t \in Seq(1..n) /\ Len(t) = m - 1
      /\ DOMAIN list = 1..m /\ DOMAIN t = 1..(m - 1)
      /\ \A k \in 1..(m - 1) : t[k] = list[k + 1]
      /\ \A k \in 1..m : list[k] \in 1..n
  BY HeadTailProperties
<1> HIDE DEF h, t, m
<1>2. \A j, k \in 1..m : j < k => list[j] < list[k]
  BY <1>1 DEF Listed
<1>3. those = {list[k] : k \in 1..m}
  BY <1>1 DEF Listed, Range
<1>4. h \in those /\ h \in 1..n
  BY <1>1, <1>3
<1>5. Range(t) = those \ {h}
  <2>1. ASSUME NEW x \in Range(t) PROVE x \in those \ {h}
    <3>1. PICK k \in 1..(m - 1) : x = list[k + 1]
      BY <1>1 DEF Range
    <3>2. k + 1 \in 1..m /\ 1 \in 1..m /\ 1 < k + 1
      BY <1>1
    <3>3. list[1] < list[k + 1] /\ list[1] \in 1..n
      BY <1>1, <1>2, <3>2
    <3> QED BY <1>1, <1>3, <3>1, <3>2, <3>3
  <2>2. ASSUME NEW x \in those \ {h} PROVE x \in Range(t)
    <3>1. PICK k \in 1..m : x = list[k]
      BY <1>3
    <3>2. k # 1
      BY <1>1, <3>1
    <3>3. k - 1 \in 1..(m - 1) /\ (k - 1) + 1 = k
      BY <1>1, <3>2
    <3>4. t[k - 1] = x
      BY <1>1, <3>1, <3>3
    <3> QED BY <1>1, <3>3, <3>4 DEF Range
  <2> QED BY <2>1, <2>2
<1>6. \A x \in those \ {h} : h < x
  <2> SUFFICES ASSUME NEW x \in those, x # h PROVE h < x
    OBVIOUS
  <2>1. PICK k \in 1..m : x = list[k]
    BY <1>3
  <2>2. k # 1
    BY <1>1, <2>1
  <2>3. 1 \in 1..m /\ 1 < k
    BY <1>1, <2>2
  <2> QED BY <1>1, <1>2, <2>1, <2>3
<1>7. \A j, k \in DOMAIN t : j < k => t[j] < t[k]
  <2> SUFFICES ASSUME NEW j \in 1..(m - 1), NEW k \in 1..(m - 1), j < k PROVE t[j] < t[k]
    BY <1>1
  <2>1. j + 1 \in 1..m /\ k + 1 \in 1..m /\ j + 1 < k + 1
    BY <1>1
  <2> QED BY <1>1, <1>2, <2>1
<1> QED BY <1>1, <1>4, <1>5, <1>6, <1>7 DEF Listed, h, t, m

(* A list that loses its first keeps its array. *)
LEMMA ListShrinks ==
  ASSUME NEW list, IsList(list), list.items # <<>>, NEW less,
         less.items = Tail(list.items), less = [items |-> less.items, cap |-> list.cap]
  PROVE  IsList(less) /\ \A name : ArrayOf(name, less) = ArrayOf(name, list)
<1>1. less.cap = list.cap
  OBVIOUS
<1>2. Tail(list.items) \in Seq(Nat) /\ Len(Tail(list.items)) <= list.cap
  BY DEF IsList
<1> QED BY <1>1, <1>2 DEF IsList, ArrayOf

(* An operation that succeeds. *)
LEMMA ScriptDone ==
  ASSUME NEW n \in Nat, NEW s, ScriptInv(s, n), NEW q, q.done = Append(s.done, TRUE)
  PROVE  /\ q.done \in Seq(BOOLEAN) /\ Len(q.done) = n + 1
         /\ query.F = {} => \A k \in DOMAIN q.done : q.done[k]
<1> DEFINE after == Append(s.done, TRUE)
<1>1. /\ TRUE \in BOOLEAN /\ s.done \in Seq(BOOLEAN) /\ Len(s.done) = n /\ DOMAIN s.done = 1..n
      /\ query.F = {} => \A k \in DOMAIN s.done : s.done[k]
  BY DEF ScriptInv
<1>2. /\ after \in Seq(BOOLEAN) /\ Len(after) = Len(s.done) + 1
      /\ DOMAIN after = DOMAIN s.done \cup {Len(s.done) + 1}
      /\ after[Len(s.done) + 1] = TRUE /\ \A k \in DOMAIN s.done : after[k] = s.done[k]
  BY <1>1, DoneGrows
<1> HIDE DEF after
<1>3. q.done = after
  BY DEF after
<1>4. query.F = {} => \A k \in DOMAIN q.done : q.done[k]
  BY <1>1, <1>2, <1>3
<1> QED BY <1>1, <1>2, <1>3, <1>4

(* A call that cannot be recorded. *)
LEMMA PerformKeeps ==
  ASSUME NEW n \in Nat, NEW s, ScriptInv(s, n), query.ops[n + 1] = "perform"
  PROVE  ScriptInv(script_perform(s, n + 1, query.F), n + 1)
<1> DEFINE e == n + 1
           F == query.F
           SB == CallStrings(e)
           CB == CopyBlocks("call", e, 2)
           E == LoggedBlocks(e)
           room == RoomIn(s, "calls", 8, F)
           o == room.o
           held == o.live \cup (SB \ F)
           copied == headers_deep_copy(held, "call", e, s.n, F)
           grown == Roomy(s.calls, 8)
           A == ArrayOf("calls", s.calls)
           D == ArrayOf("calls", grown)
           most == {<<"script">>} \cup OfResponses(Range(s.queue.items))
                   \cup OfCalls(Range(s.calls.items))
           C == ArrayOf("queue", s.queue)
           q == script_perform(s, e, F)
<1>1. /\ IsScript(s) /\ s.n = 2 /\ s.done \in Seq(BOOLEAN) /\ Len(s.done) = n
      /\ IsList(s.queue) /\ IsList(s.calls) /\ s.live = most \cup A \cup C
  BY ScriptArraysApart DEF ScriptInv, IsScript
<1>2. E = SB \cup CB
  BY DEF LoggedBlocks
<1>3. /\ \A b \in E : b \notin s.live /\ b \notin A /\ b \notin D
      /\ \A b \in A \cup D : b \notin most /\ b \notin C
  <2>1. s.live = ScriptOwns(s)
    BY DEF ScriptInv
  <2>2. \A b \in E : b \notin ScriptOwns(s) /\ b \notin A /\ b \notin D
    BY ScriptIsNew
  <2>3. \A b \in A \cup D : b \notin most /\ b \notin C
    BY ScriptArraysApart
  <2> QED BY <2>1, <2>2, <2>3
<1>4. /\ room.ok \in BOOLEAN /\ (F = {} => room.ok)
      /\ room.ok => /\ IsScript(o) /\ o.calls = grown /\ o.queue = s.queue /\ o.done = s.done
                    /\ o.n = 2 /\ o.live = (s.live \ A) \cup D
  <2>1. /\ "calls" \in DOMAIN s /\ "live" \in DOMAIN s /\ "calls" # "live"
        /\ IsList(s["calls"]) /\ 8 \in Nat \ {0} /\ ArrayOf("calls", s["calls"]) \subseteq s.live
    BY <1>1 DEF IsScript
  <2>2. /\ room.ok \in BOOLEAN /\ (F = {} => room.ok)
        /\ room.ok => /\ DOMAIN o = DOMAIN s /\ o["calls"] = Roomy(s["calls"], 8)
                      /\ o.live = (s.live \ ArrayOf("calls", s["calls"]))
                                  \cup ArrayOf("calls", Roomy(s["calls"], 8))
                      /\ \A p \in DOMAIN s \ {"calls", "live"} : o[p] = s[p]
    BY <2>1, RoomIs
  <2> HIDE DEF room
  <2> QED BY <1>1, <2>2 DEF IsScript
<1>5. /\ copied.ok \in BOOLEAN /\ (copied.ok <=> CB \cap F = {})
      /\ copied.ok => copied.live = held \cup CB
      /\ ~copied.ok => copied.live \ CB = held \ CB
  <2>1. PICK live, of, m, G, j : live = held /\ of = "call" /\ m = 2 /\ G = F /\ j = e
    OBVIOUS
  <2>2. m \in Nat
    BY <2>1
  <2> DEFINE c == headers_deep_copy(live, of, j, m, G)
             X == CopyBlocks(of, j, m)
  <2>3. /\ c.ok \in BOOLEAN /\ (c.ok <=> X \cap G = {})
        /\ c.ok => \A b : b \in c.live <=> b \in live \/ b \in X
        /\ ~c.ok => \A b : b \notin X => (b \in c.live <=> b \in live)
    BY <2>2, CopyIs
  <2>6. copied = c /\ CB = X
    BY <1>1, <2>1
  <2> HIDE DEF c, X, held, CB, F, copied, e
  <2> QED BY <2>1, <2>3, <2>6
<1> HIDE DEF copied, CB, SB, E, A, D, C, most
<1> DEFINE whole == SB \cap F = {} /\ copied.ok
           half == [o EXCEPT !.live = copied.live]
           logged == Added(half, "calls", e)
           h == Head(s.queue.items)
           rest == Tail(s.queue.items)
           played == response_free_owned([logged EXCEPT !.queue.items = rest], h)
<1>6. q = IF ~room.ok THEN Done(s, FALSE)
          ELSE IF ~whole
          THEN Done([o EXCEPT !.live = headers_deep_free(copied.live \ SB, "call", e, s.n)], FALSE)
          ELSE Done(IF s.queue.items = <<>> THEN logged ELSE
                    response_free_owned([logged EXCEPT !.queue.items = Tail(@)], h), TRUE)
  BY DEF script_perform, copied, SB
<1> HIDE DEF room, o, q
<1>7. ASSUME ~room.ok PROVE ScriptInv(q, e)
  <2>1. /\ IsScript(q) /\ q.done = Append(s.done, FALSE) /\ q.queue = s.queue
        /\ q.calls = s.calls /\ q.live = s.live
    BY <1>1, <1>6, <1>7 DEF Done, IsScript
  <2>2. q.live = ScriptOwns(q)
    BY <2>1 DEF ScriptOwns, ScriptInv
  <2>3. F # {}
    BY <1>4, <1>7
  <2> QED BY <1>1, <2>1, <2>2, <2>3, ScriptFails
<1>8. ASSUME room.ok, ~whole PROVE ScriptInv(q, e)
  <2>1. /\ IsScript(q) /\ q.done = Append(s.done, FALSE) /\ q.queue = s.queue
        /\ q.calls = grown /\ q.live = (copied.live \ SB) \ CB
    <3> HIDE DEF grown
    <3> QED BY <1>1, <1>4, <1>6, <1>8 DEF Done, headers_deep_free, IsScript, CB
  <2>2. q.live = most \cup C \cup D
    <3>1. q.live = o.live
      <4>1. \A b \in E : b \notin o.live
        BY <1>3, <1>4, <1>8
      <4> HIDE DEF whole
      <4> QED BY <1>2, <1>5, <2>1, <4>1
    <3> QED BY <1>1, <1>3, <1>4, <1>8, <3>1
  <2>3. IsList(grown) /\ grown.items = s.calls.items
    <3>1. 8 \in Nat \ {0}
      OBVIOUS
    <3> QED BY <1>1, <3>1, RoomyIs
  <2>4. q.live = ScriptOwns(q)
    <3> HIDE DEF grown
    <3> QED BY <2>1, <2>2, <2>3 DEF ScriptOwns, most, C, D
  <2>5. F # {}
    BY <1>5, <1>8
  <2> HIDE DEF grown
  <2> QED BY <1>1, <2>1, <2>3, <2>4, <2>5, ScriptFails
<1> DEFINE Q == Range(s.queue.items)
           P == Succeeded(s.done, "push")
           R == Range(s.calls.items)
<1>9. ASSUME room.ok, whole
      PROVE  /\ IsScript(q) /\ q.done = Append(s.done, TRUE)
             /\ IsList(q.calls) /\ q.calls.items = Append(s.calls.items, e)
             /\ ArrayOf("calls", q.calls) = D
             /\ s.queue.items = <<>> => /\ q.queue = s.queue
                                        /\ q.live = most \cup C \cup D \cup E
             /\ s.queue.items # <<>> =>
                  /\ q.queue = [items |-> rest, cap |-> s.queue.cap]
                  /\ q.live = (most \cup C \cup D \cup E) \ ResponseBlocks(h)
  <2> DEFINE more == [grown EXCEPT !.items = Append(@, e)]
             less == [s.queue EXCEPT !.items = Tail(@)]
  <2>1. /\ IsScript(q) /\ q.done = Append(s.done, TRUE) /\ q.calls = more
        /\ s.queue.items = <<>> => q.queue = s.queue /\ q.live = copied.live
        /\ s.queue.items # <<>> =>
             /\ q.queue = less
             /\ q.live = (copied.live \ {<<"response body", h>>}) \ CopyBlocks("response", h, 2)
    <3> HIDE DEF grown
    <3>1. CASE s.queue.items = <<>>
      <4>1. q = Done(logged, TRUE)
        BY <1>6, <1>9, <3>1
      <4> QED BY <1>4, <1>9, <3>1, <4>1 DEF Done, Added, IsScript
    <3>2. CASE s.queue.items # <<>>
      <4>1. q = Done(response_free_owned([logged EXCEPT !.queue.items = Tail(@)], h), TRUE)
        BY <1>6, <1>9, <3>2
      <4> HIDE DEF h
      <4> QED BY <1>4, <1>9, <3>2, <4>1 DEF Done, Added, IsScript, response_free_owned, headers_deep_free
    <3> QED BY <3>1, <3>2
  <2>2. q.calls.items = Append(s.calls.items, e)
        /\ q.calls = [items |-> q.calls.items, cap |-> Room(s.calls, 8)]
    <3> DEFINE t == s.calls.items
               c == Room(s.calls, 8)
               u == Append(t, n + 1)
    <3>1. more = [[items |-> t, cap |-> c] EXCEPT !.items = u]
      BY DEF Roomy
    <3> HIDE DEF t, c, u, more
    <3>2. [[items |-> t, cap |-> c] EXCEPT !.items = u] = [items |-> u, cap |-> c]
      OBVIOUS
    <3>3. more = [items |-> u, cap |-> c] /\ more.items = u
      BY <3>1, <3>2
    <3> QED BY <2>1, <3>3 DEF t, c, u
  <2>3. less = [items |-> rest, cap |-> s.queue.cap]
    <3> DEFINE t == s.queue.items
               c == s.queue.cap
               u == Tail(t)
    <3>1. s.queue = [items |-> t, cap |-> c]
      BY <1>1 DEF IsList
    <3>2. less = [[items |-> t, cap |-> c] EXCEPT !.items = u]
      BY <3>1
    <3> HIDE DEF t, c, u, less
    <3>3. [[items |-> t, cap |-> c] EXCEPT !.items = u] = [items |-> u, cap |-> c]
      OBVIOUS
    <3> QED BY <3>2, <3>3 DEF t, c, u
  <2> HIDE DEF more, less, rest
  <2>4. IsList(q.calls) /\ ArrayOf("calls", q.calls) = D
    <3>1. 8 \in Nat \ {0}
      OBVIOUS
    <3> HIDE DEF grown
    <3>2. IsGrown(q.calls, s.calls, 8, n + 1)
      BY <2>2 DEF IsGrown
    <3>3. IsList(s.calls)
      BY <1>1
    <3> HIDE DEF q
    <3>4. IsList(q.calls) /\ \A name : ArrayOf(name, q.calls) = ArrayOf(name, Roomy(s.calls, 8))
      BY <3>1, <3>2, <3>3, ListGrows
    <3> QED BY <3>4 DEF D, grown
  <2>5. copied.live = most \cup C \cup D \cup E
    <3>1. SB \cap F = {} /\ copied.live = o.live \cup SB \cup CB
      BY <1>5, <1>9
    <3> QED BY <1>1, <1>2, <1>3, <1>4, <1>9, <3>1
  <2>6. ResponseBlocks(h) = {<<"response body", h>>} \cup CopyBlocks("response", h, 2)
    BY DEF ResponseBlocks
  <2> HIDE DEF h
  <2> QED BY <2>1, <2>2, <2>3, <2>4, <2>5, <2>6
<1>10. /\ s.queue.items \in Seq(1..n) /\ s.calls.items \in Seq(1..n) /\ Listed(s.queue.items, Q)
       /\ Listed(s.calls.items, Succeeded(s.done, "perform")) /\ Q \subseteq P
       /\ (\A p \in P \ Q, x \in Q : p < x) /\ Len(s.calls.items) >= Cardinality(P \ Q)
       /\ Succeeded(s.done, "perform") = R /\ Played(s) = P \ Q
  BY DEF ScriptInv, Played, Listed
<1>11. query.ops[e] = "perform" /\ query.ops[e] # "push"
  OBVIOUS
<1>12. ASSUME room.ok, whole
       PROVE  /\ q.done \in Seq(BOOLEAN) /\ Len(q.done) = e
              /\ query.F = {} => \A k \in DOMAIN q.done : q.done[k]
              /\ P \subseteq 1..n
              /\ Succeeded(q.done, "push") = P
              /\ Succeeded(q.done, "perform") = R \cup {e}
  <2>1. q.done = Append(s.done, TRUE)
    BY <1>9, <1>12
  <2>2. /\ q.done \in Seq(BOOLEAN) /\ Len(q.done) = e
        /\ query.F = {} => \A k \in DOMAIN q.done : q.done[k]
    <3>1. PICK x : x = q
      OBVIOUS
    <3>2. x.done = Append(s.done, TRUE)
      BY <2>1, <3>1
    <3>3. /\ x.done \in Seq(BOOLEAN) /\ Len(x.done) = n + 1
          /\ query.F = {} => \A k \in DOMAIN x.done : x.done[k]
      BY <3>2, ScriptDone
    <3> QED BY <3>1, <3>3
  <2>3. /\ Succeeded(Append(s.done, TRUE), "push")
             = P \cup {k \in {Len(s.done) + 1} : query.ops[k] = "push" /\ TRUE}
        /\ Succeeded(Append(s.done, TRUE), "perform")
             = Succeeded(s.done, "perform")
               \cup {k \in {Len(s.done) + 1} : query.ops[k] = "perform" /\ TRUE}
    BY <1>1, SucceededGrows
  <2>4. P \subseteq 1..n
    BY <1>1 DEF Succeeded
  <2>5. Succeeded(q.done, "push") = P
    BY <1>1, <1>11, <2>1, <2>3
  <2>6. Succeeded(q.done, "perform") = R \cup {e}
    <3>1. Succeeded(q.done, "perform") = Succeeded(s.done, "perform") \cup {e}
      BY <1>1, <1>11, <2>1, <2>3
    <3> QED BY <1>10, <3>1
  <2> HIDE DEF P, Q, R
  <2> QED BY <2>2, <2>4, <2>5, <2>6
<1> HIDE DEF P, Q, R
<1>13. ASSUME room.ok, whole
       PROVE  /\ q.calls.items \in Seq(1..e) /\ Listed(q.calls.items, R \cup {e})
              /\ Range(q.calls.items) = R \cup {e}
              /\ Len(q.calls.items) = Len(s.calls.items) + 1
  <2>1. /\ Listed(Append(s.calls.items, n + 1), R \cup {n + 1})
        /\ Append(s.calls.items, n + 1) \in Seq(1..(n + 1))
    BY <1>10, OrderGrows
  <2>2. Len(Append(s.calls.items, n + 1)) = Len(s.calls.items) + 1
    BY <1>10
  <2>3. q.calls.items = Append(s.calls.items, n + 1)
    BY <1>9, <1>13
  <2>4. Range(q.calls.items) = R \cup {n + 1}
    BY <2>1, <2>3 DEF Listed
  <2> QED BY <2>1, <2>2, <2>3, <2>4
<1>14. OfCalls(R \cup {e}) = OfCalls(R) \cup E /\ most = {<<"script">>} \cup OfResponses(Q) \cup OfCalls(R)
  BY SetsChange DEF E, most, Q, R
<1> HIDE DEF whole, e, h, rest
<1>15. ASSUME room.ok, whole, s.queue.items = <<>> PROVE ScriptInv(q, e)
  <2>1. /\ q.queue = s.queue /\ q.live = most \cup C \cup D \cup E
        /\ ArrayOf("calls", q.calls) = D /\ IsScript(q) /\ IsList(q.calls)
    BY <1>9, <1>15
  <2>2. Range(q.queue.items) = Q
    BY <2>1 DEF Q
  <2>3. Played(q) = P \ Q
    BY <1>12, <1>15, <2>2 DEF Played
  <2>4. q.live = ScriptOwns(q)
    BY <1>13, <1>14, <1>15, <2>1, <2>2 DEF ScriptOwns, C
  <2>5. Len(q.calls.items) >= Cardinality(Played(q))
    <3>1. Len(s.calls.items) \in Nat
      BY <1>10
    <3> DEFINE c == Cardinality(P \ Q)
    <3>2. c \in Int
      <4>1. IsFiniteSet(P \ Q)
        <5>1. P \ Q \subseteq 1..n /\ IsFiniteSet(1..n)
          BY <1>12, <1>15, FS_Interval
        <5> QED BY <5>1, FS_Subset
      <4> QED BY <4>1, FS_CardinalityType
    <3> HIDE DEF c
    <3>3. Len(s.calls.items) >= c
      BY <1>10 DEF c
    <3>4. Len(q.calls.items) >= c
      BY <1>13, <1>15, <3>1, <3>2, <3>3
    <3> QED BY <2>3, <3>4 DEF c
  <2>6. s.queue.items \in Seq(1..e)
    BY <1>10 DEF e
  <2>7. Listed(q.calls.items, Succeeded(q.done, "perform")) /\ Listed(q.queue.items, Range(q.queue.items))
        /\ Range(q.queue.items) \subseteq Succeeded(q.done, "push")
        /\ q.queue.items \in Seq(1..e) /\ IsList(q.queue)
    BY <1>1, <1>10, <1>12, <1>13, <1>15, <2>1, <2>2, <2>6
  <2>8. \A p \in Played(q), x \in Range(q.queue.items) : p < x
    BY <1>10, <2>2, <2>3
  <2> QED BY <1>12, <1>13, <1>15, <2>1, <2>4, <2>5, <2>7, <2>8 DEF ScriptInv
<1>16. ASSUME room.ok, whole, s.queue.items # <<>> PROVE ScriptInv(q, e)
  <2>1. /\ q.queue = [items |-> rest, cap |-> s.queue.cap]
        /\ q.live = (most \cup C \cup D \cup E) \ ResponseBlocks(h)
        /\ ArrayOf("calls", q.calls) = D /\ IsScript(q) /\ IsList(q.calls)
    BY <1>9, <1>16
  <2>2. /\ h \in Q /\ h \in 1..n /\ rest \in Seq(1..n) /\ Listed(rest, Q \ {h})
        /\ \A x \in Q \ {h} : h < x
    BY <1>10, <1>16, TailIs DEF h, rest
  <2>3. q.queue.items = rest /\ Range(q.queue.items) = Q \ {h}
    BY <2>1, <2>2 DEF Listed
  <2>4. Played(q) = (P \ Q) \cup {h} /\ h \notin P \ Q
    BY <1>10, <1>12, <1>16, <2>2, <2>3 DEF Played
  <2>5. Len(q.calls.items) >= Cardinality(Played(q))
    <3> DEFINE c == Cardinality(P \ Q)
    <3>1. IsFiniteSet(P \ Q)
      <4>1. P \ Q \subseteq 1..n /\ IsFiniteSet(1..n)
        BY <1>12, <1>16, FS_Interval
      <4> QED BY <4>1, FS_Subset
    <3>2. c \in Nat /\ Cardinality(Played(q)) = c + 1
      BY <2>4, <3>1, FS_CardinalityType, FS_AddElement
    <3>3. Len(s.calls.items) \in Nat /\ Len(s.calls.items) >= c
      BY <1>10
    <3> HIDE DEF c
    <3> QED BY <1>13, <1>16, <3>2, <3>3
  <2>6. IsList(q.queue) /\ ArrayOf("queue", q.queue) = C
    <3>1. q.queue.items = Tail(s.queue.items) /\ q.queue = [items |-> q.queue.items, cap |-> s.queue.cap]
      BY <2>1, <2>3 DEF rest
    <3> QED BY <1>1, <1>16, <3>1, ListShrinks DEF C
  <2>7. rest \in Seq(1..e)
    BY <2>2 DEF e
  <2>8. q.live = ScriptOwns(q)
    <3>1. OfResponses(Q \ {h}) = OfResponses(Q) \ ResponseBlocks(h)
      BY <2>2, SetsChange
    <3>2. ASSUME NEW b \in ResponseBlocks(h)
          PROVE  b # <<"script">> /\ b \notin C /\ b \notin D /\ b \notin OfCalls(R) /\ b \notin E
      <4>1. b[1] \in {"response body", "response"}
        BY ScriptLabels
      <4>2. b # <<"script">> /\ b \notin C /\ b \notin D /\ b \notin E
        BY <4>1, ScriptLabels DEF C, D, E
      <4>3. b \notin OfCalls(R)
        BY <4>1, SetsLabels
      <4> QED BY <4>2, <4>3
    <3>3. ScriptOwns(q) = {<<"script">>} \cup C \cup D \cup OfResponses(Q \ {h}) \cup OfCalls(R \cup {e})
      BY <1>13, <1>16, <2>1, <2>3, <2>6 DEF ScriptOwns
    <3> QED BY <1>14, <2>1, <3>1, <3>2, <3>3
  <2>9. Listed(q.calls.items, Succeeded(q.done, "perform")) /\ Listed(q.queue.items, Range(q.queue.items))
        /\ Range(q.queue.items) \subseteq Succeeded(q.done, "push") /\ q.queue.items \in Seq(1..e)
    BY <1>10, <1>12, <1>13, <1>16, <2>2, <2>3, <2>7
  <2>10. \A p \in Played(q), x \in Range(q.queue.items) : p < x
    BY <1>10, <2>2, <2>3, <2>4
  <2> QED BY <1>12, <1>13, <1>16, <2>1, <2>5, <2>6, <2>8, <2>9, <2>10 DEF ScriptInv
<1>17. room.ok \in BOOLEAN
  BY <1>4
<1> QED BY <1>7, <1>8, <1>15, <1>16, <1>17 DEF q, e

(* An empty script. *)
LEMMA ScriptStart == ScriptInv(sicha_script_create(2), 0)
<1> DEFINE s == sicha_script_create(2)
<1>1. /\ s.queue = List /\ s.calls = List /\ s.n = 2 /\ s.done = <<>> /\ IsScript(s)
      /\ s.live = {<<"script">>}
  BY DEF sicha_script_create, IsScript
<1> HIDE DEF s
<1>2. s.done \in Seq(BOOLEAN) /\ Len(s.done) = 0 /\ DOMAIN s.done = {}
  BY <1>1
<1>3. List.items = <<>> /\ List.cap = 0 /\ List = [items |-> List.items, cap |-> List.cap]
  BY DEF List
<1>4. /\ IsList(s.queue) /\ s.queue.items \in Seq(1..0) /\ IsList(s.calls)
      /\ s.calls.items \in Seq(1..0) /\ DOMAIN s.queue.items = {} /\ DOMAIN s.calls.items = {}
  BY <1>1, <1>3 DEF IsList
<1>5. Range(s.queue.items) = {} /\ Range(s.calls.items) = {}
  BY <1>4 DEF Range
<1>6. Succeeded(s.done, "push") = {} /\ Succeeded(s.done, "perform") = {}
  BY <1>2 DEF Succeeded
<1>7. Listed(s.queue.items, {}) /\ Listed(s.calls.items, {})
  BY <1>4, <1>5 DEF Listed
<1>8. Played(s) = {} /\ Len(s.calls.items) = 0 /\ Cardinality({}) = 0
  BY <1>1, <1>3, <1>6, FS_EmptySet DEF Played
<1>9. ScriptOwns(s) = {<<"script">>}
  BY <1>1, <1>3, <1>5 DEF ScriptOwns, ArrayOf, OfResponses, OfCalls
<1>10. query.F = {} => \A k \in DOMAIN s.done : s.done[k]
  BY <1>2
<1>11. /\ Listed(s.calls.items, Succeeded(s.done, "perform"))
       /\ Listed(s.queue.items, Range(s.queue.items))
       /\ Range(s.queue.items) \subseteq Succeeded(s.done, "push")
  BY <1>5, <1>6, <1>7
<1>12. \A p \in Played(s), q \in Range(s.queue.items) : p < q
  BY <1>5
<1>13. Len(s.calls.items) >= Cardinality(Played(s))
  BY <1>8
<1>14. s.live = ScriptOwns(s)
  BY <1>1, <1>9
<1>15. ScriptInv(s, 0)
  BY <1>1, <1>2, <1>4, <1>10, <1>11, <1>12, <1>13, <1>14 DEF ScriptInv
<1> QED BY <1>15 DEF s

(* The script after n + 1 operations, from the one after n. *)
LEMMA ScriptGrows ==
  ASSUME NEW base, NEW n \in Nat
  PROVE  Scripting!Fold(base, UpTo(n + 1)) = ScriptStep(Scripting!Fold(base, UpTo(n)), n + 1)
<1>0. UpTo(n) \in Seq(Nat) /\ n + 1 \in Nat /\ UpTo(n + 1) = Append(UpTo(n), n + 1)
  <2>1. n + 1 \in Nat
    OBVIOUS
  <2> QED BY <2>1, UpToGrows, Zenon
<1> DEFINE s == UpTo(n)
           x == n + 1
<1>1. s \in Seq(Nat) /\ x \in Nat /\ UpTo(n + 1) = Append(s, x)
  BY <1>0
<1> HIDE DEF s, x
<1>2. Scripting!Fold(base, Append(s, x)) = ScriptStep(Scripting!Fold(base, s), x)
  BY <1>1, Scripting!FoldAppend
<1> QED BY <1>1, <1>2 DEF s, x

(* A row of scripts is a fold over the numbers of its operations. *)
LEMMA ScriptedIs ==
  ASSUME NEW S, query.ops \in Seq(S)
  PROVE  Scripted(query.ops, 2, query.F)
           = Scripting!Fold(sicha_script_create(2), UpTo(Len(query.ops)))
<1>1. [e \in DOMAIN query.ops |-> e] = UpTo(Len(query.ops))
  BY DEF UpTo
<1>2. Scripted(query.ops, 2, query.F)
        = Scripting!Fold(sicha_script_create(2), [e \in DOMAIN query.ops |-> e])
  BY DEF Scripted, ScriptStep, Scripting!Fold, Scripting!FoldLeft, FoldLeft,
         Scripting!MapThenFoldSet, MapThenFoldSet, Scripting!Max, Max
<1> QED BY <1>1, <1>2

(* The script of a whole row. *)
LEMMA ScriptedKeeps ==
  ASSUME query.ops \in Seq({"push", "perform"})
  PROVE  ScriptInv(Scripted(query.ops, 2, query.F), Len(query.ops))
<1> DEFINE base == sicha_script_create(2)
           Size == Len(query.ops)
           T == {n \in Nat : n <= Size => ScriptInv(Scripting!Fold(base, UpTo(n)), n)}
<1>1. 0 \in T
  <2>1. UpTo(0) = <<>>
    BY DEF UpTo
  <2>2. Scripting!Fold(base, UpTo(0)) = base
    BY <2>1, Scripting!FoldEmpty
  <2> QED BY <2>2, ScriptStart
<1>2. ASSUME NEW n \in Nat, n \in T PROVE n + 1 \in T
  <2> SUFFICES ASSUME n + 1 <= Size PROVE ScriptInv(Scripting!Fold(base, UpTo(n + 1)), n + 1)
    OBVIOUS
  <2> DEFINE s == Scripting!Fold(base, UpTo(n))
  <2>1. ScriptInv(s, n)
    BY <1>2
  <2>2. query.ops[n + 1] \in {"push", "perform"}
    BY <1>2
  <2>3. Scripting!Fold(base, UpTo(n + 1)) = ScriptStep(s, n + 1)
    BY ScriptGrows
  <2> HIDE DEF s
  <2>4. ScriptInv(ScriptStep(s, n + 1), n + 1)
    <3>1. CASE query.ops[n + 1] = "push"
      BY <2>1, <3>1, PushKeeps DEF ScriptStep, ScriptOne
    <3>2. CASE query.ops[n + 1] = "perform"
      BY <2>1, <3>2, PerformKeeps DEF ScriptStep, ScriptOne
    <3> QED BY <2>2, <3>1, <3>2
  <2> QED BY <2>3, <2>4
<1>3. Size \in Nat
  OBVIOUS
<1> HIDE DEF T
<1>4. Size \in T
  BY <1>1, <1>2, <1>3, Scripting!Inductive
<1> QED BY <1>4, ScriptedIs DEF T

(* What is held of a script is what FailuresLeaveNothing says of it. *)
LEMMA ScriptHolds ==
  ASSUME NEW n, NEW s, ScriptInv(s, n)
  PROVE  LET Response(e) == {<<"response body", e>>} \cup CopyBlocks("response", e, s.n)
             Call(e) == CallStrings(e) \cup CopyBlocks("call", e, s.n)
             pushed == Succeeded(s.done, "push")
             played == pushed \ Range(s.queue.items)
         IN  /\ Listed(s.calls.items, Succeeded(s.done, "perform"))
             /\ Listed(s.queue.items, pushed \ played)
             /\ \A p \in played, q \in pushed \ played : p < q
             /\ Len(s.calls.items) >= Cardinality(played)
             /\ sicha_script_destroy(s) = {}
             /\ s.live = {<<"script">>} \cup ArrayOf("queue", s.queue) \cup ArrayOf("calls", s.calls)
                         \cup (UNION {Response(s.queue.items[k]) : k \in DOMAIN s.queue.items})
                         \cup (UNION {Call(s.calls.items[k]) : k \in DOMAIN s.calls.items})
<1> DEFINE Response(e) == {<<"response body", e>>} \cup CopyBlocks("response", e, s.n)
           Call(e) == CallStrings(e) \cup CopyBlocks("call", e, s.n)
           pushed == Succeeded(s.done, "push")
           played == pushed \ Range(s.queue.items)
           Q == Range(s.queue.items)
           R == Range(s.calls.items)
           queue == s.queue.items
           calls == s.calls.items
<1>1. /\ s.n = 2 /\ s.live = ScriptOwns(s)
      /\ Listed(calls, Succeeded(s.done, "perform")) /\ Listed(queue, Q) /\ Q \subseteq pushed
      /\ \A p \in pushed \ Q, q \in Q : p < q
      /\ Len(calls) >= Cardinality(pushed \ Q)
  BY DEF ScriptInv, IsScript, Played
<1>2. pushed \ played = Q
  BY <1>1
<1>3. \A e : Response(e) = ResponseBlocks(e) /\ Call(e) = LoggedBlocks(e)
  BY <1>1 DEF ResponseBlocks, LoggedBlocks
<1>4. UNION {Response(queue[k]) : k \in DOMAIN queue} = OfResponses(Q)
      /\ UNION {Call(calls[k]) : k \in DOMAIN calls} = OfCalls(R)
  <2> HIDE DEF queue, calls, Response, Call
  <2>1. \A b : b \in UNION {Response(queue[k]) : k \in DOMAIN queue}
                 <=> \E k \in DOMAIN queue : b \in ResponseBlocks(queue[k])
    BY <1>3
  <2>2. \A b : b \in UNION {Call(calls[k]) : k \in DOMAIN calls}
                 <=> \E k \in DOMAIN calls : b \in LoggedBlocks(calls[k])
    BY <1>3
  <2>3. Q = {queue[k] : k \in DOMAIN queue} /\ R = {calls[k] : k \in DOMAIN calls}
    BY DEF Range, queue, calls
  <2> HIDE DEF Q, R
  <2>4. \A b : b \in OfResponses(Q) <=> \E k \in DOMAIN queue : b \in ResponseBlocks(queue[k])
    BY <2>3 DEF OfResponses
  <2>5. \A b : b \in OfCalls(R) <=> \E k \in DOMAIN calls : b \in LoggedBlocks(calls[k])
    BY <2>3 DEF OfCalls
  <2> QED BY <2>1, <2>2, <2>4, <2>5
<1>6. s.live = {<<"script">>} \cup ArrayOf("queue", s.queue) \cup ArrayOf("calls", s.calls)
               \cup OfResponses(Q) \cup OfCalls(R)
  BY <1>1 DEF ScriptOwns
<1>7. sicha_script_destroy(s)
        = s.live \ (OfResponses(Q) \cup OfCalls(R) \cup ArrayOf("queue", s.queue)
                    \cup ArrayOf("calls", s.calls) \cup {<<"script">>})
  <2>1. sicha_script_destroy(s)
          = s.live \ ((UNION {Response(queue[k]) : k \in DOMAIN queue})
                      \cup (UNION {Call(calls[k]) : k \in DOMAIN calls}) \cup ArrayOf("queue", s.queue)
                      \cup ArrayOf("calls", s.calls) \cup {<<"script">>})
    BY DEF sicha_script_destroy
  <2> QED BY <1>4, <2>1, Zenon
<1>8. sicha_script_destroy(s) = {}
  BY <1>6, <1>7
<1>9. s.live = {<<"script">>} \cup ArrayOf("queue", s.queue) \cup ArrayOf("calls", s.calls)
               \cup (UNION {Response(queue[k]) : k \in DOMAIN queue})
               \cup (UNION {Call(calls[k]) : k \in DOMAIN calls})
  BY <1>4, <1>6, Zenon
<1>10. /\ Listed(calls, Succeeded(s.done, "perform")) /\ Listed(queue, pushed \ played)
       /\ \A p \in played, q \in pushed \ played : p < q
       /\ Len(calls) >= Cardinality(played)
  BY <1>1, <1>2
<1> QED BY <1>8, <1>9, <1>10, Zenon

-----------------------------------------------------------------------------
(* The headers of a transfer.                                              *)

(* What the header callback keeps: the fields of the last block, in order. *)
IsTransfer(x) == {"headers", "oom", "done", "live"} \subseteq DOMAIN x

(* The fields of the last block of headers. *)
LastBlock(done) ==
  {k \in Succeeded(done, "field") : \A j \in DOMAIN done : query.ops[j] # "field" => j < k}

OfFields(those) == UNION {Field(k) : k \in those}

TransferInv(x, n) ==
  /\ IsTransfer(x) /\ x.oom \in BOOLEAN /\ x.done \in Seq(BOOLEAN)
  /\ x.oom \/ Len(x.done) = n
  /\ query.F = {} => ~x.oom /\ \A k \in DOMAIN x.done : x.done[k]
  /\ x.headers \in Seq(1..Len(x.done)) /\ Listed(x.headers, LastBlock(x.done))
  /\ x.live = OfFields(Range(x.headers))

(* The blocks of a field bear its number. *)
LEMMA FieldLabels == \A e : \A b \in Field(e) : b[2] = e
<1>1. ASSUME NEW e, NEW b \in Field(e) PROVE b[2] = e
  <2>1. PICK part \in {"field name", "field value"} : b = <<part, e>>
    BY DEF Field
  <2> QED BY <2>1
<1> QED BY <1>1

(* The last block of headers, and one field more. *)
LEMMA BlockGrows ==
  ASSUME NEW done \in Seq(BOOLEAN), NEW ok \in BOOLEAN
  PROVE  LET e == Len(done) + 1
             more == Append(done, ok)
         IN  /\ query.ops[e] # "field" => LastBlock(more) = {}
             /\ query.ops[e] = "field" /\ ok => LastBlock(more) = LastBlock(done) \cup {e}
             /\ query.ops[e] = "field" /\ ~ok => LastBlock(more) = LastBlock(done)
<1> DEFINE e == Len(done) + 1
           more == Append(done, ok)
<1>1. /\ DOMAIN more = DOMAIN done \cup {e} /\ e \notin DOMAIN done /\ e \in Nat
      /\ more[e] = ok /\ \A k \in DOMAIN done : more[k] = done[k] /\ k \in Nat /\ k < e
  BY DoneGrows
<1> HIDE DEF e, more
<1>2. ASSUME query.ops[e] # "field" PROVE LastBlock(more) = {}
  <2>1. ASSUME NEW k \in LastBlock(more) PROVE FALSE
    <3>1. k \in DOMAIN more /\ query.ops[k] = "field" /\ e < k
      BY <1>1, <1>2 DEF LastBlock, Succeeded
    <3> QED BY <1>1, <3>1
  <2> QED BY <2>1
<1>3. ASSUME query.ops[e] = "field" PROVE LastBlock(more) = LastBlock(done) \cup {k \in {e} : ok}
  <2>1. ASSUME NEW k PROVE k \in LastBlock(more) <=> k \in LastBlock(done) \/ (k = e /\ ok)
    <3>1. CASE k = e
      BY <1>1, <1>3, <3>1 DEF LastBlock, Succeeded
    <3>2. CASE k # e
      BY <1>1, <1>3, <3>2 DEF LastBlock, Succeeded
    <3> QED BY <3>1, <3>2
  <2> QED BY <2>1
<1> QED BY <1>2, <1>3 DEF e, more

(* dup_field keeps a field with both its blocks, or leaves nothing of it. *)
LEMMA FieldKeeps ==
  ASSUME NEW n \in Nat, NEW x, TransferInv(x, n), ~x.oom, query.ops[n + 1] = "field"
  PROVE  TransferInv(dup_field(x, n + 1, query.F), n + 1)
<1> DEFINE e == n + 1
           F == query.F
           E == Field(e)
           q == dup_field(x, e, F)
           R == Range(x.headers)
           L == LastBlock(x.done)
<1>1. /\ IsTransfer(x) /\ x.done \in Seq(BOOLEAN) /\ Len(x.done) = n
      /\ query.F = {} => \A k \in DOMAIN x.done : x.done[k]
      /\ x.headers \in Seq(1..n) /\ Listed(x.headers, L) /\ x.live = OfFields(R) /\ R = L
  BY DEF TransferInv, Listed
<1>2. R \subseteq 1..n
  BY <1>1 DEF Range
<1>3. \A b \in E : b \notin OfFields(R)
  <2> SUFFICES ASSUME NEW b \in E, b \in OfFields(R) PROVE FALSE
    OBVIOUS
  <2>1. PICK k \in R : b \in Field(k)
    BY DEF OfFields
  <2>2. b[2] = k /\ b[2] = e
    BY <2>1, FieldLabels
  <2> QED BY <1>2, <2>1, <2>2
<1>4. OfFields(R \cup {e}) = OfFields(R) \cup E
  <2>1. \A S, b : b \in OfFields(S) <=> \E k \in S : b \in Field(k)
    BY DEF OfFields
  <2> HIDE DEF R
  <2> QED BY <2>1
<1>6. ASSUME E \cap F = {} PROVE TransferInv(q, e)
  <2> DEFINE after == Append(x.done, TRUE)
  <2>1. /\ IsTransfer(q) /\ q.done = after /\ q.headers = Append(x.headers, e)
        /\ q.oom = FALSE /\ q.live = x.live \cup E
    <3> HIDE DEF E
    <3>1. q = Done([x EXCEPT !.headers = Append(@, e), !.live = @ \cup E], TRUE)
      BY <1>6 DEF dup_field, E
    <3>2. x.oom = FALSE
      BY DEF TransferInv
    <3> HIDE DEF q, e
    <3> QED BY <1>1, <3>1, <3>2 DEF Done, IsTransfer
  <2>2. LastBlock(after) = L \cup {e}
    <3>1. Len(x.done) + 1 = e /\ TRUE \in BOOLEAN
      BY <1>1
    <3>2. query.ops[Len(x.done) + 1] = "field" => LastBlock(Append(x.done, TRUE)) = LastBlock(x.done) \cup {Len(x.done) + 1}
      BY <1>1, <3>1, BlockGrows
    <3> QED BY <3>1, <3>2
  <2>3. /\ after \in Seq(BOOLEAN) /\ Len(after) = e /\ DOMAIN after = DOMAIN x.done \cup {e}
        /\ after[e] = TRUE /\ \A k \in DOMAIN x.done : after[k] = x.done[k]
    <3>1. TRUE \in BOOLEAN /\ Len(x.done) + 1 = e
      BY <1>1
    <3>2. /\ after \in Seq(BOOLEAN) /\ Len(after) = Len(x.done) + 1
          /\ DOMAIN after = DOMAIN x.done \cup {Len(x.done) + 1}
          /\ after[Len(x.done) + 1] = TRUE /\ \A k \in DOMAIN x.done : after[k] = x.done[k]
      BY <1>1, <3>1, DoneGrows
    <3> HIDE DEF after, e
    <3> QED BY <3>1, <3>2
  <2>4. /\ Listed(Append(x.headers, n + 1), L \cup {n + 1})
        /\ Append(x.headers, n + 1) \in Seq(1..(n + 1))
    <3> HIDE DEF L
    <3> QED BY <1>1, OrderGrows
  <2> HIDE DEF q, after, L, R, E
  <2>5. Range(q.headers) = R \cup {e}
    BY <1>1, <2>1, <2>4 DEF Listed
  <2>6. query.F = {} => \A k \in DOMAIN q.done : q.done[k]
    BY <1>1, <2>1, <2>3
  <2> QED BY <1>1, <1>4, <2>1, <2>2, <2>3, <2>4, <2>5, <2>6 DEF TransferInv
<1>7. ASSUME E \cap F # {} PROVE TransferInv(q, e)
  <2> DEFINE after == Append(x.done, FALSE)
  <2>1. /\ IsTransfer(q) /\ q.done = after /\ q.headers = x.headers
        /\ q.oom = TRUE /\ q.live = (x.live \cup (E \ F)) \ E
    <3> HIDE DEF E
    <3>1. q = Done([x EXCEPT !.live = (@ \cup (E \ F)) \ E, !.oom = TRUE], FALSE)
      BY <1>7 DEF dup_field, E
    <3> HIDE DEF q
    <3> QED BY <1>1, <3>1 DEF Done, IsTransfer
  <2>2. LastBlock(after) = L
    <3>1. Len(x.done) + 1 = e /\ FALSE \in BOOLEAN
      BY <1>1
    <3>2. query.ops[Len(x.done) + 1] = "field" => LastBlock(Append(x.done, FALSE)) = LastBlock(x.done)
      BY <1>1, <3>1, BlockGrows
    <3> QED BY <3>1, <3>2
  <2>3. after \in Seq(BOOLEAN) /\ Len(after) = e
    BY <1>1
  <2>4. q.live = x.live
    <3>1. \A b \in E : b \notin x.live
      BY <1>1, <1>3
    <3> HIDE DEF E
    <3>2. (x.live \cup (E \ F)) \ E = x.live
      BY <3>1
    <3> QED BY <2>1, <3>2
  <2>5. x.headers \in Seq(1..e)
    BY <1>1
  <2> HIDE DEF q, after, L, R, E
  <2> QED BY <1>1, <1>7, <2>1, <2>2, <2>3, <2>4, <2>5 DEF TransferInv, R
<1> QED BY <1>6, <1>7 DEF q

(* A status line, or the end of an interim response, begins an empty block. *)
LEMMA BlockEnds ==
  ASSUME NEW n \in Nat, NEW x, TransferInv(x, n), ~x.oom, query.ops[n + 1] # "field"
  PROVE  TransferInv(Done(xfer_free_headers(x), TRUE), n + 1)
<1> DEFINE e == n + 1
           q == Done(xfer_free_headers(x), TRUE)
           R == Range(x.headers)
           after == Append(x.done, TRUE)
           gone == UNION {Field(x.headers[k]) : k \in DOMAIN x.headers}
<1>1. /\ IsTransfer(x) /\ x.done \in Seq(BOOLEAN) /\ Len(x.done) = n /\ x.oom = FALSE
      /\ query.F = {} => \A k \in DOMAIN x.done : x.done[k]
      /\ x.live = OfFields(R)
  BY DEF TransferInv
<1>2. gone = OfFields(R)
  BY DEF OfFields, Range
<1>3. /\ IsTransfer(q) /\ q.done = after /\ q.headers = <<>> /\ q.oom = FALSE
      /\ q.live = x.live \ gone
  <2>1. q = Done([x EXCEPT !.live = @ \ gone, !.headers = <<>>], TRUE)
    BY DEF xfer_free_headers
  <2> HIDE DEF q, gone
  <2> QED BY <1>1, <2>1 DEF Done, IsTransfer
<1>4. q.live = {}
  BY <1>1, <1>2, <1>3
<1>5. LastBlock(after) = {}
  <2>1. Len(x.done) + 1 = e /\ TRUE \in BOOLEAN
    BY <1>1
  <2>2. query.ops[Len(x.done) + 1] # "field" => LastBlock(Append(x.done, TRUE)) = {}
    BY <1>1, <2>1, BlockGrows
  <2> QED BY <2>1, <2>2
<1>6. /\ after \in Seq(BOOLEAN) /\ Len(after) = e /\ DOMAIN after = DOMAIN x.done \cup {e}
      /\ after[e] = TRUE /\ \A k \in DOMAIN x.done : after[k] = x.done[k]
  <2>1. TRUE \in BOOLEAN /\ Len(x.done) + 1 = e
    BY <1>1
  <2>2. /\ after \in Seq(BOOLEAN) /\ Len(after) = Len(x.done) + 1
        /\ DOMAIN after = DOMAIN x.done \cup {Len(x.done) + 1}
        /\ after[Len(x.done) + 1] = TRUE /\ \A k \in DOMAIN x.done : after[k] = x.done[k]
    BY <1>1, <2>1, DoneGrows
  <2> HIDE DEF after, e
  <2> QED BY <2>1, <2>2
<1> HIDE DEF q, after
<1>7. query.F = {} => \A k \in DOMAIN q.done : q.done[k]
  BY <1>1, <1>3, <1>6
<1>8. Listed(q.headers, LastBlock(q.done)) /\ Range(q.headers) = {} /\ q.headers \in Seq(1..Len(q.done))
  BY <1>3, <1>5 DEF Listed, Range
<1>9. OfFields(Range(q.headers)) = {}
  BY <1>8 DEF OfFields
<1>10. TransferInv(q, e)
  BY <1>3, <1>4, <1>6, <1>7, <1>8, <1>9 DEF TransferInv
<1> QED BY <1>10 DEF q

(* A transfer before its first line. *)
LEMMA TransferStart == TransferInv(NoTransfer, 0)
<1> DEFINE x == NoTransfer
<1>1. x.headers = <<>> /\ x.oom = FALSE /\ x.done = <<>> /\ x.live = {} /\ IsTransfer(x)
  BY DEF NoTransfer, IsTransfer
<1> HIDE DEF x
<1>2. /\ x.done \in Seq(BOOLEAN) /\ Len(x.done) = 0 /\ DOMAIN x.done = {}
      /\ x.headers \in Seq(1..Len(x.done)) /\ DOMAIN x.headers = {}
  BY <1>1
<1>3. LastBlock(x.done) = {} /\ Range(x.headers) = {}
  BY <1>2 DEF LastBlock, Succeeded, Range
<1>4. Listed(x.headers, LastBlock(x.done)) /\ OfFields(Range(x.headers)) = {}
  BY <1>2, <1>3 DEF Listed, OfFields
<1>5. TransferInv(x, 0)
  BY <1>1, <1>2, <1>3, <1>4 DEF TransferInv
<1> QED BY <1>5 DEF x

(* The transfer after n + 1 lines, from the one after n. *)
LEMMA TransferGrows ==
  ASSUME NEW base, NEW n \in Nat
  PROVE  Transferring!Fold(base, UpTo(n + 1))
           = TransferStep(Transferring!Fold(base, UpTo(n)), n + 1)
<1>0. UpTo(n) \in Seq(Nat) /\ n + 1 \in Nat /\ UpTo(n + 1) = Append(UpTo(n), n + 1)
  <2>1. n + 1 \in Nat
    OBVIOUS
  <2> QED BY <2>1, UpToGrows, Zenon
<1> DEFINE s == UpTo(n)
           x == n + 1
<1>1. s \in Seq(Nat) /\ x \in Nat /\ UpTo(n + 1) = Append(s, x)
  BY <1>0
<1> HIDE DEF s, x
<1>2. Transferring!Fold(base, Append(s, x)) = TransferStep(Transferring!Fold(base, s), x)
  BY <1>1, Transferring!FoldAppend
<1> QED BY <1>1, <1>2 DEF s, x

(* A row of transfers is a fold over the numbers of its lines. *)
LEMMA TransferredIs ==
  ASSUME NEW S, query.ops \in Seq(S)
  PROVE  Transferred(query.ops, query.F) = Transferring!Fold(NoTransfer, UpTo(Len(query.ops)))
<1>1. [e \in DOMAIN query.ops |-> e] = UpTo(Len(query.ops))
  BY DEF UpTo
<1>2. Transferred(query.ops, query.F) = Transferring!Fold(NoTransfer, [e \in DOMAIN query.ops |-> e])
  BY DEF Transferred, TransferStep, Transferring!Fold, Transferring!FoldLeft, FoldLeft,
         Transferring!MapThenFoldSet, MapThenFoldSet, Transferring!Max, Max
<1> QED BY <1>1, <1>2

(* The lines a transfer hears. *)
TransferOps == {"status", "field", "interim end"}

(* The transfer of a whole row. *)
LEMMA TransferredKeeps ==
  ASSUME query.ops \in Seq(TransferOps)
  PROVE  TransferInv(Transferred(query.ops, query.F), Len(query.ops))
<1> DEFINE base == NoTransfer
           Size == Len(query.ops)
           T == {n \in Nat : n <= Size => TransferInv(Transferring!Fold(base, UpTo(n)), n)}
<1>1. 0 \in T
  <2>1. UpTo(0) = <<>>
    BY DEF UpTo
  <2>2. Transferring!Fold(base, UpTo(0)) = base
    BY <2>1, Transferring!FoldEmpty
  <2> QED BY <2>2, TransferStart
<1>2. ASSUME NEW n \in Nat, n \in T PROVE n + 1 \in T
  <2> SUFFICES ASSUME n + 1 <= Size
               PROVE  TransferInv(Transferring!Fold(base, UpTo(n + 1)), n + 1)
    OBVIOUS
  <2> DEFINE x == Transferring!Fold(base, UpTo(n))
  <2>1. TransferInv(x, n)
    BY <1>2
  <2>2. query.ops[n + 1] \in TransferOps
    BY <1>2
  <2>3. Transferring!Fold(base, UpTo(n + 1)) = TransferStep(x, n + 1)
    BY TransferGrows
  <2> HIDE DEF x
  <2>4. TransferInv(TransferStep(x, n + 1), n + 1)
    <3>1. CASE x.oom
      <4>1. TransferStep(x, n + 1) = x
        BY <3>1 DEF TransferStep, header_cb
      <4>2. TransferInv(x, n + 1)
        BY <2>1, <3>1 DEF TransferInv
      <4> QED BY <4>1, <4>2
    <3>2. CASE ~x.oom /\ query.ops[n + 1] = "field"
      <4>1. TransferStep(x, n + 1) = dup_field(x, n + 1, query.F)
        BY <3>2 DEF TransferStep, header_cb
      <4> QED BY <2>1, <3>2, <4>1, FieldKeeps
    <3>3. CASE ~x.oom /\ query.ops[n + 1] # "field"
      <4>1. TransferStep(x, n + 1) = Done(xfer_free_headers(x), TRUE)
        BY <2>2, <3>3 DEF TransferStep, header_cb, TransferOps
      <4> QED BY <2>1, <3>3, <4>1, BlockEnds
    <3> QED BY <3>1, <3>2, <3>3
  <2> QED BY <2>3, <2>4
<1>3. Size \in Nat
  OBVIOUS
<1> HIDE DEF T
<1>4. Size \in T
  BY <1>1, <1>2, <1>3, Transferring!Inductive
<1> QED BY <1>4, TransferredIs DEF T

(* UpTo that have a bound have a largest. *)
LEMMA MostNat ==
  ASSUME NEW m \in Nat, NEW T \in SUBSET (0..m), T # {}
  PROVE  Max(T) \in T /\ \A x \in T : x <= Max(T)
<1> DEFINE U == {m - x : x \in T}
<1>1. U \in SUBSET Nat /\ U # {}
  OBVIOUS
<1>2. PICK u \in U : \A y \in U : u <= y
  BY <1>1, LeastNat
<1>3. PICK x \in T : u = m - x
  BY <1>2
<1>4. ASSUME NEW y \in T PROVE x >= y
  <2>1. m - y \in U /\ u = m - x /\ x \in 0..m /\ y \in 0..m
    BY <1>3
  <2>2. u <= m - y
    BY <1>2, <2>1
  <2> HIDE DEF U
  <2> QED BY <2>1, <2>2
<1>5. \E y \in T : \A z \in T : y >= z
  BY <1>4
<1>6. Max(T) = CHOOSE y \in T : \A z \in T : y >= z
  BY DEF Max
<1> QED BY <1>5, <1>6

(* What is held of a transfer is what FailuresLeaveNothing says of it. *)
LEMMA TransferHolds ==
  ASSUME NEW n \in Nat, NEW x, TransferInv(x, n)
  PROVE  LET begun == Max({0} \cup {k \in DOMAIN x.done : query.ops[k] # "field"})
         IN  /\ Listed(x.headers, {k \in Succeeded(x.done, "field") : k > begun})
             /\ x.live = UNION {Field(k) : k \in Range(x.headers)}
             /\ xfer_free_headers(x).live = {}
<1> DEFINE T == {0} \cup {k \in DOMAIN x.done : query.ops[k] # "field"}
           begun == Max(T)
           m == Len(x.done)
<1>1. m \in Nat /\ T \in SUBSET (0..m) /\ T # {} /\ DOMAIN x.done = 1..m
  BY DEF TransferInv
<1>2. begun \in T /\ \A k \in T : k <= begun
  <2> HIDE DEF T, m
  <2> QED BY <1>1, MostNat
<1>3. LastBlock(x.done) = {k \in Succeeded(x.done, "field") : k > begun}
  <2> HIDE DEF begun
  <2>1. begun \in 0..m
    BY <1>1, <1>2
  <2>2. ASSUME NEW k \in Succeeded(x.done, "field")
        PROVE  (\A j \in DOMAIN x.done : query.ops[j] # "field" => j < k) <=> k > begun
    <3>1. k \in 1..m
      BY <1>1 DEF Succeeded
    <3> HIDE DEF m
    <3> QED BY <1>1, <1>2, <2>1, <3>1
  <2> QED BY <2>2 DEF LastBlock
<1>4. Listed(x.headers, LastBlock(x.done)) /\ x.live = OfFields(Range(x.headers)) /\ IsTransfer(x)
  BY DEF TransferInv
<1>5. x.live = UNION {Field(k) : k \in Range(x.headers)}
  BY <1>4 DEF OfFields
<1>6. xfer_free_headers(x).live = {}
  <2> DEFINE gone == UNION {Field(x.headers[k]) : k \in DOMAIN x.headers}
  <2>1. gone = x.live
    BY <1>5 DEF Range
  <2>2. xfer_free_headers(x) = [x EXCEPT !.live = @ \ gone, !.headers = <<>>]
    BY DEF xfer_free_headers
  <2> HIDE DEF gone
  <2> QED BY <1>4, <2>1, <2>2 DEF IsTransfer
<1> QED BY <1>3, <1>4, <1>5, <1>6

-----------------------------------------------------------------------------
(* The set-up of a client.                                                 *)

(* The backends of a chain, and the blocks each lives from. *)
IsBackend(d) ==
  d.strings \subseteq {"api_key", "extra_body_json"} /\ d.assist \in BOOLEAN /\ d.nExtra \in Nat

(* The blocks of the first n extra headers of backend e. *)
OfHeaders(e, n) == UNION {HeaderBlocks(e, k) : k \in 1..n}

(* All the blocks of backend e. *)
BackendBlocks(d, e) ==
  Strings(d, e) \cup (IF d.assist THEN {<<"url_abort", e>>} ELSE {})
  \cup (IF d.nExtra > 0 THEN {<<"extra_headers", e>>} ELSE {}) \cup OfHeaders(e, d.nExtra)

(* The names of a backend's own blocks, and of those of its extra headers. *)
Plain == {"base_url", "url_chat", "model", "api_key", "extra_body_json", "url_abort", "extra_headers"}

Extra == {"extra name", "extra value"}

(* The blocks of a header bear its place. *)
LEMMA HeaderLabels ==
  ASSUME NEW e, NEW n
  PROVE  \A b \in OfHeaders(e, n) : b[1] \in Extra /\ b[2] = e /\ Len(b) > 1
<1>1. ASSUME NEW b \in OfHeaders(e, n) PROVE b[1] \in Extra /\ b[2] = e /\ Len(b) > 1
  <2>1. PICK k \in 1..n : b \in HeaderBlocks(e, k)
    BY DEF OfHeaders
  <2>2. PICK part \in Extra : b = <<part, e, k>>
    BY <2>1 DEF HeaderBlocks, Extra
  <2>3. b[1] = part /\ b[2] = e /\ Len(b) = 3
    BY <2>2
  <2> QED BY <2>3
<1> QED BY <1>1

(* The strings of a backend bear its number. *)
LEMMA StringLabels ==
  ASSUME NEW d, IsBackend(d), NEW e
  PROVE  /\ \A b \in Strings(d, e) : b[1] \in Plain /\ b[2] = e /\ Len(b) > 1
         /\ \A b \in {<<"url_abort", e>>, <<"extra_headers", e>>} :
              b[1] \in Plain /\ b[2] = e /\ Len(b) > 1
<1>1. ASSUME NEW b \in Strings(d, e) PROVE b[1] \in Plain /\ b[2] = e /\ Len(b) > 1
  <2>1. PICK s \in {"base_url", "url_chat", "model"} \cup d.strings : b = <<s, e>>
    BY DEF Strings
  <2>2. s \in Plain
    BY DEF IsBackend, Plain
  <2>3. b[1] = s /\ b[2] = e /\ Len(b) = 2
    BY <2>1
  <2> QED BY <2>2, <2>3
<1>2. ASSUME NEW b \in {<<"url_abort", e>>, <<"extra_headers", e>>}
      PROVE  b[1] \in Plain /\ b[2] = e /\ Len(b) > 1
  <2>1. PICK s \in Plain : b = <<s, e>>
    BY DEF Plain
  <2>2. b[1] = s /\ b[2] = e /\ Len(b) = 2
    BY <2>1
  <2> QED BY <2>2
<1> QED BY <1>1, <1>2

(* So do all its blocks. *)
LEMMA BackendLabels ==
  ASSUME NEW d, IsBackend(d), NEW e
  PROVE  \A b \in BackendBlocks(d, e) : b[1] \in Plain \cup Extra /\ b[2] = e /\ Len(b) > 1
<1>1. \A b \in BackendBlocks(d, e) : \/ b \in Strings(d, e) \/ b = <<"url_abort", e>>
                                    \/ b = <<"extra_headers", e>> \/ b \in OfHeaders(e, d.nExtra)
  BY Zenon DEF BackendBlocks
<1> QED BY <1>1, StringLabels, HeaderLabels

(* The two kinds of name are apart. *)
LEMMA PlainIsNotExtra == \A w \in Plain : w \notin Extra
BY DEF Plain, Extra

(* What is freed is what was made, up to a number of headers. *)
LEMMA FreeIsWhole ==
  ASSUME NEW e, NEW n, NEW blocks, \A b \in blocks : b[1] \in Plain \/ b \in OfHeaders(e, n)
  PROVE  sicha_backend_free(blocks, e, n) = blocks
<1>1. \A b \in blocks : b \in OfHeaders(e, n) \/ b[1] \notin {"extra name", "extra value"}
  BY PlainIsNotExtra DEF Extra
<1> QED BY <1>1 DEF sicha_backend_free, OfHeaders

(* A backend is made whole, or nothing of it is left. *)
LEMMA BackendInitIs ==
  ASSUME NEW d, IsBackend(d), NEW e, NEW F
  PROVE  LET made == sicha_backend_init(d, e, F) IN
         /\ made.st = "OK" => made.live = BackendBlocks(d, e)
         /\ made.st # "OK" => made.live = {} /\ F # {}
<1> DEFINE strings == CopiedStrings(d, e, F)
           abort == IF ~d.assist THEN {}
                    ELSE {<<"url_abort", e>>} \ (IF <<"origin", e>> \in F THEN {<<"url_abort", e>>}
                                                 ELSE F)
           array == IF d.nExtra = 0 THEN {} ELSE {<<"extra_headers", e>>} \ F
           bad == {n \in 1..d.nExtra : HeaderBlocks(e, n) \cap F # {}}
           failing == Least(bad, 0)
           last == IF failing = 0 THEN d.nExtra ELSE failing
           copied == UNION {HeaderBlocks(e, n) \ F : n \in 1..last}
           Fails(blocks, n) == [st |-> "NOMEM", live |-> blocks \ sicha_backend_free(blocks, e, n)]
           made == sicha_backend_init(d, e, F)
           all == strings \cup abort \cup array \cup copied
<1>1. made = CASE d.assist /\ abort = {} -> Fails(strings, 0)
               [] d.nExtra > 0 /\ array = {} -> Fails(strings \cup abort, 0)
               [] failing > 0 -> Fails(all, CountAll(d, failing))
               [] strings # Strings(d, e) -> Fails(all, d.nExtra)
               [] OTHER -> [st |-> "OK", live |-> all]
  BY DEF sicha_backend_init
<1>2. CountAll(d, failing) = d.nExtra /\ d.nExtra \in Nat /\ d.assist \in BOOLEAN
  BY DEF CountAll, IsBackend
<1>3. /\ failing \in 0..d.nExtra /\ (failing = 0 <=> bad = {}) /\ last \in 0..d.nExtra
  <2>1. bad \in SUBSET (1..d.nExtra)
    OBVIOUS
  <2> HIDE DEF bad
  <2>2. bad = {} => failing = 0
    BY <1>2, <2>1, LeastIs
  <2>3. bad # {} => failing \in bad
    BY <1>2, <2>1, LeastIs
  <2> HIDE DEF failing
  <2>4. \A k \in bad : k \in 1..d.nExtra
    BY <2>1
  <2>5. bad = {} \/ failing \in 1..d.nExtra
    BY <2>3, <2>4
  <2> QED BY <1>2, <2>2, <2>3, <2>4, <2>5
<1>4. strings \subseteq Strings(d, e) /\ (strings # Strings(d, e) => F # {})
  BY DEF CopiedStrings
<1>5. /\ abort \subseteq {<<"url_abort", e>>} /\ array \subseteq {<<"extra_headers", e>>}
      /\ d.assist => abort = {<<"url_abort", e>>} \/ (abort = {} /\ F # {})
      /\ ~d.assist => abort = {}
      /\ d.nExtra > 0 => array = {<<"extra_headers", e>>} \/ (array = {} /\ F # {})
      /\ ~(d.nExtra > 0) => array = {}
  BY <1>2
<1> DEFINE Some(n) == HeaderBlocks(e, n)
<1>6. copied \subseteq OfHeaders(e, d.nExtra)
  <2>1. \A n \in 1..last : n \in 1..d.nExtra
    BY <1>2, <1>3
  <2> HIDE DEF last
  <2> QED BY <2>1 DEF OfHeaders
<1>7. bad = {} => copied = OfHeaders(e, d.nExtra)
  <2> SUFFICES ASSUME bad = {} PROVE copied = OfHeaders(e, d.nExtra)
    OBVIOUS
  <2>1. last = d.nExtra
    BY <1>3
  <2>2. \A n \in 1..d.nExtra : HeaderBlocks(e, n) \ F = HeaderBlocks(e, n)
    OBVIOUS
  <2> HIDE DEF last, bad
  <2> QED BY <2>1, <2>2 DEF OfHeaders
<1>8. bad # {} => F # {}
  OBVIOUS
<1> HIDE DEF strings, abort, array, bad, failing, last, copied
<1>9. \A b \in all : b[1] \in Plain \/ b \in OfHeaders(e, d.nExtra)
  BY <1>4, <1>5, <1>6, StringLabels
<1>10. \A b \in strings \cup abort : b[1] \in Plain
  BY <1>4, <1>5, StringLabels
<1> DEFINE nothing == [st |-> "NOMEM", live |-> {}]
<1>11. /\ Fails(strings, 0) = nothing /\ Fails(strings \cup abort, 0) = nothing
       /\ Fails(all, d.nExtra) = nothing
  <2>1. sicha_backend_free(strings, e, 0) = strings
    BY <1>10, FreeIsWhole
  <2>2. sicha_backend_free(strings \cup abort, e, 0) = strings \cup abort
    BY <1>10, FreeIsWhole
  <2>3. sicha_backend_free(all, e, d.nExtra) = all
    <3> HIDE DEF all
    <3> QED BY <1>9, FreeIsWhole
  <2> HIDE DEF all
  <2> QED BY <2>1, <2>2, <2>3
<1> DEFINE g1 == d.assist /\ abort = {}
           g2 == d.nExtra > 0 /\ array = {}
           g3 == failing > 0
           g4 == strings # Strings(d, e)
           whole == [st |-> "OK", live |-> all]
<1>12. made = CASE g1 -> nothing [] g2 -> nothing [] g3 -> nothing [] g4 -> nothing [] OTHER -> whole
  <2> HIDE DEF all, Fails, made, nothing, g1, g2, g3, g4
  <2>1. Fails(all, CountAll(d, failing)) = nothing
    BY <1>2, <1>11
  <2> QED BY <1>1, <1>11, <2>1, Zenon DEF g1, g2, g3, g4
<1>13. (g1 \/ g2 \/ g3 \/ g4) => made = nothing
  <2> HIDE DEF nothing, whole, g1, g2, g3, g4, made
  <2> QED BY <1>12
<1>14. ~(g1 \/ g2 \/ g3 \/ g4) => made = whole
  <2> HIDE DEF nothing, whole, g1, g2, g3, g4, made
  <2> QED BY <1>12
<1>15. (g1 \/ g2 \/ g3 \/ g4) => F # {}
  <2>1. ASSUME g1 PROVE F # {}
    BY <1>5, <2>1
  <2>2. ASSUME g2 PROVE F # {}
    BY <1>5, <2>2
  <2>3. ASSUME g3 PROVE F # {}
    BY <1>3, <1>8, <2>3
  <2>4. ASSUME g4 PROVE F # {}
    BY <1>4, <2>4
  <2> QED BY <2>1, <2>2, <2>3, <2>4
<1>16. ~(g1 \/ g2 \/ g3 \/ g4) => all = BackendBlocks(d, e)
  <2> SUFFICES ASSUME ~g1, ~g2, ~g3, ~g4 PROVE all = BackendBlocks(d, e)
    OBVIOUS
  <2>1. copied = OfHeaders(e, d.nExtra)
    BY <1>2, <1>3, <1>7
  <2>2. abort = IF d.assist THEN {<<"url_abort", e>>} ELSE {}
    BY <1>2, <1>5
  <2>3. array = IF d.nExtra > 0 THEN {<<"extra_headers", e>>} ELSE {}
    BY <1>5
  <2> QED BY <2>1, <2>2, <2>3 DEF BackendBlocks
<1>17. nothing.st # "OK" /\ nothing.live = {} /\ whole.st = "OK" /\ whole.live = all
  OBVIOUS
<1> HIDE DEF nothing, whole, made, g1, g2, g3, g4, all
<1>18. CASE g1 \/ g2 \/ g3 \/ g4
  BY <1>13, <1>15, <1>17, <1>18 DEF made
<1>19. CASE ~(g1 \/ g2 \/ g3 \/ g4)
  BY <1>14, <1>16, <1>17, <1>19 DEF made
<1> QED BY <1>18, <1>19

-----------------------------------------------------------------------------
(* A client.                                                               *)

Lone == {"client", "backends", "overrides", "curl", "user_agent", "debug"}

(* No block of a backend has one of them. *)
LEMMA LoneIsApart == \A w \in Lone : w \notin Plain \cup Extra
BY DEF Lone, Plain, Extra

(* The blocks of a client that belong to no backend. *)
RestBlocks(o) ==
  (IF o.overrides THEN {<<"overrides">>} ELSE {}) \cup (IF o.curl THEN {<<"curl">>} ELSE {})
  \cup {<<"user_agent">>}

(* The entries of two lists, one behind the other. *)
LEMMA RangeOfBoth ==
  ASSUME NEW T, NEW s \in Seq(T), NEW t \in Seq(T)
  PROVE  s \o t \in Seq(T) /\ Range(s \o t) = Range(s) \cup Range(t)
<1> DEFINE c == s \o t
           m == Len(s)
           k == Len(t)
<1>1. /\ c \in Seq(T) /\ m \in Nat /\ k \in Nat /\ DOMAIN s = 1..m /\ DOMAIN t = 1..k
      /\ DOMAIN c = 1..(m + k) /\ (\A j \in 1..m : c[j] = s[j])
      /\ \A j \in 1..k : c[m + j] = t[j]
  BY ConcatProperties
<1> HIDE DEF c, m, k
<1>2. ASSUME NEW x \in Range(c) PROVE x \in Range(s) \cup Range(t)
  <2>1. PICK j \in 1..(m + k) : x = c[j]
    BY <1>1 DEF Range
  <2>2. CASE j \in 1..m
    BY <1>1, <2>1, <2>2 DEF Range
  <2>3. CASE j \notin 1..m
    <3>1. j - m \in 1..k /\ m + (j - m) = j
      BY <1>1, <2>1, <2>3
    <3> QED BY <1>1, <2>1, <3>1 DEF Range
  <2> QED BY <2>2, <2>3
<1>3. ASSUME NEW j \in 1..m PROVE s[j] \in Range(c)
  <2>1. j \in 1..(m + k) /\ s[j] = c[j]
    BY <1>1
  <2> QED BY <1>1, <2>1 DEF Range
<1>4. ASSUME NEW j \in 1..k PROVE t[j] \in Range(c)
  <2>1. m + j \in 1..(m + k) /\ t[j] = c[m + j]
    BY <1>1
  <2> QED BY <1>1, <2>1 DEF Range
<1>5. Range(s) \cup Range(t) \subseteq Range(c)
  BY <1>1, <1>3, <1>4 DEF Range
<1> QED BY <1>1, <1>2, <1>5 DEF c

(* The entry of a list of one. *)
LEMMA RangeOfOne ==
  ASSUME NEW T, NEW x \in T
  PROVE  /\ <<x>> \in Seq(T) /\ Range(<<x>>) = {x}
         /\ <<>> \in Seq(T) /\ Range(<<>>) = {}
BY DEF Range

(* The list in which sicha_client_create allocates them. *)
LEMMA RestIs ==
  ASSUME NEW o
  PROVE  /\ Len(Rest(o)) \in Nat /\ DOMAIN Rest(o) = 1..Len(Rest(o))
         /\ {Rest(o)[k] : k \in 1..Len(Rest(o))} = RestBlocks(o)
<1> DEFINE s == IF o.overrides THEN << <<"overrides">> >> ELSE <<>>
           t == IF o.curl THEN << <<"curl">> >> ELSE <<>>
           u == << <<"user_agent">> >>
           T == {<<"overrides">>, <<"curl">>, <<"user_agent">>}
<1>1. s \in Seq(T) /\ Range(s) = IF o.overrides THEN {<<"overrides">>} ELSE {}
  <2> DEFINE x == <<"overrides">>
  <2>1. x \in T
    OBVIOUS
  <2>2. s = IF o.overrides THEN <<x>> ELSE <<>>
    OBVIOUS
  <2> HIDE DEF x, s, T
  <2>3. s \in Seq(T) /\ Range(s) = IF o.overrides THEN {x} ELSE {}
    BY <2>1, <2>2, RangeOfOne
  <2> QED BY <2>3 DEF x
<1>2. t \in Seq(T) /\ Range(t) = IF o.curl THEN {<<"curl">>} ELSE {}
  <2> DEFINE x == <<"curl">>
  <2>1. x \in T
    OBVIOUS
  <2>2. t = IF o.curl THEN <<x>> ELSE <<>>
    OBVIOUS
  <2> HIDE DEF x, t, T
  <2>3. t \in Seq(T) /\ Range(t) = IF o.curl THEN {x} ELSE {}
    BY <2>1, <2>2, RangeOfOne
  <2> QED BY <2>3 DEF x
<1>3. u \in Seq(T) /\ Range(u) = {<<"user_agent">>}
  BY DEF Range
<1>4. Rest(o) = (s \o t) \o u
  BY DEF Rest
<1> HIDE DEF s, t, u, T
<1>5. s \o t \in Seq(T) /\ Range(s \o t) = Range(s) \cup Range(t)
  BY <1>1, <1>2, RangeOfBoth
<1>6. (s \o t) \o u \in Seq(T) /\ Range((s \o t) \o u) = Range(s \o t) \cup Range(u)
  <2> DEFINE v == s \o t
  <2>1. v \in Seq(T)
    BY <1>5
  <2> HIDE DEF v
  <2>2. v \o u \in Seq(T) /\ Range(v \o u) = Range(v) \cup Range(u)
    BY <1>3, <2>1, RangeOfBoth
  <2> QED BY <2>2 DEF v
<1>7. Rest(o) \in Seq(T) /\ Range(Rest(o)) = RestBlocks(o)
  BY <1>1, <1>2, <1>3, <1>4, <1>5, <1>6 DEF RestBlocks
<1>8. Len(Rest(o)) \in Nat /\ DOMAIN Rest(o) = 1..Len(Rest(o))
  BY <1>7
<1> QED BY <1>7, <1>8 DEF Range

(* The blocks of the first n backends. *)
OfBackends(o, n) == UNION {BackendBlocks(o.backends[e], e) : e \in 1..n}

(* A chain as MemoryAssumption has it. *)
IsChain(o) ==
  /\ {o.overrides, o.curl, o.debug} \subseteq BOOLEAN /\ Len(o.backends) \in Nat
  /\ DOMAIN o.backends = 1..Len(o.backends)
  /\ \A e \in 1..Len(o.backends) : IsBackend(o.backends[e])

(* A client that made n backends is destroyed with all it made. *)
LEMMA DestroyIsWhole ==
  ASSUME NEW o, IsChain(o), NEW n \in 0..Len(o.backends), NEW live,
         \A b \in live : b[1] \in Lone \/ b \in OfBackends(o, n)
  PROVE  sicha_client_destroy(live, o, n) = live
<1>1. ASSUME NEW b \in live
      PROVE  \/ b[1] \in Lone
             \/ \E e \in 1..n :
                  b \in sicha_backend_free({x \in live : Len(x) > 1 /\ x[2] = e}, e,
                                           o.backends[e].nExtra)
  <2> SUFFICES ASSUME b \in OfBackends(o, n)
               PROVE  \E e \in 1..n :
                        b \in sicha_backend_free({x \in live : Len(x) > 1 /\ x[2] = e}, e,
                                                 o.backends[e].nExtra)
    OBVIOUS
  <2>1. PICK e \in 1..n : b \in BackendBlocks(o.backends[e], e)
    BY DEF OfBackends
  <2>2. IsBackend(o.backends[e])
    BY DEF IsChain
  <2>3. b[1] \in Plain \cup Extra /\ b[2] = e /\ Len(b) > 1
    BY <2>1, <2>2, BackendLabels
  <2>4. b \in OfHeaders(e, o.backends[e].nExtra) \/ b[1] \in Plain
    BY <2>1, <2>2, StringLabels DEF BackendBlocks
  <2>5. b \in OfHeaders(e, o.backends[e].nExtra) \/ b[1] \notin {"extra name", "extra value"}
    BY <2>4, PlainIsNotExtra DEF Extra
  <2> QED BY <2>3, <2>5 DEF sicha_backend_free, OfHeaders
<1> QED BY <1>1 DEF sicha_client_destroy, Lone

(* A client is made whole, or nothing of it is left. *)
LEMMA CreateIs ==
  ASSUME NEW o, IsChain(o), NEW F
  PROVE  LET made == sicha_client_create(o, F) IN
         /\ made.st = "OK" => /\ made.live \ {<<"debug">>} = Owned(o)
                              /\ made.live \subseteq
                                   sicha_client_destroy(made.live, o, Len(o.backends))
         /\ made.st # "OK" => made.live = {} /\ F # {}
<1> DEFINE N0 == Len(o.backends)
           made == [e \in 1..N0 |-> sicha_backend_init(o.backends[e], e, F)]
           unmade == {e \in 1..N0 : made[e].st # "OK"}
           bad == Least(unmade, 0)
           size == Len(Rest(o))
           missing == {n \in DOMAIN Rest(o) : Rest(o)[n] \in F}
           short == Least(missing, 0)
           Prepared(n) == UNION {made[e].live : e \in 1..n}
           Base == {<<"client">>, <<"backends">>}
           Upto(n) == {Rest(o)[k] : k \in 1..n}
           Fails(live, n) == [st |-> "NOMEM", live |-> live \ sicha_client_destroy(live, o, n)]
           log == IF o.debug THEN {<<"debug">>} \ F ELSE {}
           all == Base \cup Prepared(N0) \cup Upto(size) \cup log
           c == sicha_client_create(o, F)
<1>1. c = CASE <<"client">> \in F -> [st |-> "NOMEM", live |-> {}]
            [] <<"client">> \notin F /\ <<"backends">> \in F -> Fails({<<"client">>}, 0)
            [] Base \cap F = {} /\ bad > 0 -> Fails(Base \cup Prepared(bad), bad - 1)
            [] Base \cap F = {} /\ bad = 0 /\ short > 0 ->
                 Fails(Base \cup Prepared(N0) \cup Upto(short - 1), N0)
            [] OTHER -> [st |-> "OK", live |-> all]
  BY DEF sicha_client_create
<1>2. N0 \in Nat /\ \A e \in 1..N0 : IsBackend(o.backends[e])
  BY DEF IsChain
<1>3. \A e \in 1..N0 : /\ made[e].st = "OK" => made[e].live = BackendBlocks(o.backends[e], e)
                       /\ made[e].st # "OK" => made[e].live = {} /\ F # {}
  <2> SUFFICES ASSUME NEW e \in 1..N0
               PROVE  /\ made[e].st = "OK" => made[e].live = BackendBlocks(o.backends[e], e)
                      /\ made[e].st # "OK" => made[e].live = {} /\ F # {}
    OBVIOUS
  <2>1. made[e] = sicha_backend_init(o.backends[e], e, F) /\ IsBackend(o.backends[e])
    BY <1>2
  <2> HIDE DEF made
  <2> QED BY <2>1, BackendInitIs
<1> HIDE DEF made
<1>4. /\ bad \in 0..N0 /\ (bad = 0 => unmade = {})
      /\ bad # 0 => bad \in unmade /\ \A k \in unmade : bad <= k
  <2>1. unmade \in SUBSET (1..N0)
    OBVIOUS
  <2> HIDE DEF unmade, N0
  <2>2. unmade = {} => bad = 0
    BY <1>2, <2>1, LeastIs
  <2>3. unmade # {} => bad \in unmade /\ \A k \in unmade : bad <= k
    BY <1>2, <2>1, LeastIs
  <2> HIDE DEF bad
  <2>4. unmade = {} \/ bad \in 1..N0
    BY <2>1, <2>3
  <2>5. bad = 0 => unmade = {}
    BY <2>4
  <2>6. bad \in 0..N0
    BY <1>2, <2>2, <2>4
  <2>7. bad # 0 => bad \in unmade /\ \A k \in unmade : bad <= k
    BY <2>2, <2>3
  <2> QED BY <2>5, <2>6, <2>7
<1>5. bad = 0 => Prepared(N0) = OfBackends(o, N0)
  <2> SUFFICES ASSUME bad = 0 PROVE Prepared(N0) = OfBackends(o, N0)
    OBVIOUS
  <2>1. \A e \in 1..N0 : made[e].live = BackendBlocks(o.backends[e], e)
    BY <1>3, <1>4
  <2> HIDE DEF bad, N0
  <2> QED BY <2>1 DEF OfBackends
<1>6. bad # 0 => F # {} /\ bad \in 1..N0 /\ Prepared(bad) = OfBackends(o, bad - 1)
  <2> SUFFICES ASSUME bad # 0
               PROVE  F # {} /\ bad \in 1..N0 /\ Prepared(bad) = OfBackends(o, bad - 1)
    OBVIOUS
  <2>1. bad \in 1..N0 /\ made[bad].live = {} /\ F # {}
    BY <1>3, <1>4
  <2>2. ASSUME NEW e \in 1..(bad - 1)
        PROVE  e \in 1..bad /\ made[e].live = BackendBlocks(o.backends[e], e)
    <3>1. e \in 1..N0 /\ e < bad
      BY <1>2, <2>1
    <3>2. e \notin unmade
      BY <1>4, <3>1
    <3> QED BY <1>3, <2>1, <3>1, <3>2
  <2>3. \A e \in 1..bad : e = bad \/ e \in 1..(bad - 1)
    BY <2>1
  <2> HIDE DEF bad, N0, unmade
  <2> QED BY <2>1, <2>2, <2>3 DEF OfBackends
<1>7. /\ size \in Nat /\ Upto(size) = RestBlocks(o) /\ short \in 0..size
      /\ short # 0 => F # {} /\ Upto(short - 1) \subseteq RestBlocks(o)
      /\ DOMAIN Rest(o) = 1..size
  <2>1. size \in Nat /\ Upto(size) = RestBlocks(o) /\ DOMAIN Rest(o) = 1..size
    BY RestIs
  <2>2. missing \in SUBSET (1..size) /\ (missing # {} => F # {})
    BY <2>1
  <2> HIDE DEF missing, size
  <2>3. missing = {} => short = 0
    BY <2>1, <2>2, LeastIs
  <2>4. missing # {} => short \in missing
    BY <2>1, <2>2, LeastIs
  <2> HIDE DEF short
  <2>5. short \in 0..size /\ (short # 0 => F # {})
    <3>1. missing = {} \/ short \in 1..size
      BY <2>2, <2>4
    <3>2. short \in 0..size
      BY <2>1, <2>3, <3>1
    <3>3. short # 0 => F # {}
      BY <2>2, <2>3
    <3> QED BY <3>2, <3>3
  <2>6. short # 0 => Upto(short - 1) \subseteq Upto(size)
    <3>1. short # 0 => \A k \in 1..(short - 1) : k \in 1..size
      BY <2>1, <2>5
    <3> QED BY <3>1
  <2> QED BY <2>1, <2>5, <2>6
<1>8. \A b \in Base \cup RestBlocks(o) \cup {<<"debug">>} : b[1] \in Lone /\ b # <<>>
  <2>1. ASSUME NEW b \in Base \cup RestBlocks(o) \cup {<<"debug">>} PROVE b[1] \in Lone
    <3>1. PICK w \in Lone : b = <<w>>
      BY DEF RestBlocks, Lone
    <3> QED BY <3>1
  <2>2. ASSUME NEW b \in Base \cup RestBlocks(o) \cup {<<"debug">>} PROVE b # <<>>
    BY DEF RestBlocks
  <2> QED BY <2>1, <2>2
<1>9. OfBackends(o, 0) = {} /\ \A n \in 0..N0 : \A b \in OfBackends(o, n) : b[1] \in Plain \cup Extra
  <2>1. ASSUME NEW n \in 0..N0, NEW b \in OfBackends(o, n) PROVE b[1] \in Plain \cup Extra
    <3>1. PICK e \in 1..n : b \in BackendBlocks(o.backends[e], e)
      BY DEF OfBackends
    <3>2. IsBackend(o.backends[e])
      BY <1>2, <3>1
    <3> QED BY <3>1, <3>2, BackendLabels
  <2>2. OfBackends(o, 0) = {}
    BY DEF OfBackends
  <2> QED BY <2>1, <2>2
<1> HIDE DEF unmade, bad, missing, short, size
<1>10. Owned(o) = Base \cup RestBlocks(o) \cup OfBackends(o, N0)
  <2>1. Owned(o) = {<<"client">>, <<"backends">>, <<"user_agent">>}
                   \cup (IF o.overrides THEN {<<"overrides">>} ELSE {})
                   \cup (IF o.curl THEN {<<"curl">>} ELSE {}) \cup OfBackends(o, N0)
    BY DEF Owned, OfBackends, BackendBlocks, OfHeaders, IsChain
  <2> QED BY <2>1 DEF RestBlocks
<1> DEFINE nothing == [st |-> "NOMEM", live |-> {}]
           whole == [st |-> "OK", live |-> all]
<1>11. Fails({<<"client">>}, 0) = nothing
  <2>1. 0 \in 0..N0 /\ \A b \in {<<"client">>} : b[1] \in Lone \/ b \in OfBackends(o, 0)
    BY <1>2, <1>8
  <2>2. sicha_client_destroy({<<"client">>}, o, 0) = {<<"client">>}
    BY <2>1, DestroyIsWhole
  <2> QED BY <2>2
<1>12. bad > 0 => Fails(Base \cup Prepared(bad), bad - 1) = nothing
  <2> SUFFICES ASSUME bad > 0 PROVE Fails(Base \cup Prepared(bad), bad - 1) = nothing
    OBVIOUS
  <2> DEFINE live == Base \cup Prepared(bad)
             n == bad - 1
  <2>1. n \in 0..N0 /\ \A b \in live : b[1] \in Lone \/ b \in OfBackends(o, n)
    BY <1>4, <1>6, <1>8
  <2> HIDE DEF live, n
  <2>2. sicha_client_destroy(live, o, n) = live
    BY <2>1, DestroyIsWhole
  <2>3. Fails(live, n) = nothing
    BY <2>2
  <2> QED BY <2>3 DEF live, n
<1>13. bad = 0 /\ short > 0 => Fails(Base \cup Prepared(N0) \cup Upto(short - 1), N0) = nothing
  <2> SUFFICES ASSUME bad = 0, short > 0
               PROVE  Fails(Base \cup Prepared(N0) \cup Upto(short - 1), N0) = nothing
    OBVIOUS
  <2> DEFINE live == Base \cup Prepared(N0) \cup Upto(short - 1)
             n == N0
  <2>1. n \in 0..N0 /\ \A b \in live : b[1] \in Lone \/ b \in OfBackends(o, n)
    BY <1>2, <1>5, <1>7, <1>8
  <2> HIDE DEF live, n
  <2>2. sicha_client_destroy(live, o, n) = live
    BY <2>1, DestroyIsWhole
  <2>3. Fails(live, n) = nothing
    BY <2>2
  <2> QED BY <2>3 DEF live, n
<1> DEFINE g1 == <<"client">> \in F
           g2 == <<"client">> \notin F /\ <<"backends">> \in F
           g3 == Base \cap F = {} /\ bad > 0
           g4 == Base \cap F = {} /\ bad = 0 /\ short > 0
           f3 == Fails(Base \cup Prepared(bad), bad - 1)
           f4 == Fails(Base \cup Prepared(N0) \cup Upto(short - 1), N0)
<1>14. c = CASE g1 -> nothing [] g2 -> nothing [] g3 -> f3 [] g4 -> f4 [] OTHER -> whole
  BY <1>1, <1>11, Zenon
<1>15. /\ g3 => f3 = nothing
       /\ g4 => f4 = nothing
       /\ g1 \/ g2 \/ g3 \/ g4 => F # {}
  <2>1. g3 => f3 = nothing /\ F # {}
    BY <1>6, <1>12
  <2>2. g4 => f4 = nothing /\ F # {}
    BY <1>7, <1>13
  <2> QED BY <2>1, <2>2
<1>16. ~(g1 \/ g2 \/ g3 \/ g4) => all = Base \cup OfBackends(o, N0) \cup RestBlocks(o) \cup log
  <2>1. ~(g1 \/ g2 \/ g3 \/ g4) => bad = 0 /\ short = 0
    <3>1. ~(g1 \/ g2) => Base \cap F = {}
      OBVIOUS
    <3> HIDE DEF Base
    <3> QED BY <1>4, <1>7, <1>2, <3>1
  <2> QED BY <1>5, <1>7, <2>1
<1>17. nothing.st # "OK" /\ nothing.live = {} /\ whole.st = "OK" /\ whole.live = all
  OBVIOUS
<1>18. log \subseteq {<<"debug">>} /\ <<"debug">> \notin Base \cup OfBackends(o, N0) \cup RestBlocks(o)
  <2>1. log \subseteq {<<"debug">>}
    OBVIOUS
  <2>2. <<"debug">> \notin OfBackends(o, N0)
    <3>1. <<"debug">>[1] = "debug" /\ "debug" \in Lone /\ N0 \in 0..N0
      BY <1>2 DEF Lone
    <3> QED BY <1>9, <3>1, LoneIsApart
  <2>3. <<"debug">> \notin Base \cup RestBlocks(o)
    BY DEF RestBlocks
  <2> QED BY <2>1, <2>2, <2>3
<1> HIDE DEF nothing, whole, c, g1, g2, g3, g4, f3, f4
<1>19. CASE g1 \/ g2 \/ g3 \/ g4
  <2>1. c = nothing
    BY <1>14, <1>15, <1>19
  <2> QED BY <1>15, <1>17, <1>19, <2>1 DEF c
<1>20. CASE ~(g1 \/ g2 \/ g3 \/ g4)
  <2>1. c = whole
    BY <1>14, <1>20
  <2>2. all \ {<<"debug">>} = Owned(o)
    <3> HIDE DEF log, all, Base, N0
    <3> QED BY <1>10, <1>16, <1>18, <1>20
  <2>3. N0 \in 0..N0 /\ \A b \in all : b[1] \in Lone \/ b \in OfBackends(o, N0)
    <3> HIDE DEF all
    <3> QED BY <1>2, <1>8, <1>16, <1>18, <1>20
  <2> HIDE DEF all
  <2>4. sicha_client_destroy(all, o, Len(o.backends)) = all
    BY <2>3, DestroyIsWhole
  <2> QED BY <1>17, <2>1, <2>2, <2>4 DEF c
<1> QED BY <1>19, <1>20

-----------------------------------------------------------------------------
(* The pieces of a call. *)
LEMMA CallIs ==
  ASSUME NEW reached \in Nat, NEW nHeaders, NEW F
  PROVE  LET c == CallBlocks(reached, nHeaders, F) IN
         /\ c.live \subseteq {<<"result">>}
         /\ c.crashed <=> /\ <<"result">> \notin F /\ <<"headers">> \notin F
                          /\ <<"n_headers">> \in F
         /\ ~c.crashed => c.out = (<<"result">> \notin F)
<1> DEFINE arrays == Arrays \ F
           heads == [e \in 1..reached |-> sicha_build_headers_blocks(e, nHeaders, F)]
           failed == {e \in 1..reached : <<"body", e>> \in F \/ heads[e].st # "OK"}
           bad == Least(failed, 0)
           last == IF bad = 0 THEN reached ELSE bad
           owned == UNION { heads[e].live \cup ({<<"body", e>>} \ F) : e \in 1..last }
           freed == UNION {PieceBlocks(e, nHeaders) \cup {<<"body", e>>} : e \in 1..reached}
           c == CallBlocks(reached, nHeaders, F)
<1>1. c = IF <<"result">> \in F
          THEN [out |-> FALSE, live |-> {}, crashed |-> FALSE]
          ELSE IF arrays # Arrays
          THEN [out |-> DoneReads(arrays), live |-> {<<"result">>},
                crashed |-> ~DoneReads(arrays)]
          ELSE [out |-> TRUE, live |-> {<<"result">>} \cup (owned \ freed),
                crashed |-> FALSE]
  BY DEF CallBlocks
<1>2. \A e \in 1..reached : heads[e].live \subseteq PieceBlocks(e, nHeaders)
  BY DEF sicha_build_headers_blocks
<1>3. last \in 0..reached
  <2>1. failed \in SUBSET (1..reached)
    OBVIOUS
  <2> HIDE DEF failed
  <2>2. failed = {} => bad = 0
    BY <2>1, LeastIs
  <2>3. failed # {} => bad \in failed
    BY <2>1, LeastIs
  <2> HIDE DEF bad
  <2>4. bad = 0 \/ bad \in 1..reached
    BY <2>1, <2>2, <2>3
  <2> QED BY <2>4
<1> HIDE DEF heads, last
<1>4. owned \subseteq freed
  <2>1. \A e \in 1..last : e \in 1..reached
    BY <1>3
  <2> QED BY <1>2, <2>1
<1> HIDE DEF owned, freed
<1>5. owned \ freed = {}
  BY <1>4
<1>6. DoneReads(arrays) <=> ~(<<"headers">> \notin F /\ <<"n_headers">> \in F)
  <2>1. <<"headers">> \in Arrays /\ <<"n_headers">> \in Arrays
    BY DEF Arrays
  <2> QED BY <2>1 DEF DoneReads
<1>7. arrays = Arrays => <<"n_headers">> \notin F
  <2>1. <<"n_headers">> \in Arrays
    BY DEF Arrays
  <2> QED BY <2>1
<1> HIDE DEF arrays, c
<1>8. DoneReads(arrays) \in BOOLEAN
  BY DEF DoneReads
<1> DEFINE reads == DoneReads(arrays)
<1> HIDE DEF reads
<1>9. CASE <<"result">> \in F
  <2>1. c.live = {} /\ c.crashed = FALSE /\ c.out = FALSE
    BY <1>1, <1>9
  <2> QED BY <1>9, <2>1 DEF c
<1>10. CASE <<"result">> \notin F /\ arrays # Arrays
  <2>1. c = [out |-> reads, live |-> {<<"result">>}, crashed |-> ~reads]
    BY <1>1, <1>10 DEF reads
  <2>2. c.live = {<<"result">>} /\ c.crashed = ~reads /\ c.out = reads
    BY <2>1
  <2>3. reads \in BOOLEAN /\ (reads <=> ~(<<"headers">> \notin F /\ <<"n_headers">> \in F))
    BY <1>6, <1>8 DEF reads
  <2>4. c.crashed <=> <<"result">> \notin F /\ <<"headers">> \notin F /\ <<"n_headers">> \in F
    BY <1>10, <2>2, <2>3
  <2>5. ~c.crashed => c.out = TRUE
    BY <2>2, <2>3
  <2>6. (<<"result">> \notin F) = TRUE
    BY <1>10
  <2> QED BY <2>2, <2>4, <2>5, <2>6 DEF c
<1>11. CASE <<"result">> \notin F /\ arrays = Arrays
  <2>1. c = [out |-> TRUE, live |-> {<<"result">>} \cup (owned \ freed), crashed |-> FALSE]
    BY <1>1, <1>11
  <2>2. c.live = {<<"result">>} /\ c.crashed = FALSE /\ c.out = TRUE
    BY <1>5, <2>1
  <2>3. (<<"result">> \notin F) = TRUE
    BY <1>11
  <2> QED BY <1>7, <1>11, <2>2, <2>3 DEF c
<1> QED BY <1>9, <1>10, <1>11

-----------------------------------------------------------------------------
(* Questions about memory and their answers.                               *)

(* The operations on a result. *)
CollectOps == {"attempt", "model", "reset"} \cup Reasons

(* What a question about memory is, and that its answer is what the code computes
   for it. *)
MemoryInv ==
  /\ query.op = "create" =>
       query.o \in Chains /\ answer \in {<<>>, <<sicha_client_create(query.o, query.F)>>}
  /\ query.op = "call" =>
       /\ query.c \in Calls
       /\ answer \in {<<>>, <<CallBlocks(query.c.reached, query.c.nHeaders, query.F)>>}
  /\ query.op = "collect" =>
       query.ops \in Seq(CollectOps) /\ answer \in {<<>>, <<Collected(Content, query.ops, query.F)>>}
  /\ query.op = "script" =>
       /\ query.ops \in Seq({"push", "perform"})
       /\ answer \in {<<>>, <<Scripted(query.ops, 2, query.F)>>}
  /\ query.op = "transfer" =>
       query.ops \in Seq(TransferOps) /\ answer \in {<<>>, <<Transferred(query.ops, query.F)>>}

(* Nothing is answered at first. *)
LEMMA MemoryStart == RequestInit => MemoryInv
<1> SUFFICES ASSUME RequestInit PROVE MemoryInv
  OBVIOUS
<1>1. \A w \in Rows :
        \/ w.op = "collect" /\ w.ops \in Seq(CollectOps)
        \/ w.op = "script" /\ w.ops \in Seq({"push", "perform"})
        \/ w.op = "transfer" /\ w.ops \in Seq(TransferOps)
  BY MemoryAssumption, Zenon DEF CollectOps, TransferOps
<1>2. answer = <<>>
  BY DEF RequestInit
<1>3. query \in MemoryQueries \/ query.op \in {"utf8", "type", "byte", "backend", "arguments", "body"}
  BY DEF RequestInit, TextOrPointQueries, ByteQueries, BackendQueries, ArgumentQueries, BodyQueries
<1>4. CASE query \in Rows
  BY <1>1, <1>2, <1>4 DEF MemoryInv
<1>5. CASE query \in [op : {"create"}, o : Chains, F : Failures]
  BY <1>2, <1>5 DEF MemoryInv
<1>6. CASE query \in [op : {"call"}, c : Calls, F : Failures]
  BY <1>2, <1>6 DEF MemoryInv
<1>7. CASE query.op \in {"utf8", "type", "byte", "backend", "arguments", "body"}
  BY <1>7 DEF MemoryInv
<1> QED BY <1>3, <1>4, <1>5, <1>6, <1>7 DEF MemoryQueries

(* Every question about memory is well formed and answered by the code. *)
LEMMA MemoryInvHolds == RequestSpec => []MemoryInv
<1>1. ASSUME MemoryInv, [RequestNext]_checkVars PROVE MemoryInv'
  <2>1. CASE UNCHANGED checkVars
    BY <1>1, <2>1 DEF MemoryInv, checkVars
  <2>2. CASE AskMemory
    <3>1. CASE query.op = "create" /\ Reply(sicha_client_create(query.o, query.F))
      BY <1>1, <3>1 DEF MemoryInv, Reply
    <3>2. CASE query.op = "call" /\ Reply(CallBlocks(query.c.reached, query.c.nHeaders, query.F))
      BY <1>1, <3>2 DEF MemoryInv, Reply
    <3>3. CASE query.op = "collect" /\ Reply(Collected(Content, query.ops, query.F))
      BY <1>1, <3>3 DEF MemoryInv, Reply
    <3>4. CASE query.op = "script" /\ Reply(Scripted(query.ops, 2, query.F))
      BY <1>1, <3>4 DEF MemoryInv, Reply
    <3>5. CASE query.op = "transfer" /\ Reply(Transferred(query.ops, query.F))
      BY <1>1, <3>5 DEF MemoryInv, Reply
    <3> QED BY <2>2, <3>1, <3>2, <3>3, <3>4, <3>5 DEF AskMemory
  <2>3. CASE AskText8 \/ AskByte \/ AskBackend \/ AskArguments \/ AskBody
    <3>1. query.op \notin {"create", "call", "collect", "script", "transfer"} /\ query' = query
      BY <2>3 DEF AskText8, AskByte, AskBackend, AskArguments, AskBody, Reply
    <3> QED BY <1>1, <3>1 DEF MemoryInv
  <2> QED BY <1>1, <2>1, <2>2, <2>3 DEF RequestNext
<1> QED BY <1>1, MemoryStart, PTL DEF RequestSpec

(* Whichever allocations fail: records, texts, queued responses, logged calls and
   header fields that could be kept are kept whole and in order, those that could
   not leave nothing, a client is set up whole or not at all, and destroying gives
   back every block (sicha.c, sicha_script.c, sicha_curl.c), for any rows, chains
   and calls, of any length. *)
THEOREM FailuresLeaveNothingHolds == RequestSpec => []FailuresLeaveNothing
<1>1. MemoryInv => FailuresLeaveNothing
  <2> SUFFICES ASSUME MemoryInv PROVE FailuresLeaveNothing
    OBVIOUS
  <2>1. ASSUME Answered("collect") PROVE ResultInv(answer[1], Len(query.ops))
    <3>1. answer = <<Collected(Content, query.ops, query.F)>> /\ query.ops \in Seq(CollectOps)
      BY <2>1 DEF Answered, MemoryInv
    <3>2. ResultInv(Collected(Content, query.ops, query.F), Len(query.ops))
      BY <3>1, CollectedKeeps DEF CollectOps
    <3> QED BY <3>1, <3>2
  <2>2. ASSUME Answered("script")
        PROVE  ScriptInv(answer[1], Len(query.ops)) /\ Len(query.ops) \in Nat
    <3>1. answer = <<Scripted(query.ops, 2, query.F)>> /\ query.ops \in Seq({"push", "perform"})
      BY <2>2 DEF Answered, MemoryInv
    <3>2. ScriptInv(Scripted(query.ops, 2, query.F), Len(query.ops))
      BY <3>1, ScriptedKeeps
    <3> QED BY <3>1, <3>2
  <2>3. ASSUME Answered("transfer")
        PROVE  TransferInv(answer[1], Len(query.ops)) /\ Len(query.ops) \in Nat
    <3>1. answer = <<Transferred(query.ops, query.F)>> /\ query.ops \in Seq(TransferOps)
      BY <2>3 DEF Answered, MemoryInv
    <3>2. TransferInv(Transferred(query.ops, query.F), Len(query.ops))
      BY <3>1, TransferredKeeps
    <3> QED BY <3>1, <3>2
  <2>4. CollectionsHold
    <3>1. ASSUME query.op \in {"collect", "script", "transfer"}, answer # <<>>, query.F = {}
          PROVE  \A k \in DOMAIN answer[1].done : answer[1].done[k]
      <4>1. CASE query.op = "collect"
        BY <2>1, <3>1, <4>1 DEF Answered, ResultInv
      <4>2. CASE query.op = "script"
        BY <2>2, <3>1, <4>2 DEF Answered, ScriptInv
      <4>3. CASE query.op = "transfer"
        BY <2>3, <3>1, <4>3 DEF Answered, TransferInv
      <4> QED BY <3>1, <4>1, <4>2, <4>3
    <3>2. ASSUME Answered("collect"), answer[1].live # {}
          PROVE  LET r == answer[1] IN
                 /\ Listed(r.attempts.items, Succeeded(r.done, "attempt"))
                 /\ r.model = Latest(r.done, {"model"})
                 /\ r.finish_raw = Latest(r.done, Reasons)
                 /\ r.finish = IF r.finish_raw = 0 \/ query.ops[r.finish_raw] = "other" THEN "unknown"
                               ELSE query.ops[r.finish_raw]
                 /\ sicha_result_destroy(r) = {}
                 /\ r.live \ Content = {<<"result">>} \cup ArrayOf("attempts", r.attempts)
                                       \cup Named("model", r.model) \cup Named("finish_raw", r.finish_raw)
                                       \cup Blocks(r.attempts, AttemptBlocks)
      BY <2>1, <3>2, CollectHolds
    <3>3. ASSUME Answered("script")
          PROVE  LET s == answer[1]
                     Response(e) == {<<"response body", e>>} \cup CopyBlocks("response", e, s.n)
                     Call(e) == CallStrings(e) \cup CopyBlocks("call", e, s.n)
                     pushed == Succeeded(s.done, "push")
                     played == pushed \ Range(s.queue.items)
                 IN  /\ Listed(s.calls.items, Succeeded(s.done, "perform"))
                     /\ Listed(s.queue.items, pushed \ played)
                     /\ \A p \in played, q \in pushed \ played : p < q
                     /\ Len(s.calls.items) >= Cardinality(played)
                     /\ sicha_script_destroy(s) = {}
                     /\ s.live = {<<"script">>} \cup ArrayOf("queue", s.queue) \cup ArrayOf("calls", s.calls)
                                 \cup Blocks(s.queue, Response) \cup Blocks(s.calls, Call)
      BY <2>2, <3>3, ScriptHolds, Zenon DEF Blocks
    <3>4. ASSUME Answered("transfer")
          PROVE  LET x == answer[1]
                     begun == Max({0} \cup {k \in DOMAIN x.done : query.ops[k] # "field"})
                 IN  /\ Listed(x.headers, {k \in Succeeded(x.done, "field") : k > begun})
                     /\ x.live = UNION {Field(k) : k \in Range(x.headers)}
                     /\ xfer_free_headers(x).live = {}
      BY <2>3, <3>4, TransferHolds
    <3> QED BY <3>1, <3>2, <3>3, <3>4, Zenon DEF CollectionsHold
  <2>5. ASSUME Answered("create")
        PROVE  LET o == query.o IN
               IF answer[1].st = "OK"
               THEN /\ answer[1].live \ {<<"debug">>} = Owned(o)
                    /\ answer[1].live \subseteq
                         sicha_client_destroy(answer[1].live, o, Len(o.backends))
               ELSE answer[1].live = {} /\ query.F # {}
    <3>1. answer = <<sicha_client_create(query.o, query.F)>> /\ query.o \in Chains
      BY <2>5 DEF Answered, MemoryInv
    <3>2. IsChain(query.o)
      <4>1. query.o.backends \in Seq([strings : SUBSET {"api_key", "extra_body_json"},
                                      assist : BOOLEAN, nExtra : Nat])
            /\ {query.o.overrides, query.o.curl, query.o.debug} \subseteq BOOLEAN
        BY <3>1, MemoryAssumption
      <4> DEFINE o == query.o
                 Backend == [strings : SUBSET {"api_key", "extra_body_json"}, assist : BOOLEAN,
                             nExtra : Nat]
      <4>2. \A d \in Backend : IsBackend(d)
        BY DEF IsBackend
      <4>3. o.backends \in Seq(Backend) /\ {o.overrides, o.curl, o.debug} \subseteq BOOLEAN
        BY <4>1
      <4> HIDE DEF o, Backend
      <4>4. /\ Len(o.backends) \in Nat /\ DOMAIN o.backends = 1..Len(o.backends)
            /\ \A e \in 1..Len(o.backends) : o.backends[e] \in Backend
        BY <4>3
      <4>5. IsChain(o)
        BY <4>2, <4>3, <4>4 DEF IsChain
      <4> QED BY <4>5 DEF o
    <3>3. PICK o, F, c : o = query.o /\ F = query.F /\ c = sicha_client_create(o, F)
      OBVIOUS
    <3>4. /\ c.st = "OK" => /\ c.live \ {<<"debug">>} = Owned(o)
                            /\ c.live \subseteq sicha_client_destroy(c.live, o, Len(o.backends))
          /\ c.st # "OK" => c.live = {} /\ F # {}
      BY <3>2, <3>3, CreateIs, Zenon
    <3>5. answer[1] = c
      BY <3>1, <3>3
    <3> QED BY <3>3, <3>4, <3>5
  <2>6. ASSUME Answered("call")
        PROVE  /\ answer[1].live \subseteq {<<"result">>}
               /\ answer[1].crashed <=> /\ <<"result">> \notin query.F
                                        /\ <<"headers">> \notin query.F
                                        /\ <<"n_headers">> \in query.F
               /\ ~answer[1].crashed => answer[1].out = (<<"result">> \notin query.F)
    <3>1. /\ answer = <<CallBlocks(query.c.reached, query.c.nHeaders, query.F)>>
          /\ query.c \in Calls
      BY <2>6 DEF Answered, MemoryInv
    <3>2. PICK reached, nHeaders, F, c :
            /\ reached = query.c.reached /\ nHeaders = query.c.nHeaders /\ F = query.F
            /\ c = CallBlocks(reached, nHeaders, F)
      OBVIOUS
    <3>3. reached \in Nat
      BY <3>1, <3>2, MemoryAssumption
    <3>4. /\ c.live \subseteq {<<"result">>}
          /\ c.crashed <=> /\ <<"result">> \notin F /\ <<"headers">> \notin F
                           /\ <<"n_headers">> \in F
          /\ ~c.crashed => c.out = (<<"result">> \notin F)
      <4>1. c.live \subseteq {<<"result">>}
        BY <3>2, <3>3, CallIs
      <4>2. c.crashed <=> <<"result">> \notin F /\ <<"headers">> \notin F /\ <<"n_headers">> \in F
        BY <3>2, <3>3, CallIs
      <4>3. ~c.crashed => c.out = (<<"result">> \notin F)
        BY <3>2, <3>3, CallIs
      <4> QED BY <4>1, <4>2, <4>3
    <3>5. answer[1] = c
      BY <3>1, <3>2
    <3> QED BY <3>2, <3>4, <3>5, Zenon
  <2> QED BY <2>4, <2>5, <2>6, Zenon DEF FailuresLeaveNothing
<1> QED BY <1>1, MemoryInvHolds, PTL
=============================================================================
