------------------------------ MODULE CurlPool ------------------------------
(***************************************************************************)
(* The pool of libcurl handles of src/transport_curl.c, shared by all      *)
(* calls that run on one transport.  A call takes an idle slot under the   *)
(* mutex, creating its easy and its multi handle at first use; when every  *)
(* slot is in use it creates handles of its own.  It points the easy       *)
(* handle at a context on its stack, adds it to the multi handle for the   *)
(* transfer, removes it and gives the slot back.  What happens in a        *)
(* transfer is the subject of CurlTransport.                               *)
(***************************************************************************)
EXTENDS Integers, FiniteSets

CONSTANTS
  Calls,      \* threads in perform
  Handles,    \* names for pairs of an easy and a multi handle
  Cap,        \* CURL_POOL_CAP
  None

Slots == 1..Cap
Pair == {"easy", "multi"}

ASSUME PoolAssumption ==
  /\ Cap \in Nat
  /\ None \notin Handles /\ None \notin Slots /\ None \notin Calls
ASSUME CallsAssumption == IsFiniteSet(Calls)

VARIABLES
  stage,        \* where a call is in curl_perform
  slot,      \* the handles of each slot
  inUse,     \* slots with in_use set
  lock,      \* who holds the mutex
  live,      \* easy and multi handles libcurl has allocated
  context,   \* the call whose context an easy handle points at
  mine,      \* slot.easy and slot.multi of a call
  place,     \* slot_idx of a call, None for transient handles
  open       \* the transport is not destroyed

poolVars == <<stage, slot, inUse, lock, live, context, mine, place, open>>

Places ==
  {"idle", "acquire", "scan", "transient", "prepare", "transfer", "release", "giveBack"}

PoolInit ==
  /\ stage = [c \in Calls |-> "idle"]
  /\ slot = [s \in Slots |-> None]
  /\ inUse = {}
  /\ lock = None
  /\ live = {}
  /\ context = [h \in Handles |-> None]
  /\ mine = [c \in Calls |-> None]
  /\ place = [c \in Calls |-> None]
  /\ open = TRUE

Active == {c \in Calls : stage[c] # "idle"}
Both(h) == {h} \X Pair
Unused == {h \in Handles : live \cap Both(h) = {}}
Go(c, where) == stage' = [stage EXCEPT ![c] = where]

Idle == {s \in Slots \ inUse : slot[s] # None}
Bare == {s \in Slots \ inUse : slot[s] = None}
IsFirst(s, S) == s \in S /\ \A t \in S : s <= t

-----------------------------------------------------------------------------
(* slot_acquire.                                                           *)

(* perform is called while the transport exists. *)
Enter(c) ==
  /\ stage[c] = "idle" /\ open
  /\ Go(c, "acquire")
  /\ UNCHANGED <<slot, inUse, lock, live, context, mine, place, open>>

Lock(c) ==
  /\ stage[c] = "acquire" /\ lock = None
  /\ lock' = c
  /\ Go(c, "scan")
  /\ UNCHANGED <<slot, inUse, live, context, mine, place, open>>

TakeSlot(c, s, h) ==
  /\ inUse' = inUse \cup {s}
  /\ mine' = [mine EXCEPT ![c] = h]
  /\ place' = [place EXCEPT ![c] = s]
  /\ lock' = None
  /\ Go(c, "prepare")

Reuse(c) ==
  /\ stage[c] = "scan"
  /\ \E s \in Idle : IsFirst(s, Idle) /\ TakeSlot(c, s, slot[s])
  /\ UNCHANGED <<slot, live, context, open>>

Create(c) ==
  /\ stage[c] = "scan" /\ Idle = {}
  /\ \E s \in Bare, h \in Unused :
       /\ IsFirst(s, Bare)
       /\ slot' = [slot EXCEPT ![s] = h]
       /\ live' = live \cup Both(h)
       /\ TakeSlot(c, s, h)
  /\ UNCHANGED <<context, open>>

(* Mutant: the multi handle of a half-made pair is forgotten. *)
HalfMadeKept(h, made) == (live \cup ({h} \X made)) \ {<<h, "easy">>}

(* Only one of the two handles, or none, could be made: it is cleaned up. *)
HalfMade(h, made) == (live \cup ({h} \X made)) \ ({h} \X made)

(* Mutant: the error path returns with the mutex held. *)
CreateFailsLocked(c) ==
  /\ stage[c] = "scan" /\ Idle = {} /\ Bare # {}
  /\ \E h \in Unused, made \in (SUBSET Pair) \ {Pair} : live' = HalfMade(h, made)
  /\ Go(c, "idle")
  /\ UNCHANGED <<slot, inUse, lock, context, mine, place, open>>

(* Mutant: the slot is marked before its handles are made. *)
CreateFailsMarked(c) ==
  /\ stage[c] = "scan" /\ Idle = {} /\ Bare # {}
  /\ \E h \in Unused, made \in (SUBSET Pair) \ {Pair} : live' = HalfMade(h, made)
  /\ inUse' = inUse \cup {CHOOSE s \in Bare : TRUE}
  /\ lock' = None
  /\ Go(c, "idle")
  /\ UNCHANGED <<slot, context, mine, place, open>>

(* The slot stays bare, perform returns NOMEM. *)
CreateFails(c) ==
  /\ stage[c] = "scan" /\ Idle = {} /\ Bare # {}
  /\ \E h \in Unused, made \in (SUBSET Pair) \ {Pair} : live' = HalfMade(h, made)
  /\ lock' = None
  /\ Go(c, "idle")
  /\ UNCHANGED <<slot, inUse, context, mine, place, open>>

(* Every slot is in use. *)
Saturated(c) ==
  /\ stage[c] = "scan" /\ Idle = {} /\ Bare = {}
  /\ lock' = None
  /\ Go(c, "transient")
  /\ UNCHANGED <<slot, inUse, live, context, mine, place, open>>

CreateTransient(c) ==
  /\ stage[c] = "transient"
  /\ \E h \in Unused :
       /\ live' = live \cup Both(h)
       /\ mine' = [mine EXCEPT ![c] = h]
  /\ Go(c, "prepare")
  /\ UNCHANGED <<slot, inUse, lock, context, place, open>>

TransientFails(c) ==
  /\ stage[c] = "transient"
  /\ \E h \in Unused, made \in (SUBSET Pair) \ {Pair} : live' = HalfMade(h, made)
  /\ Go(c, "idle")
  /\ UNCHANGED <<slot, inUse, lock, context, mine, place, open>>

-----------------------------------------------------------------------------
(* The use of the handles.                                                 *)

(* Mutant: the options of the last transfer are left in a handle that has
   them. *)
PrepareOnce(c) ==
  /\ stage[c] = "prepare"
  /\ context' = [context EXCEPT ![mine[c]] = IF @ = None THEN c ELSE @]
  /\ Go(c, "transfer")
  /\ UNCHANGED <<slot, inUse, lock, live, mine, place, open>>

(* curl_easy_reset, the options, curl_multi_add_handle. *)
Prepare(c) ==
  /\ stage[c] = "prepare"
  /\ context' = [context EXCEPT ![mine[c]] = c]
  /\ Go(c, "transfer")
  /\ UNCHANGED <<slot, inUse, lock, live, mine, place, open>>

(* A header line without memory, or an add that fails: the options set so far
   do not include the context. *)
PrepareFails(c) ==
  /\ stage[c] = "prepare"
  /\ context' \in {[context EXCEPT ![mine[c]] = None], [context EXCEPT ![mine[c]] = c]}
  /\ Go(c, "release")
  /\ UNCHANGED <<slot, inUse, lock, live, mine, place, open>>

(* The loop of curl_perform is left and the easy handle removed from its
   multi; it keeps pointing at the context. *)
EndTransfer(c) ==
  /\ stage[c] = "transfer"
  /\ Go(c, "release")
  /\ UNCHANGED <<slot, inUse, lock, live, context, mine, place, open>>

-----------------------------------------------------------------------------
(* slot_release.                                                           *)

LockRelease(c) ==
  /\ stage[c] = "release" /\ place[c] # None /\ lock = None
  /\ lock' = c
  /\ Go(c, "giveBack")
  /\ UNCHANGED <<slot, inUse, live, context, mine, place, open>>

Leave(c) ==
  /\ mine' = [mine EXCEPT ![c] = None]
  /\ place' = [place EXCEPT ![c] = None]
  /\ Go(c, "idle")

GiveBack(c) ==
  /\ stage[c] = "giveBack"
  /\ inUse' = inUse \ {place[c]}
  /\ lock' = None
  /\ Leave(c)
  /\ UNCHANGED <<slot, live, context, open>>

(* Transient handles are cleaned up by the call that made them. *)
CleanUp(c) ==
  /\ stage[c] = "release" /\ place[c] = None
  /\ live' = live \ Both(mine[c])
  /\ context' = [context EXCEPT ![mine[c]] = None]
  /\ Leave(c)
  /\ UNCHANGED <<slot, inUse, lock, open>>

(* sicha_curl_destroy, by contract after the last call has returned. *)
Destroy ==
  /\ open /\ Active = {}
  /\ open' = FALSE
  /\ live' = live \ UNION {Both(slot[s]) : s \in {t \in Slots : slot[t] # None}}
  /\ slot' = [s \in Slots |-> None]
  /\ context' = [h \in Handles |-> None]
  /\ UNCHANGED <<stage, inUse, lock, mine, place>>

Acquire(c) ==
  \/ Enter(c) \/ Lock(c) \/ Reuse(c) \/ Create(c) \/ CreateFails(c) \/ Saturated(c)
  \/ CreateTransient(c) \/ TransientFails(c)

Use(c) == Prepare(c) \/ PrepareFails(c) \/ EndTransfer(c)

Release(c) == LockRelease(c) \/ GiveBack(c) \/ CleanUp(c)

PoolNext == Destroy \/ \E c \in Calls : Acquire(c) \/ Use(c) \/ Release(c)

PoolSpec == PoolInit /\ [][PoolNext]_poolVars

(* Every thread in perform runs on, a free mutex is granted to somebody who
   waits, and every transfer ends (EndsInTime of CurlTransport). *)
FairPoolSpec ==
  PoolSpec /\ \A c \in Calls :
            WF_poolVars(Lock(c) \/ Reuse(c) \/ Create(c) \/ CreateFails(c) \/ Saturated(c)
                    \/ CreateTransient(c) \/ TransientFails(c) \/ Use(c) \/ Release(c))

-----------------------------------------------------------------------------
(* Properties.                                                             *)

(* Types, and that whoever scans or frees slots holds the mutex. *)
PoolTypeOK ==
  /\ \A c \in Calls : stage[c] \in {"scan", "giveBack"} <=> lock = c
  /\ stage \in [Calls -> Places]
  /\ slot \in [Slots -> Handles \cup {None}]
  /\ inUse \subseteq Slots
  /\ lock \in Calls \cup {None}
  /\ live \subseteq Handles \X Pair
  /\ context \in [Handles -> Calls \cup {None}]
  /\ mine \in [Calls -> Handles \cup {None}]
  /\ place \in [Calls -> Slots \cup {None}]
  /\ open \in BOOLEAN

(* The callbacks of a transfer get the context of the call it belongs to,
   never one of an earlier call, whose stack is gone. *)
OwnContext == \A c \in Calls : stage[c] = "transfer" => context[mine[c]] = c

(* A curl handle is used by one thread at a time: no two calls hold the same
   one, nor does a call hold transiently what is in the pool. *)
Exclusive ==
  \A c \in Calls : mine[c] # None =>
    /\ \A d \in Calls \ {c} : mine[d] # mine[c]
    /\ place[c] = None => \A s \in Slots : slot[s] # mine[c]

(* The handle a call uses is its own, and so is what it calls back. *)
HandlesAreOwn == Exclusive /\ OwnContext

Held == {mine[c] : c \in {d \in Calls : mine[d] # None}}
Pooled == {slot[s] : s \in {t \in Slots : slot[t] # None}}

(* Every handle libcurl allocated is in the pool or held by a call, complete,
   and nothing held or pooled was cleaned up: no leak and no use after
   clean-up, on the paths of failed creation too. *)
Accounted == live = (Held \cup Pooled) \X Pair

(* "Over-cap concurrency falls back to transient handles": a call gets them
   only while all others of the pool's capacity are busy. *)
TransientOnlyWhenFull ==
  [][\A c \in Calls : Saturated(c) => Cardinality(Active) > Cap]_poolVars

(* Every call comes out of the pool again, out of memory or not.  While new
   calls keep coming POSIX promises nobody a turn at the mutex, so this is
   said of the calls left when they stop. *)
CallsReturn ==
  <>[][\A c \in Calls : ~Enter(c)]_poolVars =>
    \A c \in Calls : stage[c] # "idle" ~> stage[c] = "idle"
=============================================================================
