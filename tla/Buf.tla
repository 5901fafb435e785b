-------------------------------- MODULE Buf --------------------------------
(***************************************************************************)
(* The growable byte buffer of src/buf.c, in which every body, line, event *)
(* and result of the library is collected.  An owner appends, resets,      *)
(* takes and frees; the loop that grows the capacity and the allocation it *)
(* leads to are steps of their own.  The bytes are left out, their number, *)
(* the place of the terminating NUL and the size of the allocation are     *)
(* what the properties are about.                                          *)
(***************************************************************************)
EXTENDS Integers

CONSTANTS
  SizeMax,   \* SIZE_MAX
  Initial,   \* the first capacity, 64 in the code
  Limits     \* values of max_len; 0 is no limit

ASSUME BufAssumption ==
  /\ SizeMax \in Nat /\ Initial \in Nat
  /\ 0 < Initial /\ Initial < SizeMax
  /\ SizeMax % 2 = 1   \* 2^w - 1
  /\ Limits \subseteq 0..SizeMax

VARIABLES
  data,      \* data # NULL
  len, cap, maxLen, err,   \* the other fields
  size,      \* bytes allocated at data
  nul,       \* where the NUL was last written
  pc,        \* "idle", or where buf_reserve is
  op,        \* who called buf_reserve: "append" or "take"
  want, grown,   \* want and cap of buf_reserve
  taken,     \* what the last take returned
  asked,     \* history: bytes appended since the buffer was emptied, the
             \* append that set the error included
  starved    \* history: an allocation failed since init

fields == <<data, len, cap, err, size, nul>>
locals == <<op, want, grown>>
history == <<asked, starved>>
bufVars == <<fields, maxLen, pc, locals, taken, history>>

Size == 0..SizeMax
Nothing == [string |-> FALSE, len |-> 0, nul |-> 0, all |-> FALSE]

(* size_t arithmetic. *)
Wrap(n) == n % (SizeMax + 1)

BufInit ==
  /\ data = FALSE /\ len = 0 /\ cap = 0 /\ err = "OK"
  /\ size = 0 /\ nul = 0
  /\ maxLen \in Limits
  /\ pc = "idle" /\ op = "append" /\ want = 0 /\ grown = 0
  /\ taken = Nothing
  /\ asked = 0 /\ starved = FALSE

-----------------------------------------------------------------------------
(* buf_reserve.                                                            *)

Refuse(why) ==
  /\ err' = why
  /\ pc' = "idle"

(* Mutant: the limit is inclusive of the NUL. *)
ReserveShort(need) ==
  \/ /\ maxLen # 0 /\ len + need >= maxLen
     /\ Refuse("TOOBIG")
     /\ UNCHANGED <<want, grown>>
  \/ /\ maxLen = 0 \/ len + need < maxLen
     /\ len + need <= SizeMax
     /\ want' = len + need
     /\ grown' = IF cap = 0 THEN Initial ELSE cap
     /\ pc' = IF data /\ want' <= cap THEN "room" ELSE "grow"
     /\ err' = err

(* The checks, up to the growing loop; the caller has seen no error. *)
Reserve(need) ==
  \/ /\ need > SizeMax - len
     /\ Refuse("NOMEM")
     /\ UNCHANGED <<want, grown>>
  \/ /\ need <= SizeMax - len
     /\ maxLen # 0 /\ len + need > maxLen
     /\ Refuse("TOOBIG")
     /\ UNCHANGED <<want, grown>>
  \/ /\ need <= SizeMax - len
     /\ maxLen = 0 \/ len + need <= maxLen
     /\ want' = len + need
     /\ grown' = IF cap = 0 THEN Initial ELSE cap
     /\ pc' = IF data /\ len + need <= cap THEN "room" ELSE "grow"
     /\ err' = err

(* Mutant: doubling is not guarded. *)
DoubledUnguarded == Wrap(grown * 2)

Doubled == IF grown > SizeMax \div 2 THEN want ELSE grown * 2

Grow ==
  /\ pc = "grow" /\ grown < want
  /\ grown' = Doubled
  /\ UNCHANGED <<fields, maxLen, pc, op, want, taken, history>>

(* Mutant: the slot for the NUL is not counted at the end of the range. *)
NeverFull == FALSE

(* No room for the NUL slot. *)
Full == grown = SizeMax

Allocate ==
  /\ pc = "grow" /\ grown >= want
  /\ ~Full
  /\ data' = TRUE
  /\ size' = Wrap(grown + 1)
  /\ cap' = grown
  /\ nul' = len
  /\ pc' = "room"
  /\ UNCHANGED <<len, err, maxLen, locals, taken, history>>

(* No size to ask for, or realloc returns NULL; data stays as it was. *)
AllocateFails ==
  /\ pc = "grow" /\ grown >= want
  /\ Refuse("NOMEM")
  /\ starved' = (starved \/ ~Full)
  /\ taken' = IF op = "take" THEN Nothing ELSE taken
  /\ UNCHANGED <<data, len, cap, size, nul, maxLen, locals, asked>>

-----------------------------------------------------------------------------
(* Operations of the owner.                                                *)

(* Errors are sticky: an append to a buffer in error does nothing. *)
AppendBytes(n) ==
  /\ pc = "idle"
  /\ IF err # "OK"
     THEN UNCHANGED <<fields, pc, locals, asked>>
     ELSE /\ Reserve(n)
          /\ op' = "append"
          /\ asked' = asked + n
          /\ UNCHANGED <<data, len, cap, size, nul>>
  /\ UNCHANGED <<maxLen, taken, starved>>

(* memcpy and the NUL behind the bytes. *)
Copied ==
  /\ pc = "room" /\ op = "append"
  /\ len' = want
  /\ nul' = want
  /\ pc' = "idle"
  /\ UNCHANGED <<data, cap, err, size, maxLen, locals, taken, history>>

(* The bytes go, the allocation and the error stay. *)
Reset ==
  /\ pc = "idle"
  /\ len' = 0
  /\ nul' = IF data THEN 0 ELSE nul
  /\ asked' = 0
  /\ UNCHANGED <<data, cap, err, size, maxLen, pc, locals, taken, starved>>

(* sicha_buf_init with the same limit. *)
Reinit ==
  /\ data' = FALSE /\ len' = 0 /\ cap' = 0 /\ err' = "OK"
  /\ size' = 0 /\ nul' = 0
  /\ asked' = 0 /\ starved' = FALSE

Free ==
  /\ pc = "idle"
  /\ Reinit
  /\ UNCHANGED <<maxLen, pc, locals, taken>>

HandOver ==
  /\ taken' = [string |-> TRUE, len |-> len, nul |-> nul, all |-> len = asked]
  /\ Reinit
  /\ pc' = "idle"
  /\ UNCHANGED <<maxLen, locals>>

(* sicha_buf_take: nothing for a buffer in error, which is freed; an empty
   buffer first gets an allocation for its NUL. *)
Take ==
  /\ pc = "idle"
  /\ \/ /\ err # "OK"
        /\ Reinit
        /\ taken' = Nothing
        /\ UNCHANGED <<maxLen, pc, locals>>
     \/ err = "OK" /\ data /\ HandOver
     \/ /\ err = "OK" /\ ~data
        /\ Reserve(0)
        /\ op' = "take"
        /\ taken' = Nothing
        /\ UNCHANGED <<data, len, cap, size, nul, maxLen, history>>

Taken == pc = "room" /\ op = "take" /\ HandOver

BufNext ==
  \/ \E n \in Size : AppendBytes(n)
  \/ Grow \/ Allocate \/ AllocateFails \/ Copied
  \/ Reset \/ Free \/ Take \/ Taken

BufSpec == BufInit /\ [][BufNext]_bufVars

(* The code of one operation runs on. *)
FairBufSpec == BufSpec /\ WF_bufVars(Grow \/ Allocate \/ AllocateFails \/ Copied \/ Taken)

-----------------------------------------------------------------------------
(* Properties.                                                             *)

(* The fields keep their types and the bytes their limit. *)
TypeOK ==
  /\ maxLen # 0 => len <= maxLen
  /\ data \in BOOLEAN
  /\ len \in Size /\ cap \in Size /\ size \in Size /\ nul \in Size
  /\ maxLen \in Limits
  /\ err \in {"OK", "NOMEM", "TOOBIG"}
  /\ pc \in {"idle", "grow", "room"} /\ op \in {"append", "take"}
  /\ want \in Size /\ grown \in Size
  /\ taken \in [string : BOOLEAN, len : Size, nul : Size, all : BOOLEAN]
  /\ asked \in 0..(2 * SizeMax) /\ starved \in BOOLEAN

(* "data[len] == '\0' whenever data != NULL" (src/buf.c): the NUL is behind
   the bytes and inside the allocation, and so is what is about to be
   copied, at the end of the range of size_t too. *)
InBounds ==
  /\ data => nul = len /\ len < size
  /\ pc = "room" => data /\ want < size

(* "call sites check once": a buffer without an error holds every byte that
   was appended since it was emptied, and a string that was taken is
   complete and terminated. *)
NoSilentLoss ==
  /\ pc = "idle" /\ err = "OK" => len = asked
  /\ taken.string => taken.all /\ taken.nul = taken.len

(* "every append is overflow-checked against SIZE_MAX and the optional
   max_len cap" (src/sicha_internal.h): an error is set only at an append
   that passes the limit, or that leaves no room for the NUL, or for which
   the allocator had no memory. *)
ErrorHasCause ==
  [][err = "OK" /\ err' # "OK" =>
       \/ err' = "TOOBIG" /\ maxLen # 0 /\ asked' > maxLen
       \/ err' = "NOMEM" /\ (asked' >= SizeMax \/ starved')]_bufVars

(* Callers look at the error alone: it tells, and tells nothing else than,
   that bytes are missing. *)
ErrorsTell == []NoSilentLoss /\ ErrorHasCause

(* The growing loop ends and every operation returns. *)
OperationsEnd == []<>(pc = "idle")

=============================================================================
