---------------------------- MODULE EngineProofs ----------------------------
(***************************************************************************)
(* Proofs about Engine, for every chain, policy and set of outcomes, about *)
(* the classification it acts on (ClassifyCheck), and about the bodies it  *)
(* sends (RequestCheck).                                                   *)
(***************************************************************************)
EXTENDS Engine, RequestCheck, FiniteSetTheorems, SequenceTheorems,
        WellFoundedInduction, TLAPS

(* A nonempty set of naturals has a least element: what "the first matching
   override" relies on. *)
LEMMA LeastNat ==
  ASSUME NEW T \in SUBSET Nat, T # {}
  PROVE  \E x \in T : \A y \in T : x <= y
<1>1. PICK x \in T : \A y \in T : ~(<<y, x>> \in OpToRel(<, Nat))
  BY NatLessThanWellFounded, WFMin, Zenon
<1>2. \A y \in T : ~(y < x)
  BY <1>1 DEF OpToRel
<1> QED BY <1>2

(* Whatever the response, a valid policy yields one of the five classes the
   retry loop distinguishes besides a rejection, and a cancellation only for
   a cancelled or aborted transfer. *)
LEMMA ClassTyping ==
  ASSUME NEW ts \in TransportStatus, NEW http \in Nat, NEW body \in BodyState,
         NEW finish \in FinishReason
  PROVE  LET c == sicha_classify(Policy, ts, http, body, finish) IN
         /\ c \in ErrorClass \ {"VALIDATION"}
         /\ c = "CANCELLED" => ts \in {"CANCELLED", "ABORTED_BY_SINK"}
<1>1. ASSUME OverridesOf(Policy, http) # {}
      PROVE  LookupOverride(Policy, http) \in {"ABORT", "RETRY_SAME", "ADVANCE"}
  <2> DEFINE T == OverridesOf(Policy, http)
  <2>1. T \in SUBSET Nat
    BY PolicyAssumption DEF OverridesOf
  <2>2. \E x \in T : \A y \in T : x <= y
    BY <1>1, <2>1, LeastNat
  <2> DEFINE first == CHOOSE x \in T : \A y \in T : x <= y
  <2>3. first \in T
    BY <2>2
  <2>4. first \in DOMAIN Policy.overrides
    BY <2>3 DEF OverridesOf
  <2>5. LookupOverride(Policy, http) = Policy.overrides[first].cls
    BY DEF LookupOverride
  <2> QED BY <2>4, <2>5, PolicyAssumption DEF PolicyValid
<1>2. ClassifyStatus(http) \in {"ABORT", "RETRY_SAME", "ADVANCE"}
  BY DEF ClassifyStatus
<1>3. ClassifySuccess(Policy, body, finish) \in {"NONE", "ADVANCE"}
  BY DEF ClassifySuccess
<1> QED BY <1>1, <1>2, <1>3 DEF sicha_classify, ErrorClass

-----------------------------------------------------------------------------
(* The inductive invariant.                                                *)

B == MaxTries + ValidationRetries

(* The call has its status exactly when it is over, and only a token that
   exists is triggered. *)
ControlInv ==
  /\ pc = "done" <=> final # "none"
  /\ token => HasToken

(* Delivered bytes are in the last record or not recorded yet, and the call
   knows of them. *)
DeliveredInv ==
  ~AfterDeltas =>
    /\ \A j \in Settled : attempts[j].delivered => j = Len(attempts) /\ anyDelivered
    /\ pc \in {"top", "build", "flight", "record", "wait"} =>
         \A j \in Settled : ~attempts[j].delivered
    /\ pc \in {"top", "build", "flight", "wait"} => ~anyDelivered
    /\ outcome.delivered /\ pc = "record" => anyDelivered

(* A round trip that began late belongs to a triggered token and is the last
   one: no other begins before the token is looked at. *)
LateInv ==
  /\ late => token
  /\ \A j \in Settled : attempts[j].late => token /\ j = Len(attempts)
  /\ pc \in {"build", "flight", "record"} => \A j \in Settled : ~attempts[j].late

(* The counters of the loop continue the numbers of the last record. *)
LinkInv ==
  /\ pc = "decide" => attempts # <<>>
  /\ pc # "done" =>
       /\ attempts = <<>> => i = 1 /\ tryOfBackend = 0
       /\ attempts # <<>> =>
            \/ /\ attempts[Len(attempts)].backend = i
               /\ attempts[Len(attempts)].tryOf + 1 = tryOfBackend
            \/ /\ attempts[Len(attempts)].backend + 1 = i
               /\ tryOfBackend = 0
               /\ pc # "decide"

(* Every try of a backend was paid for by one of its two budgets. *)
BudgetInv ==
  /\ \A j \in Settled : attempts[j].tryOf < B
  /\ retrySameUsed < MaxTries
  /\ validationUsed <= ValidationRetries
  /\ pc # "done" =>
       tryOfBackend <= retrySameUsed + validationUsed + (IF pc = "decide" THEN 1 ELSE 0)
  /\ pc # "done" => Len(attempts) <= (i - 1) * B + tryOfBackend
  /\ pc = "done" => Len(attempts) <= i * B

(* A backend that was tried has its body and headers. *)
BuiltInv ==
  /\ pc # "done" /\ tryOfBackend > 0 => i \in built
  /\ pc \in {"flight", "record"} => i \in built

(* A cancellation has a cause. *)
MayCancel == HasToken \/ \E o \in Outcomes : o.asked

CauseInv == pc \in {"record", "decide"} /\ cls = "CANCELLED" => MayCancel

IInv ==
  /\ TypeOK /\ ControlInv /\ DeliveredInv /\ LateInv /\ LinkInv
  /\ Numbering /\ BudgetInv /\ BuiltInv /\ CauseInv

-----------------------------------------------------------------------------
(* The steps, with all that end the call seen as one.                      *)

(* The call ends and all it keeps stays as it is. *)
Quit ==
  /\ pc # "done" /\ pc' = "done"
  /\ final' \in Statuses
  /\ assists' \in Nat
  /\ UNCHANGED <<callVars, anyDelivered, built, outcome, cls, attempts,
                 resultBackend, token, trips, late>>

LEMMA StepCases ==
  ASSUME TypeOK, [Next]_vars
  PROVE  \/ Quit \/ PassTop \/ Send \/ Round \/ Record \/ RecordFails
         \/ Reroll \/ RetrySame \/ FallBack \/ WaitOver \/ Trigger
         \/ UNCHANGED vars
<1>1. CASE StopAtTop \/ BuildFails \/ WaitCancelled
  BY <1>1 DEF StopAtTop, BuildFails, BuildErrors, WaitCancelled, Return, Quit, TypeOK,
              Statuses
<1>2. CASE OutOfMemory \/ LoseStream \/ Exhaust
  BY <1>2 DEF OutOfMemory, LoseStream, Exhaust, Failed, Deciding, Return, Quit, TypeOK,
              Statuses
<1>3. CASE Succeed \/ Abort \/ Cancel \/ CancelWithAssist
  BY <1>3 DEF Succeed, Abort, Cancel, CancelWithAssist, EndWith, Deciding, Return, Quit,
              TypeOK, Statuses
<1>4. CASE Returned
  BY <1>4 DEF Returned
<1> QED BY <1>1, <1>2, <1>3, <1>4 DEF Next, Step, Decide

LEMMA ClassOfTyping ==
  ASSUME NEW o \in Outcome
  PROVE  /\ ClassOf(o) \in ErrorClass \ {"VALIDATION"}
         /\ ClassOf(o) = "CANCELLED" =>
              ~o.terminal /\ o.ts \in {"CANCELLED", "ABORTED_BY_SINK"}
BY ClassTyping DEF ClassOf, Outcome, ErrorClass

LEMMA TypeStep ==
  ASSUME TypeOK, [Next]_vars
  PROVE  TypeOK'
<1> USE ChainAssumption, PolicyAssumption, CallAssumption
<1>1. CASE Quit
  BY <1>1 DEF TypeOK, Quit, callVars
<1>2. CASE PassTop \/ WaitOver \/ UNCHANGED vars
  BY <1>2 DEF TypeOK, PassTop, WaitOver, vars, callVars
<1>3. CASE Send
  BY <1>3 DEF TypeOK, Send, Backends, callVars
<1>4. CASE Round
  <2>1. PICK o \in Outcomes, rejected \in BOOLEAN : Land(o, rejected)
    BY <1>4 DEF Round
  <2>2. o \in Outcome
    OBVIOUS
  <2>3. cls' \in ErrorClass
    BY <2>1, <2>2, ClassOfTyping DEF Land, ErrorClass
  <2>4. anyDelivered' \in BOOLEAN
    BY <2>1, <2>2 DEF Land, TypeOK, Outcome
  <2> QED BY <2>1, <2>2, <2>3, <2>4 DEF TypeOK, Land, callVars
<1>5. CASE Record \/ RecordFails
  <2>1. NewRecord \in AttemptRecord
    BY DEF TypeOK, NewRecord, AttemptRecord, Outcome
  <2>2. attempts' \in Seq(AttemptRecord)
    <3>1. attempts \in Seq(AttemptRecord)
      BY DEF TypeOK
    <3>2. attempts' \in {attempts, Append(attempts, NewRecord)}
      BY <1>5 DEF Record, RecordFails
    <3> QED BY <2>1, <3>1, <3>2
  <2> QED BY <1>5, <2>2 DEF TypeOK, Record, RecordFails, Return, Statuses
<1>6. CASE Reroll \/ RetrySame \/ FallBack
  <2>1. i' \in Backends
    BY <1>6 DEF TypeOK, Reroll, RetrySame, FallBack, ChainEnds, Backends
  <2>2. retrySameUsed' \in Nat /\ validationUsed' \in Nat /\ tryOfBackend' \in Nat
    BY <1>6 DEF TypeOK, Reroll, RetrySame, FallBack
  <2> QED BY <1>6, <2>1, <2>2 DEF TypeOK, Reroll, RetrySame, FallBack
<1>7. CASE Trigger
  BY <1>7 DEF TypeOK, Trigger, callVars
<1> QED BY <1>1, <1>2, <1>3, <1>4, <1>5, <1>6, <1>7, StepCases

LEMMA ControlStep ==
  ASSUME TypeOK, ControlInv, [Next]_vars
  PROVE  ControlInv'
<1>1. CASE Quit
  BY <1>1 DEF ControlInv, Quit, Statuses
<1>2. CASE RecordFails
  BY <1>2 DEF ControlInv, RecordFails, Return
<1>3. CASE Round
  BY <1>3 DEF ControlInv, Round, Land
<1>4. CASE PassTop \/ Send \/ Record \/ WaitOver \/ Trigger \/ UNCHANGED vars
  BY <1>4 DEF ControlInv, PassTop, Send, Record, WaitOver, Trigger, vars
<1>5. CASE Reroll \/ RetrySame \/ FallBack
  BY <1>5 DEF ControlInv, Reroll, RetrySame, FallBack, Failed, Deciding
<1> QED BY <1>1, <1>2, <1>3, <1>4, <1>5, StepCases

(* What recording adds to the records. *)
LEMMA RecordedLast ==
  ASSUME TypeOK, Record
  PROVE  /\ Settled = 1..Len(attempts)
         /\ Settled' = 1..(Len(attempts) + 1)
         /\ Len(attempts)' = Len(attempts) + 1
         /\ Len(attempts) \in Nat
         /\ \A j \in 1..Len(attempts) : attempts'[j] = attempts[j]
         /\ attempts'[Len(attempts) + 1] = NewRecord
         /\ NewRecord \in AttemptRecord
         /\ attempts' # <<>>
<1>1. NewRecord \in AttemptRecord
  BY DEF TypeOK, NewRecord, AttemptRecord, Outcome
<1>2. attempts' = Append(attempts, NewRecord) /\ attempts \in Seq(AttemptRecord)
  BY DEF TypeOK, Record
<1> QED BY <1>1, <1>2 DEF Settled

LEMMA DeliveredStep ==
  ASSUME TypeOK, DeliveredInv, [Next]_vars
  PROVE  DeliveredInv'
<1>1. CASE Quit
  BY <1>1 DEF DeliveredInv, Quit, callVars, Settled
<1>2. CASE PassTop \/ Send \/ WaitOver \/ UNCHANGED vars
  BY <1>2 DEF DeliveredInv, PassTop, Send, WaitOver, vars, callVars, Settled
<1>3. CASE Trigger
  BY <1>3 DEF DeliveredInv, Trigger, callVars, Settled
<1>4. CASE Round
  <2>1. PICK o \in Outcomes, rejected \in BOOLEAN : Land(o, rejected)
    BY <1>4 DEF Round
  <2> QED BY <2>1 DEF DeliveredInv, Land, callVars, Settled
<1>5. CASE Record
  <2>1. ~AfterDeltas => (NewRecord.delivered => anyDelivered)
    BY <1>5 DEF NewRecord, Record, DeliveredInv
  <2>2. pc = "record" /\ pc' = "decide" /\ anyDelivered' = anyDelivered
    BY <1>5 DEF Record
  <2> QED BY <1>5, <2>1, <2>2, RecordedLast DEF DeliveredInv
<1>6. CASE RecordFails
  BY <1>6 DEF DeliveredInv, RecordFails, Return, Settled
<1>7. CASE Reroll \/ RetrySame \/ FallBack
  <2>1. pc = "decide" /\ (~AfterDeltas => ~anyDelivered)
    BY <1>7 DEF Reroll, RetrySame, FallBack, Failed, Deciding, MayRetry
  <2> QED BY <1>7, <2>1 DEF DeliveredInv, Reroll, RetrySame, FallBack, Settled
<1> QED BY <1>1, <1>2, <1>3, <1>4, <1>5, <1>6, <1>7, StepCases

LEMMA LateStep ==
  ASSUME TypeOK, LateInv, [Next]_vars
  PROVE  LateInv'
<1>1. CASE Quit
  BY <1>1 DEF LateInv, Quit, callVars, Settled
<1>2. CASE PassTop
  BY <1>2 DEF LateInv, PassTop, Stopped, callVars, Settled
<1>3. CASE Send \/ WaitOver \/ UNCHANGED vars
  BY <1>3 DEF LateInv, Send, WaitOver, vars, callVars, Settled
<1>4. CASE Trigger
  BY <1>4 DEF LateInv, Trigger, callVars, Settled
<1>5. CASE Round
  BY <1>5 DEF LateInv, Round, Land, callVars, Settled
<1>6. CASE Record
  <2>1. NewRecord.late = late
    BY DEF NewRecord
  <2>2. pc = "record" /\ pc' = "decide" /\ late' = late /\ token' = token
    BY <1>6 DEF Record
  <2> QED BY <1>6, <2>1, <2>2, RecordedLast DEF LateInv
<1>7. CASE RecordFails
  BY <1>7 DEF LateInv, RecordFails, Return, Settled
<1>8. CASE Reroll \/ RetrySame \/ FallBack
  BY <1>8 DEF LateInv, Reroll, RetrySame, FallBack, Settled
<1> QED BY <1>1, <1>2, <1>3, <1>4, <1>5, <1>6, <1>7, <1>8, StepCases

LEMMA NumberStep ==
  ASSUME TypeOK, LinkInv, Numbering, [Next]_vars
  PROVE  LinkInv' /\ Numbering'
<1>1. CASE Quit
  BY <1>1 DEF LinkInv, Numbering, Quit, callVars, Settled
<1>2. CASE PassTop \/ Send \/ WaitOver \/ UNCHANGED vars
  BY <1>2 DEF LinkInv, Numbering, PassTop, Send, WaitOver, vars, callVars, Settled
<1>3. CASE Trigger
  BY <1>3 DEF LinkInv, Numbering, Trigger, callVars, Settled
<1>4. CASE Round
  BY <1>4 DEF LinkInv, Numbering, Round, Land, callVars, Settled
<1>5. CASE Record
  <2>1. /\ NewRecord.attempt = Len(attempts)
        /\ NewRecord.backend = i
        /\ NewRecord.tryOf = tryOfBackend
    BY DEF NewRecord
  <2>2. /\ pc = "record" /\ pc' = "decide"
        /\ i' = i /\ tryOfBackend' = tryOfBackend + 1
    BY <1>5 DEF Record
  <2>3. tryOfBackend \in Nat /\ i \in Nat
    BY DEF TypeOK, Backends
  <2>4. LinkInv'
    BY <1>5, <2>1, <2>2, <2>3, RecordedLast DEF LinkInv
  <2>5. attempts = <<>> => Len(attempts) = 0
    OBVIOUS
  <2>6. attempts # <<>> => Len(attempts) > 0
    BY DEF TypeOK
  <2>7. ASSUME NEW j \in 1..Len(attempts)
        PROVE  /\ attempts'[j].attempt = j - 1
               /\ j = 1 => attempts'[j].backend = 1 /\ attempts'[j].tryOf = 0
               /\ j > 1 =>
                    \/ /\ attempts'[j].backend = attempts'[j - 1].backend
                       /\ attempts'[j].tryOf = attempts'[j - 1].tryOf + 1
                    \/ /\ attempts'[j].backend = attempts'[j - 1].backend + 1
                       /\ attempts'[j].tryOf = 0
    <3>1. j > 1 => j - 1 \in 1..Len(attempts)
      BY <1>5, RecordedLast
    <3> QED BY <1>5, <3>1, RecordedLast DEF Numbering
  <2>8. /\ attempts'[Len(attempts) + 1].attempt = Len(attempts)
        /\ Len(attempts) = 0 => i = 1 /\ tryOfBackend = 0
        /\ Len(attempts) > 0 =>
             \/ /\ i = attempts'[Len(attempts)].backend
                /\ tryOfBackend = attempts'[Len(attempts)].tryOf + 1
             \/ /\ i = attempts'[Len(attempts)].backend + 1
                /\ tryOfBackend = 0
    BY <1>5, <2>1, <2>2, <2>5, <2>6, RecordedLast DEF LinkInv
  <2> DEFINE new == Len(attempts) + 1
  <2>9. /\ attempts'[new].attempt = new - 1
        /\ new = 1 => attempts'[new].backend = 1 /\ attempts'[new].tryOf = 0
        /\ new > 1 =>
             \/ /\ attempts'[new].backend = attempts'[new - 1].backend
                /\ attempts'[new].tryOf = attempts'[new - 1].tryOf + 1
             \/ /\ attempts'[new].backend = attempts'[new - 1].backend + 1
                /\ attempts'[new].tryOf = 0
    <3>1. Len(attempts) \in Nat /\ new - 1 = Len(attempts)
      BY <1>5, RecordedLast
    <3>2. attempts'[new].backend = i /\ attempts'[new].tryOf = tryOfBackend
      BY <1>5, <2>1, RecordedLast
    <3> QED BY <2>8, <3>1, <3>2
  <2>10. Settled' = 1..Len(attempts) \cup {new}
    BY <1>5, RecordedLast
  <2> HIDE DEF new
  <2> QED BY <2>4, <2>7, <2>9, <2>10 DEF Numbering
<1>6. CASE RecordFails
  BY <1>6 DEF LinkInv, Numbering, RecordFails, Return, Settled
<1>7. CASE Reroll \/ RetrySame \/ FallBack
  <2>1. pc = "decide" /\ i \in Nat
    BY <1>7 DEF Reroll, RetrySame, FallBack, Failed, Deciding, TypeOK, Backends
  <2> QED BY <1>7, <2>1 DEF LinkInv, Numbering, Reroll, RetrySame, FallBack, Settled
<1> QED BY <1>1, <1>2, <1>3, <1>4, <1>5, <1>6, <1>7, StepCases

(* One more backend is worth one more budget. *)
LEMMA BudgetOfNext ==
  ASSUME NEW n \in Nat, NEW b \in Nat
  PROVE  (n + 1 - 1) * b = (n - 1) * b + b /\ (n - 1) * b \in Int
OBVIOUS

LEMMA BudgetStep ==
  ASSUME TypeOK, BudgetInv, [Next]_vars
  PROVE  BudgetInv'
<1> USE PolicyAssumption
<1>0. /\ B \in Nat /\ i \in Nat /\ Len(attempts) \in Nat
      /\ tryOfBackend \in Nat /\ retrySameUsed \in Nat /\ validationUsed \in Nat
  BY DEF B, TypeOK, Backends
<1>1. i * B = (i - 1) * B + B /\ (i - 1) * B \in Int
  BY <1>0, BudgetOfNext
<1>2. pc # "done" => tryOfBackend <= B
  BY <1>0 DEF BudgetInv, B
<1>3. CASE Quit
  BY <1>0, <1>1, <1>2, <1>3 DEF BudgetInv, Quit, callVars, Settled
<1>4. CASE PassTop \/ Send \/ WaitOver \/ UNCHANGED vars
  BY <1>0, <1>4 DEF BudgetInv, PassTop, Send, WaitOver, vars, callVars, Settled
<1>5. CASE Trigger
  BY <1>0, <1>5 DEF BudgetInv, Trigger, callVars, Settled
<1>6. CASE Round
  BY <1>0, <1>6 DEF BudgetInv, Round, Land, callVars, Settled
<1>7. CASE Record
  <2>1. /\ pc = "record" /\ pc' = "decide" /\ tryOfBackend' = tryOfBackend + 1
        /\ UNCHANGED <<i, retrySameUsed, validationUsed>>
    BY <1>7 DEF Record
  <2>2. NewRecord.tryOf < B
    BY <1>0, <2>1 DEF NewRecord, BudgetInv, B
  <2>3. \A j \in Settled' : attempts'[j].tryOf < B
    BY <1>7, <2>2, RecordedLast DEF BudgetInv
  <2>4. Len(attempts') = Len(attempts) + 1
    BY <1>7, RecordedLast
  <2>5. Len(attempts') <= (i' - 1) * B + tryOfBackend'
    <3> DEFINE before == (i - 1) * B
    <3>1. before \in Int /\ (i' - 1) * B = before
      BY <1>1, <2>1
    <3>2. Len(attempts) <= before + tryOfBackend
      BY <2>1 DEF BudgetInv
    <3> HIDE DEF before
    <3> QED BY <1>0, <2>1, <2>4, <3>1, <3>2
  <2>6. tryOfBackend' <= retrySameUsed' + validationUsed' + 1
    BY <1>0, <2>1 DEF BudgetInv
  <2> QED BY <2>1, <2>3, <2>5, <2>6 DEF BudgetInv
<1>8. CASE RecordFails
  <2>1. /\ pc = "record" /\ pc' = "done" /\ tryOfBackend' = tryOfBackend + 1
        /\ UNCHANGED <<i, retrySameUsed, validationUsed, attempts>>
    BY <1>8 DEF RecordFails, Return
  <2> QED BY <1>0, <1>1, <1>2, <2>1 DEF BudgetInv, Settled
<1>9. CASE Reroll \/ RetrySame
  <2>1. /\ pc = "decide" /\ pc' \in {"top", "wait"}
        /\ UNCHANGED <<i, tryOfBackend, attempts>>
    BY <1>9 DEF Reroll, RetrySame, Failed, Deciding
  <2>2. /\ retrySameUsed' + validationUsed' = retrySameUsed + validationUsed + 1
        /\ retrySameUsed' < MaxTries /\ validationUsed' <= ValidationRetries
    BY <1>0, <1>9 DEF Reroll, RetrySame, RerollsLeft, TriesLeft, BudgetInv
  <2> QED BY <1>0, <2>1, <2>2 DEF BudgetInv, Settled
<1>10. CASE FallBack
  <2>1. /\ pc = "decide" /\ pc' = "top" /\ i' = i + 1
        /\ retrySameUsed' = 0 /\ validationUsed' = 0 /\ tryOfBackend' = 0
        /\ UNCHANGED attempts
    BY <1>10 DEF FallBack, Failed, Deciding
  <2>2. Len(attempts) <= (i - 1) * B + B
    BY <1>0, <1>1, <1>2, <2>1 DEF BudgetInv
  <2>3. (i' - 1) * B = (i - 1) * B + B
    BY <1>0, <2>1, BudgetOfNext
  <2> QED BY <1>0, <2>1, <2>2, <2>3 DEF BudgetInv, Settled
<1> QED BY <1>3, <1>4, <1>5, <1>6, <1>7, <1>8, <1>9, <1>10, StepCases

LEMMA BuiltStep ==
  ASSUME TypeOK, BuiltInv, [Next]_vars
  PROVE  BuiltInv'
<1>0. i \in Nat /\ tryOfBackend \in Nat
  BY DEF TypeOK, Backends
<1>1. CASE Quit \/ RecordFails
  BY <1>1 DEF BuiltInv, Quit, RecordFails, Return
<1>2. CASE PassTop \/ WaitOver \/ Trigger \/ UNCHANGED vars
  BY <1>2 DEF BuiltInv, PassTop, WaitOver, Trigger, vars, callVars
<1>3. CASE Send
  BY <1>3 DEF BuiltInv, Send, callVars
<1>4. CASE Round \/ Record
  BY <1>4 DEF BuiltInv, Round, Land, Record, callVars
<1>5. CASE Reroll \/ RetrySame
  BY <1>5 DEF BuiltInv, Reroll, RetrySame, Failed, Deciding
<1>6. CASE FallBack
  BY <1>6 DEF BuiltInv, FallBack
<1> QED BY <1>1, <1>2, <1>3, <1>4, <1>5, <1>6, StepCases

LEMMA CauseStep ==
  ASSUME TypeOK, ControlInv, CauseInv, [Next]_vars
  PROVE  CauseInv'
<1>1. CASE Round
  <2>1. PICK o \in Outcomes, rejected \in BOOLEAN : Land(o, rejected)
    BY <1>1 DEF Round
  <2>2. o \in Outcome
    BY CallAssumption
  <2>3. cls' = "CANCELLED" => ~o.terminal /\ o.ts \in {"CANCELLED", "ABORTED_BY_SINK"}
    BY <2>1, <2>2, ClassOfTyping DEF Land
  <2>4. cls' = "CANCELLED" => o.asked \/ token
    BY <2>1, <2>3 DEF Land, MayReturn
  <2> QED BY <2>4 DEF CauseInv, MayCancel, ControlInv
<1>2. CASE Quit \/ PassTop \/ Send \/ Record \/ RecordFails
  BY <1>2 DEF CauseInv, Quit, PassTop, Send, Record, RecordFails, Return
<1>3. CASE Reroll \/ RetrySame \/ FallBack \/ WaitOver \/ Trigger \/ UNCHANGED vars
  BY <1>3 DEF CauseInv, Reroll, RetrySame, FallBack, WaitOver, Trigger, vars
<1> QED BY <1>1, <1>2, <1>3, StepCases

-----------------------------------------------------------------------------
(* Theorems.                                                               *)

LEMMA InitIInv == Init => IInv
<1> SUFFICES ASSUME Init PROVE IInv
  OBVIOUS
<1> USE ChainAssumption, PolicyAssumption, CallAssumption DEF Init
<1>1. TypeOK
  <2>1. outcome \in Outcome
    BY DEF Outcome, None, TransportStatus, BodyState, FinishReason
  <2>2. i \in Backends /\ resultBackend \in 0..N
    BY DEF Backends
  <2>3. token \in BOOLEAN
    BY Zenon
  <2>4. cls \in ErrorClass /\ attempts \in Seq(AttemptRecord)
    BY DEF ErrorClass
  <2> QED BY <2>1, <2>2, <2>3, <2>4 DEF TypeOK
<1>2. ControlInv
  BY DEF ControlInv
<1>3. Settled = {}
  BY DEF Settled
<1>4. DeliveredInv /\ LateInv /\ LinkInv /\ Numbering
  BY <1>3 DEF DeliveredInv, LateInv, LinkInv, Numbering
<1>5. BudgetInv
  BY <1>3 DEF BudgetInv, B
<1>6. CauseInv /\ BuiltInv
  BY DEF CauseInv, BuiltInv
<1> QED BY <1>1, <1>2, <1>4, <1>5, <1>6 DEF IInv

LEMMA StepIInv == IInv /\ [Next]_vars => IInv'
BY TypeStep, ControlStep, DeliveredStep, LateStep, NumberStep, BudgetStep, BuiltStep,
   CauseStep
   DEF IInv

THEOREM InductiveInvariant == Spec => []IInv
BY InitIInv, StepIInv, PTL DEF Spec

(* Every variable of chat_common keeps the values the code gives it. *)
THEOREM TypeCorrect == Spec => []TypeOK
<1>1. IInv => TypeOK
  BY DEF IInv
<1> QED BY <1>1, InductiveInvariant, PTL

(* For every chain, policy and transport: without RETRY_AFTER_DELTAS no round
   trip begins after one that handed bytes to a callback. *)
THEOREM CommitRuleHolds == Spec => []CommitRule
<1>1. IInv => CommitRule
  BY DEF IInv, DeliveredInv, CommitRule
<1> QED BY <1>1, InductiveInvariant, PTL

(* For every chain: once the token is triggered at most one round trip, whose
   check had passed, still begins. *)
THEOREM CancelStopsTripsHolds == Spec => []CancelStopsTrips
<1>1. IInv => CancelStopsTrips
  BY DEF IInv, LateInv, CancelStopsTrips
<1> QED BY <1>1, InductiveInvariant, PTL

(* The records number the round trips of the walk along the chain. *)
THEOREM NumberingHolds == Spec => []Numbering
<1>1. IInv => Numbering
  BY DEF IInv
<1> QED BY <1>1, InductiveInvariant, PTL

(* No mixture of re-rolls, retries and fallbacks exceeds max_tries +
   validation_retries round trips per backend. *)
THEOREM AttemptBudgetHolds == Spec => []AttemptBudget
<1>1. IInv => AttemptBudget
  <2> SUFFICES ASSUME IInv PROVE AttemptBudget
    OBVIOUS
  <2>0. /\ B \in Nat /\ i \in Nat /\ Len(attempts) \in Nat
        /\ tryOfBackend \in Nat /\ retrySameUsed \in Nat /\ validationUsed \in Nat
    BY PolicyAssumption DEF B, IInv, TypeOK, Backends
  <2>1. i * B = (i - 1) * B + B /\ (i - 1) * B \in Int
    BY <2>0, BudgetOfNext
  <2>2. pc # "done" => tryOfBackend <= B
    BY <2>0, PolicyAssumption DEF IInv, BudgetInv, B
  <2>3. Len(attempts) <= i * B
    BY <2>0, <2>1, <2>2 DEF IInv, BudgetInv
  <2> QED BY <2>3 DEF IInv, BudgetInv, B, AttemptBudget
<1> QED BY <1>1, InductiveInvariant, PTL

-----------------------------------------------------------------------------
(* Engine implements FallbackChain.                                        *)

(* What the inductive invariant says in terms of the abstract chain. *)
LEMMA ChainFacts ==
  ASSUME IInv
  PROVE  /\ tryOfBackend \in Nat /\ i \in 1..N /\ N \in Nat
         /\ pc = "decide" => tryOfBackend > 0
         /\ pc \in {"build"} => tryOfBackend < MaxTries + ValidationRetries
         /\ pc = "build" => Chain!MayTryMore
         /\ MayRetry <=> Chain!MayTryMore
         /\ pc # "done" <=> final = "none"
<1>1. tryOfBackend \in Nat /\ i \in 1..N /\ N \in Nat
  BY ChainAssumption DEF IInv, TypeOK, Backends
<1>2. ASSUME pc = "decide" PROVE tryOfBackend > 0
  <2>1. attempts # <<>> /\ attempts[Len(attempts)].tryOf + 1 = tryOfBackend
    BY <1>2 DEF IInv, LinkInv
  <2>2. Len(attempts) \in DOMAIN attempts /\ attempts[Len(attempts)] \in AttemptRecord
    BY <2>1 DEF IInv, TypeOK
  <2> QED BY <2>1, <2>2 DEF AttemptRecord
<1>3. ASSUME pc = "build" PROVE tryOfBackend < MaxTries + ValidationRetries
  <2>1. tryOfBackend <= retrySameUsed + validationUsed
    BY <1>3 DEF IInv, BudgetInv, TypeOK
  <2> QED BY <2>1, <1>1, PolicyAssumption DEF IInv, BudgetInv, TypeOK
<1>4. pc = "build" => Chain!MayTryMore
  BY PolicyAssumption DEF IInv, DeliveredInv, Chain!MayTryMore
<1> QED BY <1>1, <1>2, <1>3, <1>4 DEF Chain!MayTryMore, MayRetry, IInv, ControlInv

(* A call ended between round trips, with a status the chain allows. *)
LEMMA ConcludeBetween ==
  ASSUME IInv, pc \notin {"flight", "record", "done"}, pc' = "done",
         final' \in Statuses, Chain!MayEndWith(final'),
         UNCHANGED <<callVars, anyDelivered>>
  PROVE  Chain!Conclude
<1>1. final' \in Chain!Verdicts /\ final' # "none" /\ final = "none"
  BY ChainFacts DEF Statuses, Chain!Verdicts
<1>2. (tryOfBackend + (IF pc \in {"flight", "record"} THEN 1 ELSE 0))' = tryOfBackend
  BY ChainFacts DEF callVars
<1>3. (tryOfBackend + (IF pc \in {"flight", "record"} THEN 1 ELSE 0)) = tryOfBackend
  BY ChainFacts
<1>4. i' = i /\ anyDelivered' = anyDelivered
  BY DEF callVars
<1> QED BY <1>1, <1>2, <1>3, <1>4 DEF Chain!Conclude

LEMMA ChainStep ==
  ASSUME IInv, [Next]_vars
  PROVE  [Chain!Next]_Chain!chainVars
<1> USE ChainFacts DEF callVars
<1> DEFINE used == tryOfBackend + (IF pc \in {"flight", "record"} THEN 1 ELSE 0)
<1>1. ASSUME Chain!Conclude PROVE [Chain!Next]_Chain!chainVars
  BY <1>1 DEF Chain!Next
<1>2. CASE StopAtTop \/ WaitCancelled
  <2>1. token /\ HasToken
    BY <1>2 DEF StopAtTop, Stopped, WaitCancelled, IInv, ControlInv
  <2>2. Chain!MayEndWith("CANCELLED")
    BY <2>1 DEF Chain!MayEndWith, Chain!Verdicts
  <2> QED BY <1>1, <1>2, <2>2, ConcludeBetween
          DEF StopAtTop, WaitCancelled, Return, Statuses
<1>3. CASE BuildFails
  <2>1. PICK st \in BuildErrors : Return(st)
    BY <1>3 DEF BuildFails
  <2>2. pc = "build" /\ tryOfBackend = 0
    BY <1>3 DEF BuildFails, IInv, BuiltInv
  <2>3. Chain!MayEndWith(final') /\ final' \in Statuses
    BY <2>1, <2>2 DEF BuildErrors, Return, Statuses, Chain!MayEndWith, Chain!Verdicts
  <2> QED BY <1>1, <1>3, <2>1, <2>3, ConcludeBetween DEF BuildFails, Return
<1>15. CASE OutOfMemory
  <2>1. Chain!MayEndWith("NOMEM")
    BY DEF Chain!MayEndWith, Chain!Verdicts
  <2> QED BY <1>1, <1>15, <2>1, ConcludeBetween
          DEF OutOfMemory, Return, Statuses
<1>4. CASE RecordFails
  <2>1. Chain!MayEndWith("NOMEM")
    BY DEF Chain!MayEndWith, Chain!Verdicts
  <2>2. used' = used
    BY <1>4 DEF RecordFails, Return
  <2>3. final = "none" /\ final' = "NOMEM" /\ i' = i /\ anyDelivered' = anyDelivered
    BY <1>4 DEF RecordFails, Return
  <2> QED BY <1>1, <2>1, <2>2, <2>3 DEF Chain!Conclude, Chain!Verdicts
<1>5. CASE Succeed \/ Abort
  <2>1. Chain!MayEndWith(final')
    BY <1>5 DEF Succeed, Abort, EndWith, Deciding, Return, Chain!MayEndWith, Chain!Verdicts
  <2> QED BY <1>1, <1>5, <2>1, ConcludeBetween
          DEF Succeed, Abort, EndWith, Deciding, Return, Statuses
<1>6. CASE Cancel \/ CancelWithAssist
  <2>1. pc = "decide" /\ cls = "CANCELLED" /\ final' = "CANCELLED" /\ pc' = "done"
    BY <1>6 DEF Cancel, CancelWithAssist, EndWith, Deciding, Return
  <2>2. Chain!MayEndWith(final')
    BY <2>1 DEF IInv, CauseInv, MayCancel, Chain!MayEndWith, Chain!Verdicts
  <2> QED BY <1>1, <1>6, <2>1, <2>2, ConcludeBetween
          DEF Cancel, CancelWithAssist, EndWith, Statuses
<1>7. CASE LoseStream \/ Exhaust
  <2>1. Chain!MayEndWith(final')
    BY <1>7 DEF LoseStream, Exhaust, ChainEnds, Failed, Deciding, Return,
                Chain!MayEndWith, Chain!Verdicts
  <2> QED BY <1>1, <1>7, <2>1, ConcludeBetween
          DEF LoseStream, Exhaust, Failed, Deciding, Return, Statuses
<1>8. CASE Send
  <2>1. used' = used + 1 /\ used < MaxTries + ValidationRetries
    BY <1>8 DEF Send
  <2>2. Chain!Try
    BY <1>8, <2>1 DEF Send, Chain!Try
  <2> QED BY <2>2 DEF Chain!Next
<1>9. CASE Round
  <2>1. PICK o \in Outcomes, rejected \in BOOLEAN : Land(o, rejected)
    BY <1>9 DEF Round
  <2>2. used' = used /\ used > 0 /\ i' = i /\ final = "none" /\ final' = final
    BY <2>1 DEF Land
  <2>3. anyDelivered' = TRUE \/ anyDelivered' = anyDelivered
    BY <2>1, CallAssumption DEF Land, Outcome, IInv, TypeOK
  <2> QED BY <2>2, <2>3 DEF Chain!Next, Chain!Deliver, Chain!chainVars
<1>10. CASE FallBack
  <2>1. used' = 0 /\ used > 0 /\ i < N
    BY <1>10 DEF FallBack, Failed, Deciding, ChainEnds
  <2>2. Chain!FallBack
    BY <1>10, <2>1 DEF FallBack, Failed, Deciding, Chain!FallBack
  <2> QED BY <2>2 DEF Chain!Next
<1>11. CASE Record
  <2>1. used' = used
    BY <1>11 DEF Record
  <2> QED BY <1>11, <2>1 DEF Record, Chain!chainVars
<1>12. CASE Reroll \/ RetrySame
  <2>1. used' = used
    BY <1>12 DEF Reroll, RetrySame, Failed, Deciding
  <2> QED BY <1>12, <2>1 DEF Reroll, RetrySame, Chain!chainVars
<1>13. CASE PassTop \/ WaitOver
  <2>1. used' = used
    BY <1>13 DEF PassTop, WaitOver
  <2> QED BY <1>13, <2>1 DEF PassTop, WaitOver, Chain!chainVars
<1>14. CASE Trigger \/ Returned \/ UNCHANGED vars
  BY <1>14 DEF Trigger, Returned, vars, Chain!chainVars
<1> QED BY <1>2, <1>3, <1>4, <1>5, <1>6, <1>7, <1>8, <1>9, <1>10, <1>11, <1>12, <1>13,
           <1>14, <1>15 DEF Next, Step, Decide

(* Every behaviour of chat_common is one of the abstract chain of round trips:
   backends in order within their budgets, nothing after a commitment, one
   conclusion. *)
THEOREM EngineImplementsChain == Spec => ImplementsChain
<1>1. Init => Chain!Init
  BY DEF Init, Chain!Init
<1>2. IInv /\ [Next]_vars => [Chain!Next]_Chain!chainVars
  BY ChainStep
<1> QED BY <1>1, <1>2, InductiveInvariant, PTL DEF Spec, ImplementsChain, Chain!Spec

-----------------------------------------------------------------------------
(* What the status and the fallbacks of a call say about its records.      *)

EndClasses == {"NONE", "ABORT", "CANCELLED"}

LastRecord == attempts[Len(attempts)]

(* The class being decided on is the one recorded last, classes that end the
   call are followed by nothing, and a full memory advances. *)
ClassInv ==
  /\ \A j \in Settled : attempts[j].cls \in EndClasses =>
       j = Len(attempts) /\ pc \in {"decide", "done"}
  /\ pc = "decide" => LastRecord.cls = cls
  /\ pc \in {"record", "decide"} /\ outcome.terminal => cls = "ADVANCE"

(* Round trips, their records and the backend of the result keep step. *)
TripsInv ==
  /\ pc \in {"top", "build", "decide", "wait"} => trips = Len(attempts)
  /\ pc \in {"flight", "record"} => trips = Len(attempts) + 1 /\ resultBackend = i
  /\ pc \notin {"flight", "record"} /\ trips = Len(attempts) =>
       resultBackend = IF attempts = <<>> THEN 0 ELSE LastRecord.backend
  /\ pc = "done" =>
       \/ trips = Len(attempts)
       \/ trips = Len(attempts) + 1 /\ final = "NOMEM" /\ resultBackend = i

(* Every backend the loop has passed has a record. *)
PassedInv == \A b \in Backends : b < i => \E j \in Settled : attempts[j].backend = b

(* Whatever a callback got belongs to a record, or to the one to be written. *)
HeardInv ==
  pc # "done" /\ anyDelivered =>
    (pc = "record" /\ outcome.delivered) \/ \E j \in Settled : attempts[j].delivered

AssistInv ==
  IF pc = "done" THEN AssistOnce ELSE assists = 0

(* What the status of a finished call says of its records. *)
VerdictInv ==
  /\ final = "OK"      => attempts # <<>> /\ LastRecord.cls = "NONE"
  /\ final = "ABORTED" => attempts # <<>> /\ LastRecord.cls = "ABORT"
  /\ final = "EXHAUSTED" =>
       /\ \A b \in Backends : \E j \in Settled : attempts[j].backend = b
       /\ LastRecord.cls \in {"VALIDATION", "RETRY_SAME", "ADVANCE"}
  /\ final = "STREAM_LOST" => \E j \in Settled : attempts[j].delivered
  /\ final = "CANCELLED" => token \/ (attempts # <<>> /\ LastRecord.cls = "CANCELLED")
  /\ final = "INVALID_ARG" => RawJson /\ (attempts # <<>> => LastRecord.backend + 1 = i)

SInv == ClassInv /\ TripsInv /\ PassedInv /\ HeardInv /\ AssistInv /\ VerdictInv

(* Why a backend may be left after the record a. *)
Spent(a) ==
  CASE a.cls = "ADVANCE"    -> TRUE
    [] a.cls = "RETRY_SAME" -> Count(a.backend, "RETRY_SAME") = MaxTries
    [] a.cls = "VALIDATION" -> Count(a.backend, "VALIDATION") = ValidationRetries + 1
    [] OTHER -> FALSE

(* The counters of the loop count the records of the present backend, and a
   backend that was left was spent. *)
CountInv ==
  /\ \A j \in Settled : attempts[j].backend <= i
  /\ pc # "done" =>
       /\ Count(i, "RETRY_SAME") =
            retrySameUsed + (IF pc = "decide" /\ cls = "RETRY_SAME" THEN 1 ELSE 0)
       /\ Count(i, "VALIDATION") =
            validationUsed + (IF pc = "decide" /\ cls = "VALIDATION" THEN 1 ELSE 0)
       /\ attempts # <<>> /\ LastRecord.backend # i => Spent(LastRecord)

-----------------------------------------------------------------------------
(* The steps that keep the records leave what is said of them alone.       *)

LEMMA ClassStep ==
  ASSUME IInv, ClassInv, [Next]_vars
  PROVE  ClassInv'
<1>0. TypeOK
  BY DEF IInv
<1>1. CASE Quit \/ RecordFails
  BY <1>1 DEF ClassInv, Quit, RecordFails, Return, callVars, Settled
<1>2. CASE PassTop \/ Send \/ WaitOver \/ Trigger \/ UNCHANGED vars
  BY <1>2 DEF ClassInv, LastRecord, PassTop, Send, WaitOver, Trigger, vars, callVars, Settled
<1>3. CASE Round
  <2>1. PICK o \in Outcomes, rejected \in BOOLEAN : Land(o, rejected)
    BY <1>3 DEF Round
  <2>2. o.terminal => cls' = "ADVANCE"
    BY <2>1, CallAssumption DEF Land, ClassOf, Outcome
  <2> QED BY <2>1, <2>2 DEF ClassInv, Land, Settled
<1>4. CASE Record
  <2>1. /\ pc = "record" /\ pc' = "decide"
        /\ cls' = cls /\ outcome' = outcome
        /\ NewRecord.cls = cls
    BY <1>4 DEF Record, NewRecord
  <2>2. LastRecord' = NewRecord
    BY <1>0, <1>4, RecordedLast DEF LastRecord
  <2>3. \A j \in 1..Len(attempts) : attempts'[j].cls \notin EndClasses
    BY <1>0, <1>4, <2>1, RecordedLast DEF ClassInv
  <2>4. \A j \in Settled' : attempts'[j].cls \in EndClasses => j = Len(attempts')
    BY <1>0, <1>4, <2>3, RecordedLast
  <2> QED BY <2>1, <2>2, <2>4 DEF ClassInv
<1>5. CASE Reroll \/ RetrySame \/ FallBack
  <2>1. /\ pc = "decide" /\ pc' \in {"top", "wait"} /\ attempts' = attempts
        /\ cls \in {"VALIDATION", "RETRY_SAME", "ADVANCE"}
    BY <1>5 DEF Reroll, RetrySame, FallBack, Failed, Deciding
  <2>2. \A j \in Settled : attempts[j].cls \notin EndClasses
    BY <2>1 DEF ClassInv, LastRecord, EndClasses
  <2> QED BY <2>1, <2>2 DEF ClassInv, Settled
<1> QED BY <1>0, <1>1, <1>2, <1>3, <1>4, <1>5, StepCases

(* The steps that end the call between two round trips. *)
LEMMA QuitBetween ==
  ASSUME TypeOK, [Next]_vars, Quit
  PROVE  pc \notin {"flight", "record"}
<1>1. CASE StopAtTop \/ BuildFails \/ WaitCancelled
  BY <1>1 DEF StopAtTop, BuildFails, WaitCancelled
<1>2. CASE Decide
  BY <1>2 DEF Decide, OutOfMemory, Succeed, Abort, Cancel, CancelWithAssist, EndWith,
              LoseStream, Reroll, RetrySame, FallBack, Exhaust, Failed, Deciding
<1>3. CASE PassTop \/ Send \/ Record \/ WaitOver \/ Trigger \/ Returned \/ UNCHANGED vars
  BY <1>3 DEF Quit, PassTop, Send, Record, WaitOver, Trigger, Returned, vars
<1>4. CASE Round
  BY <1>4 DEF Round, Land, Quit
<1>5. CASE RecordFails
  BY <1>5 DEF RecordFails, Quit, callVars, TypeOK
<1> QED BY <1>1, <1>2, <1>3, <1>4, <1>5 DEF Next, Step

LEMMA TripsStep ==
  ASSUME IInv, TripsInv, [Next]_vars
  PROVE  TripsInv'
<1>0. TypeOK /\ trips \in Nat /\ Len(attempts) \in Nat
  BY DEF IInv, TypeOK
<1>1. CASE Quit
  <2>1. pc \in {"top", "build", "decide", "wait"}
    BY <1>0, <1>1, QuitBetween DEF Quit, TypeOK
  <2> QED BY <1>1, <2>1 DEF TripsInv, Quit, LastRecord, callVars
<1>2. CASE PassTop \/ WaitOver \/ Trigger \/ UNCHANGED vars
  BY <1>2 DEF TripsInv, LastRecord, PassTop, WaitOver, Trigger, vars, callVars
<1>3. CASE Send
  BY <1>0, <1>3 DEF TripsInv, Send, callVars
<1>4. CASE Round
  BY <1>4 DEF TripsInv, Round, Land, callVars
<1>5. CASE Record
  <2>1. /\ pc = "record" /\ pc' = "decide"
        /\ UNCHANGED <<i, trips, resultBackend>> /\ NewRecord.backend = i
    BY <1>5 DEF Record, NewRecord
  <2>2. LastRecord' = NewRecord /\ Len(attempts)' = Len(attempts) + 1 /\ attempts' # <<>>
    BY <1>0, <1>5, RecordedLast DEF LastRecord
  <2> QED BY <2>1, <2>2 DEF TripsInv
<1>6. CASE RecordFails
  BY <1>0, <1>6 DEF TripsInv, RecordFails, Return
<1>7. CASE Reroll \/ RetrySame \/ FallBack
  BY <1>7 DEF TripsInv, LastRecord, Reroll, RetrySame, FallBack, Failed, Deciding
<1> QED BY <1>0, <1>1, <1>2, <1>3, <1>4, <1>5, <1>6, <1>7, StepCases

LEMMA PassedStep ==
  ASSUME IInv, PassedInv, [Next]_vars
  PROVE  PassedInv'
<1>0. TypeOK
  BY DEF IInv
<1>1. CASE Quit \/ PassTop \/ Send \/ WaitOver \/ Trigger \/ UNCHANGED vars
  BY <1>1 DEF PassedInv, Quit, PassTop, Send, WaitOver, Trigger, vars, callVars, Settled
<1>2. CASE Round \/ RecordFails \/ Reroll \/ RetrySame
  BY <1>2 DEF PassedInv, Round, Land, RecordFails, Reroll, RetrySame, callVars, Settled
<1>3. CASE Record
  <2>1. i' = i
    BY <1>3 DEF Record
  <2> QED BY <1>0, <1>3, <2>1, RecordedLast DEF PassedInv
<1>4. CASE FallBack
  <2>1. i' = i + 1 /\ attempts' = attempts /\ pc = "decide"
    BY <1>4 DEF FallBack, Failed, Deciding
  <2>2. Len(attempts) \in Settled /\ attempts[Len(attempts)].backend = i
    BY <2>1 DEF IInv, LinkInv, TypeOK, Settled
  <2>3. \A b \in Backends : b < i + 1 => b < i \/ b = i
    BY <1>0 DEF TypeOK, Backends
  <2> QED BY <2>1, <2>2, <2>3 DEF PassedInv, Settled
<1> QED BY <1>0, <1>1, <1>2, <1>3, <1>4, StepCases

LEMMA HeardStep ==
  ASSUME IInv, HeardInv, [Next]_vars
  PROVE  HeardInv'
<1>0. TypeOK
  BY DEF IInv
<1>1. CASE Quit \/ RecordFails
  BY <1>1 DEF HeardInv, Quit, RecordFails, Return
<1>2. CASE PassTop \/ Send \/ WaitOver \/ Trigger \/ UNCHANGED vars
  BY <1>2 DEF HeardInv, PassTop, Send, WaitOver, Trigger, vars, callVars, Settled
<1>3. CASE Round
  BY <1>3 DEF HeardInv, Round, Land, Settled
<1>4. CASE Record
  <2>1. /\ pc = "record" /\ anyDelivered' = anyDelivered
        /\ NewRecord.delivered = outcome.delivered
    BY <1>4 DEF Record, NewRecord
  <2>2. Len(attempts) + 1 \in Settled'
    BY <1>0, <1>4, RecordedLast
  <2> QED BY <1>0, <1>4, <2>1, <2>2, RecordedLast DEF HeardInv
<1>5. CASE Reroll \/ RetrySame \/ FallBack
  BY <1>5 DEF HeardInv, Reroll, RetrySame, FallBack, Failed, Deciding, Settled
<1> QED BY <1>0, <1>1, <1>2, <1>3, <1>4, <1>5, StepCases

LEMMA VerdictStep ==
  ASSUME IInv, SInv, [Next]_vars
  PROVE  VerdictInv'
<1>0. TypeOK /\ (pc # "done" => final = "none")
  BY DEF IInv, ControlInv
<1>1. pc = "decide" => attempts # <<>> /\ LastRecord.cls = cls
  BY DEF IInv, LinkInv, SInv, ClassInv
<1>2. CASE StopAtTop \/ WaitCancelled
  BY <1>2 DEF VerdictInv, StopAtTop, Stopped, WaitCancelled, Return
<1>3. CASE OutOfMemory \/ RecordFails
  BY <1>3 DEF VerdictInv, OutOfMemory, RecordFails, Return
<1>12. CASE BuildFails
  <2>1. PICK st \in BuildErrors : Return(st)
    BY <1>12 DEF BuildFails
  <2>2. /\ pc = "build" /\ i \notin built /\ tryOfBackend \in Nat
        /\ UNCHANGED <<i, attempts>>
    BY <1>0, <1>12 DEF BuildFails, callVars, TypeOK
  <2>3. tryOfBackend = 0
    BY <2>2 DEF IInv, BuiltInv
  <2>4. attempts # <<>> => attempts[Len(attempts)] \in AttemptRecord
    BY <1>0 DEF TypeOK
  <2>5. attempts # <<>> => attempts[Len(attempts)].tryOf \in Nat
    BY <2>4 DEF AttemptRecord
  <2>6. attempts # <<>> => attempts[Len(attempts)].backend + 1 = i
    BY <2>2, <2>3, <2>5 DEF IInv, LinkInv
  <2> QED BY <2>1, <2>2, <2>6 DEF VerdictInv, LastRecord, BuildErrors, Return
<1>4. CASE Succeed \/ Abort \/ Cancel
  BY <1>1, <1>4 DEF VerdictInv, LastRecord, Succeed, Abort, Cancel, EndWith, Deciding, Return
<1>5. CASE CancelWithAssist
  BY <1>1, <1>5 DEF VerdictInv, LastRecord, CancelWithAssist, Deciding, Return
<1>6. CASE LoseStream
  <2>1. pc = "decide" /\ anyDelivered /\ final' = "STREAM_LOST" /\ attempts' = attempts
    BY <1>6 DEF LoseStream, Failed, Deciding, MayRetry, Return, IInv, TypeOK
  <2>2. \E j \in Settled : attempts[j].delivered
    BY <2>1 DEF SInv, HeardInv
  <2> QED BY <2>1, <2>2 DEF VerdictInv, Settled
<1>7. CASE Exhaust
  <2>1. /\ pc = "decide" /\ i = N /\ final' = "EXHAUSTED" /\ attempts' = attempts
        /\ cls \in {"VALIDATION", "RETRY_SAME", "ADVANCE"}
    BY <1>7 DEF Exhaust, Failed, Deciding, ChainEnds, Return
  <2>2. Len(attempts) \in Settled /\ attempts[Len(attempts)].backend = N
    BY <2>1 DEF IInv, LinkInv, TypeOK, Settled
  <2>3. \A b \in Backends : b < N \/ b = N
    BY ChainAssumption DEF Backends
  <2>4. \A b \in Backends : \E j \in Settled : attempts[j].backend = b
    BY <2>1, <2>2, <2>3 DEF SInv, PassedInv
  <2> QED BY <1>1, <2>1, <2>4 DEF VerdictInv, LastRecord, Settled
<1>8. CASE Round \/ Record
  <2>1. final' = "none"
    BY <1>0, <1>8 DEF Round, Land, Record
  <2> QED BY <2>1 DEF VerdictInv
<1>9. CASE PassTop \/ Send \/ Reroll \/ RetrySame \/ FallBack \/ WaitOver
  <2>1. final' = "none"
    BY <1>0, <1>9 DEF PassTop, Send, Reroll, RetrySame, FallBack, WaitOver, Failed, Deciding
  <2> QED BY <2>1 DEF VerdictInv
<1>10. CASE Trigger
  <2>1. final' = "none"
    BY <1>0, <1>10 DEF Trigger
  <2> QED BY <2>1 DEF VerdictInv
<1>11. CASE Returned \/ UNCHANGED vars
  BY <1>11 DEF SInv, VerdictInv, LastRecord, Returned, vars, callVars, Settled
<1> QED BY <1>2, <1>3, <1>4, <1>5, <1>6, <1>7, <1>8, <1>9, <1>10, <1>11,
           <1>12 DEF Next, Step, Decide

(* The last record of a call that did not decide to cancel is no cancellation
   on an assisted backend. *)
LEMMA AssistStep ==
  ASSUME IInv, SInv, [Next]_vars
  PROVE  AssistInv'
<1>0. pc # "done" => assists = 0
  BY DEF SInv, AssistInv
<1>1. \A s : Last(s) = s[Len(s)]
  BY DEF Last
<1>2. pc = "decide" => /\ attempts # <<>> /\ LastRecord.cls = cls
                       /\ LastRecord.backend = i
  BY DEF IInv, LinkInv, SInv, ClassInv, LastRecord
<1>3. ASSUME pc \notin {"decide", "done"}, attempts # <<>> PROVE LastRecord.cls # "CANCELLED"
  <2>1. Len(attempts) \in Settled
    BY <1>3 DEF IInv, TypeOK, Settled
  <2> QED BY <1>3, <2>1 DEF SInv, ClassInv, EndClasses, LastRecord
<1>4. CASE StopAtTop \/ BuildFails \/ WaitCancelled \/ RecordFails
  <2>1. pc \notin {"decide", "done"} /\ pc' = "done" /\ assists' = assists /\ attempts' = attempts
    BY <1>4 DEF StopAtTop, BuildFails, WaitCancelled, RecordFails, Return
  <2> QED BY <1>0, <1>1, <1>3, <2>1 DEF AssistInv, AssistOnce, LastRecord
<1>5. CASE OutOfMemory \/ Succeed \/ Abort \/ LoseStream \/ Exhaust
  <2>1. /\ pc = "decide" /\ pc' = "done" /\ assists' = assists /\ attempts' = attempts
        /\ outcome.terminal \/ cls # "CANCELLED"
    BY <1>5 DEF OutOfMemory, Succeed, Abort, EndWith, LoseStream, Exhaust, Failed, Deciding,
                Return
  <2>2. cls # "CANCELLED"
    BY <2>1 DEF SInv, ClassInv
  <2> QED BY <1>0, <1>1, <1>2, <2>1, <2>2 DEF AssistInv, AssistOnce, LastRecord
<1>6. CASE Cancel
  <2>1. /\ pc = "decide" /\ pc' = "done" /\ assists' = assists /\ attempts' = attempts
        /\ i \notin Assisted
    BY <1>6 DEF Cancel, NeedsAssist, EndWith, Deciding, Return
  <2> QED BY <1>0, <1>1, <1>2, <2>1 DEF AssistInv, AssistOnce, LastRecord
<1>7. CASE CancelWithAssist
  <2>1. /\ pc = "decide" /\ pc' = "done" /\ assists' = assists + 1 /\ attempts' = attempts
        /\ i \in Assisted /\ cls = "CANCELLED"
    BY <1>7 DEF CancelWithAssist, NeedsAssist, Deciding, Return
  <2> QED BY <1>0, <1>1, <1>2, <2>1 DEF AssistInv, AssistOnce, LastRecord
<1>8. CASE PassTop \/ Send \/ Round \/ Record \/ Reroll \/ RetrySame \/ FallBack \/ WaitOver
  <2>1. pc # "done" /\ pc' # "done" /\ assists' = assists
    BY <1>8 DEF PassTop, Send, Round, Land, Record, Reroll, RetrySame, FallBack, WaitOver,
                Failed, Deciding
  <2> QED BY <1>0, <2>1 DEF AssistInv
<1>9. CASE Trigger
  BY <1>0, <1>9 DEF AssistInv, Trigger
<1>10. CASE Returned \/ UNCHANGED vars
  BY <1>10 DEF SInv, AssistInv, AssistOnce, Returned, vars
<1> QED BY <1>4, <1>5, <1>6, <1>7, <1>8, <1>9, <1>10 DEF Next, Step, Decide

LEMMA InitSInv == Init => SInv
BY DEF Init, SInv, ClassInv, TripsInv, PassedInv, HeardInv, AssistInv, VerdictInv, Settled,
       Backends, None

LEMMA StepSInv == IInv /\ SInv /\ [Next]_vars => SInv'
BY ClassStep, TripsStep, PassedStep, HeardStep, AssistStep, VerdictStep DEF SInv

THEOREM StatusInvariant == Spec => []SInv
BY InitSInv, StepSInv, InductiveInvariant, PTL DEF Spec

(* For every chain, policy and transport: what the call returns agrees with
   its records, however it ends. *)
THEOREM StatusTellsRecordsHolds == Spec => []StatusTellsRecords
<1>1. SInv => StatusTellsRecords
  <2> SUFFICES ASSUME SInv PROVE StatusTellsRecords
    OBVIOUS
  <2>1. Last(attempts) = LastRecord
    BY DEF Last, LastRecord
  <2>2. pc = "done" =>
          /\ trips = Len(attempts) \/ (trips = Len(attempts) + 1 /\ final = "NOMEM")
          /\ resultBackend = IF trips = 0 THEN 0 ELSE
                             IF trips = Len(attempts) THEN Last(attempts).backend ELSE i
          /\ AssistOnce
    BY <2>1 DEF SInv, TripsInv, AssistInv
  <2> QED BY <2>1, <2>2 DEF SInv, ClassInv, EndClasses, VerdictInv, StatusTellsRecords
<1> QED BY <1>1, StatusInvariant, PTL

-----------------------------------------------------------------------------
(* Why backends are left.                                                  *)

Chosen(b, c) == {j \in Settled : attempts[j].backend = b /\ attempts[j].cls = c}

(* Recording counts for the backend and the class of the record only. *)
LEMMA RecordedCount ==
  ASSUME TypeOK, Record, NEW b, NEW c
  PROVE  /\ Count(b, c) \in Nat
         /\ Count(b, c)' = Count(b, c) + (IF b = i /\ c = cls THEN 1 ELSE 0)
<1> DEFINE new == Len(attempts) + 1
<1>1. NewRecord.backend = i /\ NewRecord.cls = cls
  BY DEF NewRecord
<1>2. /\ Settled = 1..Len(attempts) /\ Settled' = Settled \cup {new}
      /\ Len(attempts) \in Nat /\ new \notin Settled
      /\ \A j \in Settled : attempts'[j] = attempts[j]
      /\ attempts'[new] = NewRecord
  BY RecordedLast
<1>3. Chosen(b, c)' = Chosen(b, c) \cup (IF b = i /\ c = cls THEN {new} ELSE {})
  BY <1>1, <1>2 DEF Chosen
<1>4. IsFiniteSet(Chosen(b, c)) /\ new \notin Chosen(b, c)
  <2>1. IsFiniteSet(Settled)
    BY <1>2, FS_Interval
  <2>2. Chosen(b, c) \subseteq Settled
    BY DEF Chosen
  <2> QED BY <1>2, <2>1, <2>2, FS_Subset
<1>5. Count(b, c) = Cardinality(Chosen(b, c)) /\ Count(b, c)' = Cardinality(Chosen(b, c)')
  BY DEF Count, Chosen
<1>6. Cardinality(Chosen(b, c)) \in Nat
  BY <1>4, FS_CardinalityType
<1>7. Cardinality(Chosen(b, c) \cup {new}) = Cardinality(Chosen(b, c)) + 1
  BY <1>4, FS_AddElement
<1> DEFINE old == Chosen(b, c)
           now == Chosen(b, c)'
           n == Count(b, c)
           m == Count(b, c)'
<1>8. n \in Nat /\ m = n + (IF b = i /\ c = cls THEN 1 ELSE 0)
  <2>1. n \in Nat
    BY <1>5, <1>6
  <2>2. CASE b = i /\ c = cls
    <3>1. now = old \cup {new}
      BY <1>3, <2>2
    <3>2. m = Cardinality(old) + 1
      BY <1>5, <1>7, <3>1
    <3> QED BY <1>5, <2>1, <2>2, <3>2
  <2>3. CASE ~(b = i /\ c = cls)
    <3>1. now = old
      BY <1>3, <2>3
    <3>2. m = n
      BY <1>5, <3>1
    <3> HIDE DEF n, m
    <3> QED BY <2>1, <2>3, <3>2
  <2> QED BY <2>2, <2>3
<1> QED BY <1>8

(* Nothing is counted of a backend that has no record yet. *)
LEMMA NothingYet ==
  ASSUME NEW b, NEW c, \A j \in Settled : attempts[j].backend # b
  PROVE  Count(b, c) = 0
<1>1. {j \in Settled : attempts[j].backend = b /\ attempts[j].cls = c} = {}
  OBVIOUS
<1> QED BY <1>1, FS_EmptySet DEF Count

LEMMA SameCounts ==
  ASSUME attempts' = attempts
  PROVE  /\ \A b, c : Count(b, c)' = Count(b, c)
         /\ \A a : Spent(a)' <=> Spent(a)
         /\ NoPrematureFallback' <=> NoPrematureFallback
         /\ Settled' = Settled /\ LastRecord' = LastRecord
<1>1. Settled' = Settled /\ LastRecord' = LastRecord
  BY DEF Settled, LastRecord
<1>2. \A b, c : Count(b, c)' = Count(b, c)
  BY <1>1 DEF Count
<1> QED BY <1>1, <1>2 DEF Spent, NoPrematureFallback

LEMMA CountStep ==
  ASSUME IInv, ClassInv, CountInv, [Next]_vars
  PROVE  CountInv'
<1>0. /\ TypeOK /\ i \in Nat /\ N \in Nat
      /\ retrySameUsed \in Nat /\ validationUsed \in Nat
  BY ChainAssumption DEF IInv, TypeOK, Backends
<1>1. CASE Quit \/ RecordFails
  <2>1. pc' = "done" /\ i' = i /\ attempts' = attempts
    BY <1>1 DEF Quit, RecordFails, Return, callVars
  <2> QED BY <2>1, SameCounts DEF CountInv
<1>2. CASE PassTop \/ Send \/ WaitOver \/ Trigger \/ UNCHANGED vars
  <2>1. /\ i' = i /\ attempts' = attempts /\ cls' = cls
        /\ retrySameUsed' = retrySameUsed /\ validationUsed' = validationUsed
        /\ pc' = "decide" <=> pc = "decide"
        /\ pc' # "done" => pc # "done"
    BY <1>2 DEF PassTop, Send, WaitOver, Trigger, vars, callVars
  <2>2. Count(i, "RETRY_SAME")' = Count(i, "RETRY_SAME")
    BY <2>1 DEF Count, Settled
  <2>3. Count(i, "VALIDATION")' = Count(i, "VALIDATION")
    BY <2>1 DEF Count, Settled
  <2> QED BY <2>1, <2>2, <2>3, SameCounts DEF CountInv
<1>3. CASE Round
  <2>1. /\ pc = "flight" /\ pc' = "record" /\ i' = i /\ attempts' = attempts
        /\ retrySameUsed' = retrySameUsed /\ validationUsed' = validationUsed
    BY <1>3 DEF Round, Land, callVars
  <2> QED BY <2>1, SameCounts DEF CountInv
<1>4. CASE Record
  <2>1. /\ pc = "record" /\ pc' = "decide" /\ i' = i /\ cls' = cls
        /\ retrySameUsed' = retrySameUsed /\ validationUsed' = validationUsed
        /\ NewRecord.backend = i
    BY <1>4 DEF Record, NewRecord
  <2>2. \A j \in Settled' : attempts'[j].backend <= i'
    BY <1>0, <1>4, <2>1, RecordedLast DEF CountInv
  <2>3. LastRecord'.backend = i
    BY <1>0, <1>4, <2>1, RecordedLast DEF LastRecord
  <2>4. Count(i, "RETRY_SAME")' = retrySameUsed + (IF cls = "RETRY_SAME" THEN 1 ELSE 0)
    <3>1. Count(i, "RETRY_SAME") = retrySameUsed
      BY <1>0, <2>1 DEF CountInv
    <3> QED BY <1>0, <1>4, <2>1, <3>1, RecordedCount
  <2>5. Count(i, "VALIDATION")' = validationUsed + (IF cls = "VALIDATION" THEN 1 ELSE 0)
    <3>1. Count(i, "VALIDATION") = validationUsed
      BY <1>0, <2>1 DEF CountInv
    <3> QED BY <1>0, <1>4, <2>1, <3>1, RecordedCount
  <2> QED BY <2>1, <2>2, <2>3, <2>4, <2>5 DEF CountInv
<1>5. CASE Reroll \/ RetrySame
  <2>1. /\ pc = "decide" /\ pc' \in {"top", "wait"} /\ i' = i /\ attempts' = attempts
        /\ retrySameUsed' = retrySameUsed + (IF cls = "RETRY_SAME" THEN 1 ELSE 0)
        /\ validationUsed' = validationUsed + (IF cls = "VALIDATION" THEN 1 ELSE 0)
    BY <1>0, <1>5 DEF Reroll, RetrySame, Failed, Deciding
  <2> QED BY <1>0, <2>1, SameCounts DEF CountInv
<1>6. CASE FallBack
  <2>1. /\ pc = "decide" /\ pc' = "top" /\ i' = i + 1 /\ attempts' = attempts
        /\ retrySameUsed' = 0 /\ validationUsed' = 0 /\ BackendSpent
    BY <1>6 DEF FallBack, Failed, Deciding
  <2>2. \A j \in Settled : attempts[j].backend <= i /\ attempts[j].backend \in Nat
    <3>1. \A j \in Settled : attempts[j] \in AttemptRecord
      BY <1>0 DEF TypeOK, Settled
    <3> QED BY <1>0, <3>1 DEF CountInv, AttemptRecord, Backends
  <2>3. \A j \in Settled : attempts[j].backend <= i + 1 /\ attempts[j].backend # i + 1
    BY <1>0, <2>2
  <2>4. Count(i + 1, "RETRY_SAME") = 0 /\ Count(i + 1, "VALIDATION") = 0
    BY <2>3, NothingYet
  <2>5. LastRecord.cls = cls /\ LastRecord.backend = i
    BY <2>1 DEF IInv, LinkInv, ClassInv, LastRecord
  <2>6. Spent(LastRecord)
    <3>1. cls = "RETRY_SAME" => Count(i, "RETRY_SAME") = MaxTries
      <4>1. cls = "RETRY_SAME" => ~(retrySameUsed + 1 < MaxTries)
        BY <2>1 DEF BackendSpent, TriesLeft
      <4>2. retrySameUsed < MaxTries /\ MaxTries \in Nat
        BY PolicyAssumption DEF IInv, BudgetInv
      <4>3. cls = "RETRY_SAME" => Count(i, "RETRY_SAME") = retrySameUsed + 1
        BY <2>1 DEF CountInv
      <4> QED BY <1>0, <4>1, <4>2, <4>3
    <3>2. cls = "VALIDATION" => Count(i, "VALIDATION") = ValidationRetries + 1
      <4>1. cls = "VALIDATION" => ~(validationUsed < ValidationRetries)
        BY <2>1 DEF BackendSpent, RerollsLeft
      <4>2. validationUsed <= ValidationRetries /\ ValidationRetries \in Nat
        BY PolicyAssumption DEF IInv, BudgetInv
      <4>3. cls = "VALIDATION" => Count(i, "VALIDATION") = validationUsed + 1
        BY <2>1 DEF CountInv
      <4> QED BY <1>0, <4>1, <4>2, <4>3
    <3>3. cls \in {"ADVANCE", "RETRY_SAME", "VALIDATION"}
      BY <2>1 DEF BackendSpent
    <3> QED BY <2>5, <3>1, <3>2, <3>3 DEF Spent
  <2>7. \A j \in Settled' : attempts'[j].backend <= i'
    BY <2>1, <2>3, SameCounts
  <2>8. /\ Count(i, "RETRY_SAME")' = 0 /\ Count(i, "VALIDATION")' = 0
        /\ Spent(LastRecord)'
    <3>1. Settled' = Settled /\ i' = i + 1
      BY <2>1 DEF Settled
    <3>2. Count(i, "RETRY_SAME")' = Count(i + 1, "RETRY_SAME")
      BY <2>1, <3>1 DEF Count
    <3>3. Count(i, "VALIDATION")' = Count(i + 1, "VALIDATION")
      BY <2>1, <3>1 DEF Count
    <3>4. Spent(LastRecord)'
      BY <2>1, <2>6, SameCounts DEF Spent, LastRecord, Count, Settled
    <3> QED BY <2>4, <3>2, <3>3, <3>4
  <2> QED BY <2>1, <2>7, <2>8 DEF CountInv
<1> QED BY <1>0, <1>1, <1>2, <1>3, <1>4, <1>5, <1>6, StepCases

(* A record of another backend than the present one stays spent, or not. *)
LEMMA SpentStays ==
  ASSUME TypeOK, Record, NEW a, a.backend # i
  PROVE  Spent(a)' <=> Spent(a)
<1>1. \A c : Count(a.backend, c)' = Count(a.backend, c)
  <2> TAKE c
  <2> DEFINE n == Count(a.backend, c)
             m == Count(a.backend, c)'
  <2>1. n \in Nat /\ m = n + (IF a.backend = i /\ c = cls THEN 1 ELSE 0)
    BY RecordedCount
  <2> HIDE DEF n, m
  <2>2. m = n
    BY <2>1
  <2> QED BY <2>2 DEF n, m
<1> QED BY <1>1 DEF Spent

LEMMA FallbackStep ==
  ASSUME IInv, CountInv, NoPrematureFallback, [Next]_vars
  PROVE  NoPrematureFallback'
<1>0. TypeOK
  BY DEF IInv
<1>1. CASE attempts' = attempts
  BY <1>1, SameCounts
<1>2. CASE Record
  <2> DEFINE new == Len(attempts) + 1
  <2>0. /\ Len(attempts) \in Nat /\ Settled = 1..Len(attempts) /\ Settled' = 1..new
        /\ \A j \in 1..Len(attempts) : attempts'[j] = attempts[j]
        /\ attempts'[new] = NewRecord /\ NewRecord.backend = i
    BY <1>0, <1>2, RecordedLast DEF NewRecord
  <2>1. \A j \in Settled : attempts[j].backend \in Nat /\ i \in Nat
    <3>1. \A j \in Settled : attempts[j] \in AttemptRecord
      BY <1>0 DEF TypeOK, Settled
    <3> QED BY <1>0, <3>1 DEF AttemptRecord, TypeOK, Backends
  <2>2. ASSUME NEW j \in Settled', j > 1, attempts'[j].backend # attempts'[j - 1].backend
        PROVE  Spent(attempts[j - 1]) /\ attempts[j - 1].backend # i
               /\ attempts'[j - 1] = attempts[j - 1]
    <3>1. j - 1 \in Settled /\ attempts'[j - 1] = attempts[j - 1]
      BY <2>0, <2>2
    <3>2. CASE j = new
      <4>1. attempts[j - 1] = LastRecord /\ LastRecord.backend # i /\ attempts # <<>>
        BY <1>0, <2>0, <2>2, <3>1, <3>2 DEF LastRecord
      <4> QED BY <1>2, <3>1, <4>1 DEF CountInv, Record
    <3>3. CASE j # new
      <4>1. j \in Settled /\ attempts'[j] = attempts[j]
        BY <2>0, <2>2, <3>3
      <4>2. attempts[j].backend = attempts[j - 1].backend + 1 /\ attempts[j].backend <= i
        BY <2>2, <3>1, <4>1 DEF IInv, Numbering, CountInv
      <4>3. attempts[j - 1].backend # i
        BY <2>1, <3>1, <4>1, <4>2
      <4>4. Spent(attempts[j - 1])
        BY <2>2, <3>1, <4>1 DEF NoPrematureFallback, Spent
      <4> QED BY <3>1, <4>3, <4>4
    <3> QED BY <3>2, <3>3
  <2> HIDE DEF new
  <2>3. ASSUME NEW j \in Settled', j > 1, attempts'[j].backend # attempts'[j - 1].backend
        PROVE  Spent(attempts[j - 1])'
    <3> DEFINE a == attempts[j - 1]
    <3>1. Spent(a) /\ a.backend # i /\ attempts'[j - 1] = a
      BY <2>2, <2>3
    <3> HIDE DEF a
    <3>2. \A b \in {a} : Spent(b)'
      BY <1>0, <1>2, <3>1, SpentStays
    <3> QED BY <3>1, <3>2 DEF Spent
  <2> QED BY <2>3 DEF NoPrematureFallback, Spent
<1>3. attempts' = attempts \/ Record
  <2>1. CASE Quit \/ PassTop \/ Send \/ WaitOver \/ Trigger \/ UNCHANGED vars
    BY <2>1 DEF Quit, PassTop, Send, WaitOver, Trigger, vars
  <2>2. CASE Round \/ RecordFails \/ Reroll \/ RetrySame \/ FallBack
    BY <2>2 DEF Round, Land, RecordFails, Reroll, RetrySame, FallBack
  <2> QED BY <1>0, <2>1, <2>2, StepCases
<1> QED BY <1>1, <1>2, <1>3

LEMMA InitCounts == Init => CountInv /\ NoPrematureFallback
<1> SUFFICES ASSUME Init PROVE CountInv /\ NoPrematureFallback
  OBVIOUS
<1>1. Settled = {}
  BY DEF Init, Settled
<1>2. \A b, c : Count(b, c) = 0
  BY <1>1, NothingYet
<1> QED BY <1>1, <1>2 DEF Init, CountInv, NoPrematureFallback

(* For every chain, policy and transport: a backend is left after a failure
   that says so, after max_tries tries or after validation_retries re-rolls,
   never earlier. *)
THEOREM NoPrematureFallbackHolds == Spec => []NoPrematureFallback
<1> DEFINE J == IInv /\ SInv /\ CountInv /\ NoPrematureFallback
<1>1. Init => J
  BY InitIInv, InitSInv, InitCounts
<1>2. J /\ [Next]_vars => J'
  BY StepIInv, StepSInv, CountStep, FallbackStep DEF SInv
<1>3. J => NoPrematureFallback
  OBVIOUS
<1> HIDE DEF J
<1> QED BY <1>1, <1>2, <1>3, PTL DEF Spec
-----------------------------------------------------------------------------
(* The class of a round trip, for every policy and response: Classify as    *)
(* ClassifyCheck asks it.                                                   *)

ClassOfQuery == sicha_classify(query.p, query.ts, query.http, query.body, query.finish)

(* A question keeps its form, and its answer is what was computed. *)
AnswerInv ==
  query.op = "class" => query \in ClassQueries /\ answer \in {<<>>, <<ClassOfQuery>>}

LEMMA AnswerInvHolds == ClassifySpec => []AnswerInv
<1>1. ClassifyInit => AnswerInv
  BY DEF ClassifyInit, AnswerInv, ClassQueries, TextQueries, WaitQueries
<1>2. AnswerInv /\ [ClassifyNext]_checkVars => AnswerInv'
  BY DEF AnswerInv, ClassifyNext, AskClass, AskText, AskWait, Reply, checkVars, ClassOfQuery,
         ClassQueries
<1> QED BY <1>1, <1>2, PTL DEF ClassifySpec

(* What the first override of a status says is what an override says that no
   other precedes. *)
LEMMA FirstOverrideIs ==
  ASSUME query \in ClassQueries
  PROVE  LET none == OverridesOf(query.p, query.http) = {}
             first == LookupOverride(query.p, query.http)
         IN  /\ none => \A cl : ~FirstOverride(cl)
             /\ ~none => /\ first \in {"ABORT", "RETRY_SAME", "ADVANCE"}
                         /\ \A cl : FirstOverride(cl) <=> cl = first
<1> DEFINE o == query.p.overrides
           T == OverridesOf(query.p, query.http)
           k == CHOOSE n \in T : \A m \in T : n <= m
           first == LookupOverride(query.p, query.http)
<1>1. o \in Seq([http : Int, cls : ErrorClass]) /\ PolicyValid(query.p)
  BY QueriesAssumption DEF ClassQueries
<1>2. T = {n \in DOMAIN o : o[n].http = query.http}
  BY DEF OverridesOf
<1>3. T \in SUBSET Nat
  BY <1>1, <1>2
<1>4. \A n \in DOMAIN o : \A cl : o[n] = [http |-> query.http, cls |-> cl]
        <=> o[n].http = query.http /\ o[n].cls = cl
  <2> SUFFICES ASSUME NEW n \in DOMAIN o
               PROVE  \A cl : o[n] = [http |-> query.http, cls |-> cl]
                        <=> o[n].http = query.http /\ o[n].cls = cl
    OBVIOUS
  <2> HIDE DEF T, o
  <2> DEFINE R == [http : Int, cls : ErrorClass]
  <2> HIDE DEF R
  <2>1. o \in Seq(R)
    BY <1>1 DEF R
  <2>2. o[n] \in R
    BY <2>1
  <2> QED BY <2>2 DEF R
<1> HIDE DEF T, o
<1>5. CASE T = {}
  <2>1. \A cl : ~FirstOverride(cl)
    BY <1>2, <1>4, <1>5 DEF FirstOverride, o
  <2> QED BY <1>5, <2>1 DEF T
<1>6. CASE T # {}
  <2>1. k \in T /\ \A m \in T : k <= m
    BY <1>3, <1>6, LeastNat
  <2>2. first = o[k].cls
    BY DEF LookupOverride, T, o
  <2> HIDE DEF k, first
  <2>3. k \in DOMAIN o /\ o[k].http = query.http
    BY <1>2, <2>1
  <2>4. first \in {"ABORT", "RETRY_SAME", "ADVANCE"}
    BY <1>1, <2>2, <2>3 DEF PolicyValid, o
  <2>5. DOMAIN o = 1..Len(o) /\ Len(o) \in Nat
    BY <1>1
  <2>6. FirstOverride(first)
    <3>1. \A m \in 1..(k - 1) : m \in DOMAIN o /\ m \notin T
      BY <2>1, <2>3, <2>5
    <3>2. \A m \in 1..(k - 1) : o[m].http # query.http
      BY <1>2, <3>1
    <3> QED BY <1>4, <2>2, <2>3, <3>2 DEF FirstOverride, o
  <2>7. ASSUME NEW cl, FirstOverride(cl) PROVE cl = first
    <3>1. PICK n \in DOMAIN o : /\ o[n].http = query.http /\ o[n].cls = cl
                                /\ \A m \in 1..(n - 1) : o[m].http # query.http
      BY <1>4, <2>7 DEF FirstOverride, o
    <3>2. n \in T
      BY <1>2, <3>1
    <3>3. ~(k < n)
      BY <2>3, <2>5, <3>1
    <3>4. k \in Nat /\ n \in Nat /\ k <= n
      BY <1>3, <2>1, <3>2
    <3>5. k = n
      BY <3>3, <3>4
    <3> QED BY <2>2, <3>1, <3>5
  <2> QED BY <1>6, <2>4, <2>6, <2>7 DEF first, T
<1> QED BY <1>5, <1>6

LEMMA ClassIsDocumented ==
  ASSUME query \in ClassQueries, NEW cl \in ErrorClass
  PROVE  ClassOfQuery = cl <=> Manual(cl)
<1> DEFINE none == OverridesOf(query.p, query.http) = {}
           first == LookupOverride(query.p, query.http)
<1>1. /\ none => \A c : ~FirstOverride(c)
      /\ ~none => first \in {"ABORT", "RETRY_SAME", "ADVANCE"}
      /\ ~none => \A c : FirstOverride(c) <=> c = first
  BY FirstOverrideIs
<1>2. /\ query.ts \in TransportStatus /\ query.http \in Int
      /\ query.body \in BodyState /\ query.finish \in FinishReason
      /\ query.p.lengthIsAdvance \in BOOLEAN /\ query.p.contentFilterIsAdvance \in BOOLEAN
  BY QueriesAssumption DEF ClassQueries
<1>3. Overridden <=> ~none
  BY <1>1 DEF Overridden, ErrorClass
<1>4. CASE query.ts # "OK"
  BY <1>2, <1>4 DEF ClassOfQuery, sicha_classify, Manual, Responded, TransportStatus, Timeouts,
                    ErrorClass
<1>5. CASE query.ts = "OK" /\ query.http \in 200..299
  <2>1. ClassOfQuery = ClassifySuccess(query.p, query.body, query.finish)
    BY <1>5 DEF ClassOfQuery, sicha_classify, Timeouts
  <2>2. ClassOfQuery = IF Usable THEN "NONE" ELSE "ADVANCE"
    BY <1>2, <2>1 DEF ClassifySuccess, Usable, BodyState
  <2> QED BY <1>5, <2>2 DEF Manual, Responded, Timeouts, ErrorClass
<1>6. CASE Responded
  <2>1. ClassOfQuery = IF ~none THEN first ELSE ClassifyStatus(query.http)
    BY <1>6 DEF ClassOfQuery, sicha_classify, Timeouts, Responded
  <2> HIDE DEF none, first
  <2>2. CASE none
    <3>1. ~Overridden /\ ~FirstOverride(cl)
      BY <1>1, <1>3, <2>2
    <3> QED BY <1>2, <1>6, <2>1, <2>2, <3>1
            DEF ClassifyStatus, Manual, Responded, Timeouts, ErrorClass
  <2>3. CASE ~none
    <3>1. Overridden /\ (FirstOverride(cl) <=> cl = first)
      BY <1>1, <1>3, <2>3
    <3> QED BY <1>1, <1>6, <2>1, <2>3, <3>1 DEF Manual, Responded, Timeouts, ErrorClass
  <2> QED BY <2>2, <2>3
<1> QED BY <1>2, <1>4, <1>5, <1>6 DEF Responded

(* Every round trip, under every valid policy, has the one class whose
   description in the header of the library fits it. *)
THEOREM ClassesAreDocumented == ClassifySpec => []ClassifyAsDocumented
<1>1. AnswerInv => ClassifyAsDocumented
  <2> SUFFICES ASSUME AnswerInv, Answered("class")
               PROVE  \A cl \in ErrorClass : answer[1] = cl <=> Manual(cl)
    BY DEF ClassifyAsDocumented
  <2>1. query \in ClassQueries /\ answer = <<ClassOfQuery>>
    BY DEF AnswerInv, Answered
  <2>2. answer[1] = ClassOfQuery
    BY <2>1
  <2> QED BY <2>1, <2>2, ClassIsDocumented
<1> QED BY <1>1, AnswerInvHolds, PTL

-----------------------------------------------------------------------------
(* What a call waits before a retry: Classify as ClassifyCheck asks it.      *)

LEMMA DivIs == \A M \in Nat, P \in Nat \ {0}, a \in Nat : a > M \div P <=> a * P > M
<1> SUFFICES ASSUME NEW M \in Nat, NEW P \in Nat \ {0}, NEW a \in Nat PROVE a > M \div P <=> a * P > M
  OBVIOUS
<1> DEFINE q == M \div P
<1>1. q \in Nat
  OBVIOUS
<1>2. q * P <= M
  OBVIOUS
<1>3. M < q * P + P
  OBVIOUS
<1>4. M < (q + 1) * P
  BY <1>1, <1>3
<1> HIDE DEF q
<1>5. CASE a > q
  <2>1. PICK d \in Nat : a = q + 1 + d
    <3>1. a - q - 1 \in Nat /\ a = q + 1 + (a - q - 1)
       BY <1>1, <1>5
    <3> QED BY <3>1
  <2>2. a * P = (q + 1) * P + d * P /\ d * P \in Nat
    BY <1>1, <2>1
  <2> QED BY <1>1, <1>4, <1>5, <2>2 DEF q
<1>6. CASE a <= q
  <2>1. PICK d \in Nat : q = a + d
    <3>1. q - a \in Nat /\ q = a + (q - a)
       BY <1>1, <1>6
    <3> QED BY <3>1
  <2>2. q * P = a * P + d * P /\ d * P \in Nat /\ a * P \in Nat
    BY <1>1, <2>1
  <2>3. a * P <= M
    BY <1>1, <1>2, <2>2
  <2> QED BY <1>1, <1>6, <2>2, <2>3 DEF q
<1> QED BY <1>1, <1>5, <1>6

LEMMA SmallRemainder == \A n \in Nat, m \in Nat : m < n => m % n = m
OBVIOUS
LEMMA RemainderIs == \A n \in Nat \ {0}, m \in Nat : m % n \in 0..(n - 1)
OBVIOUS


-----------------------------------------------------------------------------
(* The powers of two, which the backoff shifts by.                         *)

(* A set of naturals that holds 0 and with each number the next is all of
   them. *)
LEMMA NatInductive ==
  ASSUME NEW T, 0 \in T, \A n \in Nat : n \in T => n + 1 \in T
  PROVE  Nat \subseteq T
<1> DEFINE U == {n \in Nat : n \notin T}
<1>1. ASSUME U # {} PROVE FALSE
  <2>1. PICK x \in U : \A y \in U : x <= y
    BY <1>1, LeastNat
  <2>2. x # 0 /\ x - 1 \in Nat /\ x - 1 \notin U
    BY <2>1
  <2> QED BY <2>1, <2>2
<1> QED BY <1>1

IsPowers(g, n) ==
  /\ g \in [0..n -> Nat \ {0}]
  /\ g[0] = 1 /\ \A m \in 1..n : g[m] = 2 * g[m - 1]

LEMMA PowersExist == \A n \in Nat : \E g : IsPowers(g, n)
<1> DEFINE T == {n \in Nat : \E g : IsPowers(g, n)}
<1>1. 0 \in T
  <2> DEFINE g == [m \in 0..0 |-> 1]
  <2>1. IsPowers(g, 0)
    BY DEF IsPowers
  <2> QED BY <2>1
<1>2. ASSUME NEW n \in Nat, n \in T PROVE n + 1 \in T
  <2>1. PICK g : IsPowers(g, n)
    BY <1>2
  <2> DEFINE h == [m \in 0..(n + 1) |-> IF m = n + 1 THEN 2 * g[n] ELSE g[m]]
  <2>2. h \in [0..(n + 1) -> Nat \ {0}]
    BY <2>1 DEF IsPowers
  <2>3. h[0] = 1
    BY <2>1 DEF IsPowers
  <2>4. ASSUME NEW m \in 1..(n + 1) PROVE h[m] = 2 * h[m - 1]
    <3>1. CASE m = n + 1
      BY <3>1
    <3>2. CASE m # n + 1
      BY <2>1, <3>2 DEF IsPowers
    <3> QED BY <3>1, <3>2
  <2>5. IsPowers(h, n + 1)
    BY <2>2, <2>3, <2>4 DEF IsPowers
  <2> QED BY <2>5
<1> HIDE DEF T
<1>3. Nat \subseteq T
  BY <1>1, <1>2, NatInductive
<1> QED BY <1>3 DEF T

LEMMA PowersUnique ==
  ASSUME NEW n \in Nat, NEW g, NEW h, IsPowers(g, n), IsPowers(h, n + 1)
  PROVE  h[n] = g[n]
<1> DEFINE T == {m \in Nat : m <= n => h[m] = g[m]}
<1>1. 0 \in T
  BY DEF IsPowers
<1>2. ASSUME NEW m \in Nat, m \in T PROVE m + 1 \in T
  <2> SUFFICES ASSUME m + 1 <= n PROVE h[m + 1] = g[m + 1]
    OBVIOUS
  <2>1. m + 1 \in 1..n /\ m + 1 \in 1..(n + 1) /\ (m + 1) - 1 = m /\ h[m] = g[m]
    BY <1>2
  <2> QED BY <2>1 DEF IsPowers
<1> HIDE DEF T
<1>3. Nat \subseteq T
  BY <1>1, <1>2, NatInductive
<1>4. n \in T
  BY <1>3
<1> QED BY <1>4 DEF T

(* What the recursive definition computes. *)
LEMMA TwoToIs ==
  /\ TwoTo[0] = 1
  /\ \A n \in Nat : TwoTo[n] \in Nat \ {0} /\ TwoTo[n + 1] = 2 * TwoTo[n]
<1> DEFINE G(n) == CHOOSE g : IsPowers(g, n)
           P == [n \in Nat |-> G(n)[n]]
           R(f) == [n \in Nat |-> IF n = 0 THEN 1 ELSE 2 * f[n - 1]]
<1>1. ASSUME NEW n \in Nat PROVE IsPowers(G(n), n)
  BY PowersExist
<1> HIDE DEF G
<1>2. P[0] = 1
  BY <1>1 DEF IsPowers
<1>3. ASSUME NEW n \in Nat PROVE P[n] \in Nat \ {0} /\ P[n + 1] = 2 * P[n]
  <2>1. IsPowers(G(n), n) /\ IsPowers(G(n + 1), n + 1)
    BY <1>1
  <2>2. G(n + 1)[n] = G(n)[n]
    BY <2>1, PowersUnique
  <2>3. G(n + 1)[n + 1] = 2 * G(n + 1)[n]
    BY <2>1 DEF IsPowers
  <2>4. G(n)[n] \in Nat \ {0}
    BY <2>1 DEF IsPowers
  <2> QED BY <2>2, <2>3, <2>4
<1>4. P = R(P)
  <2>1. ASSUME NEW n \in Nat PROVE P[n] = IF n = 0 THEN 1 ELSE 2 * P[n - 1]
    <3>1. CASE n = 0
      BY <1>2, <3>1
    <3>2. CASE n # 0
      <4>1. n - 1 \in Nat /\ (n - 1) + 1 = n
        BY <3>2
      <4>2. P[(n - 1) + 1] = 2 * P[n - 1]
        BY <1>3, <4>1
      <4> QED BY <3>2, <4>1, <4>2
    <3> QED BY <3>1, <3>2
  <2> HIDE DEF P
  <2>2. R(P) = [n \in Nat |-> P[n]]
    BY <2>1
  <2>3. P = [n \in Nat |-> P[n]]
    BY DEF P
  <2> QED BY <2>2, <2>3
<1> HIDE DEF P
<1>5. TwoTo = R(TwoTo)
  BY <1>4 DEF TwoTo
<1>6. TwoTo[0] = 1
  BY <1>5
<1>7. ASSUME NEW n \in Nat PROVE TwoTo[n + 1] = 2 * TwoTo[n]
  <2>1. n + 1 \in Nat /\ n + 1 # 0 /\ (n + 1) - 1 = n
    OBVIOUS
  <2>2. R(TwoTo)[n + 1] = 2 * TwoTo[n]
    BY <2>1
  <2> HIDE DEF R
  <2> QED BY <1>5, <2>2
<1> DEFINE T == {n \in Nat : TwoTo[n] \in Nat \ {0}}
<1>8. 0 \in T
  BY <1>6
<1>9. \A n \in Nat : n \in T => n + 1 \in T
  BY <1>7
<1> HIDE DEF T, R
<1>10. Nat \subseteq T
  BY <1>8, <1>9, NatInductive
<1> QED BY <1>6, <1>7, <1>10 DEF T

LEMMA PowersGrow ==
  ASSUME NEW m \in Nat, NEW n \in Nat, m <= n
  PROVE  TwoTo[m] <= TwoTo[n]
<1> DEFINE T == {d \in Nat : TwoTo[m] <= TwoTo[m + d]}
<1>1. 0 \in T
  BY TwoToIs
<1>2. ASSUME NEW d \in Nat, d \in T PROVE d + 1 \in T
  <2>1. m + d \in Nat /\ m + (d + 1) = (m + d) + 1
    OBVIOUS
  <2>2. TwoTo[(m + d) + 1] = 2 * TwoTo[m + d] /\ TwoTo[m + d] \in Nat /\ TwoTo[m] \in Nat
    BY <2>1, TwoToIs
  <2> QED BY <1>2, <2>1, <2>2
<1> HIDE DEF T
<1>3. n - m \in T
  BY <1>1, <1>2, NatInductive
<1>4. m + (n - m) = n
  OBVIOUS
<1> QED BY <1>3, <1>4 DEF T


-----------------------------------------------------------------------------
(* The wait before a retry.                                                *)

(* base * 2^(k-1) where the word holds it; otherwise the cap, which the
   product is over. *)
LEMMA ExponentialIs ==
  ASSUME NEW base \in 1..Disabled(W), NEW cap \in 1..Disabled(W), NEW k \in Nat \ {0}
  PROVE  LET e == Exponential(W, base, cap, k)
             x == base * TwoTo[k - 1]
         IN  /\ e \in 0..WordMax(W) /\ x \in Nat
             /\ e = x \/ (e = cap /\ x >= cap)
<1> DEFINE e == Exponential(W, base, cap, k)
           P == TwoTo[k - 1]
           x == base * P
           T == TwoTo[W]
<1>1. W \in Nat /\ W - 1 \in Nat /\ W \div 2 \in Nat /\ W \div 2 <= W - 1 /\ k - 1 \in Nat
  BY ScaleAssumption
<1>2. P \in Nat \ {0} /\ T = 2 * TwoTo[W - 1] /\ TwoTo[W - 1] \in Nat \ {0}
  <2>1. (W - 1) + 1 = W
    BY <1>1
  <2>2. TwoTo[(W - 1) + 1] = 2 * TwoTo[W - 1]
    BY <1>1, TwoToIs
  <2> QED BY <1>1, <2>1, <2>2, TwoToIs
<1>3. Disabled(W) \in Nat /\ Disabled(W) < TwoTo[W - 1]
  <2>1. TwoTo[W \div 2] <= TwoTo[W - 1] /\ TwoTo[W \div 2] \in Nat \ {0}
    BY <1>1, TwoToIs, PowersGrow
  <2> QED BY <1>2, <2>1 DEF Disabled
<1>4. base \in Nat \ {0} /\ cap \in Nat /\ cap < TwoTo[W - 1]
  BY <1>2, <1>3
<1> HIDE DEF P, T
<1>5. x \in Nat /\ x >= P
  <2>1. PICK d \in Nat : base = 1 + d
    <3>1. base - 1 \in Nat /\ base = 1 + (base - 1)
      BY <1>4
    <3> QED BY <3>1
  <2>2. x = P + d * P /\ d * P \in Nat
    BY <1>2, <2>1
  <2> QED BY <1>2, <2>2
<1>6. WordMax(W) = T - 1 /\ T - 1 \in Nat
  BY <1>2 DEF WordMax, T
<1>7. e = IF k - 1 >= W - 1 \/ base > (T - 1) \div P THEN cap ELSE x % T
  BY <1>6 DEF Exponential, P, T
<1> HIDE DEF e
<1>8. CASE k - 1 >= W - 1
  <2>1. P >= TwoTo[W - 1]
    BY <1>1, <1>8, PowersGrow DEF P
  <2>2. x >= cap
    BY <1>2, <1>4, <1>5, <2>1
  <2>3. e = cap
    BY <1>7, <1>8
  <2> HIDE DEF x
  <2> QED BY <1>2, <1>4, <1>5, <1>6, <2>2, <2>3 DEF e, x, P
<1>9. CASE ~(k - 1 >= W - 1)
  <2>1. base > (T - 1) \div P <=> x > T - 1
    BY <1>2, <1>4, <1>6, DivIs
  <2> HIDE DEF x
  <2>2. CASE x > T - 1
    <3>1. e = cap /\ x >= cap
      BY <1>2, <1>4, <1>5, <1>7, <2>1, <2>2
    <3> QED BY <1>2, <1>4, <1>5, <1>6, <3>1 DEF e, x, P
  <2>3. CASE ~(x > T - 1)
    <3>1. x < T /\ T \in Nat
      BY <1>2, <1>5, <2>3
    <3>2. x % T = x
      BY <1>5, <3>1, SmallRemainder
    <3>3. e = x
      BY <1>7, <1>9, <2>1, <2>3, <3>2
    <3> QED BY <1>5, <1>6, <3>1, <3>3 DEF e, x, P
  <2> QED BY <2>2, <2>3
<1> QED BY <1>8, <1>9

LEMMA BackoffIs ==
  ASSUME NEW base \in 1..Disabled(W), NEW cap \in 1..Disabled(W), NEW k \in Nat \ {0},
         NEW j \in 0..Disabled(W)
  PROVE  LET e == Exponential(W, base, cap, k)
             x == base * TwoTo[k - 1]
             w == AddJitter(W, e, j)
         IN  /\ (IF w < cap THEN w ELSE cap) = LesserOf(x + j, cap)
             /\ (IF e < cap THEN e ELSE cap) = LesserOf(x + 0, cap)
<1> DEFINE e == Exponential(W, base, cap, k)
           x == base * TwoTo[k - 1]
           M == WordMax(W)
           w == AddJitter(W, e, j)
<1>1. /\ e \in 0..M /\ x \in Nat
      /\ e = x \/ (e = cap /\ x >= cap)
  BY ExponentialIs
<1>2. M \in Nat /\ M = TwoTo[W] - 1 /\ Disabled(W) \in Nat /\ Disabled(W) <= M
  <2>1. W \in Nat /\ W \div 2 \in Nat /\ W \div 2 <= W
    BY ScaleAssumption
  <2>2. TwoTo[W \div 2] <= TwoTo[W] /\ TwoTo[W \div 2] \in Nat \ {0} /\ TwoTo[W] \in Nat \ {0}
    BY <2>1, TwoToIs, PowersGrow
  <2> QED BY <2>2 DEF Disabled, WordMax
<1>3. w = IF e > M - j THEN M ELSE (e + j) % (M + 1)
  <2>1. M + 1 = TwoTo[W]
    BY <1>2, TwoToIs, ScaleAssumption
  <2> QED BY <2>1 DEF AddJitter
<1> HIDE DEF e, x, M, w
<1>4. j \in Nat /\ cap \in Nat /\ cap <= M
  BY <1>2
<1>5. ~(e > M - j) => (e + j) % (M + 1) = e + j
  <2>1. ~(e > M - j) => e + j < M + 1 /\ e + j \in Nat /\ M + 1 \in Nat
    BY <1>1, <1>2, <1>4
  <2> QED BY <2>1, SmallRemainder
<1>6. (IF w < cap THEN w ELSE cap) = LesserOf(x + j, cap)
  BY <1>1, <1>2, <1>3, <1>4, <1>5 DEF LesserOf
<1>7. (IF e < cap THEN e ELSE cap) = LesserOf(x + 0, cap)
  BY <1>1, <1>2, <1>4 DEF LesserOf
<1> QED BY <1>6, <1>7 DEF e, x, M, w


(* A zeroed number is its default. *)
LEMMA ResolvedIs ==
  ASSUME NEW w \in WaitCases, NEW n \in Numbers
  PROVE  LET r == sicha_policy_resolve(w.p, PolicyDefaults)
         IN  /\ r[n] = IF w.p[n] = 0 THEN PolicyDefaults[n] ELSE w.p[n]
             /\ r[n] \in 1..Disabled(W)
             /\ r[n] = Disabled(W) <=> w.p[n] = Disabled(W)
<1>1. w.p \in [Numbers -> 0..Disabled(W)] /\ PolicyDefaults \in [Numbers -> 1..(Disabled(W) - 1)]
  BY WaitsAssumption
<1>2. Disabled(W) \in Nat \ {0}
  <2>1. PolicyDefaults[n] \in 1..(Disabled(W) - 1)
    BY <1>1
  <2>2. Disabled(W) \in Int
    <3>1. TwoTo[W \div 2] \in Nat
      BY TwoToIs, ScaleAssumption
    <3> QED BY <3>1 DEF Disabled
  <2> QED BY <2>1, <2>2
<1>3. sicha_policy_resolve(w.p, PolicyDefaults)[n] = IF w.p[n] = 0 THEN PolicyDefaults[n] ELSE w.p[n]
  BY <1>1 DEF sicha_policy_resolve
<1>4. w.p[n] \in 0..Disabled(W) /\ PolicyDefaults[n] \in 1..(Disabled(W) - 1)
  BY <1>1
<1> QED BY <1>2, <1>3, <1>4

LEMMA RetryWaitIs ==
  ASSUME NEW w \in WaitCases
  PROVE  LET wait == RetryWait(W, sicha_policy_resolve(w.p, PolicyDefaults), w.k, w.rand,
                               NoValue, w.retryAfter)
             Means(m) == IF w.p[m] = 0 THEN PolicyDefaults[m] ELSE w.p[m]
             n == IF w.k = 0 THEN 1 ELSE w.k
             j == IF w.p["jitter"] = Disabled(W) THEN 0 ELSE w.rand % Means("jitter")
         IN  wait = IF w.retryAfter # NoValue /\ w.p["retryAfterCap"] # Disabled(W)
                    THEN LesserOf(w.retryAfter, Means("retryAfterCap"))
                    ELSE LesserOf(Means("base") * TwoTo[n - 1] + j, Means("cap"))
<1> DEFINE r == sicha_policy_resolve(w.p, PolicyDefaults)
           D == Disabled(W)
           Means(m) == IF w.p[m] = 0 THEN PolicyDefaults[m] ELSE w.p[m]
           n == IF w.k = 0 THEN 1 ELSE w.k
           j == IF w.p["jitter"] = Disabled(W) THEN 0 ELSE w.rand % Means("jitter")
           wait == RetryWait(W, r, w.k, w.rand, NoValue, w.retryAfter)
<1>1. \A m \in Numbers : r[m] = Means(m) /\ r[m] \in 1..D /\ (r[m] = D <=> w.p[m] = D)
  BY ResolvedIs
<1>2. /\ r.base = Means("base") /\ r.cap = Means("cap") /\ r.jitter = Means("jitter")
      /\ r.retryAfterCap = Means("retryAfterCap")
      /\ r.base \in 1..D /\ r.cap \in 1..D /\ r.jitter \in 1..D /\ r.retryAfterCap \in 1..D
      /\ r.jitter = D <=> w.p["jitter"] = D
      /\ r.retryAfterCap = D <=> w.p["retryAfterCap"] = D
  BY <1>1 DEF Numbers
<1>3. D \in Nat /\ n \in Nat \ {0} /\ w.rand \in Nat /\ w.retryAfter \in Nat \cup {NoValue}
  <2>1. TwoTo[W \div 2] \in Nat \ {0}
    BY TwoToIs, ScaleAssumption
  <2> QED BY <2>1, WaitsAssumption DEF Disabled
<1> HIDE DEF r, D, Means, n
<1>4. CASE w.retryAfter # NoValue /\ w.p["retryAfterCap"] # D
  <2>1. wait = IF w.retryAfter > r.retryAfterCap THEN r.retryAfterCap ELSE w.retryAfter
    BY <1>2, <1>4 DEF RetryWait, D
  <2> HIDE DEF wait
  <2>2. wait = LesserOf(w.retryAfter, Means("retryAfterCap"))
    BY <1>2, <1>3, <1>4, <2>1 DEF LesserOf
  <2> QED BY <1>4, <2>2 DEF wait, r, D, Means, n
<1>5. CASE ~(w.retryAfter # NoValue /\ w.p["retryAfterCap"] # D)
  <2> DEFINE e == Exponential(W, r.base, r.cap, n)
             x == r.base * TwoTo[n - 1]
             h == IF r.jitter \in {0, D} THEN e ELSE AddJitter(W, e, w.rand % r.jitter)
  <2>1. wait = IF h < r.cap THEN h ELSE r.cap
    BY <1>2, <1>5 DEF RetryWait, sicha_backoff_ms, D, n
  <2>2. wait = LesserOf(x + j, r.cap)
    <3> HIDE DEF wait
    <3>1. CASE r.jitter = D
      <4>1. h = e /\ j = 0
        BY <1>2, <3>1 DEF D
      <4>2. (IF e < r.cap THEN e ELSE r.cap) = LesserOf(x + 0, r.cap)
        <5>1. 0 \in 0..D
          BY <1>3
        <5> QED BY <1>2, <1>3, <5>1, BackoffIs DEF D
      <4> HIDE DEF e, h, x, j
      <4> QED BY <2>1, <4>1, <4>2
    <3>2. CASE r.jitter # D
      <4>1. r.jitter \in Nat \ {0} /\ r.jitter <= D
        BY <1>2, <1>3
      <4>2. w.rand % r.jitter \in 0..D
        <5>1. w.rand % r.jitter \in 0..(r.jitter - 1)
          BY <1>3, <4>1, RemainderIs
        <5> QED BY <1>3, <4>1, <5>1
      <4>3. h = AddJitter(W, e, w.rand % r.jitter) /\ j = w.rand % r.jitter
        BY <1>2, <3>2, <4>1 DEF D
      <4> HIDE DEF j, h
      <4>4. (IF h < r.cap THEN h ELSE r.cap) = LesserOf(x + j, r.cap)
        BY <1>2, <1>3, <4>2, <4>3, BackoffIs DEF D
      <4> QED BY <2>1, <4>4
    <3> QED BY <3>1, <3>2
  <2> HIDE DEF wait, j
  <2>3. wait = LesserOf(Means("base") * TwoTo[n - 1] + j, Means("cap"))
    BY <1>2, <2>2
  <2> QED BY <1>5, <2>3 DEF wait, j, r, D, Means, n
<1> QED BY <1>4, <1>5


-----------------------------------------------------------------------------
(* The seconds of a Retry-After.                                           *)

Chars == {Blank, Garbage} \cup 0..(Radix - 1)

Saturated(acc, d) == AddDigit(Radix, Sat, acc, d)
Exact(acc, d) == acc * Radix + d

Saturating == INSTANCE FoldFacts WITH Op <- Saturated
Adding == INSTANCE FoldFacts WITH Op <- Exact

Seconds(s) == FoldLeft(LAMBDA acc, d : AddDigit(Radix, Sat, acc, d), 0, s)
Number(s) == FoldLeft(LAMBDA n, d : n * Radix + d, 0, s)

LEMMA SecondsSteps ==
  /\ Seconds(<<>>) = 0 /\ Number(<<>>) = 0
  /\ \A s \in Seq(0..(Radix - 1)) : \A d \in 0..(Radix - 1) :
       /\ Seconds(Append(s, d)) = AddDigit(Radix, Sat, Seconds(s), d)
       /\ Number(Append(s, d)) = Number(s) * Radix + d
<1>1. \A s : Seconds(s) = Saturating!Fold(0, s)
  BY DEF Seconds, Saturating!Fold, Saturating!FoldLeft, FoldLeft, Saturating!MapThenFoldSet,
         MapThenFoldSet, Saturating!Max, Max, Saturated
<1>2. \A s : Number(s) = Adding!Fold(0, s)
  BY DEF Number, Adding!Fold, Adding!FoldLeft, FoldLeft, Adding!MapThenFoldSet,
         MapThenFoldSet, Adding!Max, Max, Exact
<1>3. Seconds(<<>>) = 0 /\ Number(<<>>) = 0
  BY <1>1, <1>2, Saturating!FoldEmpty, Adding!FoldEmpty
<1>4. ASSUME NEW s \in Seq(0..(Radix - 1)), NEW d \in 0..(Radix - 1)
      PROVE  /\ Seconds(Append(s, d)) = AddDigit(Radix, Sat, Seconds(s), d)
             /\ Number(Append(s, d)) = Number(s) * Radix + d
  <2>1. Saturating!Fold(0, Append(s, d)) = Saturated(Saturating!Fold(0, s), d)
    BY Saturating!FoldAppend
  <2>2. Adding!Fold(0, Append(s, d)) = Exact(Adding!Fold(0, s), d)
    BY Adding!FoldAppend
  <2> QED BY <1>1, <1>2, <2>1, <2>2 DEF Saturated, Exact
<1> QED BY <1>3, <1>4

(* The digit loop computes the number as long as it is small enough, and keeps
   one that is too large too large. *)
LEMMA SecondsAre ==
  ASSUME NEW s \in Seq(0..(Radix - 1))
  PROVE  /\ Seconds(s) \in Nat /\ Number(s) \in Nat
         /\ Seconds(s) = Number(s) \/ (Seconds(s) >= Sat /\ Number(s) >= Sat)
<1> DEFINE D == 0..(Radix - 1)
           T == {t \in Seq(D) : /\ Seconds(t) \in Nat /\ Number(t) \in Nat
                                /\ \/ Seconds(t) = Number(t)
                                   \/ Seconds(t) >= Sat /\ Number(t) >= Sat}
<1>1. <<>> \in T
  BY SecondsSteps
<1>2. ASSUME NEW t \in Seq(D), NEW d \in D, t \in T PROVE Append(t, d) \in T
  <2> DEFINE a == Seconds(t)
             n == Number(t)
             b == IF a > Sat THEN Sat ELSE a * Radix + d
             m == n * Radix + d
  <2>1. Append(t, d) \in Seq(D) /\ Seconds(Append(t, d)) = b /\ Number(Append(t, d)) = m
    BY SecondsSteps DEF AddDigit
  <2>2. a \in Nat /\ n \in Nat /\ (a = n \/ (a >= Sat /\ n >= Sat))
    BY <1>2
  <2>3. Radix \in Nat /\ Radix > 1 /\ Sat \in Nat /\ d \in Nat
    BY ScaleAssumption
  <2> HIDE DEF a, n
  <2>4. \A x \in Nat : x * Radix + d \in Nat /\ x * Radix + d >= x
    <3> TAKE x \in Nat
    <3>1. PICK r \in Nat : Radix = r + 1
      <4>1. Radix - 1 \in Nat /\ Radix = (Radix - 1) + 1
        BY <2>3
      <4> QED BY <4>1
    <3>2. x * Radix = x * r + x /\ x * r \in Nat
      BY <3>1
    <3> QED BY <2>3, <3>2
  <2>5. a * Radix + d \in Nat /\ a * Radix + d >= a /\ m \in Nat /\ m >= n
    BY <2>2, <2>4
  <2>6. b \in Nat /\ (b = m \/ (b >= Sat /\ m >= Sat))
    BY <2>2, <2>3, <2>5
  <2> QED BY <2>1, <2>5, <2>6
<1> HIDE DEF T
<1>3. Seq(D) \subseteq T
  BY <1>1, <1>2, Adding!SeqInductive
<1> QED BY <1>3 DEF T

(* In milliseconds, saturated. *)
LEMMA MillisecondsAre ==
  ASSUME NEW s \in Seq(0..(Radix - 1))
  PROVE  (IF Seconds(s) > Sat \div Kilo THEN Sat ELSE Seconds(s) * Kilo) =
         (LET ms == Number(s) * Kilo IN IF ms < Sat THEN ms ELSE Sat)
<1> DEFINE a == Seconds(s)
           n == Number(s)
<1>1. a \in Nat /\ n \in Nat /\ (a = n \/ (a >= Sat /\ n >= Sat))
  BY SecondsAre
<1>2. Kilo \in Nat \ {0} /\ Sat \in Nat
  BY ScaleAssumption
<1> HIDE DEF a, n
<1>3. a > Sat \div Kilo <=> a * Kilo > Sat
  BY <1>1, <1>2, DivIs
<1>4. \A x \in Nat : x * Kilo \in Nat /\ x * Kilo >= x
  <2> TAKE x \in Nat
  <2>1. PICK r \in Nat : Kilo = r + 1
    <3>1. Kilo - 1 \in Nat /\ Kilo = (Kilo - 1) + 1
      BY <1>2
    <3> QED BY <3>1
  <2>2. x * Kilo = x * r + x /\ x * r \in Nat
    BY <2>1
  <2> QED BY <2>2
<1>5. a * Kilo \in Nat /\ a * Kilo >= a /\ n * Kilo \in Nat /\ n * Kilo >= n
  BY <1>1, <1>4
<1>6. (IF a > Sat \div Kilo THEN Sat ELSE a * Kilo) = IF n * Kilo < Sat THEN n * Kilo ELSE Sat
  <2> DEFINE ak == a * Kilo
             nk == n * Kilo
  <2>1. a = n => ak = nk
    OBVIOUS
  <2>2. ak \in Nat /\ ak >= a /\ nk \in Nat /\ nk >= n
    BY <1>5
  <2>3. a > Sat \div Kilo <=> ak > Sat
    BY <1>3
  <2> HIDE DEF ak, nk
  <2>4. (IF ak > Sat THEN Sat ELSE ak) = IF nk < Sat THEN nk ELSE Sat
    BY <1>1, <1>2, <2>1, <2>2
  <2> QED BY <2>3, <2>4 DEF ak, nk
<1> QED BY <1>6 DEF a, n


LEMMA GreatestUpTo ==
  ASSUME NEW n \in Nat, NEW T \in SUBSET (0..n), T # {}
  PROVE  \E x \in T : \A y \in T : y <= x
<1> DEFINE U == {z \in Nat : \E x \in T : z = n - x}
<1>1. U \in SUBSET Nat /\ U # {}
  <2>1. PICK x \in T : x \in 0..n
    OBVIOUS
  <2>2. n - x \in U
    BY <2>1
  <2> QED BY <2>2
<1>2. PICK z \in U : \A y \in U : z <= y
  BY <1>1, LeastNat
<1>3. PICK x \in T : z = n - x
  BY <1>2
<1>4. ASSUME NEW y \in T PROVE y <= x
  <2>1. y \in 0..n /\ x \in 0..n /\ n - y \in Nat
    OBVIOUS
  <2>2. n - y \in U
    BY <2>1
  <2> HIDE DEF U
  <2>3. n - x <= n - y
    BY <1>2, <1>3, <2>2
  <2> QED BY <2>1, <2>3
<1> QED BY <1>4

(* A part of a sequence, possibly an empty one. *)
LEMMA PartOf ==
  ASSUME NEW S, NEW s \in Seq(S), NEW m \in Nat, NEW n \in Nat, 1 <= m, m <= n + 1, n <= Len(s)
  PROVE  /\ SubSeq(s, m, n) \in Seq(S) /\ Len(SubSeq(s, m, n)) = n - m + 1
         /\ \A k \in 1..(n - m + 1) : SubSeq(s, m, n)[k] = s[m + k - 1]
<1>1. \A k \in m..n : s[k] \in S
  OBVIOUS
<1>2. n - m + 1 = IF m <= n THEN n - m + 1 ELSE 0
  OBVIOUS
<1> QED BY <1>1, <1>2, SubSeqProperties

(* Blanks are skipped up to the first character that is none. *)
LEMMA SkipBlanksIs ==
  ASSUME NEW s \in Seq(Chars)
  PROVE  \/ SkipBlanks(s) = <<>> /\ \A k \in 1..Len(s) : s[k] = Blank
         \/ \E f \in 1..Len(s) : /\ s[f] # Blank /\ \A k \in 1..(f - 1) : s[k] = Blank
                                 /\ SkipBlanks(s) = SubSeq(s, f, Len(s))
<1> DEFINE ink == {k \in DOMAIN s : s[k] # Blank}
           f == CHOOSE k \in ink : \A j \in ink : k <= j
<1>1. DOMAIN s = 1..Len(s) /\ Len(s) \in Nat
  OBVIOUS
<1>2. CASE ink = {}
  BY <1>1, <1>2 DEF SkipBlanks
<1>3. CASE ink # {}
  <2>1. ink \in SUBSET Nat
    BY <1>1
  <2>2. f \in ink /\ \A j \in ink : f <= j
    BY <1>3, <2>1, LeastNat
  <2>3. SkipBlanks(s) = SubSeq(s, f, Len(s))
    BY <1>3 DEF SkipBlanks
  <2> HIDE DEF f
  <2>4. f \in 1..Len(s) /\ s[f] # Blank
    BY <1>1, <2>2
  <2>5. ASSUME NEW k \in 1..(f - 1) PROVE s[k] = Blank
    <3>1. k \in DOMAIN s /\ ~(f <= k)
      BY <1>1, <2>4
    <3> QED BY <2>2, <3>1
  <2> QED BY <2>3, <2>4, <2>5
<1> QED BY <1>2, <1>3

LEMMA DigitPrefixIs ==
  ASSUME NEW s \in Seq(Chars)
  PROVE  \E d \in 0..Len(s) : /\ DigitPrefix(s) = SubSeq(s, 1, d)
                              /\ \A k \in 1..d : IsDigit(s[k])
                              /\ d < Len(s) => ~IsDigit(s[d + 1])
<1> DEFINE ends == {k \in 0..Len(s) : \A j \in 1..k : IsDigit(s[j])}
           d == CHOOSE k \in ends : \A j \in ends : j <= k
<1>1. Len(s) \in Nat /\ 0 \in ends /\ ends \in SUBSET (0..Len(s))
  OBVIOUS
<1>2. d \in ends /\ \A j \in ends : j <= d
  <2> HIDE DEF ends
  <2>1. \E k \in ends : \A j \in ends : j <= k
    BY <1>1, GreatestUpTo
  <2> QED BY <2>1
<1>3. DigitPrefix(s) = SubSeq(s, 1, d)
  BY DEF DigitPrefix
<1> HIDE DEF d
<1>4. d \in 0..Len(s) /\ \A k \in 1..d : IsDigit(s[k])
  BY <1>2
<1>5. ASSUME d < Len(s), IsDigit(s[d + 1]) PROVE FALSE
  <2>1. d + 1 \in 0..Len(s) /\ \A j \in 1..(d + 1) : j = d + 1 \/ j \in 1..d
    BY <1>1, <1>4, <1>5
  <2>2. d + 1 \in ends
    BY <1>4, <1>5, <2>1
  <2> QED BY <1>2, <1>4, <2>2
<1> QED BY <1>3, <1>4, <1>5

Ink(v) == SkipBlanks(v)
Digits(v) == DigitPrefix(Ink(v))
Behind(v) == SkipBlanks(SubSeq(Ink(v), Len(Digits(v)) + 1, Len(Ink(v))))

LEMMA PlaceBehind ==
  ASSUME NEW a \in Nat, NEW b \in Nat, NEW M \in Nat, NEW n \in Nat, NEW k \in Nat,
         n = b - a + 1, 1 <= a, a <= b, k > 0, n + k <= M - a + 1
  PROVE  n + k \in 1..(M - a + 1) /\ a + (n + k) - 1 \in 1..M /\ ~(a + (n + k) - 1 <= b)
OBVIOUS

(* A number with nothing but blanks around it is what the loops read. *)
LEMMA NumberIsRead ==
  ASSUME NEW v \in Seq(Chars), NEW a \in DOMAIN v, NEW b \in DOMAIN v, a <= b, Spans(v, a, b)
  PROVE  Digits(v) = SubSeq(v, a, b) /\ Digits(v) # <<>> /\ Behind(v) = <<>>
<1> DEFINE L == Len(v)
           s == SubSeq(v, a, L)
           n == b - a + 1
<1>1. DOMAIN v = 1..L /\ L \in Nat /\ a \in 1..L /\ b \in 1..L /\ n \in Nat /\ n > 0
  OBVIOUS
<1>2. /\ \A k \in 1..L : IsDigit(v[k]) <=> (a <= k /\ k <= b)
      /\ \A k \in 1..L : ~(a <= k /\ k <= b) => v[k] = Blank
  BY <1>1 DEF Spans
<1>3. ~IsDigit(Blank)
  BY DEF IsDigit, Blank
<1>4. Ink(v) = s
  <2>1. v[a] # Blank
    BY <1>1, <1>2, <1>3
  <2>2. PICK f \in 1..L : /\ v[f] # Blank /\ \A k \in 1..(f - 1) : v[k] = Blank
                          /\ SkipBlanks(v) = SubSeq(v, f, L)
    BY <1>1, <2>1, SkipBlanksIs
  <2>3. ~(f < a)
    BY <1>1, <1>2, <2>2
  <2>4. ~(a < f)
    BY <1>1, <2>1, <2>2
  <2>5. f = a
    BY <1>1, <2>3, <2>4
  <2> QED BY <2>2, <2>5 DEF Ink
<1>5. /\ s \in Seq(Chars) /\ Len(s) = L - a + 1
      /\ \A k \in 1..(L - a + 1) : s[k] = v[a + k - 1]
  <2>1. a \in Nat /\ L \in Nat /\ 1 <= a /\ a <= L + 1 /\ L <= Len(v)
    BY <1>1
  <2> QED BY <2>1, PartOf
<1> HIDE DEF s, L
<1>6. PICK d \in 0..Len(s) : /\ DigitPrefix(s) = SubSeq(s, 1, d)
                             /\ \A k \in 1..d : IsDigit(s[k])
                             /\ d < Len(s) => ~IsDigit(s[d + 1])
  BY <1>5, DigitPrefixIs
<1>7. \A k \in 1..Len(s) : IsDigit(s[k]) <=> k <= n
  <2> TAKE k \in 1..Len(s)
  <2>1. a + k - 1 \in 1..L /\ s[k] = v[a + k - 1]
    BY <1>1, <1>5
  <2>2. (a <= a + k - 1 /\ a + k - 1 <= b) <=> k <= n
    BY <1>1, <1>5
  <2> QED BY <1>2, <2>1, <2>2
<1>8. d = n
  <2>1. n <= Len(s) /\ Len(s) \in Nat /\ d \in Nat /\ d <= Len(s)
    BY <1>1, <1>5, <1>6
  <2>2. ~(d > n)
    <3>1. d > n => d \in 1..Len(s) /\ d \in 1..d
      BY <1>1, <2>1
    <3> QED BY <1>1, <1>6, <1>7, <2>1, <3>1
  <2>3. ~(d < n)
    <3>1. d < n => d < Len(s) /\ d + 1 \in 1..Len(s) /\ d + 1 <= n
      BY <1>1, <2>1
    <3> QED BY <1>6, <1>7, <3>1
  <2> QED BY <1>1, <2>1, <2>2, <2>3
<1>9. Digits(v) = SubSeq(s, 1, n)
  BY <1>4, <1>6, <1>8 DEF Digits
<1>10. SubSeq(s, 1, n) = SubSeq(v, a, b)
  <2> DEFINE x == SubSeq(s, 1, n)
             y == SubSeq(v, a, b)
  <2>1. x \in Seq(Chars) /\ Len(x) = n /\ \A k \in 1..n : x[k] = s[k]
    <3>1. 1 \in 1..(Len(s) + 1) /\ n \in 0..Len(s) /\ n - 1 + 1 = n
      BY <1>1, <1>5
    <3>2. \A k \in 1..n : 1 + k - 1 = k
      BY <1>1
    <3>3. n <= Len(s) /\ n \in Nat /\ 1 <= n + 1
      BY <1>1, <1>5
    <3> HIDE DEF n
    <3> QED BY <1>5, <3>1, <3>2, <3>3, PartOf
  <2>2. y \in Seq(Chars) /\ Len(y) = n /\ \A k \in 1..n : y[k] = v[a + k - 1]
    <3>1. a \in Nat /\ b \in Nat /\ 1 <= a /\ a <= b + 1 /\ b <= Len(v)
      BY <1>1 DEF L
    <3> QED BY <3>1, PartOf
  <2> HIDE DEF x, y
  <2>3. \A k \in 1..Len(x) : x[k] = y[k]
    <3>1. \A k \in 1..n : k \in 1..(L - a + 1)
      BY <1>1
    <3> QED BY <1>5, <2>1, <2>2, <3>1
  <2>4. x = y
    BY <2>1, <2>2, <2>3, SeqEqual
  <2> QED BY <2>4 DEF x, y
<1>11. Len(Digits(v)) = n /\ Digits(v) # <<>>
  <2>1. Len(SubSeq(v, a, b)) = n
    <3>1. a \in Nat /\ b \in Nat /\ 1 <= a /\ a <= b + 1 /\ b <= Len(v)
      BY <1>1 DEF L
    <3> QED BY <3>1, PartOf
  <2>2. Len(<<>>) = 0
    BY EmptySeq
  <2>3. Len(Digits(v)) = n
    BY <1>9, <1>10, <2>1
  <2> QED BY <1>1, <2>2, <2>3
<1>12. Behind(v) = <<>>
  <2> DEFINE t == SubSeq(s, n + 1, Len(s))
  <2>1. /\ t \in Seq(Chars) /\ Len(t) = Len(s) - n
        /\ \A k \in 1..(Len(s) - n) : t[k] = s[n + k]
    <3>1. n + 1 \in Nat /\ n \in Nat /\ Len(s) \in Nat /\ n + 1 <= Len(s) + 1
      BY <1>1, <1>5
    <3> HIDE DEF n
    <3>2. /\ t \in Seq(Chars) /\ Len(t) = Len(s) - (n + 1) + 1
          /\ \A k \in 1..(Len(s) - (n + 1) + 1) : t[k] = s[(n + 1) + k - 1]
      BY <1>5, <3>1, PartOf
    <3> HIDE DEF t
    <3>3. Len(s) - (n + 1) + 1 = Len(s) - n
      BY <3>1
    <3>4. ASSUME NEW k \in 1..(Len(s) - n) PROVE t[k] = s[n + k]
      <4>1. k \in 1..(Len(s) - (n + 1) + 1) /\ (n + 1) + k - 1 = n + k
        BY <3>1
      <4>2. t[k] = s[(n + 1) + k - 1]
        BY <3>2, <4>1
      <4> QED BY <4>1, <4>2
    <3> QED BY <3>2, <3>3, <3>4
  <2>2. Behind(v) = SkipBlanks(t)
    BY <1>4, <1>11 DEF Behind
  <2> HIDE DEF t
  <2>3. \A k \in 1..Len(t) : t[k] = Blank
    <3> TAKE k \in 1..Len(t)
    <3> HIDE DEF n
    <3>1. n + k \in 1..Len(s) /\ ~(n + k <= n) /\ t[k] = s[n + k]
      <4>1. k \in Nat /\ 1 <= k /\ k <= Len(s) - n /\ n \in Nat /\ Len(s) \in Nat
        BY <1>1, <1>5, <2>1 DEF n
      <4> QED BY <2>1, <4>1
    <3>2. n + k \in 1..(L - a + 1) /\ a + (n + k) - 1 \in 1..L /\ ~(a + (n + k) - 1 <= b)
      <4>1. k \in Nat /\ k > 0 /\ n + k <= L - a + 1
        <5>1. k \in Nat /\ k > 0 /\ k <= Len(t) /\ Len(t) = Len(s) - n /\ n \in Nat
          BY <1>1, <2>1 DEF n
        <5>2. Len(s) = L - a + 1 /\ L - a + 1 \in Nat
          BY <1>1, <1>5
        <5> HIDE DEF n
        <5> QED BY <5>1, <5>2
      <4>2. /\ n = b - a + 1 /\ a \in Nat /\ b \in Nat /\ n \in Nat
            /\ 1 <= a /\ a <= b /\ L \in Nat
        BY <1>1 DEF n
      <4> QED BY <4>1, <4>2, PlaceBehind
    <3>3. s[n + k] = v[a + (n + k) - 1]
      BY <1>5, <3>2
    <3> QED BY <1>2, <3>1, <3>2, <3>3
  <2>4. SkipBlanks(t) = <<>>
    BY <2>1, <2>3, SkipBlanksIs
  <2> QED BY <2>2, <2>4
<1> QED BY <1>9, <1>10, <1>11, <1>12

(* What the loops read is a number with nothing but blanks around it. *)
LEMMA ReadIsNumber ==
  ASSUME NEW v \in Seq(Chars), Digits(v) # <<>>, Behind(v) = <<>>
  PROVE  \E a, b \in DOMAIN v : a <= b /\ Spans(v, a, b)
<1> DEFINE L == Len(v)
           s == Ink(v)
<1>1. DOMAIN v = 1..L /\ L \in Nat
  OBVIOUS
<1>2. DigitPrefix(<<>>) = <<>>
  <2>1. <<>> \in Seq(Chars) /\ Len(<<>>) = 0
    BY EmptySeq
  <2>2. PICK d \in 0..Len(<<>>) : DigitPrefix(<<>>) = SubSeq(<<>>, 1, d)
    BY <2>1, DigitPrefixIs
  <2>3. d = 0 /\ SubSeq(<<>>, 1, 0) = <<>>
    BY <2>1, <2>2
  <2> QED BY <2>2, <2>3
<1>3. s # <<>>
  BY <1>2 DEF Digits
<1>4. PICK f \in 1..L : /\ v[f] # Blank /\ \A k \in 1..(f - 1) : v[k] = Blank
                        /\ s = SubSeq(v, f, L)
  BY <1>3, SkipBlanksIs DEF Ink
<1>5. /\ s \in Seq(Chars) /\ Len(s) = L - f + 1
      /\ \A k \in 1..(L - f + 1) : s[k] = v[f + k - 1]
  BY <1>1, <1>4, SubSeqProperties
<1>6. PICK d \in 0..Len(s) : /\ DigitPrefix(s) = SubSeq(s, 1, d)
                             /\ \A k \in 1..d : IsDigit(s[k])
                             /\ d < Len(s) => ~IsDigit(s[d + 1])
  <2> HIDE DEF s
  <2> QED BY <1>5, DigitPrefixIs
<1>7. Digits(v) = SubSeq(s, 1, d) /\ Behind(v) = SkipBlanks(SubSeq(s, Len(Digits(v)) + 1, Len(s)))
  BY <1>6 DEF Digits, Behind
<1> HIDE DEF s, L
<1>8. Len(Digits(v)) = d /\ d # 0 /\ d \in Nat /\ d <= Len(s) /\ Len(s) \in Nat
  <2>1. 1 \in 1..(Len(s) + 1) /\ d \in Nat /\ Len(s) \in Nat /\ d <= Len(s)
    BY <1>1, <1>5, <1>6
  <2>2. Len(SubSeq(s, 1, d)) = d /\ SubSeq(s, 1, d) \in Seq(Chars)
    BY <1>5, <1>6, <2>1, SubSeqProperties
  <2> QED BY <1>7, <2>1, <2>2, EmptySeq
<1> DEFINE t == SubSeq(s, d + 1, Len(s))
           b == f + d - 1
<1>9. t \in Seq(Chars) /\ Len(t) = Len(s) - d /\ \A k \in 1..(Len(s) - d) : t[k] = s[d + k]
  <2>1. d + 1 \in 1..(Len(s) + 1) /\ Len(s) \in 0..Len(s)
    BY <1>8
  <2> QED BY <1>5, <1>8, <2>1, SubSeqProperties
<1>10. SkipBlanks(t) = <<>>
  BY <1>7, <1>8
<1> HIDE DEF t
<1>11. \A k \in 1..Len(t) : t[k] = Blank
  <2>1. ASSUME NEW g \in 1..Len(t), SkipBlanks(t) = SubSeq(t, g, Len(t)) PROVE FALSE
    <3>1. Len(SubSeq(t, g, Len(t))) = Len(t) - g + 1 /\ Len(t) - g + 1 > 0
      BY <1>8, <1>9, SubSeqProperties
    <3>2. Len(<<>>) = 0
      BY EmptySeq
    <3>3. SubSeq(t, g, Len(t)) = <<>>
      BY <1>10, <2>1
    <3> QED BY <3>1, <3>2, <3>3
  <2> QED BY <1>9, <2>1, SkipBlanksIs
<1>12. f \in 1..L /\ b \in 1..L /\ f <= b
  BY <1>1, <1>5, <1>8
<1>13. ~IsDigit(Blank)
  BY DEF IsDigit, Blank
<1>14. ASSUME NEW k \in 1..L
       PROVE  /\ IsDigit(v[k]) <=> k \in f..b
              /\ k \notin f..b => v[k] = Blank
  <2>1. CASE k < f
    <3>1. k \in 1..(f - 1)
      BY <1>1, <2>1
    <3> QED BY <1>4, <1>13, <2>1, <3>1
  <2>2. CASE k \in f..b
    <3>1. k - f + 1 \in 1..d /\ k - f + 1 \in 1..(L - f + 1) /\ f + (k - f + 1) - 1 = k
      BY <1>1, <1>5, <1>8, <2>2
    <3>2. v[k] = s[k - f + 1]
      BY <1>5, <3>1
    <3> QED BY <1>6, <2>2, <3>1, <3>2
  <2>3. CASE k > b
    <3> DEFINE m == k - f + 1 - d
    <3>1. m \in 1..(Len(s) - d) /\ d + m \in 1..(L - f + 1) /\ f + (d + m) - 1 = k
      BY <1>1, <1>5, <1>8, <2>3
    <3>2. m \in 1..Len(t) /\ t[m] = s[d + m] /\ s[d + m] = v[k]
      BY <1>5, <1>9, <3>1
    <3>3. v[k] = Blank
      BY <1>11, <3>2
    <3> QED BY <1>13, <2>3, <3>3
  <2> QED BY <1>1, <1>8, <2>1, <2>2, <2>3
<1>15. Spans(v, f, b)
  BY <1>1, <1>14 DEF Spans, L
<1> QED BY <1>1, <1>12, <1>15 DEF L


(* A digit is a character that is a number below the radix. *)
LEMMA DigitsAre ==
  ASSUME NEW v \in Seq(Chars), NEW a \in DOMAIN v, NEW b \in DOMAIN v, a <= b, Spans(v, a, b)
  PROVE  SubSeq(v, a, b) \in Seq(0..(Radix - 1))
<1> DEFINE y == SubSeq(v, a, b)
<1>1. DOMAIN v = 1..Len(v) /\ Len(v) \in Nat /\ a \in 1..Len(v) /\ b \in 1..Len(v)
  OBVIOUS
<1>2. y \in Seq(Chars) /\ Len(y) = b - a + 1 /\ \A k \in 1..(b - a + 1) : y[k] = v[a + k - 1]
  BY <1>1, SubSeqProperties
<1> HIDE DEF y
<1>3. ASSUME NEW k \in 1..Len(y) PROVE y[k] \in 0..(Radix - 1)
  <2>1. a + k - 1 \in 1..Len(v) /\ a <= a + k - 1 /\ a + k - 1 <= b /\ a + k - 1 \in a..b
    BY <1>1, <1>2
  <2>2. IsDigit(v[a + k - 1]) /\ v[a + k - 1] \in Chars /\ y[k] = v[a + k - 1]
    BY <1>1, <1>2, <2>1 DEF Spans
  <2> QED BY <2>2 DEF IsDigit, Chars, Blank, Garbage
<1>4. y \in [1..Len(y) -> 0..(Radix - 1)]
  <2>1. y = [k \in 1..Len(y) |-> y[k]]
    BY <1>2
  <2> HIDE DEF y
  <2> QED BY <1>3, <2>1
<1>5. Len(y) \in Nat
  BY <1>2
<1>6. Seq(0..(Radix - 1)) = UNION {[1..n -> 0..(Radix - 1)] : n \in Nat}
  BY SeqDef
<1>7. y \in UNION {[1..n -> 0..(Radix - 1)] : n \in Nat}
  <2> DEFINE m == Len(y)
             F(n) == [1..n -> 0..(Radix - 1)]
  <2>1. m \in Nat /\ y \in F(m)
    BY <1>4, <1>5
  <2> HIDE DEF m, F
  <2>2. y \in UNION {F(n) : n \in Nat}
    BY <2>1
  <2> QED BY <2>2 DEF F
<1> HIDE DEF Spans
<1>8. y \in Seq(0..(Radix - 1))
  BY <1>6, <1>7, Zenon
<1> QED BY <1>8 DEF y

TextReply(v) == sicha_retry_after_ms(Radix, Sat, Kilo, NoValue, v)

LEMMA ReplyIs ==
  ASSUME NEW v
  PROVE  TextReply(v) =
           IF Digits(v) = <<>> \/ Behind(v) # <<>> THEN NoValue
           ELSE IF Seconds(Digits(v)) > Sat \div Kilo THEN Sat
           ELSE Seconds(Digits(v)) * Kilo
  BY DEF TextReply, sicha_retry_after_ms, Ink, Digits, Behind, Seconds

FieldsReply(fields) ==
  RetryAfterAsked(Radix, Sat, Kilo, RetryAfterRoom, NoValue, fields)

(* Of the headers the last is read, as far as the buffer holds it. *)
LEMMA FieldsReplyIs ==
  ASSUME NEW fields \in Seq(Seq(Chars)), fields # <<>>
  PROVE  /\ WhatCounts(fields) \in Seq(Chars)
         /\ FieldsReply(fields) = TextReply(WhatCounts(fields))
<1> DEFINE value == fields[Len(fields)]
           n == LesserOf(Len(value), RetryAfterRoom)
<1>1. value \in Seq(Chars)
  OBVIOUS
<1>2. n \in Nat /\ n <= Len(value) /\ RetryAfterRoom \in Nat
  BY <1>1, ScaleAssumption DEF LesserOf
<1>3. n = IF Len(value) > RetryAfterRoom THEN RetryAfterRoom ELSE Len(value)
  BY <1>1, <1>2 DEF LesserOf
<1>4. WhatCounts(fields) = [k \in 1..n |-> value[k]]
  BY DEF WhatCounts
<1>5. Last(fields) = value
  BY DEF Last
<1>6. retry_after(RetryAfterRoom, fields) = SubSeq(value, 1, n)
  BY <1>3, <1>5 DEF retry_after
<1> HIDE DEF value, n
<1>7. SubSeq(value, 1, n) \in Seq(Chars) /\ SubSeq(value, 1, n) = [k \in 1..n |-> value[k]]
  BY <1>1, <1>2
<1>8. WhatCounts(fields) = retry_after(RetryAfterRoom, fields)
  BY <1>4, <1>6, <1>7
<1> QED BY <1>4, <1>7, <1>8 DEF FieldsReply, RetryAfterAsked, TextReply

(* The answers to the questions about waiting. *)
WaitReply(w) ==
  RetryWait(W, sicha_policy_resolve(w.p, PolicyDefaults), w.k, w.rand, NoValue, w.retryAfter)

WaitsInv ==
  /\ query.op = "text" => query \in TextQueries /\ answer \in {<<>>, <<FieldsReply(query.fields)>>}
  /\ query.op = "wait" => query \in WaitQueries /\ answer \in {<<>>, <<WaitReply(query.w)>>}

LEMMA WaitsInvHolds == ClassifySpec => []WaitsInv
<1>1. ClassifyInit => WaitsInv
  BY DEF ClassifyInit, WaitsInv, ClassQueries, TextQueries, WaitQueries
<1>2. WaitsInv /\ [ClassifyNext]_checkVars => WaitsInv'
  BY DEF WaitsInv, ClassifyNext, AskClass, AskText, AskWait, Reply, checkVars, FieldsReply,
         WaitReply, TextQueries, WaitQueries
<1> QED BY <1>1, <1>2, PTL DEF ClassifySpec

LEMMA TextAnswers ==
  ASSUME WaitsInv
  PROVE  RetryAfterAsWritten
<1> SUFFICES ASSUME Answered("text") PROVE RetryAfterAsWritten
  BY DEF RetryAfterAsWritten
<1>a. query.fields \in Seq(Seq(Chars)) /\ answer = <<FieldsReply(query.fields)>>
  BY QueriesAssumption DEF WaitsInv, Answered, TextQueries, Chars
<1>b. CASE query.fields = <<>>
  BY <1>a, <1>b DEF RetryAfterAsWritten, FieldsReply, RetryAfterAsked
<1> SUFFICES ASSUME query.fields # <<>> PROVE RetryAfterAsWritten
  BY <1>b
<1> DEFINE v == WhatCounts(query.fields)
           spans == {ab \in (DOMAIN v) \X (DOMAIN v) : ab[1] <= ab[2] /\ Spans(v, ab[1], ab[2])}
           Written(ab) == LET ms == NumberAt(v, ab[1], ab[2]) * Kilo IN IF ms < Sat THEN ms ELSE Sat
<1>1. v \in Seq(Chars) /\ answer[1] = TextReply(v)
  BY <1>a, FieldsReplyIs
<1> HIDE DEF v
<1>2. CASE spans = {}
  <2>1. ~(Digits(v) # <<>> /\ Behind(v) = <<>>)
    <3> SUFFICES ASSUME Digits(v) # <<>>, Behind(v) = <<>> PROVE FALSE
      OBVIOUS
    <3>1. PICK a, b \in DOMAIN v : a <= b /\ Spans(v, a, b)
      BY <1>1, ReadIsNumber
    <3>2. <<a, b>> \in spans
      BY <3>1
    <3> QED BY <1>2, <3>2
  <2>2. answer[1] = NoValue
    BY <1>1, <2>1, ReplyIs
  <2> QED BY <1>2, <2>2 DEF RetryAfterAsWritten, v
<1>3. CASE spans # {}
  <2>1. ASSUME NEW ab \in spans PROVE answer[1] = Written(ab)
    <3> DEFINE a == ab[1]
               b == ab[2]
               y == SubSeq(v, a, b)
    <3>1. a \in DOMAIN v /\ b \in DOMAIN v /\ a <= b /\ Spans(v, a, b)
      OBVIOUS
    <3>2. NumberAt(v, a, b) = Number(y)
      BY DEF NumberAt, Number
    <3> HIDE DEF a, b
    <3>3. Digits(v) = y /\ Digits(v) # <<>> /\ Behind(v) = <<>>
      BY <1>1, <3>1, NumberIsRead
    <3>4. y \in Seq(0..(Radix - 1))
      BY <1>1, <3>1, DigitsAre
    <3> HIDE DEF y
    <3>5. answer[1] = IF Seconds(y) > Sat \div Kilo THEN Sat ELSE Seconds(y) * Kilo
      BY <1>1, <3>3, ReplyIs, Zenon
    <3>6. answer[1] = LET ms == Number(y) * Kilo IN IF ms < Sat THEN ms ELSE Sat
      BY <3>4, <3>5, MillisecondsAre
    <3> QED BY <3>2, <3>6 DEF a, b
  <2> HIDE DEF Written
  <2>2. \A ab \in spans : answer[1] = Written(ab)
    BY <2>1
  <2> QED BY <1>3, <2>2 DEF RetryAfterAsWritten, v, Written
<1> QED BY <1>2, <1>3

LEMMA WaitAnswers ==
  ASSUME WaitsInv
  PROVE  WaitFollowsFormula
<1> SUFFICES ASSUME Answered("wait") PROVE WaitFollowsFormula
  BY DEF WaitFollowsFormula
<1>1. query.w \in WaitCases /\ answer[1] = WaitReply(query.w)
  <2>1. query \in WaitQueries /\ answer = <<WaitReply(query.w)>>
    BY DEF WaitsInv, Answered
  <2> QED BY <2>1 DEF WaitQueries
<1> QED BY <1>1, RetryWaitIs DEF WaitFollowsFormula, WaitReply, Meant, Off

(* What a call waits before it retries is what sicha.h says: the number its
   server wrote in Retry-After, in milliseconds and saturating, of whatever
   length and with whatever blanks around it, and otherwise the backoff
   formula over the integers, although it is computed in words of W bits. *)
THEOREM WaitsAreDocumented == ClassifySpec => []WaitAsDocumented
<1>1. WaitsInv => WaitAsDocumented
  BY TextAnswers, WaitAnswers DEF WaitAsDocumented
<1> QED BY <1>1, WaitsInvHolds, PTL

-----------------------------------------------------------------------------
(* The body of a request: Request as RequestCheck asks it.                   *)

OwnNames ==
  {"model", "messages", "stream", "stream_options", "stop", "response_format"}
  \cup {Params[n] : n \in 1..6}

\* The provers do not know that a literal is a STRING.
Member == [key : STRING \cup OwnNames, from : Nat]

Merging == INSTANCE FoldFacts WITH Op <- MergeMember

(* Without, as the run over the members that computes it. *)
IsKept(g, s, keys) ==
  g = [n \in 0..Len(s) |->
         IF n = 0 THEN <<>>
         ELSE IF s[n].key \in keys THEN g[n - 1] ELSE Append(g[n - 1], s[n])]

LEMMA KeptStep ==
  ASSUME NEW s, NEW keys, NEW g, IsKept(g, s, keys), NEW n \in 0..Len(s), n # 0
  PROVE  g[n] = IF s[n].key \in keys THEN g[n - 1] ELSE Append(g[n - 1], s[n])
<1> DEFINE G(f, m) == IF m = 0 THEN <<>>
                      ELSE IF s[m].key \in keys THEN f[m - 1] ELSE Append(f[m - 1], s[m])
<1>1. g = [m \in 0..Len(s) |-> G(g, m)]
  BY DEF IsKept
<1> HIDE DEF G
<1>2. g[n] = G(g, n)
  BY <1>1
<1> QED BY <1>2 DEF G

LEMMA KeptExtends ==
  ASSUME NEW s \in Seq(Member), NEW m \in Member, NEW keys, NEW g, IsKept(g, s, keys)
  PROVE  \E h : /\ IsKept(h, Append(s, m), keys)
                /\ h[Len(s) + 1] = IF m.key \in keys THEN g[Len(s)] ELSE Append(g[Len(s)], m)
<1> DEFINE t == Append(s, m)
           Size == Len(s)
           last == IF m.key \in keys THEN g[Size] ELSE Append(g[Size], m)
           h == [n \in 0..(Size + 1) |-> IF n = Size + 1 THEN last ELSE g[n]]
<1>1. Size \in Nat /\ Len(t) = Size + 1 /\ t[Size + 1] = m /\ \A n \in 1..Size : t[n] = s[n]
  BY AppendProperties
<1> HIDE DEF t, Size
<1>2. ASSUME NEW n \in 0..(Size + 1)
      PROVE  h[n] = IF n = 0 THEN <<>>
                    ELSE IF t[n].key \in keys THEN h[n - 1] ELSE Append(h[n - 1], t[n])
  <2>1. CASE n = 0
    <3>1. g[0] = <<>>
      BY <1>1 DEF IsKept, Size
    <3> QED BY <1>1, <2>1, <3>1
  <2>2. CASE n \in 1..Size
    <3>1. g[n] = IF s[n].key \in keys THEN g[n - 1] ELSE Append(g[n - 1], s[n])
      <4>1. n \in 0..Len(s) /\ n # 0
        BY <1>1, <2>2 DEF Size
      <4> QED BY <4>1, KeptStep
    <3>2. h[n] = g[n] /\ h[n - 1] = g[n - 1] /\ t[n] = s[n] /\ n # 0
      BY <1>1, <2>2
    <3> HIDE DEF h
    <3> QED BY <3>1, <3>2
  <2>3. CASE n = Size + 1
    <3>1. h[n] = last /\ h[n - 1] = g[Size] /\ t[n] = m /\ n # 0
      BY <1>1, <2>3
    <3> HIDE DEF h
    <3> QED BY <3>1
  <2> QED BY <1>1, <2>1, <2>2, <2>3
<1>3. h = [n \in 0..(Size + 1) |->
             IF n = 0 THEN <<>>
             ELSE IF t[n].key \in keys THEN h[n - 1] ELSE Append(h[n - 1], t[n])]
  BY <1>2
<1>4. IsKept(h, t, keys)
  BY <1>1, <1>3 DEF IsKept
<1>5. h[Size + 1] = last
  BY <1>1
<1> QED BY <1>4, <1>5 DEF t, Size

LEMMA KeptExists == ASSUME NEW s \in Seq(Member), NEW keys PROVE \E g : IsKept(g, s, keys)
<1> DEFINE T == {t \in Seq(Member) : \E g : IsKept(g, t, keys)}
<1>1. <<>> \in T
  <2> DEFINE g == [n \in 0..0 |-> <<>>]
  <2>1. IsKept(g, <<>>, keys)
    BY EmptySeq DEF IsKept
  <2> QED BY <2>1, EmptySeq
<1>2. ASSUME NEW t \in Seq(Member), NEW m \in Member, t \in T PROVE Append(t, m) \in T
  BY <1>2, KeptExtends, AppendProperties
<1> HIDE DEF T
<1>3. Seq(Member) \subseteq T
  BY <1>1, <1>2, Merging!SeqInductive
<1> QED BY <1>3 DEF T

LEMMA KeptUnique ==
  ASSUME NEW s, Len(s) \in Nat, NEW keys, NEW g, NEW h, IsKept(g, s, keys), IsKept(h, s, keys)
  PROVE  g = h
<1> DEFINE T == {n \in Nat : n <= Len(s) => g[n] = h[n]}
<1>1. 0 \in T
  BY DEF IsKept
<1>2. ASSUME NEW n \in Nat, n \in T PROVE n + 1 \in T
  <2> SUFFICES ASSUME n + 1 <= Len(s) PROVE g[n + 1] = h[n + 1]
    OBVIOUS
  <2>1. n + 1 \in 0..Len(s) /\ n + 1 # 0 /\ (n + 1) - 1 = n /\ g[n] = h[n]
    BY <1>2
  <2> DEFINE k == n + 1
  <2>2. k \in 0..Len(s) /\ k # 0 /\ k - 1 = n
    BY <2>1
  <2> HIDE DEF k
  <2>3. /\ g[k] = IF s[k].key \in keys THEN g[k - 1] ELSE Append(g[k - 1], s[k])
        /\ h[k] = IF s[k].key \in keys THEN h[k - 1] ELSE Append(h[k - 1], s[k])
    BY <2>2, KeptStep
  <2>4. g[k] = h[k]
    BY <2>1, <2>2, <2>3
  <2> QED BY <2>4 DEF k
<1> HIDE DEF T
<1>3. Nat \subseteq T
  BY <1>1, <1>2, NatInductive
<1>4. \A n \in 0..Len(s) : g[n] = h[n]
  BY <1>3 DEF T
<1> QED BY <1>4 DEF IsKept

LEMMA WithoutIs ==
  ASSUME NEW s \in Seq(Member), NEW keys, NEW g, IsKept(g, s, keys)
  PROVE  Without(s, keys) = g[Len(s)]
<1> DEFINE h == CHOOSE f : IsKept(f, s, keys)
<1>1. IsKept(h, s, keys)
  BY Zenon
<1>2. Without(s, keys) = h[Len(s)]
  BY DEF Without, IsKept
<1> HIDE DEF h
<1>3. Len(s) \in Nat
  OBVIOUS
<1> QED BY <1>1, <1>2, <1>3, KeptUnique

LEMMA WithoutSteps ==
  /\ \A keys : Without(<<>>, keys) = <<>>
  /\ \A keys : \A s \in Seq(Member), m \in Member :
       Without(Append(s, m), keys) =
         IF m.key \in keys THEN Without(s, keys) ELSE Append(Without(s, keys), m)
<1>1. ASSUME NEW keys PROVE Without(<<>>, keys) = <<>>
  <2>1. <<>> \in Seq(Member) /\ Len(<<>>) = 0
    BY EmptySeq
  <2>2. PICK g : IsKept(g, <<>>, keys)
    BY <2>1, KeptExists
  <2>3. g[0] = <<>>
    BY <2>1, <2>2 DEF IsKept
  <2> QED BY <2>1, <2>2, <2>3, WithoutIs
<1>2. ASSUME NEW s \in Seq(Member), NEW m \in Member, NEW keys
      PROVE  Without(Append(s, m), keys) =
               IF m.key \in keys THEN Without(s, keys) ELSE Append(Without(s, keys), m)
  <2>1. PICK g : IsKept(g, s, keys)
    BY KeptExists
  <2>2. PICK h : /\ IsKept(h, Append(s, m), keys)
                 /\ h[Len(s) + 1] = IF m.key \in keys THEN g[Len(s)] ELSE Append(g[Len(s)], m)
    BY <2>1, KeptExtends
  <2>3. Append(s, m) \in Seq(Member) /\ Len(Append(s, m)) = Len(s) + 1
    BY AppendProperties
  <2>4. Without(Append(s, m), keys) = h[Len(s) + 1]
    BY <2>2, <2>3, WithoutIs
  <2>5. Without(s, keys) = g[Len(s)]
    BY <2>1, WithoutIs
  <2> QED BY <2>2, <2>4, <2>5
<1> QED BY <1>1, <1>2

Keys(s) == {s[n].key : n \in DOMAIN s}

UniqueKeys(s) == \A m, n \in DOMAIN s : s[m].key = s[n].key => m = n

LEMMA OneMore ==
  ASSUME NEW s \in Seq(Member), NEW m \in Member
  PROVE  /\ Append(s, m) \in Seq(Member) /\ DOMAIN Append(s, m) = DOMAIN s \cup {Len(s) + 1}
         /\ Len(s) \in Nat /\ Len(Append(s, m)) = Len(s) + 1 /\ DOMAIN s = 1..Len(s)
         /\ \A n \in DOMAIN s : Append(s, m)[n] = s[n]
         /\ Append(s, m)[Len(s) + 1] = m
  BY AppendProperties

LEMMA KeysOfMore ==
  ASSUME NEW s \in Seq(Member), NEW m \in Member
  PROVE  /\ Keys(Append(s, m)) = Keys(s) \cup {m.key}
         /\ UniqueKeys(Append(s, m)) <=> UniqueKeys(s) /\ m.key \notin Keys(s)
         /\ Range(Append(s, m)) = Range(s) \cup {m}
<1> DEFINE t == Append(s, m)
           Size == Len(s) + 1
<1>1. /\ DOMAIN t = DOMAIN s \cup {Size} /\ Size \notin DOMAIN s
      /\ \A n \in DOMAIN s : t[n] = s[n]
      /\ t[Size] = m
  BY OneMore
<1> HIDE DEF t, Size
<1>2. Keys(t) = Keys(s) \cup {m.key}
  BY <1>1 DEF Keys
<1>3. UniqueKeys(t) <=> UniqueKeys(s) /\ m.key \notin Keys(s)
  <2>1. UniqueKeys(t) => UniqueKeys(s)
    BY <1>1 DEF UniqueKeys
  <2>2. ASSUME UniqueKeys(t), m.key \in Keys(s) PROVE FALSE
    <3>1. PICK n \in DOMAIN s : s[n].key = m.key
      BY <2>2 DEF Keys
    <3>2. n = Size
      BY <1>1, <2>2, <3>1 DEF UniqueKeys
    <3> QED BY <1>1, <3>2
  <2>3. ASSUME UniqueKeys(s), m.key \notin Keys(s) PROVE UniqueKeys(t)
    <3>1. \A n \in DOMAIN s : s[n].key # m.key
      BY <2>3 DEF Keys
    <3> QED BY <1>1, <2>3, <3>1 DEF UniqueKeys
  <2> QED BY <2>1, <2>2, <2>3
<1>4. Range(t) = Range(s) \cup {m}
  BY <1>1 DEF Range
<1> QED BY <1>2, <1>3, <1>4 DEF t

LEMMA KeysAreOf == \A s : Keys(s) = {m.key : m \in Range(s)}
BY DEF Keys, Range

(* What is left is the members with other keys, each as often as before. *)
LEMMA WithoutKeeps ==
  ASSUME NEW s \in Seq(Member), NEW keys
  PROVE  /\ Without(s, keys) \in Seq(Member)
         /\ Range(Without(s, keys)) = {m \in Range(s) : m.key \notin keys}
         /\ UniqueKeys(s) => UniqueKeys(Without(s, keys))
<1> DEFINE T == {t \in Seq(Member) :
                   /\ Without(t, keys) \in Seq(Member)
                   /\ Range(Without(t, keys)) = {m \in Range(t) : m.key \notin keys}
                   /\ UniqueKeys(t) => UniqueKeys(Without(t, keys))}
<1>1. <<>> \in T
  <2>1. <<>> \in Seq(Member) /\ Range(<<>>) = {}
    BY EmptySeq DEF Range
  <2> QED BY <2>1, WithoutSteps
<1>2. ASSUME NEW t \in Seq(Member), NEW m \in Member, t \in T PROVE Append(t, m) \in T
  <2> DEFINE w == Without(t, keys)
             u == Append(t, m)
  <2>1. /\ w \in Seq(Member) /\ Range(w) = {x \in Range(t) : x.key \notin keys}
        /\ UniqueKeys(t) => UniqueKeys(w)
    BY <1>2
  <2>2. Without(u, keys) = IF m.key \in keys THEN w ELSE Append(w, m)
    BY WithoutSteps
  <2>3. u \in Seq(Member) /\ Range(u) = Range(t) \cup {m}
        /\ (UniqueKeys(u) <=> UniqueKeys(t) /\ m.key \notin Keys(t))
    BY OneMore, KeysOfMore
  <2> HIDE DEF w, u
  <2>4. CASE m.key \in keys
    <3>1. Without(u, keys) = w
      BY <2>2, <2>4
    <3>2. Range(w) = {x \in Range(u) : x.key \notin keys}
      BY <2>1, <2>3, <2>4
    <3>3. u \in T
      BY <2>1, <2>3, <3>1, <3>2
    <3> QED BY <3>3 DEF u
  <2>5. CASE m.key \notin keys
    <3>1. /\ Append(w, m) \in Seq(Member) /\ Range(Append(w, m)) = Range(w) \cup {m}
          /\ (UniqueKeys(Append(w, m)) <=> UniqueKeys(w) /\ m.key \notin Keys(w))
      BY <2>1, OneMore, KeysOfMore
    <3>2. Without(u, keys) = Append(w, m)
      BY <2>2, <2>5
    <3>3. Range(Append(w, m)) = {x \in Range(u) : x.key \notin keys}
      BY <2>1, <2>3, <2>5, <3>1
    <3>4. Keys(w) \subseteq Keys(t)
      BY <2>1, KeysAreOf
    <3>5. UniqueKeys(u) => UniqueKeys(Append(w, m))
      BY <2>1, <2>3, <3>1, <3>4
    <3>6. u \in T
      BY <2>3, <3>1, <3>2, <3>3, <3>5
    <3> QED BY <3>6 DEF u
  <2> QED BY <2>4, <2>5
<1> HIDE DEF T
<1>3. Seq(Member) \subseteq T
  BY <1>1, <1>2, Merging!SeqInductive
<1> QED BY <1>3 DEF T

LEMMA WithoutAppend ==
  ASSUME NEW s \in Seq(Member), NEW m \in Member, NEW keys
  PROVE  Without(Append(s, m), keys) =
           IF m.key \in keys THEN Without(s, keys) ELSE Append(Without(s, keys), m)
  BY WithoutSteps, Zenon

LEMMA ConcatAppend ==
  ASSUME NEW s \in Seq(Member), NEW t \in Seq(Member), NEW m \in Member
  PROVE  Append(s \o t, m) = s \o Append(t, m)
OBVIOUS

Chained(s, t) == s \o t

LEMMA WithoutConcat ==
  ASSUME NEW s \in Seq(Member), NEW t \in Seq(Member), NEW keys
  PROVE  Without(Chained(s, t), keys) = Chained(Without(s, keys), Without(t, keys))
<1> DEFINE Left(v) == Without(v, keys)
           T == {v \in Seq(Member) : Left(s \o v) = Left(s) \o Left(v)}
<1>1. <<>> \in T
  <2>1. s \o <<>> = s /\ <<>> \in Seq(Member)
    BY ConcatEmptySeq, EmptySeq
  <2>2. Left(<<>>) = <<>> /\ Left(s) \in Seq(Member)
    BY WithoutSteps, WithoutKeeps
  <2>3. Left(s) \o <<>> = Left(s)
    BY <2>2, ConcatEmptySeq
  <2> QED BY <2>1, <2>2, <2>3
<1>2. ASSUME NEW v \in Seq(Member), NEW m \in Member, v \in T PROVE Append(v, m) \in T
  <2>1. s \o Append(v, m) = Append(s \o v, m) /\ s \o v \in Seq(Member)
    OBVIOUS
  <2>2. Left(Append(s \o v, m)) = IF m.key \in keys THEN Left(s \o v) ELSE Append(Left(s \o v), m)
    BY <2>1, WithoutAppend, Zenon
  <2>3. Left(Append(v, m)) = IF m.key \in keys THEN Left(v) ELSE Append(Left(v), m)
    BY WithoutSteps
  <2>4. Left(s) \in Seq(Member) /\ Left(v) \in Seq(Member)
    BY WithoutKeeps
  <2>5. Left(s \o v) = Left(s) \o Left(v)
    BY <1>2
  <2>6. Append(v, m) \in Seq(Member)
    BY AppendProperties
  <2> HIDE DEF Left
  <2>7. Append(Left(s) \o Left(v), m) = Left(s) \o Append(Left(v), m)
    <3> DEFINE a == Left(s)
               b == Left(v)
    <3>1. a \in Seq(Member) /\ b \in Seq(Member)
      BY <2>4
    <3> HIDE DEF a, b
    <3>2. Append(a \o b, m) = a \o Append(b, m)
      BY <3>1, ConcatAppend
    <3> QED BY <3>2 DEF a, b
  <2>8. Left(s \o Append(v, m)) = Left(s) \o Left(Append(v, m))
    BY <2>1, <2>2, <2>3, <2>5, <2>7
  <2> QED BY <2>6, <2>8
<1> HIDE DEF T
<1>3. Seq(Member) \subseteq T
  BY <1>1, <1>2, Merging!SeqInductive
<1>4. t \in T
  BY <1>3
<1> QED BY <1>4 DEF T, Chained

LEMMA WithoutTwice ==
  ASSUME NEW s \in Seq(Member), NEW keys, NEW more
  PROVE  Without(Without(s, keys), more) = Without(s, keys \cup more)
<1> DEFINE T == {t \in Seq(Member) : Without(Without(t, keys), more) = Without(t, keys \cup more)}
<1>1. <<>> \in T
  BY WithoutSteps, EmptySeq
<1>2. ASSUME NEW t \in Seq(Member), NEW m \in Member, t \in T PROVE Append(t, m) \in T
  <2> DEFINE w == Without(t, keys)
             x == Without(t, keys \cup more)
  <2>1. w \in Seq(Member) /\ Without(w, more) = x /\ Append(t, m) \in Seq(Member)
    BY <1>2, WithoutKeeps, AppendProperties
  <2>2. Without(Append(t, m), keys) = IF m.key \in keys THEN w ELSE Append(w, m)
    BY WithoutSteps
  <2>3. Without(Append(t, m), keys \cup more) =
          IF m.key \in keys \cup more THEN x ELSE Append(x, m)
    BY WithoutSteps
  <2> HIDE DEF w, x
  <2>4. Without(Append(w, m), more) = IF m.key \in more THEN x ELSE Append(x, m)
    BY <2>1, WithoutSteps
  <2>5. Without(Without(Append(t, m), keys), more) = Without(Append(t, m), keys \cup more)
    <3>1. CASE m.key \in keys
      BY <2>1, <2>2, <2>3, <3>1
    <3>2. CASE m.key \notin keys
      BY <2>2, <2>3, <2>4, <3>2
    <3> QED BY <3>1, <3>2
  <2> QED BY <2>1, <2>5
<1> HIDE DEF T
<1>3. Seq(Member) \subseteq T
  BY <1>1, <1>2, Merging!SeqInductive
<1> QED BY <1>3 DEF T

(* A member that is left stands behind those left before it. *)
LeftOf(s, keys) == {n \in DOMAIN s : s[n].key \notin keys}
PlaceOf(s, keys, n) == Cardinality({k \in LeftOf(s, keys) : k <= n})

LEMMA WithoutPlaces ==
  ASSUME NEW s \in Seq(Member), NEW keys, NEW at \in LeftOf(s, keys)
  PROVE  /\ PlaceOf(s, keys, at) \in 1..Len(Without(s, keys))
         /\ Without(s, keys)[PlaceOf(s, keys, at)] = s[at]
<1> DEFINE LeftIn(t) == {n \in DOMAIN t : t[n].key \notin keys}
           Place(t, n) == Cardinality({k \in LeftIn(t) : k <= n})
           Good(t) ==
             /\ IsFiniteSet(LeftIn(t)) /\ Cardinality(LeftIn(t)) = Len(Without(t, keys))
             /\ \A n \in LeftIn(t) : /\ Place(t, n) \in 1..Len(Without(t, keys))
                                     /\ Without(t, keys)[Place(t, n)] = t[n]
           T == {t \in Seq(Member) : Good(t)}
<1>1. <<>> \in T
  <2>1. <<>> \in Seq(Member) /\ Len(<<>>) = 0 /\ LeftIn(<<>>) = {} /\ Without(<<>>, keys) = <<>>
    BY EmptySeq, WithoutSteps
  <2>2. IsFiniteSet({}) /\ Cardinality({}) = 0
    BY FS_EmptySet
  <2> HIDE DEF LeftIn, Place
  <2> QED BY <2>1, <2>2
<1>2. ASSUME NEW t \in Seq(Member), NEW m \in Member, t \in T PROVE Append(t, m) \in T
  <2> DEFINE u == Append(t, m)
             w == Without(t, keys)
             Size == Len(t)
             x == Without(u, keys)
  <2>1. /\ u \in Seq(Member) /\ DOMAIN u = DOMAIN t \cup {Size + 1} /\ Size \in Nat /\ DOMAIN t = 1..Size
        /\ u[Size + 1] = m /\ \A n \in DOMAIN t : u[n] = t[n]
    BY OneMore
  <2>2. w \in Seq(Member) /\ x = IF m.key \in keys THEN w ELSE Append(w, m)
    BY WithoutKeeps, WithoutSteps
  <2>3. Good(t)
    BY <1>2
  <2> HIDE DEF u, w, x, Size
  <2>4. LeftIn(u) = IF m.key \in keys THEN LeftIn(t) ELSE LeftIn(t) \cup {Size + 1}
    BY <2>1
  <2>5. Size + 1 \notin LeftIn(t) /\ LeftIn(t) \subseteq 1..Size
    BY <2>1
  <2>6. \A n \in LeftIn(t) : {k \in LeftIn(u) : k <= n} = {k \in LeftIn(t) : k <= n}
    <3> HIDE DEF LeftIn
    <3> QED BY <2>1, <2>4, <2>5
  <2>7. \A n \in LeftIn(t) : Place(u, n) = Place(t, n) /\ u[n] = t[n]
    BY <2>1, <2>6
  <2>8. /\ IsFiniteSet(LeftIn(t)) /\ Cardinality(LeftIn(t)) = Len(w)
        /\ \A n \in LeftIn(t) : Place(t, n) \in 1..Len(w) /\ w[Place(t, n)] = t[n]
    BY <2>3 DEF w
  <2>9. Place(u, Size + 1) = Cardinality(LeftIn(u))
    <3>1. {k \in LeftIn(u) : k <= Size + 1} = LeftIn(u)
      <4> HIDE DEF LeftIn
      <4> QED BY <2>1, <2>4, <2>5
    <3> QED BY <3>1
  <2> HIDE DEF LeftIn, Place
  <2>10. CASE m.key \in keys
    <3>1. x = w /\ LeftIn(u) = LeftIn(t)
      BY <2>2, <2>4, <2>10
    <3>2. Good(u)
      BY <2>7, <2>8, <3>1 DEF x
    <3> QED BY <2>1, <3>2 DEF u
  <2>11. CASE m.key \notin keys
    <3>1. x = Append(w, m) /\ LeftIn(u) = LeftIn(t) \cup {Size + 1}
      BY <2>2, <2>4, <2>11
    <3>2. IsFiniteSet(LeftIn(u)) /\ Cardinality(LeftIn(u)) = Len(w) + 1
      <4> DEFINE A == LeftIn(t)
      <4>1. IsFiniteSet(A) /\ Size + 1 \notin A /\ Cardinality(A) = Len(w)
        BY <2>5, <2>8
      <4> HIDE DEF A
      <4>2. IsFiniteSet(A \cup {Size + 1}) /\ Cardinality(A \cup {Size + 1}) = Len(w) + 1
        BY <4>1, FS_AddElement
      <4> QED BY <3>1, <4>2 DEF A
    <3>3. /\ Len(x) = Len(w) + 1 /\ Len(w) \in Nat /\ x[Len(w) + 1] = m
          /\ \A k \in 1..Len(w) : x[k] = w[k]
      BY <2>2, <3>1, AppendProperties
    <3>4. ASSUME NEW n \in LeftIn(u)
          PROVE  Place(u, n) \in 1..Len(x) /\ x[Place(u, n)] = u[n]
      <4>1. CASE n \in LeftIn(t)
        BY <2>7, <2>8, <3>3, <4>1
      <4>2. CASE n = Size + 1
        BY <2>1, <2>9, <3>2, <3>3, <4>2
      <4> QED BY <3>1, <4>1, <4>2
    <3>5. Good(u)
      BY <3>2, <3>3, <3>4 DEF x
    <3> QED BY <2>1, <3>5 DEF u
  <2> QED BY <2>10, <2>11
<1> HIDE DEF T
<1>3. Seq(Member) \subseteq T
  BY <1>1, <1>2, Merging!SeqInductive
<1>4. s \in T
  BY <1>3
<1>5. \A k \in LeftIn(s) : /\ Place(s, k) \in 1..Len(Without(s, keys))
                           /\ Without(s, keys)[Place(s, k)] = s[k]
  BY <1>4 DEF T
<1>6. at \in LeftIn(s) /\ PlaceOf(s, keys, at) = Place(s, at)
  BY DEF LeftOf, PlaceOf
<1> HIDE DEF LeftIn, Place
<1> QED BY <1>5, <1>6

(* The members sicha writes have keys of their own. *)
Fresh(s, K) == s \in Seq(Member) /\ UniqueKeys(s) /\ Keys(s) \subseteq K

LEMMA FreshConcat ==
  ASSUME NEW s, NEW t, NEW K, NEW L, Fresh(s, K), Fresh(t, L), K \cap L = {}
  PROVE  Fresh(s \o t, K \cup L)
<1>1. s \in Seq(Member) /\ t \in Seq(Member)
  BY DEF Fresh
<1> DEFINE u == s \o t
           M == Len(s)
           Size == Len(t)
<1>2. /\ u \in Seq(Member) /\ DOMAIN u = 1..(M + Size) /\ M \in Nat /\ Size \in Nat
      /\ DOMAIN s = 1..M /\ DOMAIN t = 1..Size
      /\ \A n \in 1..(M + Size) : u[n] = IF n <= M THEN s[n] ELSE t[n - M]
  BY <1>1, ConcatProperties
<1> HIDE DEF u, M, Size
<1>3. ASSUME NEW n \in DOMAIN u
      PROVE  \/ n <= M /\ n \in DOMAIN s /\ u[n] = s[n] /\ u[n].key \in K
             \/ n > M /\ n - M \in DOMAIN t /\ u[n] = t[n - M] /\ u[n].key \in L
  <2>1. n \in Int /\ (n <= M => n \in DOMAIN s) /\ (n > M => n - M \in DOMAIN t)
    BY <1>2
  <2>2. CASE n <= M
    <3>1. u[n] = s[n] /\ n \in DOMAIN s
      BY <1>2, <2>1, <2>2
    <3> QED BY <2>2, <3>1 DEF Fresh, Keys
  <2>3. CASE n > M
    <3>1. u[n] = t[n - M] /\ n - M \in DOMAIN t
      BY <1>2, <2>1, <2>3
    <3> QED BY <2>3, <3>1 DEF Fresh, Keys
  <2> QED BY <1>2, <2>1, <2>2, <2>3
<1>4. Keys(u) \subseteq K \cup L
  BY <1>3 DEF Keys
<1>5. UniqueKeys(u)
  <2> SUFFICES ASSUME NEW m \in DOMAIN u, NEW n \in DOMAIN u, u[m].key = u[n].key PROVE m = n
    BY DEF UniqueKeys
  <2>1. m \in Int /\ n \in Int
    BY <1>2
  <2>2. (m <= M) <=> (n <= M)
    BY <1>2, <1>3, <2>1
  <2>3. CASE m <= M
    BY <1>2, <1>3, <2>1, <2>2, <2>3 DEF Fresh, UniqueKeys
  <2>4. CASE m > M
    <3>1. m - M = n - M
      BY <1>2, <1>3, <2>1, <2>2, <2>4 DEF Fresh, UniqueKeys
    <3> QED BY <1>2, <2>1, <3>1
  <2> QED BY <1>2, <2>1, <2>3, <2>4
<1> QED BY <1>2, <1>4, <1>5 DEF Fresh, u

LEMMA FreshWhen == ASSUME NEW c, NEW k \in OwnNames PROVE Fresh(When(c, k), {k})
<1>1. <<>> \in Seq(Member) /\ DOMAIN <<>> = {}
  BY EmptySeq
<1>2. << Own(k) >> \in Seq(Member) /\ DOMAIN << Own(k) >> = {1} /\ << Own(k) >>[1] = [key |-> k, from |-> 0]
  BY DEF Own, Member
<1>3. Fresh(<<>>, {k})
  BY <1>1 DEF Fresh, UniqueKeys, Keys
<1>4. Fresh(<< Own(k) >>, {k})
  BY <1>2 DEF Fresh, UniqueKeys, Keys
<1> QED BY <1>3, <1>4 DEF When

Given(r) == [n \in DOMAIN Params |-> When(Params[n] \in r.set, Params[n])]

LEMMA ParamsAre ==
  /\ DOMAIN Params = 1..6
  /\ Params[1] = "max_tokens" /\ Params[2] = "temperature" /\ Params[3] = "top_p"
  /\ Params[4] = "top_k" /\ Params[5] = "presence_penalty" /\ Params[6] = "frequency_penalty"
  /\ \A n \in 1..6 : Params[n] \in OwnNames
<1>1. /\ Params[1] = "max_tokens" /\ Params[2] = "temperature" /\ Params[3] = "top_p"
      /\ Params[4] = "top_k" /\ Params[5] = "presence_penalty" /\ Params[6] = "frequency_penalty"
  BY DEF Params
<1>2. DOMAIN Params = 1..6
  BY DEF Params
<1>4. \A n \in 1..6 : Params[n] \in OwnNames
  BY DEF OwnNames
<1> QED BY <1>1, <1>2, <1>4

LEMMA FreshParams == ASSUME NEW r PROVE Fresh(FlattenSeq(Given(r)), {Params[n] : n \in 1..6})
<1> DEFINE p == Given(r)
           IsFlat(f) == f = [n \in 1..6 |-> IF n = 1 THEN p[n] ELSE f[n - 1] \o p[n]]
           f1 == p[1]
           f2 == f1 \o p[2]
           f3 == f2 \o p[3]
           f4 == f3 \o p[4]
           f5 == f4 \o p[5]
           f6 == f5 \o p[6]
           F == << f1, f2, f3, f4, f5, f6 >>
<1>1. DOMAIN Params = 1..6 /\ \A n \in 1..6 : Params[n] \in OwnNames
  BY ParamsAre
<1>2. ASSUME NEW n \in 1..6 PROVE Fresh(p[n], {Params[n]})
  BY <1>1, FreshWhen DEF Given
<1>3. p \in Seq(Seq(Member)) /\ Len(p) = 6
  <2>1. p \in [1..6 -> Seq(Member)]
    BY <1>1, <1>2 DEF Given, Fresh
  <2>2. p \in UNION {[1..n -> Seq(Member)] : n \in Nat}
    <3> DEFINE H(n) == [1..n -> Seq(Member)]
    <3>1. p \in H(6)
      BY <2>1
    <3> HIDE DEF H
    <3>2. p \in UNION {H(n) : n \in Nat}
      BY <3>1
    <3> QED BY <3>2 DEF H
  <2>3. p \in Seq(Seq(Member))
    BY <2>2, SeqDef, Zenon
  <2>4. DOMAIN p = 1..6
    BY <2>1
  <2> QED BY <2>3, <2>4, LenProperties
<1> HIDE DEF p
<1>4. IsFlat(F)
  <2> DEFINE G == [n \in 1..6 |-> IF n = 1 THEN p[n] ELSE F[n - 1] \o p[n]]
  <2> HIDE DEF f1, f2, f3, f4, f5, f6
  <2>3. F[1] = f1 /\ F[2] = f2 /\ F[3] = f3 /\ F[4] = f4 /\ F[5] = f5 /\ F[6] = f6
    OBVIOUS
  <2>4. /\ f1 = p[1] /\ f2 = f1 \o p[2] /\ f3 = f2 \o p[3] /\ f4 = f3 \o p[4]
        /\ f5 = f4 \o p[5] /\ f6 = f5 \o p[6]
    BY DEF f1, f2, f3, f4, f5, f6
  <2>5. \A n \in 1..6 : n = 1 \/ n = 2 \/ n = 3 \/ n = 4 \/ n = 5 \/ n = 6
    OBVIOUS
  <2>1. \A n \in 1..6 : F[n] = IF n = 1 THEN p[n] ELSE F[n - 1] \o p[n]
    <3> HIDE DEF F
    <3> TAKE n \in 1..6
    <3>1. CASE n = 1
      BY <2>3, <2>4, <3>1
    <3>2. CASE n = 2
      <4>1. n - 1 = 1 /\ n # 1
        BY <3>2
      <4>2. F[n] = f2 /\ F[n - 1] = f1 /\ p[n] = p[2]
        BY <2>3, <3>2, <4>1
      <4>3. f2 = f1 \o p[2]
        BY <2>4
      <4> QED BY <4>1, <4>2, <4>3
    <3>3. CASE n = 3
      <4>1. n - 1 = 2 /\ n # 1
        BY <3>3
      <4>2. F[n] = f3 /\ F[n - 1] = f2 /\ p[n] = p[3]
        BY <2>3, <3>3, <4>1
      <4>3. f3 = f2 \o p[3]
        BY <2>4
      <4> QED BY <4>1, <4>2, <4>3
    <3>4. CASE n = 4
      <4>1. n - 1 = 3 /\ n # 1
        BY <3>4
      <4>2. F[n] = f4 /\ F[n - 1] = f3 /\ p[n] = p[4]
        BY <2>3, <3>4, <4>1
      <4>3. f4 = f3 \o p[4]
        BY <2>4
      <4> QED BY <4>1, <4>2, <4>3
    <3>5. CASE n = 5
      <4>1. n - 1 = 4 /\ n # 1
        BY <3>5
      <4>2. F[n] = f5 /\ F[n - 1] = f4 /\ p[n] = p[5]
        BY <2>3, <3>5, <4>1
      <4>3. f5 = f4 \o p[5]
        BY <2>4
      <4> QED BY <4>1, <4>2, <4>3
    <3>6. CASE n = 6
      <4>1. n - 1 = 5 /\ n # 1
        BY <3>6
      <4>2. F[n] = f6 /\ F[n - 1] = f5 /\ p[n] = p[6]
        BY <2>3, <3>6, <4>1
      <4>3. f6 = f5 \o p[6]
        BY <2>4
      <4> QED BY <4>1, <4>2, <4>3
    <3> QED BY <2>5, <3>1, <3>2, <3>3, <3>4, <3>5, <3>6
  <2>2. F = [n \in 1..6 |-> F[n]]
    OBVIOUS
  <2> HIDE DEF F
  <2> QED BY <2>1, <2>2
<1> HIDE DEF F, f1, f2, f3, f4, f5, f6
<1>5. FlattenSeq(p) = (CHOOSE f : IsFlat(f))[6]
  BY <1>3 DEF FlattenSeq
<1> DEFINE g == CHOOSE f : IsFlat(f)
<1>6. IsFlat(g)
  <2> HIDE DEF IsFlat
  <2> QED BY <1>4
<1> HIDE DEF g
<1>7. \A n \in 1..6 : g[n] = IF n = 1 THEN p[n] ELSE g[n - 1] \o p[n]
  BY <1>6
<1>14. /\ g[1] = p[1] /\ g[2] = g[1] \o p[2] /\ g[3] = g[2] \o p[3] /\ g[4] = g[3] \o p[4]
       /\ g[5] = g[4] \o p[5] /\ g[6] = g[5] \o p[6]
  <2>1. \A n \in 2..6 : g[n] = g[n - 1] \o p[n]
    <3>1. \A n \in 2..6 : n \in 1..6 /\ n # 1
      OBVIOUS
    <3> HIDE DEF IsFlat
    <3> QED BY <1>7, <3>1
  <2>2. g[1] = p[1]
    BY <1>7
  <2>3. /\ {2, 3, 4, 5, 6} \subseteq 2..6
        /\ 2 - 1 = 1 /\ 3 - 1 = 2 /\ 4 - 1 = 3 /\ 5 - 1 = 4 /\ 6 - 1 = 5
    OBVIOUS
  <2>4. g[2] = g[1] \o p[2] /\ g[3] = g[2] \o p[3] /\ g[4] = g[3] \o p[4]
    BY <2>1, <2>3
  <2>5. g[5] = g[4] \o p[5] /\ g[6] = g[5] \o p[6]
    BY <2>1, <2>3
  <2> QED BY <2>2, <2>4, <2>5
<1>15. /\ Fresh(p[2], {Params[2]}) /\ Fresh(p[3], {Params[3]}) /\ Fresh(p[4], {Params[4]})
       /\ Fresh(p[5], {Params[5]}) /\ Fresh(p[6], {Params[6]})
  <2>1. 2 \in 1..6 /\ 3 \in 1..6 /\ 4 \in 1..6 /\ 5 \in 1..6 /\ 6 \in 1..6
    OBVIOUS
  <2> QED BY <1>2, <2>1, Zenon
<1>8. Fresh(g[1], {Params[n] : n \in 1..1})
  <2>1. {Params[n] : n \in 1..1} = {Params[1]}
    OBVIOUS
  <2>2. Fresh(p[1], {Params[1]})
    BY <1>2
  <2> DEFINE K == {Params[n] : n \in 1..1}
  <2>3. K = {Params[1]} /\ g[1] = p[1]
    BY <1>14, <2>1
  <2> HIDE DEF K
  <2>4. Fresh(g[1], K)
    BY <2>2, <2>3
  <2> QED BY <2>4 DEF K
<1>9. Fresh(g[2], {Params[n] : n \in 1..2})
  <2>1. g[2] = g[1] \o p[2] /\ Fresh(p[2], {Params[2]})
    BY <1>14, <1>15, Zenon
  <2>2. {Params[n] : n \in 1..1} \cap {Params[2]} = {} /\ {Params[n] : n \in 1..1} \cup {Params[2]} = {Params[n] : n \in 1..2}
    BY ParamsAre
  <2> QED BY <1>8, <2>1, <2>2, FreshConcat
<1>10. Fresh(g[3], {Params[n] : n \in 1..3})
  <2>1. g[3] = g[2] \o p[3] /\ Fresh(p[3], {Params[3]})
    BY <1>14, <1>15, Zenon
  <2>2. {Params[n] : n \in 1..2} \cap {Params[3]} = {} /\ {Params[n] : n \in 1..2} \cup {Params[3]} = {Params[n] : n \in 1..3}
    BY ParamsAre
  <2> QED BY <1>9, <2>1, <2>2, FreshConcat
<1>11. Fresh(g[4], {Params[n] : n \in 1..4})
  <2>1. g[4] = g[3] \o p[4] /\ Fresh(p[4], {Params[4]})
    BY <1>14, <1>15, Zenon
  <2>2. {Params[n] : n \in 1..3} \cap {Params[4]} = {} /\ {Params[n] : n \in 1..3} \cup {Params[4]} = {Params[n] : n \in 1..4}
    BY ParamsAre
  <2> QED BY <1>10, <2>1, <2>2, FreshConcat
<1>12. Fresh(g[5], {Params[n] : n \in 1..5})
  <2>1. g[5] = g[4] \o p[5] /\ Fresh(p[5], {Params[5]})
    BY <1>14, <1>15, Zenon
  <2>2. {Params[n] : n \in 1..4} \cap {Params[5]} = {} /\ {Params[n] : n \in 1..4} \cup {Params[5]} = {Params[n] : n \in 1..5}
    BY ParamsAre
  <2> QED BY <1>11, <2>1, <2>2, FreshConcat
<1>13. Fresh(g[6], {Params[n] : n \in 1..6})
  <2>1. g[6] = g[5] \o p[6] /\ Fresh(p[6], {Params[6]})
    BY <1>14, <1>15, Zenon
  <2>2. {Params[n] : n \in 1..5} \cap {Params[6]} = {} /\ {Params[n] : n \in 1..5} \cup {Params[6]} = {Params[n] : n \in 1..6}
    BY ParamsAre
  <2> QED BY <1>12, <2>1, <2>2, FreshConcat
<1> QED BY <1>5, <1>13 DEF g, p

LEMMA OwnFresh ==
  ASSUME NEW b, NEW r, NEW stream
  PROVE  OwnMembers(b, r, stream) \in Seq(Member) /\ UniqueKeys(OwnMembers(b, r, stream))
<1> DEFINE f1 == << Own("model"), Own("messages") >>
           K1 == {"model", "messages"}
           f2 == f1 \o When(stream, "stream")
           K2 == K1 \cup {"stream"}
           f3 == f2 \o When(stream /\ b.usage, "stream_options")
           K3 == K2 \cup {"stream_options"}
           f4 == f3 \o FlattenSeq(Given(r))
           KP == {Params[n] : n \in 1..6}
           K4 == K3 \cup KP
           f5 == f4 \o When(r.stop # <<>>, "stop")
           K5 == K4 \cup {"stop"}
           f6 == f5 \o When(r.response_format_json # Null, "response_format")
           K6 == K5 \cup {"response_format"}
<1>1. Fresh(f1, K1)
  <2>0. Own("model") \in Member /\ Own("messages") \in Member
    BY DEF Own, Member, OwnNames
  <2>1. /\ f1 \in Seq(Member) /\ DOMAIN f1 = {1, 2}
        /\ f1[1].key = "model" /\ f1[2].key = "messages"
    BY <2>0 DEF Own
  <2> HIDE DEF f1
  <2> QED BY <2>1 DEF Fresh, UniqueKeys, Keys
<1>2. /\ K1 \cap {"stream"} = {} /\ K2 \cap {"stream_options"} = {} /\ K3 \cap KP = {}
      /\ K4 \cap {"stop"} = {} /\ K5 \cap {"response_format"} = {}
  <2>1. \A n \in 1..6 : Params[n] \notin K3 \cup {"stop", "response_format"}
    <3>1. \A n \in 1..6 : n = 1 \/ n = 2 \/ n = 3 \/ n = 4 \/ n = 5 \/ n = 6
      OBVIOUS
    <3> QED BY <3>1, ParamsAre
  <2> QED BY <2>1
<1>3. /\ Fresh(When(stream, "stream"), {"stream"})
      /\ Fresh(When(stream /\ b.usage, "stream_options"), {"stream_options"})
      /\ Fresh(FlattenSeq(Given(r)), KP)
      /\ Fresh(When(r.stop # <<>>, "stop"), {"stop"})
      /\ Fresh(When(r.response_format_json # Null, "response_format"), {"response_format"})
  <2>1. \A c : \A k \in OwnNames : Fresh(When(c, k), {k})
    BY FreshWhen
  <2>2. {"stream", "stream_options", "stop", "response_format"} \subseteq OwnNames
    BY DEF OwnNames
  <2> QED BY <2>1, <2>2, FreshParams
<1>4. OwnMembers(b, r, stream) = f6
  BY DEF OwnMembers, Given
<1> HIDE DEF f1, K1, KP
<1>5. Fresh(f2, K2)
  BY <1>1, <1>2, <1>3, FreshConcat
<1> HIDE DEF f2, K2
<1>6. Fresh(f3, K3)
  BY <1>2, <1>3, <1>5, FreshConcat
<1> HIDE DEF f3, K3
<1>7. Fresh(f4, K4)
  BY <1>2, <1>3, <1>6, FreshConcat
<1> HIDE DEF f4, K4
<1>8. Fresh(f5, K5)
  BY <1>2, <1>3, <1>7, FreshConcat
<1> HIDE DEF f5, K5
<1>9. Fresh(f6, K6)
  BY <1>2, <1>3, <1>8, FreshConcat
<1> QED BY <1>4, <1>9 DEF Fresh

(* What the extra body makes of the members, entry by entry. *)
LEMMA MergeIs ==
  ASSUME NEW own \in Seq(Member), UniqueKeys(own), NEW e \in Seq(Member)
  PROVE  LET M == Merging!Fold(own, e) IN
         /\ M \in Seq(Member) /\ UniqueKeys(M)
         /\ \E t \in Seq(Member) : M = Without(own, Keys(e)) \o t
         /\ \A n \in DOMAIN e :
              (\A k \in DOMAIN e : k > n => e[k].key # e[n].key) => e[n] \in Range(M)
<1> DEFINE M(f) == Merging!Fold(own, f)
           IsLast(f, n) == \A k \in DOMAIN f : k > n => f[k].key # f[n].key
           Good(f) == /\ M(f) \in Seq(Member) /\ UniqueKeys(M(f))
                      /\ \E t \in Seq(Member) : M(f) = Without(own, Keys(f)) \o t
                      /\ \A n \in DOMAIN f : IsLast(f, n) => f[n] \in Range(M(f))
           T == {f \in Seq(Member) : Good(f)}
<1>1. <<>> \in T
  <2>1. <<>> \in Seq(Member) /\ DOMAIN <<>> = {} /\ Keys(<<>>) = {}
    BY EmptySeq DEF Keys
  <2>2. M(<<>>) = own
    BY Merging!FoldEmpty
  <2>3. \E t \in Seq(Member) : own = Without(own, {}) \o t
    <3>1. Without(own, {}) = own
      <4> DEFINE U == {s \in Seq(Member) : Without(s, {}) = s}
      <4>1. <<>> \in U
        BY <2>1, WithoutSteps
      <4>2. ASSUME NEW s \in Seq(Member), NEW m \in Member, s \in U PROVE Append(s, m) \in U
        BY <4>2, WithoutSteps, AppendProperties
      <4> HIDE DEF U
      <4>3. Seq(Member) \subseteq U
        BY <4>1, <4>2, Merging!SeqInductive
      <4> QED BY <4>3 DEF U
    <3>2. own = own \o <<>>
      BY ConcatEmptySeq
    <3> QED BY <2>1, <3>1, <3>2
  <2> HIDE DEF M
  <2> QED BY <2>1, <2>2, <2>3
<1>2. ASSUME NEW f \in Seq(Member), NEW m \in Member, f \in T PROVE Append(f, m) \in T
  <2> DEFINE g == Append(f, m)
             A == M(f)
             G == M(g)
             w == Without(A, {m.key})
  <2>1. Good(f)
    BY <1>2
  <2>2. /\ A \in Seq(Member) /\ UniqueKeys(A)
        /\ \A n \in DOMAIN f : IsLast(f, n) => f[n] \in Range(A)
    BY <2>1
  <2>3. PICK t \in Seq(Member) : A = Without(own, Keys(f)) \o t
    BY <2>1
  <2>4. G = Append(w, m)
    <3>1. G = MergeMember(A, m)
      BY Merging!FoldAppend
    <3> HIDE DEF A, G, M
    <3> QED BY <3>1 DEF MergeMember
  <2>5. /\ w \in Seq(Member) /\ UniqueKeys(w)
        /\ Range(w) = {x \in Range(A) : x.key \notin {m.key}}
    BY <2>2, WithoutKeeps
  <2>6. m.key \notin Keys(w)
    BY <2>5, KeysAreOf
  <2>7. /\ g \in Seq(Member) /\ Keys(g) = Keys(f) \cup {m.key}
        /\ DOMAIN g = DOMAIN f \cup {Len(f) + 1} /\ g[Len(f) + 1] = m
        /\ Len(f) \in Nat /\ DOMAIN f = 1..Len(f) /\ \A n \in DOMAIN f : g[n] = f[n]
    BY OneMore, KeysOfMore
  <2>8. \E u \in Seq(Member) : G = Without(own, Keys(g)) \o u
    <3> DEFINE K == Keys(f)
               k == {m.key}
               x == Without(own, K)
               y == Without(x, k)
               z == Without(t, k)
    <3>1. x \in Seq(Member) /\ y \in Seq(Member) /\ z \in Seq(Member)
      BY WithoutKeeps
    <3>2. y = Without(own, Keys(g))
      BY <2>7, WithoutTwice
    <3>3. w = Without(Chained(x, t), k)
      BY <2>3 DEF Chained
    <3>4. Without(Chained(x, t), k) = Chained(y, z)
      <4> HIDE DEF k, x
      <4> QED BY <3>1, WithoutConcat
    <3> HIDE DEF K, k, x, y, z, w, G, g
    <3>5. Append(Chained(y, z), m) = Chained(y, Append(z, m))
      BY <3>1, ConcatAppend DEF Chained
    <3>6. G = Chained(Without(own, Keys(g)), Append(z, m))
      BY <2>4, <3>2, <3>3, <3>4, <3>5
    <3>7. Append(z, m) \in Seq(Member)
      BY <3>1, AppendProperties
    <3> QED BY <3>6, <3>7 DEF Chained
  <2> HIDE DEF w, g, A, G
  <2>9. G \in Seq(Member) /\ UniqueKeys(G) /\ Range(G) = Range(w) \cup {m}
    BY <2>4, <2>5, <2>6, OneMore, KeysOfMore
  <2>10. ASSUME NEW n \in DOMAIN g, IsLast(g, n) PROVE g[n] \in Range(G)
    <3>1. CASE n = Len(f) + 1
      BY <2>7, <2>9, <3>1
    <3>2. CASE n \in DOMAIN f
      <4>1. Len(f) + 1 \in DOMAIN g /\ Len(f) + 1 > n
        BY <2>7, <3>2
      <4>2. g[n].key # m.key
        BY <2>7, <2>10, <4>1
      <4>3. IsLast(f, n)
        BY <2>7, <2>10, <3>2
      <4>4. f[n] \in Range(A) /\ g[n] = f[n]
        BY <2>2, <2>7, <3>2, <4>3
      <4> QED BY <2>5, <2>9, <4>2, <4>4
    <3> QED BY <2>7, <3>1, <3>2
  <2>11. Good(g)
    BY <2>8, <2>9, <2>10 DEF G
  <2> HIDE DEF Good
  <2> QED BY <2>7, <2>11 DEF g
<1> HIDE DEF T
<1>3. Seq(Member) \subseteq T
  BY <1>1, <1>2, Merging!SeqInductive
<1> QED BY <1>3 DEF T

LEMMA EntriesAre ==
  ASSUME NEW keys \in Seq(STRING)
  PROVE  /\ Entries(keys) \in Seq(Member) /\ DOMAIN Entries(keys) = DOMAIN keys
         /\ \A n \in DOMAIN keys : Entries(keys)[n] = [key |-> keys[n], from |-> n]
<1>1. DOMAIN keys = 1..Len(keys) /\ Len(keys) \in Nat /\ \A n \in 1..Len(keys) : keys[n] \in STRING
  OBVIOUS
<1> DEFINE Size == Len(keys)
           H(n) == [1..n -> Member]
<1>2. Entries(keys) \in H(Size)
  BY <1>1 DEF Entries, Member
<1>3. Size \in Nat
  BY <1>1
<1> HIDE DEF Size, H
<1>4. Entries(keys) \in UNION {H(n) : n \in Nat}
  BY <1>2, <1>3
<1>5. Entries(keys) \in Seq(Member)
  BY <1>4, SeqDef DEF H
<1> QED BY <1>5 DEF Entries

LEMMA MergeExtraIs ==
  ASSUME NEW s, NEW keys PROVE MergeExtra(s, keys) = Merging!Fold(s, Entries(keys))
  BY DEF MergeExtra, Merging!Fold, Merging!FoldLeft, FoldLeft, Merging!MapThenFoldSet,
         MapThenFoldSet, Merging!Max, Max

(* A body is built, or memory or the request is at fault. *)
BodyReply(q) == sicha_build_chat_body(Resolved(q.d), q.r, q.stream, q.memory)

BodyInv ==
  query.op = "body" => query \in BodyQueries /\ answer \in {<<>>, <<BodyReply(query)>>}

LEMMA BodyInvHolds == RequestSpec => []BodyInv
<1>1. RequestInit => BodyInv
  BY MemoryAssumption
     DEF RequestInit, BodyInv, BodyQueries, TextOrPointQueries, ByteQueries, BackendQueries,
         ArgumentQueries, MemoryQueries
<1>2. BodyInv /\ [RequestNext]_checkVars => BodyInv'
  BY DEF BodyInv, RequestNext, AskText8, AskByte, AskBackend, AskArguments, AskBody, AskMemory,
         Reply, checkVars, BodyReply, BodyQueries
<1> QED BY <1>1, <1>2, PTL DEF RequestSpec

(* What an accepted backend adds to every body. *)
LEMMA ExtraIs ==
  ASSUME NEW d \in BodyDescs
  PROVE  d.extra_body_json # Null => d.extra_body_json.keys \in Seq(STRING)
  BY BodyAssumption

(* With memory, exactly the requests that were accepted are sent. *)
LEMMA SentIsAccepted ==
  ASSUME NEW b, NEW r, NEW stream
  PROVE  sicha_build_chat_body(b, r, stream, TRUE).st = "OK" <=> sicha_request_validate(r) = "OK"
<1>1. sicha_request_validate(r) = "OK" =>
        /\ Imports(r.messages_json, "array", TRUE)
        /\ Imports(r.response_format_json, "object", TRUE)
  BY DEF sicha_request_validate, RawMessagesValid, validate_json_object, Imports
<1> QED BY <1>1 DEF sicha_build_chat_body

LEMMA BodyIs ==
  ASSUME NEW q \in BodyQueries, BodyReply(q).st = "OK"
  PROVE  LET own   == OwnMembers(Resolved(q.d), q.r, q.stream)
             extra == IF q.d.extra_body_json = Null THEN <<>> ELSE q.d.extra_body_json.keys
             M     == BodyReply(q).members
             left  == {n \in DOMAIN own : \A k \in DOMAIN extra : extra[k] # own[n].key}
         IN  /\ \A m, n \in DOMAIN M : M[m].key = M[n].key => m = n
             /\ \A n \in DOMAIN extra :
                  (\A k \in (n + 1)..Len(extra) : extra[k] # extra[n]) =>
                    \E m \in DOMAIN M : M[m].key = extra[n] /\ M[m].from = n
             /\ \A n \in left :
                  LET place == Cardinality({k \in left : k <= n})
                  IN  place \in DOMAIN M /\ M[place] = own[n]
<1> DEFINE own   == OwnMembers(Resolved(q.d), q.r, q.stream)
           extra == IF q.d.extra_body_json = Null THEN <<>> ELSE q.d.extra_body_json.keys
           M     == BodyReply(q).members
           e     == Entries(extra)
           left  == {n \in DOMAIN own : \A k \in DOMAIN extra : extra[k] # own[n].key}
<1>1. own \in Seq(Member) /\ UniqueKeys(own)
  BY OwnFresh
<1>2. extra \in Seq(STRING)
  BY ExtraIs, EmptySeq DEF BodyQueries
<1>3. M = MergeExtra(own, extra)
  BY DEF BodyReply, sicha_build_chat_body, Resolved
<1>4. M = Merging!Fold(own, e)
  BY <1>3, MergeExtraIs
<1> HIDE DEF own, extra, M, e
<1>5. /\ e \in Seq(Member) /\ DOMAIN e = DOMAIN extra /\ DOMAIN extra = 1..Len(extra)
      /\ Len(extra) \in Nat
      /\ \A n \in DOMAIN extra : e[n] = [key |-> extra[n], from |-> n]
  BY <1>2, EntriesAre DEF e
<1>6. /\ M \in Seq(Member) /\ UniqueKeys(M)
      /\ \E t \in Seq(Member) : M = Without(own, Keys(e)) \o t
      /\ \A n \in DOMAIN e :
           (\A k \in DOMAIN e : k > n => e[k].key # e[n].key) => e[n] \in Range(M)
  BY <1>1, <1>4, <1>5, MergeIs
<1>7. \A m, n \in DOMAIN M : M[m].key = M[n].key => m = n
  BY <1>6 DEF UniqueKeys
<1>8. ASSUME NEW n \in DOMAIN extra, \A k \in (n + 1)..Len(extra) : extra[k] # extra[n]
      PROVE  \E m \in DOMAIN M : M[m].key = extra[n] /\ M[m].from = n
  <2>1. \A k \in DOMAIN e : k > n => e[k].key # e[n].key
    <3> SUFFICES ASSUME NEW k \in DOMAIN e, k > n PROVE e[k].key # e[n].key
      OBVIOUS
    <3>1. k \in (n + 1)..Len(extra) /\ k \in DOMAIN extra
      BY <1>5
    <3>2. extra[k] # extra[n]
      BY <1>8, <3>1
    <3> QED BY <1>5, <3>1, <3>2
  <2>2. e[n] \in Range(M)
    BY <1>5, <1>6, <2>1
  <2> QED BY <1>5, <2>2 DEF Range
<1>9. ASSUME NEW n \in left
      PROVE  LET place == Cardinality({k \in left : k <= n})
             IN  place \in DOMAIN M /\ M[place] = own[n]
  <2> DEFINE w == Without(own, Keys(e))
             rest == {k \in DOMAIN own : own[k].key \notin Keys(e)}
             p == Cardinality({k \in rest : k <= n})
  <2>1. Keys(e) = {extra[k] : k \in DOMAIN extra}
    BY <1>5 DEF Keys
  <2>2. rest = left
    BY <2>1
  <2>3. p \in 1..Len(w) /\ w[p] = own[n]
    <3> DEFINE K == Keys(e)
    <3>1. n \in LeftOf(own, K)
      BY <2>2 DEF LeftOf
    <3> HIDE DEF K
    <3>2. /\ PlaceOf(own, K, n) \in 1..Len(Without(own, K))
          /\ Without(own, K)[PlaceOf(own, K, n)] = own[n]
      BY <1>1, <3>1, WithoutPlaces
    <3> QED BY <3>2 DEF K, LeftOf, PlaceOf
  <2>4. PICK t \in Seq(Member) : M = w \o t
    BY <1>6
  <2>5. w \in Seq(Member)
    BY <1>1, WithoutKeeps
  <2>6. p = Cardinality({k \in left : k <= n})
    BY <2>2
  <2> HIDE DEF w, p, rest, left
  <2>7. p \in DOMAIN M /\ M[p] = w[p]
    <3>1. /\ DOMAIN M = 1..(Len(w) + Len(t)) /\ Len(w) \in Nat /\ Len(t) \in Nat
          /\ \A j \in 1..(Len(w) + Len(t)) : M[j] = IF j <= Len(w) THEN w[j] ELSE t[j - Len(w)]
      BY <2>4, <2>5, ConcatProperties
    <3>2. p \in 1..(Len(w) + Len(t)) /\ p <= Len(w)
      BY <2>3, <3>1
    <3> QED BY <3>1, <3>2
  <2> QED BY <2>3, <2>6, <2>7
<1> HIDE DEF left
<1>10. /\ \A n \in DOMAIN extra :
            (\A k \in (n + 1)..Len(extra) : extra[k] # extra[n]) =>
              \E m \in DOMAIN M : M[m].key = extra[n] /\ M[m].from = n
       /\ \A n \in left :
            LET place == Cardinality({k \in left : k <= n})
            IN  place \in DOMAIN M /\ M[place] = own[n]
  BY <1>8, <1>9
<1> QED BY <1>7, <1>10 DEF own, extra, M, left

(* A request that passed validation is sent where memory suffices, and a body
   holds each key once, the last value the extra body has for it, and the
   other members as the request has them, in front and in order: whatever
   members the extra body names, and however often. *)
THEOREM BodiesAreAsAsked == RequestSpec => []BodyAsAsked
<1>1. BodyInv => BodyAsAsked
  <2> SUFFICES ASSUME BodyInv, Answered("body") PROVE BodyAsAsked
    BY DEF BodyAsAsked
  <2>1. query \in BodyQueries /\ answer[1] = BodyReply(query)
    BY DEF BodyInv, Answered
  <2>2. query.memory => (BodyReply(query).st = "OK") = (sicha_request_validate(query.r) = "OK")
    <3>1. query.memory \in BOOLEAN
      BY <2>1 DEF BodyQueries
    <3>2. CASE query.memory = TRUE
      BY <3>2, SentIsAccepted DEF BodyReply
    <3> QED BY <3>1, <3>2
  <2>3. CASE BodyReply(query).st # "OK"
    BY <2>1, <2>2, <2>3 DEF BodyAsAsked
  <2>4. CASE BodyReply(query).st = "OK"
    <3> DEFINE own   == OwnMembers(Resolved(query.d), query.r, query.stream)
               body  == BodyReply(query)
               M     == body.members
               left  == {n \in DOMAIN own :
                           \A k \in DOMAIN ExtraKeys : ExtraKeys[k] # own[n].key}
    <3>1. /\ \A m, n \in DOMAIN M : M[m].key = M[n].key => m = n
          /\ \A n \in DOMAIN ExtraKeys :
               (\A k \in (n + 1)..Len(ExtraKeys) : ExtraKeys[k] # ExtraKeys[n]) =>
                 \E m \in DOMAIN M : M[m].key = ExtraKeys[n] /\ M[m].from = n
          /\ \A n \in left :
               LET place == Cardinality({k \in left : k <= n})
               IN  place \in DOMAIN M /\ M[place] = own[n]
      BY <2>1, <2>4, BodyIs DEF ExtraKeys
    <3> HIDE DEF own, body
    <3>2. \A n \in DOMAIN ExtraKeys :
            (\A k \in (n + 1)..Len(ExtraKeys) : ExtraKeys[k] # ExtraKeys[n]) =>
              \E m \in KeyAt(M, ExtraKeys[n]) : M[m].from = n
      BY <3>1 DEF KeyAt
    <3>3. answer[1] = body
      BY <2>1 DEF body
    <3>4. query.memory => (body.st = "OK") = (sicha_request_validate(query.r) = "OK")
      BY <2>2 DEF body
    <3> QED BY <3>1, <3>2, <3>3, <3>4 DEF BodyAsAsked, own
  <2> QED BY <2>3, <2>4
<1> QED BY <1>1, BodyInvHolds, PTL
=============================================================================
