----------------------------- MODULE MCClassify -----------------------------
(* The questions ClassifyCheck asks, scaled to words of 8 bits: the policy *)
(* fields are half-words there as they are (uint32_t) in the code.         *)
EXTENDS ClassifyCheck

MCOverrides ==
  { <<>>, <<[http |-> 429, cls |-> "RETRY_SAME"]>>,
    <<[http |-> 503, cls |-> "ABORT"], [http |-> 503, cls |-> "ADVANCE"]>>,
    <<[http |-> 200, cls |-> "ADVANCE"], [http |-> 404, cls |-> "RETRY_SAME"]>> }

MCPolicies ==
  [lengthIsAdvance : BOOLEAN, contentFilterIsAdvance : BOOLEAN, overrides : MCOverrides]

MCHttpStatuses == {0, 101, 199, 200, 204, 299, 300, 399, 400, 402, 404, 405, 429, 499,
                   500, 503, 599, 600}

\* digits 0..3 in radix 4; up to 5 characters reach past the saturation value
MCTexts == UNION {[1..n -> {0, 1, 3, Blank, Garbage}] : n \in 0..5}

\* no header, one of any text, two short ones; the buffer holds four characters
MCRetryAfters ==
  {<<>>} \cup {<<t>> : t \in MCTexts} \cup
  {<<s, t>> : s, t \in UNION {[1..n -> {1, Blank, Garbage}] : n \in 0..2}}

MCPolicyDefaults == [base |-> 2, cap |-> 11, jitter |-> 5, retryAfterCap |-> 9]

MCWaits ==
  [ p : [base : {0, 1, 3, 8, 15}, cap : {0, 1, 4, 15}, jitter : {0, 1, 4, 15},
         retryAfterCap : {0, 2, 15}],
    k : 0..10,
    rand : {0, 3, 14, 255},
    retryAfter : {NoValue, 0, 3, 40} ]
=============================================================================
