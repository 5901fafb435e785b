-------------------------- MODULE MCStreamAttempt --------------------------
(* One payload of each kind; chunks of one and two bytes, and bodies of up  *)
(* to six, against a limit of two or three.                                 *)
EXTENDS StreamAttempt

Payload(kind) ==
  [kind |-> kind, content |-> 0, reasoning |-> 0, tools |-> FALSE, finish |-> FALSE,
   usage |-> {}, model |-> FALSE]

MCEvents ==
  { Payload("done"), Payload("raw"), Payload("odd"),
    Payload("chunk"),                                 \* a role chunk
    [Payload("chunk") EXCEPT !.usage = Tokens],
    [Payload("chunk") EXCEPT !.content = 2],
    [Payload("chunk") EXCEPT !.content = 1, !.reasoning = 1, !.model = TRUE],
    [Payload("chunk") EXCEPT !.reasoning = 1],
    [Payload("chunk") EXCEPT !.tools = TRUE],
    [Payload("chunk") EXCEPT !.content = 1, !.finish = TRUE] }

Completion ==
  [text |-> TRUE, content |-> 0, reasoning |-> 0, tools |-> FALSE, finish |-> TRUE,
   usage |-> Tokens, model |-> TRUE]

MCReplies ==
  { Completion,
    [Completion EXCEPT !.content = 2, !.model = FALSE],
    [Completion EXCEPT !.content = 1, !.reasoning = 1, !.usage = {"total"}],
    [Completion EXCEPT !.text = FALSE, !.tools = TRUE, !.finish = FALSE],
    [Completion EXCEPT !.text = FALSE, !.reasoning = 1] }

MCFewEvents ==
  { Payload("done"), [Payload("chunk") EXCEPT !.content = 2] }
=============================================================================
