-------------------------------- MODULE Sse --------------------------------
(***************************************************************************)
(* The incremental parser of src/sse.c: the bytes of a stream arrive in    *)
(* chunks cut at any place, and the events among them are handed to a      *)
(* callback.  A byte is one of the symbols below: Data stands for the four *)
(* bytes of the field name "data", Bom for the byte order mark.            *)
(*                                                                         *)
(* Allocation failures are left out (StreamAttempt has their effect); a    *)
(* buffer is then too big or fine, and once too big it stays so.           *)
(***************************************************************************)
EXTENDS Integers, FiniteSets, SequencesExt

CONSTANTS
  CR, LF, Colon, Space, Data, Text,  \* what a byte may be
  Bom,             \* the bytes of the byte order mark, in order
  Settings,        \* the circumstances of a stream
  MaxChunk         \* bound: bytes of a chunk

Symbols == {CR, LF, Colon, Space, Data, Text} \cup ToSet(Bom)

(* Which symbols occur in it; max_event_bytes, 0 for no limit; the events the
   callback may refuse; and, as a bound, its length. *)
Setting == [alphabet : SUBSET Symbols, max_event_bytes : Nat, stops : SUBSET Nat, length : Nat]

ASSUME SymbolAssumption ==
  /\ CR # LF
  /\ Bom \in Seq(Symbols \ {CR, LF, Colon, Space, Data, Text})
  /\ Bom # <<>>
ASSUME SizeAssumption ==
  /\ Settings \subseteq Setting
  /\ MaxChunk \in Nat \ {0}

VARIABLES
  setting,  \* the circumstances chosen
  p,        \* the parser, with the events it dispatched and the last result
  stopAt,   \* the event the callback refuses, 0 for none
  fed,      \* history: the bytes handed to sicha_sse_feed
  phase     \* "feeding" or "finished"

vars == <<setting, p, stopAt, fed, phase>>

(* A buffer that passed the limit holds what it held before. *)
Buffer(bytes) == [bytes |-> bytes, tooBig |-> FALSE]

(* rc: "ok" while the calls return 0, "stopped" when the callback returned
   nonzero, "error" for -1. *)
InitialParser ==
  [line |-> Buffer(<<>>), data |-> Buffer(<<>>), have_data |-> FALSE, last_was_cr |-> FALSE,
   bom_seen |-> 0, bom_decided |-> FALSE, err |-> FALSE, rc |-> "ok", events |-> <<>>]

Init ==
  /\ p = InitialParser
  /\ setting \in Settings
  /\ stopAt \in setting.stops \cup {0}
  /\ fed = <<>>
  /\ phase = "feeding"

-----------------------------------------------------------------------------
(* Mutant: the limit itself is refused. *)
AppendStrict(b, bytes) ==
  IF bytes = <<>> \/ b.tooBig THEN b
  ELSE IF setting.max_event_bytes # 0 /\ Len(b.bytes) + Len(bytes) >= setting.max_event_bytes
  THEN [b EXCEPT !.tooBig = TRUE]
  ELSE [b EXCEPT !.bytes = @ \o bytes]

(* sicha_buf_append under the limit: all of the bytes or none. *)
Add(b, bytes) ==
  IF bytes = <<>> \/ b.tooBig THEN b
  ELSE IF setting.max_event_bytes # 0 /\ Len(b.bytes) + Len(bytes) > setting.max_event_bytes
  THEN [b EXCEPT !.tooBig = TRUE]
  ELSE [b EXCEPT !.bytes = @ \o bytes]

Emptied(b) == [b EXCEPT !.bytes = <<>>]

(* sse_check_bufs *)
Checked(q) ==
  LET bad == q.err \/ q.line.tooBig \/ q.data.tooBig
  IN  [q EXCEPT !.err = bad, !.rc = IF bad THEN "error" ELSE @]

(* The callback, as on_event of the caller. *)
Dispatch(q) ==
  LET seen == Append(q.events, q.data.bytes)
  IN  [q EXCEPT !.events = seen,
                !.rc = IF Len(seen) = stopAt THEN "stopped" ELSE "ok",
                !.data = Emptied(@),
                !.have_data = FALSE]

(* The blank line ends an event, if there is one. *)
BlankLine(q) == IF q.have_data THEN Dispatch(q) ELSE q

(* The name of a field and its value, one leading space stripped. *)
FieldOf(line) ==
  IF ~Contains(line, Colon) THEN [name |-> line, value |-> <<>>]
  ELSE LET c    == SelectInSeq(line, LAMBDA b : b = Colon)
           rest == SubSeq(line, c + 1, Len(line))
       IN  [name  |-> SubSeq(line, 1, c - 1),
            value |-> IF rest # <<>> /\ Head(rest) = Space THEN Tail(rest) ELSE rest]

(* A data field is joined to those before it with a line feed. *)
DataField(q, value) ==
  LET joined == IF q.have_data THEN Add(q.data, <<LF>>) ELSE q.data
  IN  Checked([q EXCEPT !.data = Add(joined, value), !.have_data = TRUE])

(* sse_line: comments and all other fields are ignored. *)
sse_line(q, line) ==
  IF line = <<>> THEN BlankLine(q)
  ELSE IF FieldOf(line).name = <<Data>> THEN DataField(q, FieldOf(line).value)
  ELSE q

-----------------------------------------------------------------------------
(* The second loop of sicha_sse_feed, for one byte. *)
PayloadByte(q, b) ==
  IF q.last_was_cr /\ b = LF THEN [q EXCEPT !.last_was_cr = FALSE]
  ELSE IF b \in {CR, LF}
  THEN [sse_line(q, q.line.bytes) EXCEPT !.line = Emptied(@), !.last_was_cr = (b = CR)]
  ELSE Checked([q EXCEPT !.line = Add(@, <<b>>), !.last_was_cr = FALSE])

Held(q) == SubSeq(Bom, 1, q.bom_seen)

(* Mutant: the bytes held back for a mark that does not come are lost. *)
ReplayNothing(q) == [q EXCEPT !.bom_seen = 0, !.bom_decided = TRUE]

(* No byte order mark after all: the bytes held back were payload. *)
Replay(q) ==
  Checked([q EXCEPT !.line = Add(@, Held(q)), !.bom_seen = 0, !.bom_decided = TRUE])

(* One byte of a chunk; after a nonzero result the rest is not looked at. *)
FeedByte(q, b) ==
  IF q.rc # "ok" THEN q
  ELSE IF q.bom_decided THEN PayloadByte(q, b)
  ELSE IF b = Bom[q.bom_seen + 1]
  THEN [q EXCEPT !.bom_seen = @ + 1, !.bom_decided = (q.bom_seen + 1 = Len(Bom))]
  ELSE LET r == Replay(q) IN IF r.rc # "ok" THEN r ELSE PayloadByte(r, b)

(* sicha_sse_feed.  The caller feeds no more after a nonzero result. *)
Feed(chunk) ==
  /\ phase = "feeding"
  /\ p.rc = "ok"
  /\ Len(fed) + Len(chunk) <= setting.length
  /\ p' = FoldLeft(FeedByte, p, chunk)
  /\ fed' = fed \o chunk
  /\ UNCHANGED <<setting, stopAt, phase>>

(* A prefix of the mark that was never completed is payload; this append is
   not followed by a check of its own. *)
Undecided(q) ==
  IF q.bom_decided THEN q
  ELSE [q EXCEPT !.line = Add(@, Held(q)), !.bom_seen = 0, !.bom_decided = TRUE]

(* An unterminated last line still counts as a line. *)
LastLine(q) ==
  IF q.line.bytes = <<>> THEN q ELSE [sse_line(q, q.line.bytes) EXCEPT !.line = Emptied(@)]

(* sicha_sse_finish: the last event is dispatched without its blank line. *)
Finished(q) ==
  LET ended == LastLine(Undecided(q))
  IN  IF ended.rc # "ok" THEN ended ELSE BlankLine(ended)

Finish ==
  /\ phase = "feeding"
  /\ p.rc = "ok"
  /\ p' = Finished(p)
  /\ phase' = "finished"
  /\ UNCHANGED <<setting, stopAt, fed>>

Next == (\E n \in 1..MaxChunk : \E chunk \in [1..n -> setting.alphabet] : Feed(chunk)) \/ Finish

Spec == Init /\ [][Next]_vars

-----------------------------------------------------------------------------
(* The stream as a whole, defined on all of its bytes at once.             *)

IsBreak(b) == b \in {CR, LF}

(* The bytes after a byte order mark; while only a prefix of one has come
   nothing is known of the stream. *)
Payload(s, ended) ==
  IF IsPrefix(Bom, s) THEN SubSeq(s, Len(Bom) + 1, Len(s))
  ELSE IF ~ended /\ IsPrefix(s, Bom) THEN <<>>
  ELSE s

(* A set of positions in their order. *)
Ascending(S) ==
  [n \in 1..Cardinality(S) |-> CHOOSE k \in S : Cardinality({j \in S : j <= k}) = n]

(* A line ends at every CR, and at every LF that does not follow a CR. *)
LineEnds(s) == {k \in DOMAIN s : s[k] = CR \/ (s[k] = LF /\ ~(k > 1 /\ s[k - 1] = CR))}

(* The line that ends before position k. *)
LineBefore(s, k) ==
  LET breaks == {j \in 1..(k - 1) : IsBreak(s[j])}
  IN  SubSeq(s, 1 + (IF breaks = {} THEN 0 ELSE Max(breaks)), k - 1)

Lines(s) ==
  LET ends == Ascending(LineEnds(s)) IN [n \in DOMAIN ends |-> LineBefore(s, ends[n])]

(* What follows the last line end. *)
Unfinished(s) == LineBefore(s, Len(s) + 1)

(* The first line of the block that line n belongs to. *)
BlockStart(lines, n) ==
  LET blanks == {m \in 1..(n - 1) : lines[m] = <<>>} IN 1 + (IF blanks = {} THEN 0 ELSE Max(blanks))

(* The data fields of that block, up to line n. *)
DataLines(lines, n) ==
  {m \in BlockStart(lines, n)..n : m \in DOMAIN lines /\ FieldOf(lines[m]).name = <<Data>>}

Joined(bytes, value) == bytes \o <<LF>> \o value

(* Their values, joined with line feeds. *)
DataOf(lines, n) ==
  LET fields == Ascending(DataLines(lines, n))
      values == [k \in DOMAIN fields |-> FieldOf(lines[fields[k]]).value]
  IN  IF values = <<>> THEN <<>> ELSE Tail(FoldLeft(Joined, <<>>, values))

(* One event for each block of lines that has data and is closed by a blank
   line. *)
Closing(lines) == {n \in DOMAIN lines : lines[n] = <<>> /\ DataLines(lines, n) # {}}

EventsOf(lines) ==
  LET closing == Ascending(Closing(lines))
  IN  [e \in DOMAIN closing |-> DataOf(lines, closing[e])]

(* The text so far; at its end a stream gets the line ends it lacks. *)
Whole == LET t == Payload(fed, phase = "finished")
         IN  IF phase = "finished" THEN t \o <<LF, LF>> ELSE t

(* A line of a text, the unfinished last one too, or the data of a block is
   over the limit. *)
TooLong(s, limit) ==
  \/ \E line \in ToSet(Lines(s)) \cup {Unfinished(s)} : Len(line) > limit
  \/ \E n \in DOMAIN Lines(s) : Len(DataOf(Lines(s), n)) > limit

-----------------------------------------------------------------------------
(* Properties.                                                             *)

(* "events split at arbitrary byte positions across TCP reads ... a CR/LF
   pair split across two reads ... a BOM ... sometimes split too" (sse.c):
   wherever the stream is cut, the events dispatched so far are those of all
   bytes that have come, and at the end those of the whole stream.  Stopped
   by the callback or at its limit the parser has dispatched a beginning of
   them, and after the event the callback refused none follows. *)
EventsOfStream ==
  /\ p.rc = "ok" => p.events = EventsOf(Lines(Whole))
  /\ IsPrefix(p.events, EventsOf(Lines(Whole)))
  /\ stopAt # 0 => Len(p.events) <= stopAt
  /\ p.rc = "stopped" <=> (stopAt # 0 /\ Len(p.events) = stopAt)

(* max_event_bytes refuses exactly the streams that have a line or an event
   of more bytes ("single SSE event", sicha.h), however they are cut.  One
   kind of stream is excepted: sicha_sse_finish does not look whether the
   beginning of a byte order mark, if the stream is nothing else, fits. *)
LimitIsExact ==
  setting.max_event_bytes # 0 =>
    /\ p.rc = "ok" =>
         \/ ~TooLong(Whole, setting.max_event_bytes)
         \/ phase = "finished" /\ IsStrictPrefix(fed, Bom)
    /\ p.rc = "error" => TooLong(Whole, setting.max_event_bytes)
=============================================================================
