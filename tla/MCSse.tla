------------------------------- MODULE MCSse -------------------------------
(* Symbols for the bytes of a stream, and four kinds of streams: line ends    *)
(* and byte order marks, fields with spaces, fields under a limit, and the    *)
(* beginning of a byte order mark under a limit.                              *)
EXTENDS Sse

CONSTANTS bom1, bom2, bom3

MCBom == <<bom1, bom2, bom3>>

MCSettings ==
  { [alphabet |-> {CR, LF, Colon, Data, bom1, bom2, bom3}, max_event_bytes |-> 0,
     stops |-> {1}, length |-> 6],
    [alphabet |-> {LF, Colon, Space, Data}, max_event_bytes |-> 0, stops |-> {2}, length |-> 6],
    [alphabet |-> {LF, Colon, Data, Text}, max_event_bytes |-> 2, stops |-> {}, length |-> 8],
    [alphabet |-> {LF, bom1, bom2}, max_event_bytes |-> 1, stops |-> {}, length |-> 4] }
=============================================================================
