------------------------- MODULE MCHttpResponseParser -------------------------
(***************************************************************************)
(* Answers of every framing, with up to two pieces of up to two units.     *)
(***************************************************************************)
EXTENDS HttpResponseParser, SequencesExt

Units(n) == [i \in 1 .. n |-> Data]
Chunk(n) == <<Token("chunk", n), LF>> \o Units(n) \o <<LF>>
ChunkedBody(parts) ==
  FlattenSeq([i \in DOMAIN parts |-> Chunk(parts[i])]) \o <<Token("chunk", 0), LF, Field, LF, LF>>

MCParts == {<<>>, <<1>>, <<2>>, <<1, 2>>, <<2, 1>>}
MCAnswers ==
  [interim : BOOLEAN, status : {200}, framing : {"chunked"}, body : {ChunkedBody(p) : p \in MCParts}]
    \cup [interim : BOOLEAN, status : {200}, framing : {"length", "close"},
          body : {Units(n) : n \in 0 .. 3}]
    \cup [interim : {FALSE}, status : {0, 204}, framing : {"length"}, body : {<<>>}]
=============================================================================
