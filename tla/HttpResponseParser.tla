-------------------------- MODULE HttpResponseParser --------------------------
(***************************************************************************)
(* How happyhttp reads the response of one request: Connection::pump hands *)
(* what recv returns to Response::pump, which takes it apart and calls the *)
(* begin, data and complete callbacks.  The server sends one well formed   *)
(* answer, or something that is none, in pieces of any size, may stop      *)
(* anywhere, and may then close the connection.                            *)
(***************************************************************************)
EXTENDS Integers, Sequences, FiniteSets

CONSTANT Answers   \* the answers a server may give

\* What is on the wire: the text of a line, the end of a line, and units of the body.
Tokens == [token : {"status", "field", "chunked", "length", "chunk", "lf", "data"}, number : Nat]
Token(t, n) == [token |-> t, number |-> n]
LF    == Token("lf", 0)
Data  == Token("data", 0)
Field == Token("field", 0)

\* No content, not modified, and what is informational have no body whatever they announce.
Bodyless(status) == status \in {204, 304} \cup 101 .. 199

\* A chunked body: from the line of a chunk follow its units, a line end and the line of the next
\* one, and from that of the last one, of length 0, a trailer and a blank line.
ChunkLines(b) == {i \in DOMAIN b : b[i].token = "chunk"}
LastChunk(b, i) ==
  Len(b) = i + 4 /\ b[i + 2] = Field /\ b[i + 3] = LF /\ b[i + 4] = LF
OtherChunk(b, i, n) ==
  i + n + 3 \in ChunkLines(b) /\ b[i + n + 2] = LF /\ \A k \in 1 .. n : b[i + 1 + k] = Data
InChunks(b) ==
  /\ 1 \in ChunkLines(b)
  /\ \A i \in ChunkLines(b) :
       /\ b[i + 1] = LF
       /\ IF b[i].number = 0 THEN LastChunk(b, i) ELSE OtherChunk(b, i, b[i].number)

IsAnswer(a) ==
  /\ a.interim \in BOOLEAN           \* preceded by "100 Continue"
  /\ a.status \in {0} \cup 101 .. 999  \* 0: no status line of HTTP/1
  /\ a.framing \in {"chunked", "length", "close"}
  /\ a.body \in Seq(Tokens)
  /\ Bodyless(a.status) => a.body = <<>>
  /\ IF a.framing = "chunked" /\ ~Bodyless(a.status)
     THEN InChunks(a.body) ELSE \A i \in DOMAIN a.body : a.body[i] = Data

ASSUME ParserAssumption == \A a \in Answers : IsAnswer(a)

Interim(a) == IF a.interim THEN <<Token("status", 100), LF, LF>> ELSE <<>>
Framing(a) == IF Bodyless(a.status) \/ a.framing = "close" THEN <<LF>>
              ELSE IF a.framing = "chunked" THEN <<Token("chunked", 0), LF, LF>>
                                            ELSE <<Token("length", Len(a.body)), LF, LF>>
Header(a) == <<Token("status", a.status), LF, Field, LF>> \o Framing(a)
Encoded(a) == Interim(a) \o Header(a) \o a.body

VARIABLES
  answer,     \* what the server sends
  wire,       \* ... encoded
  cut,        \* how much of it arrives before the server stops
  closes,     \* the server closes the connection then
  pos,        \* how much Response::pump has used
  end,        \* how much recv has returned
  m_State, m_LineBuf, m_Status, m_Headers, m_Chunked, m_ChunkLeft, m_Length, m_BytesRead,
  begun,      \* how often the begin callback was called
  completed,  \* how often the complete callback was called
  delivered   \* the positions on the wire that were given to the data callback

serverVars == <<answer, wire, cut, closes>>
bodyVars == <<m_Chunked, m_Length, m_ChunkLeft, m_BytesRead>>
callbackVars == <<begun, completed, delivered>>
vars == <<serverVars, pos, end, m_State, m_LineBuf, m_Status, m_Headers, bodyVars, callbackVars>>

LineStates == {"STATUSLINE", "HEADERS", "CHUNKLEN", "CHUNKEND", "TRAILERS"}
Unknown == -1

TypeOK ==
  /\ pos \in Nat /\ end \in Nat /\ cut \in Nat /\ pos <= end /\ end <= cut /\ cut <= Len(wire)
  /\ closes \in BOOLEAN
  /\ m_State \in LineStates \cup {"BODY", "COMPLETE", "WOBBLY"}
  /\ m_Status \in {0} \cup 100 .. 999
  /\ m_Chunked \in BOOLEAN /\ m_Headers.chunked \in BOOLEAN
  /\ {m_Length, m_Headers.length, m_ChunkLeft} \subseteq Nat \cup {Unknown}
  /\ m_BytesRead \in Nat /\ begun \in Nat /\ completed \in Nat
  /\ delivered \subseteq 1 .. pos

Init ==
  /\ answer \in Answers
  /\ wire = Encoded(answer)
  /\ cut \in 0 .. Len(wire)
  /\ closes \in BOOLEAN
  /\ pos = 0 /\ end = 0
  /\ m_State = "STATUSLINE" /\ m_LineBuf = <<>> /\ m_Status = 0
  /\ m_Headers = [chunked |-> FALSE, length |-> Unknown]
  /\ m_Chunked = FALSE /\ m_ChunkLeft = 0 /\ m_Length = Unknown /\ m_BytesRead = 0
  /\ begun = 0 /\ completed = 0 /\ delivered = {}

-----------------------------------------------------------------------------
\* Connection::pump: recv returns some of what has arrived.
Outstanding == m_State \notin {"COMPLETE", "WOBBLY"}
LineForgotten == <<>>
LineKept == m_LineBuf
Recv ==
  /\ Outstanding
  /\ pos = end
  /\ end' \in pos + 1 .. cut
  /\ m_LineBuf' = LineKept
  /\ UNCHANGED <<serverVars, pos, m_State, m_Status, m_Headers, bodyVars, callbackVars>>

\* The peer has closed: only a body without chunks and length may end so.
CloseEndsBody == m_State = "BODY"
CloseEnds == m_State = "BODY" /\ ~m_Chunked /\ m_Length = Unknown
Finish == m_State' = "COMPLETE" /\ completed' = completed + 1
NotifyConnectionClosed ==
  /\ Outstanding
  /\ closes /\ pos = cut
  /\ IF CloseEnds THEN Finish ELSE m_State' = "WOBBLY" /\ UNCHANGED completed
  /\ UNCHANGED <<serverVars, pos, end, m_LineBuf, m_Status, m_Headers, bodyVars, begun, delivered>>

-----------------------------------------------------------------------------
\* Response::pump accumulates a line ...
InLine == m_State \in LineStates /\ pos < end
Next1 == wire[pos + 1]
AccumulateLine ==
  /\ InLine /\ Next1 # LF
  /\ m_LineBuf' = Append(m_LineBuf, Next1)
  /\ pos' = pos + 1
  /\ UNCHANGED <<serverVars, end, m_State, m_Status, m_Headers, bodyVars, callbackVars>>

\* ... and gives it to the function for the state it is in.
WholeLine(state) ==
  /\ InLine /\ Next1 = LF
  /\ m_State = state
  /\ m_LineBuf' = <<>>
  /\ pos' = pos + 1
  /\ UNCHANGED <<serverVars, end, delivered, m_BytesRead>>

Text == IF m_LineBuf = <<>> THEN "" ELSE m_LineBuf[1].token
Number == IF m_LineBuf = <<>> THEN 0 ELSE m_LineBuf[1].number

ProcessStatusLine ==
  /\ WholeLine("STATUSLINE")
  /\ IF Text = "status" /\ Number \in 100 .. 999
     THEN m_State' = "HEADERS" /\ m_Status' = Number
     ELSE m_State' = "WOBBLY" /\ UNCHANGED m_Status
  /\ UNCHANGED <<m_Headers, m_Chunked, m_Length, m_ChunkLeft, begun, completed>>

\* The headers of an interim answer are kept.
ProcessHeaderLine ==
  /\ WholeLine("HEADERS") /\ m_LineBuf # <<>>
  /\ m_Headers' = [chunked |-> m_Headers.chunked \/ Text = "chunked",
                   length  |-> IF Text = "length" THEN Number ELSE m_Headers.length]
  /\ UNCHANGED <<m_State, m_Status, m_Chunked, m_Length, m_ChunkLeft, begun, completed>>

IgnoreContinue ==
  /\ WholeLine("HEADERS") /\ m_LineBuf = <<>>
  /\ m_Status = 100
  /\ m_State' = "STATUSLINE"
  /\ UNCHANGED <<m_Status, m_Headers, m_Chunked, m_Length, m_ChunkLeft, begun, completed>>

AnyStatus == m_Status \in Nat
Final == m_Status # 100
BeginBody ==
  /\ WholeLine("HEADERS") /\ m_LineBuf = <<>>
  /\ Final
  /\ m_Chunked' = m_Headers.chunked
  /\ m_ChunkLeft' = IF m_Headers.chunked THEN Unknown ELSE m_ChunkLeft
  /\ m_Length' = IF Bodyless(m_Status) THEN 0
                 ELSE IF m_Headers.chunked THEN Unknown ELSE m_Headers.length
  /\ begun' = begun + 1
  /\ m_State' = IF m_Headers.chunked THEN "CHUNKLEN" ELSE "BODY"
  /\ UNCHANGED <<m_Status, m_Headers, completed>>

ProcessChunkLenLine ==
  /\ WholeLine("CHUNKLEN")
  /\ m_ChunkLeft' = Number
  /\ m_State' = IF Number = 0 THEN "TRAILERS" ELSE "BODY"
  /\ UNCHANGED <<m_Status, m_Headers, m_Chunked, m_Length, begun, completed>>

\* The line end behind a chunk.
SoakUpLine ==
  /\ WholeLine("CHUNKEND")
  /\ m_State' = "CHUNKLEN"
  /\ UNCHANGED <<m_Status, m_Headers, m_Chunked, m_Length, m_ChunkLeft, begun, completed>>

ProcessTrailerLine ==
  /\ WholeLine("TRAILERS")
  /\ IF m_LineBuf = <<>> THEN Finish ELSE UNCHANGED <<m_State, completed>>
  /\ UNCHANGED <<m_Status, m_Headers, m_Chunked, m_Length, m_ChunkLeft, begun>>

-----------------------------------------------------------------------------
Least(m, n) == IF m < n THEN m ELSE n

\* n units go to the data callback.
Deliver(n) ==
  /\ delivered' = delivered \cup (pos + 1 .. pos + n)
  /\ m_BytesRead' = m_BytesRead + n
  /\ pos' = pos + n
  /\ UNCHANGED <<serverVars, end, m_LineBuf, m_Status, m_Headers, m_Chunked, m_Length, begun>>

AfterChunkAtOnce == "CHUNKLEN"
AfterChunk == "CHUNKEND"
ProcessDataChunked ==
  /\ m_State = "BODY" /\ m_Chunked /\ pos < end
  /\ LET n == Least(end - pos, m_ChunkLeft)
     IN  /\ Deliver(n)
         /\ m_ChunkLeft' = m_ChunkLeft - n
         /\ m_State' = IF m_ChunkLeft = n THEN AfterChunk ELSE "BODY"
  /\ UNCHANGED completed

\* With a length the response is complete as soon as that many units have come.
Remaining == m_Length - m_BytesRead
ProcessDataNonChunked ==
  /\ m_State = "BODY" /\ ~m_Chunked /\ pos < end
  /\ LET n == IF m_Length = Unknown THEN end - pos ELSE Least(end - pos, Remaining)
     IN  /\ Deliver(n)
         /\ IF m_Length # Unknown /\ m_BytesRead + n = m_Length
            THEN Finish
            ELSE UNCHANGED <<m_State, completed>>
  /\ UNCHANGED m_ChunkLeft

-----------------------------------------------------------------------------
Next ==
  \/ Recv \/ NotifyConnectionClosed \/ AccumulateLine
  \/ ProcessStatusLine \/ ProcessHeaderLine \/ IgnoreContinue \/ BeginBody
  \/ ProcessChunkLenLine \/ SoakUpLine \/ ProcessTrailerLine
  \/ ProcessDataChunked \/ ProcessDataNonChunked

\* The pump thread polls while the response is outstanding: what has arrived is read.
Spec == Init /\ [][Next]_vars /\ WF_vars(Next)

-----------------------------------------------------------------------------
Bodies == {i \in DOMAIN wire : wire[i] = Data}
Delimited ==
  answer.status # 0 /\ ~Bodyless(answer.status) /\ answer.framing \in {"chunked", "length"}

\* However recv cuts the stream, the data callback gets the units of the body, each once and
\* nothing else: no chunk length, line end or trailer; and it gets all that was read.
BodyIsDelivered == delivered = {i \in Bodies : i <= pos} /\ Cardinality(delivered) = m_BytesRead

\* The callbacks come in order: one begin, for the final answer only; then the data; then at
\* most one complete, after which nothing is called.
CallbackOrder ==
  /\ begun <= 1 /\ completed <= begun
  /\ delivered # {} => begun = 1
  /\ completed = 1 <=> m_State = "COMPLETE"
  /\ begun = 1 => m_Status = answer.status

\* A response that tells its end is complete only when the whole body was delivered; a
\* connection lost before that never makes it complete.
CompleteIsWhole == (completed = 1 /\ Delimited) => delivered = Bodies

\* An answer that has arrived is completed without the connection being closed when it tells
\* its end and has something behind the header; a closed connection ends every other one.
AnswersEnd ==
  /\ (cut = Len(wire) /\ Delimited /\ answer.body # <<>>) ~> completed = 1
  /\ closes ~> ~Outstanding

\* "check for various cases where we expect zero-length body" (happyhttp.cpp:870): these are not
\* answers that were interrupted.
LostIsCut == m_State = "WOBBLY" /\ answer.status # 0 => cut < Len(wire)

\* The exchange this answer makes.
Exchange == INSTANCE HttpExchange WITH
  phase <- CASE m_State = "COMPLETE" -> "complete"
             [] m_State = "WOBBLY"   -> "failed"
             [] OTHER                -> IF begun = 0 THEN "wait" ELSE "body",
  status <- IF begun = 0 THEN 0 ELSE m_Status,
  code <- IF m_State = "WOBBLY" THEN 999
          ELSE IF delivered # {} /\ m_Status # 200 THEN m_Status ELSE 0,
  number <- 1

\* Whatever arrives, in whatever pieces, the user is called for the header of the final answer
\* only, then for data, then for the end, and for nothing after it.
MakesOneExchange == Exchange!Spec
=============================================================================
