----------------------- MODULE HttpResponseParserProofs -----------------------
(***************************************************************************)
(* What HttpResponseParser does to every well formed answer, however recv  *)
(* cuts it and wherever it breaks off.                                     *)
(***************************************************************************)
EXTENDS HttpResponseParser, TLAPS, FiniteSetTheorems, SequenceTheorems

\* How long what precedes the header of the final answer is, and whether that header says how
\* the body is framed.
Offset == IF answer.interim THEN 3 ELSE 0
Framed == ~Bodyless(answer.status) /\ answer.framing # "close"
Border == Offset + IF Framed THEN 7 ELSE 5

\* What is where on the wire.
HeaderShape(w) ==
  /\ w \in Seq(Tokens)
  /\ Len(w) = Border + Len(answer.body)
  /\ answer.interim => w[1] = Token("status", 100) /\ w[2] = LF /\ w[3] = LF
  /\ w[Offset + 1] = Token("status", answer.status) /\ w[Offset + 2] = LF
  /\ w[Offset + 3] = Field /\ w[Offset + 4] = LF
  /\ Framed => /\ w[Offset + 5] = IF answer.framing = "chunked" THEN Token("chunked", 0)
                                  ELSE Token("length", Len(answer.body))
               /\ w[Offset + 6] = LF
  /\ w[Border] = LF
  /\ \A i \in 1 .. Len(answer.body) : w[Border + i] = answer.body[i]

LEMMA TokensDiffer ==
  /\ LF \in Tokens /\ Data \in Tokens /\ Field \in Tokens
  /\ LF # Data /\ LF # Field /\ Data # Field
BY DEF LF, Data, Field, Token, Tokens

LEMMA TextIsToken ==
  ASSUME NEW t \in {"status", "field", "chunked", "length", "chunk"}, NEW n \in Nat
  PROVE  Token(t, n) \in Tokens /\ Token(t, n).token = t /\ Token(t, n).number = n
         /\ Token(t, n) # LF /\ Token(t, n) # Data
BY DEF LF, Data, Token, Tokens

\* Concatenation, to be reasoned about by what this lemma says of it and not by its definition.
Cat(s, t) == s \o t

LEMMA CatShape ==
  ASSUME NEW s \in Seq(Tokens), NEW t \in Seq(Tokens)
  PROVE  /\ Cat(s, t) \in Seq(Tokens) /\ Len(Cat(s, t)) = Len(s) + Len(t)
         /\ \A i \in 1 .. Len(s) : Cat(s, t)[i] = s[i]
         /\ \A i \in 1 .. Len(t) : Cat(s, t)[Len(s) + i] = t[i]
<1>1. s \o t \in Seq(Tokens) /\ Len(s \o t) = Len(s) + Len(t)
  OBVIOUS
<1>2. \A i \in 1 .. Len(s) : (s \o t)[i] = s[i]
  OBVIOUS
<1>3. \A i \in 1 .. Len(t) : (s \o t)[Len(s) + i] = t[i]
  OBVIOUS
<1>q. QED
  BY <1>1, <1>2, <1>3, Zenon DEF Cat

\* The parts of the header, by cases.
LEMMA PartShapes ==
  ASSUME IsAnswer(answer)
  PROVE  /\ Interim(answer) \in Seq(Tokens) /\ Len(Interim(answer)) = Offset
         /\ answer.interim => /\ Interim(answer)[1] = Token("status", 100)
                              /\ Interim(answer)[2] = LF /\ Interim(answer)[3] = LF
         /\ Framing(answer) \in Seq(Tokens) /\ Len(Framing(answer)) = IF Framed THEN 3 ELSE 1
         /\ Framed => /\ Framing(answer)[1] = IF answer.framing = "chunked" THEN Token("chunked", 0)
                                              ELSE Token("length", Len(answer.body))
                      /\ Framing(answer)[2] = LF /\ Framing(answer)[3] = LF
         /\ ~Framed => Framing(answer)[1] = LF
<1>1. Len(answer.body) \in Nat
  BY DEF IsAnswer
<1>2. CASE ~Framed
  BY <1>2, TokensDiffer, TextIsToken DEF Framing, Framed, Interim, Offset
<1>3. CASE Framed /\ answer.framing = "chunked"
  BY <1>3, TextIsToken, TokensDiffer DEF Framing, Framed, Interim, Offset
<1>4. CASE Framed /\ answer.framing # "chunked"
  BY <1>1, <1>4, TextIsToken, TokensDiffer DEF Framing, Framed, Interim, Offset
<1>q. QED
  BY <1>2, <1>3, <1>4

LEMMA Shape == ASSUME IsAnswer(answer) PROVE HeaderShape(Encoded(answer))
<1> DEFINE Q == <<Token("status", answer.status), LF, Field, LF>>
           F == Framing(answer)  H == Cat(Q, F)  I == Interim(answer)  V == Cat(I, H)
           w == Cat(V, answer.body)
<1>0. /\ I \in Seq(Tokens) /\ Len(I) = Offset /\ Offset \in {0, 3}
      /\ answer.interim => I[1] = Token("status", 100) /\ I[2] = LF /\ I[3] = LF /\ Offset = 3
      /\ F \in Seq(Tokens) /\ Len(F) = IF Framed THEN 3 ELSE 1
  BY PartShapes DEF Offset
<1>1. /\ Q \in Seq(Tokens) /\ Len(Q) = 4 /\ Q[1] = Token("status", answer.status) /\ Q[2] = LF
      /\ Q[3] = Field /\ Q[4] = LF
  <2>1. answer.status \in Nat
    <3>1. answer.status \in {0} \cup 101 .. 999
      BY DEF IsAnswer
    <3>q. QED
      BY ONLY <3>1
  <2>2. Token("status", answer.status) \in Tokens
    BY <2>1, TextIsToken
  <2>q. QED
    BY <2>2, TokensDiffer
<1> HIDE DEF Q
<1>2. /\ H \in Seq(Tokens) /\ Len(H) = Len(Q) + Len(F)
      /\ \A i \in 1 .. Len(Q) : H[i] = Q[i]
      /\ \A i \in 1 .. Len(F) : H[Len(Q) + i] = F[i]
  BY <1>0, <1>1, CatShape, Zenon
<1>3. /\ H[1] = Q[1] /\ H[2] = Q[2] /\ H[3] = Q[3] /\ H[4] = Q[4]
      /\ \A i \in 1 .. Len(F) : H[4 + i] = F[i]
  BY <1>1, <1>2
<1> HIDE DEF H, F, I
<1>4. /\ V \in Seq(Tokens) /\ Len(V) = Len(I) + Len(H)
      /\ \A i \in 1 .. Len(I) : V[i] = I[i]
      /\ \A i \in 1 .. Len(H) : V[Len(I) + i] = H[i]
  BY <1>0, <1>2, CatShape, Zenon
<1> HIDE DEF V
<1>5. answer.body \in Seq(Tokens)
  BY DEF IsAnswer
<1>6. /\ w \in Seq(Tokens) /\ Len(w) = Len(V) + Len(answer.body)
      /\ \A i \in 1 .. Len(V) : w[i] = V[i]
      /\ \A i \in 1 .. Len(answer.body) : w[Len(V) + i] = answer.body[i]
  BY <1>4, <1>5, CatShape, Zenon
<1>7. w = Encoded(answer)
  BY DEF Encoded, Header, Cat, H, F, I, V, Q
<1> HIDE DEF w
<1>8. Len(V) = Border /\ Border = Offset + Len(H) /\ Len(H) = 4 + Len(F)
  BY <1>0, <1>1, <1>2, <1>4 DEF Border
<1>9. \A i \in 1 .. Len(H) : w[Offset + i] = H[i]
  <2> SUFFICES ASSUME NEW i \in 1 .. Len(H) PROVE w[Offset + i] = H[i]
    OBVIOUS
  <2>1. Offset + i \in 1 .. Len(V) /\ V[Offset + i] = H[i]
    BY <1>0, <1>2, <1>4, <1>8
  <2>q. QED
    BY <1>6, <2>1
<1>10. answer.interim => w[1] = I[1] /\ w[2] = I[2] /\ w[3] = I[3]
  <2>1. \A i \in 1 .. Len(I) : i \in 1 .. Len(V)
    BY <1>0, <1>2, <1>4
  <2>2. \A i \in 1 .. Len(I) : w[i] = I[i]
    BY <1>4, <1>6, <2>1
  <2>q. QED
    BY <1>0, <2>2
<1>11. /\ w[Offset + 1] = H[1] /\ w[Offset + 2] = H[2] /\ w[Offset + 3] = H[3]
       /\ w[Offset + 4] = H[4] /\ w[Offset + 5] = F[1]
       /\ Framed => w[Offset + 6] = F[2] /\ w[Offset + 7] = F[3]
  <2>1. \A i \in 1 .. Len(F) : w[Offset + (4 + i)] = F[i]
    <3> TAKE i \in 1 .. Len(F)
    <3>1. 4 + i \in 1 .. Len(H)
      BY <1>0, <1>8
    <3>q. QED
      BY <1>3, <1>9, <3>1
  <2>2. w[Offset + (4 + 1)] = F[1] /\ (Framed => w[Offset + (4 + 2)] = F[2] /\ w[Offset + (4 + 3)] = F[3])
    BY <1>0, <2>1
  <2>q. QED
    BY <1>0, <1>8, <1>9, <2>2
<1>12. w[Border] = LF
  BY <1>0, <1>8, <1>11, PartShapes DEF F, Border
<1>13. /\ Len(w) = Border + Len(answer.body)
       /\ \A i \in 1 .. Len(answer.body) : w[Border + i] = answer.body[i]
  BY <1>6, <1>8
<1>14. HeaderShape(w)
  BY <1>0, <1>1, <1>3, <1>6, <1>10, <1>11, <1>12, <1>13, PartShapes DEF HeaderShape, F
<1>q. QED
  BY <1>7, <1>14

-----------------------------------------------------------------------------
\* The chunks, as they are on the wire.
Chunked == answer.framing = "chunked" /\ ~Bodyless(answer.status)
IsChunkLine(i) == i \in Border + 1 .. Len(wire) /\ wire[i].token = "chunk"
LineOfChunk(i) ==
  /\ wire[i].number \in Nat /\ wire[i + 1] = LF
  /\ wire[i].number = 0 =>
       Len(wire) = i + 4 /\ wire[i + 2] = Field /\ wire[i + 3] = LF /\ wire[i + 4] = LF
  /\ wire[i].number > 0 =>
       /\ IsChunkLine(i + wire[i].number + 3) /\ wire[i + wire[i].number + 2] = LF
       /\ \A k \in 1 .. wire[i].number : wire[i + 1 + k] = Data
WireInv ==
  /\ IsAnswer(answer) /\ HeaderShape(wire)
  /\ Chunked => IsChunkLine(Border + 1) /\ \A i \in Int : IsChunkLine(i) => LineOfChunk(i)
  /\ ~Chunked => \A i \in Border + 1 .. Len(wire) : wire[i] = Data

LEMMA InitWire == ASSUME IsAnswer(answer), wire = Encoded(answer) PROVE WireInv
<1> DEFINE b == answer.body
<1>0. HeaderShape(wire)
  BY Shape
<1>1. b \in Seq(Tokens) /\ Len(b) \in Nat /\ Border \in Nat /\ DOMAIN b = 1 .. Len(b)
  BY DEF IsAnswer, Border, Offset
<1>2. Len(wire) = Border + Len(b) /\ \A i \in 1 .. Len(b) : wire[Border + i] = b[i]
  BY <1>0 DEF HeaderShape
<1>3. ASSUME ~Chunked, NEW i \in Border + 1 .. Len(wire) PROVE wire[i] = Data
  <2>1. i - Border \in 1 .. Len(b) /\ Border + (i - Border) = i
    BY <1>1, <1>2, <1>3
  <2>2. b[i - Border] = Data
    BY <1>1, <1>3, <2>1 DEF IsAnswer, Chunked
  <2>q. QED
    BY <1>2, <2>1, <2>2
<1>4. ASSUME Chunked
      PROVE  IsChunkLine(Border + 1) /\ \A i \in Int : IsChunkLine(i) => LineOfChunk(i)
  <2>1. InChunks(b)
    BY <1>4 DEF IsAnswer, Chunked
  <2>2. \A j \in Int : j \in ChunkLines(b) <=> IsChunkLine(Border + j)
    <3> TAKE j \in Int
    <3>1. j \in 1 .. Len(b) <=> Border + j \in Border + 1 .. Len(wire)
      BY <1>1, <1>2
    <3>q. QED
      BY <1>1, <1>2, <3>1 DEF ChunkLines, IsChunkLine
  <2>3. ASSUME NEW i \in Int, IsChunkLine(i) PROVE LineOfChunk(i)
    <3> DEFINE j == i - Border  n == b[j].number
    <3>1. j \in 1 .. Len(b) /\ Border + j = i /\ j \in ChunkLines(b)
      <4>1. j \in Int /\ Border + j = i
        BY <1>1
      <4>2. j \in ChunkLines(b)
        BY <2>2, <2>3, <4>1
      <4>q. QED
        BY <1>1, <4>1, <4>2 DEF ChunkLines
    <3>2. wire[i] = b[j] /\ n \in Nat
      <4>1. wire[Border + j] = b[j]
        BY <1>2, <3>1
      <4>2. b[j] \in Tokens
        BY <1>1, <3>1
      <4>q. QED
        BY <3>1, <4>1, <4>2 DEF Tokens
    <3>3. b[j + 1] = LF /\ IF n = 0 THEN LastChunk(b, j) ELSE OtherChunk(b, j, n)
      BY <2>1, <3>1 DEF InChunks
    <3> HIDE DEF j, n
    <3>4. \A k \in Int : j + k \in 1 .. Len(b) => wire[i + k] = b[j + k]
      <4> TAKE k \in Int
      <4> HAVE j + k \in 1 .. Len(b)
      <4>1. wire[Border + (j + k)] = b[j + k]
        BY <1>2
      <4>2. Border + (j + k) = i + k
        BY <1>1, <3>1
      <4>q. QED
        BY <4>1, <4>2
    <3>5. CASE n = 0
      <4>1. Len(b) = j + 4 /\ b[j + 2] = Field /\ b[j + 3] = LF /\ b[j + 4] = LF
        BY <3>3, <3>5 DEF LastChunk
      <4>2. /\ wire[i + 1] = b[j + 1] /\ wire[i + 2] = b[j + 2] /\ wire[i + 3] = b[j + 3]
            /\ wire[i + 4] = b[j + 4]
        BY <1>1, <3>1, <3>4, <4>1
      <4>3. Len(wire) = i + 4
        BY <1>1, <1>2, <3>1, <4>1
      <4>4. wire[i].number = 0
        BY <3>2, <3>5 DEF n
      <4>q. QED
        BY <3>3, <4>1, <4>2, <4>3, <4>4 DEF LineOfChunk
    <3>6. CASE n # 0
      <4>1. /\ j + n + 3 \in ChunkLines(b) /\ b[j + n + 2] = LF
            /\ \A k \in 1 .. n : b[j + 1 + k] = Data
        BY <3>3, <3>6 DEF OtherChunk
      <4>2. j + n + 3 \in 1 .. Len(b) /\ IsChunkLine(i + n + 3)
        <5>1. Border + (j + n + 3) = i + n + 3 /\ j + n + 3 \in Int
          BY <1>1, <3>1, <3>2
        <5>q. QED
          BY <1>1, <2>2, <4>1, <5>1 DEF ChunkLines
      <4>0. j \in Nat /\ n \in Nat /\ n > 0 /\ Len(b) \in Nat /\ j + n + 3 <= Len(b) /\ j >= 1
        BY <1>1, <3>1, <3>2, <3>6, <4>2
      <4>3. wire[i + 1] = LF /\ wire[i + n + 2] = LF
        <5>1. j + 1 \in 1 .. Len(b) /\ j + (n + 2) \in 1 .. Len(b)
          BY ONLY <4>0
        <5>2. wire[i + 1] = b[j + 1] /\ wire[i + (n + 2)] = b[j + (n + 2)]
          BY <3>4, <4>0, <5>1
        <5>3. i + (n + 2) = i + n + 2 /\ j + (n + 2) = j + n + 2
          BY <4>0
        <5>q. QED
          BY <3>3, <4>1, <5>2, <5>3
      <4>4. ASSUME NEW k \in 1 .. n PROVE wire[i + 1 + k] = Data
        <5>1. j + (1 + k) \in 1 .. Len(b)
          BY <4>0
        <5>2. wire[i + (1 + k)] = b[j + (1 + k)]
          BY <3>4, <5>1
        <5>q. QED
          BY <3>1, <4>1, <5>2
      <4>q. QED
        BY <3>2, <3>6, <4>2, <4>3, <4>4 DEF LineOfChunk, n
    <3>q. QED
      BY <3>5, <3>6
  <2>4. IsChunkLine(Border + 1)
    BY <2>1, <2>2 DEF InChunks
  <2>q. QED
    BY <2>3, <2>4
<1>q. QED
  BY <1>0, <1>3, <1>4 DEF WireInv

-----------------------------------------------------------------------------
\* Where the line begins of which m_LineBuf holds the text, and of which there is at most that.
Start == IF m_LineBuf = <<>> THEN pos ELSE pos - 1
LineInv ==
  /\ pos \in Nat /\ end \in Nat /\ cut \in Nat /\ pos <= end /\ end <= cut /\ cut <= Len(wire)
  /\ closes \in BOOLEAN
  /\ \/ m_LineBuf = <<>>
     \/ /\ m_LineBuf = <<wire[pos]>> /\ wire[pos] # LF /\ pos > 0
        /\ m_State \in LineStates \cup {"WOBBLY"}

\* What the headers say, before and behind the line that frames the body.
NotTold == [chunked |-> FALSE, length |-> Unknown]
Told == [chunked |-> Chunked,
         length  |-> IF Framed /\ answer.framing = "length" THEN Len(answer.body) ELSE Unknown]

\* Where on the wire the parser is, in every state.
InHeader ==
  \/ m_State = "STATUSLINE" /\ (Start = 0 \/ (answer.interim /\ Start = 3)) /\ m_Headers = NotTold
  \/ /\ m_State = "HEADERS" /\ m_Headers = NotTold
     /\ m_Status = 100 /\ answer.interim /\ Start = 2 /\ m_LineBuf = <<>>
  \/ /\ m_State = "HEADERS" /\ m_Headers = NotTold
     /\ m_Status = answer.status /\ Start \in {Offset + 2, Offset + 4}
  \/ /\ m_State = "HEADERS" /\ m_Headers = Told
     /\ m_Status = answer.status /\ Framed /\ Start = Offset + 6
InChunkedBody ==
  \/ m_State = "CHUNKLEN" /\ IsChunkLine(Start + 1)
  \/ /\ m_State = "CHUNKEND" /\ m_LineBuf = <<>>
     /\ wire[pos + 1] = LF /\ IsChunkLine(pos + 2)
  \/ /\ m_State = "TRAILERS" /\ Start \in Nat /\ wire[Len(wire)] = LF
     /\ \/ Start = Len(wire) - 1
        \/ Start = Len(wire) - 3 /\ wire[Start + 1] = Field /\ wire[Start + 2] = LF
  \/ /\ m_State = "BODY" /\ m_ChunkLeft \in Nat /\ m_ChunkLeft > 0
     /\ \A k \in 1 .. m_ChunkLeft : wire[pos + k] = Data
     /\ wire[pos + m_ChunkLeft + 1] = LF /\ IsChunkLine(pos + m_ChunkLeft + 2)
InPlainBody ==
  /\ m_State = "BODY" /\ pos >= Border /\ m_BytesRead = pos - Border
  /\ m_Length = IF Bodyless(answer.status) THEN 0 ELSE Told.length
PlaceInv ==
  /\ begun = 0 => InHeader \/ m_State = "WOBBLY"
  /\ begun = 1 /\ m_Chunked => InChunkedBody \/ m_State \in {"WOBBLY", "COMPLETE"}
  /\ begun = 1 /\ ~m_Chunked => InPlainBody \/ m_State \in {"WOBBLY", "COMPLETE"}
  /\ m_State = "COMPLETE" /\ Delimited => pos = Len(wire)

\* The callbacks made so far and what is known since.
CallInv ==
  /\ begun \in {0, 1}
  /\ completed = IF m_State = "COMPLETE" THEN 1 ELSE 0
  /\ m_State = "COMPLETE" => begun = 1
  /\ begun = 0 => delivered = {}
  /\ m_State = "HEADERS" => m_Status # 0
  /\ begun = 1 => /\ m_Status = answer.status /\ answer.status # 0
                  /\ m_Chunked = Chunked
                  /\ m_Headers = Told

DataInv ==
  /\ delivered = {i \in Bodies : i <= pos}
  /\ IsFiniteSet(delivered) /\ Cardinality(delivered) = m_BytesRead

IInv == WireInv /\ TypeOK /\ LineInv /\ PlaceInv /\ CallInv /\ DataInv

-----------------------------------------------------------------------------
\* The types of what is on the wire.
LEMMA WireTypes ==
  ASSUME WireInv
  PROVE  /\ wire \in Seq(Tokens) /\ Len(wire) \in Nat /\ DOMAIN wire = 1 .. Len(wire)
         /\ answer.body \in Seq(Tokens) /\ Len(answer.body) \in Nat
         /\ answer.status \in {0} \cup 101 .. 999
         /\ answer.interim \in BOOLEAN /\ answer.framing \in {"chunked", "length", "close"}
         /\ Offset \in {0, 3} /\ (Offset = 3 <=> answer.interim)
         /\ Border = Offset + (IF Framed THEN 7 ELSE 5) /\ Border \in Nat
         /\ Len(wire) = Border + Len(answer.body)
         /\ Chunked => Framed
<1>1. /\ answer.body \in Seq(Tokens) /\ Len(answer.body) \in Nat
      /\ answer.status \in {0} \cup 101 .. 999
      /\ answer.interim \in BOOLEAN /\ answer.framing \in {"chunked", "length", "close"}
  BY DEF WireInv, IsAnswer
<1>2. /\ wire \in Seq(Tokens) /\ Len(wire) \in Nat /\ DOMAIN wire = 1 .. Len(wire)
      /\ Len(wire) = Border + Len(answer.body)
  BY DEF WireInv, HeaderShape
<1>3. /\ Offset \in {0, 3} /\ (Offset = 3 <=> answer.interim)
      /\ Border = Offset + (IF Framed THEN 7 ELSE 5) /\ Border \in Nat
  BY DEF Offset, Border
<1>4. Chunked => Framed
  BY DEF Chunked, Framed
<1>q. QED
  BY <1>1, <1>2, <1>3, <1>4

\* Neither the header nor the line of a chunk holds data.
LEMMA HeaderIsText == ASSUME WireInv PROVE \A i \in 1 .. Border : wire[i] # Data
<1> USE WireTypes
<1>1. HeaderShape(wire)
  BY DEF WireInv
<1>2. /\ Token("status", 100) # Data /\ Token("status", answer.status) # Data
      /\ Token("chunked", 0) # Data /\ Token("length", Len(answer.body)) # Data
  BY DEF Token, Data
<1>3. CASE ~answer.interim
  <2>1. Offset = 0
    BY <1>3
  <2>2. wire[1] # Data /\ wire[2] # Data /\ wire[3] # Data /\ wire[4] # Data /\ wire[Border] # Data
    BY <1>1, <1>2, <2>1, TokensDiffer DEF HeaderShape
  <2>3. Framed => wire[5] # Data /\ wire[6] # Data
    BY <1>1, <1>2, <2>1, TokensDiffer DEF HeaderShape
  <2>q. QED
    BY <2>1, <2>2, <2>3
<1>4. CASE answer.interim
  <2>1. Offset = 3
    BY <1>4
  <2>2. /\ wire[1] # Data /\ wire[2] # Data /\ wire[3] # Data /\ wire[4] # Data /\ wire[5] # Data
        /\ wire[6] # Data /\ wire[7] # Data /\ wire[Border] # Data
    BY <1>1, <1>2, <1>4, <2>1, TokensDiffer, SMTT(20) DEF HeaderShape
  <2>3. Framed => wire[8] # Data /\ wire[9] # Data
    BY <1>1, <1>2, <2>1, TokensDiffer DEF HeaderShape
  <2>q. QED
    BY <2>1, <2>2, <2>3
<1>q. QED
  BY <1>3, <1>4

LEMMA ChunkLineIsText ==
  ASSUME WireInv, Chunked, NEW i \in Int, IsChunkLine(i)
  PROVE  /\ wire[i] # Data /\ wire[i] # LF /\ i \in 1 .. Len(wire) /\ LineOfChunk(i)
         /\ i + 1 <= Len(wire)
<1>1. wire[i] # Data /\ wire[i] # LF
  BY DEF IsChunkLine, Data, LF, Token
<1>2. LineOfChunk(i) /\ i \in Border + 1 .. Len(wire)
  BY DEF WireInv, IsChunkLine
<1>3. i \in 1 .. Len(wire)
  BY <1>2, WireTypes
<1>4. i + 1 <= Len(wire)
  <2>1. CASE wire[i].number = 0
    BY <1>2, <1>3, <2>1, WireTypes DEF LineOfChunk
  <2>2. CASE wire[i].number > 0
    <3>1. i + wire[i].number + 3 \in Border + 1 .. Len(wire) /\ wire[i].number \in Nat
      BY <1>2, <2>2 DEF LineOfChunk, IsChunkLine
    <3>q. QED
      BY <1>3, <3>1, WireTypes
  <2>q. QED
    BY <1>2, <2>1, <2>2 DEF LineOfChunk
<1>q. QED
  BY <1>1, <1>2, <1>3, <1>4

\* A line that begins at Start holds no data; it is empty, or one token and the line end.
LEMMA LineText ==
  ASSUME IInv, m_State \in LineStates
  PROVE  /\ Start \in Nat /\ Start + 1 <= Len(wire) /\ wire[Start + 1] # Data
         /\ wire[Start + 1] # LF => Start + 2 <= Len(wire) /\ wire[Start + 2] = LF
         /\ m_LineBuf = <<>> => Start = pos
         /\ m_LineBuf # <<>> =>
              Start + 1 = pos /\ m_LineBuf = <<wire[Start + 1]>> /\ wire[Start + 1] # LF
<1>0. WireInv /\ LineInv /\ PlaceInv /\ CallInv
  BY DEF IInv
<1>t. HeaderShape(wire) /\ Len(wire) \in Nat /\ Border \in Nat /\ Border <= Len(wire)
  BY <1>0, WireTypes DEF WireInv
<1>u. /\ Offset \in {0, 3} /\ (Offset = 3 <=> answer.interim)
      /\ Border = Offset + (IF Framed THEN 7 ELSE 5)
  BY <1>0, WireTypes
<1>1. /\ pos \in Nat /\ Start \in Int /\ (m_LineBuf = <<>> => Start = pos)
      /\ m_LineBuf # <<>> =>
           Start + 1 = pos /\ m_LineBuf = <<wire[Start + 1]>> /\ wire[Start + 1] # LF
  <2>1. CASE m_LineBuf = <<>>
    BY <1>0, <2>1 DEF LineInv, Start
  <2>2. CASE m_LineBuf # <<>>
    <3>1. pos \in Nat /\ Start = pos - 1 /\ m_LineBuf = <<wire[pos]>> /\ wire[pos] # LF
      BY <1>0, <2>2 DEF LineInv, Start
    <3>2. Start + 1 = pos /\ Start \in Int
      BY <3>1
    <3>q. QED
      BY <2>2, <3>1, <3>2
  <2>q. QED
    BY <2>1, <2>2
<1>2. InHeader \/ (Chunked /\ InChunkedBody)
  BY <1>0 DEF PlaceInv, CallInv, LineStates, InPlainBody
<1>3. CASE InHeader
  <2>1. \/ Start = 0 \/ (answer.interim /\ Start \in {2, 3})
        \/ Start \in {Offset + 2, Offset + 4} \/ (Framed /\ Start = Offset + 6)
    BY <1>3 DEF InHeader
  <2>2. /\ Start + 1 <= Border /\ Start \in Nat
        /\ wire[Start + 1] # LF => Start + 2 <= Border /\ wire[Start + 2] = LF
    <3>1. CASE Start = Offset
      BY <1>t, <1>u, <3>1 DEF HeaderShape
    <3>2. CASE answer.interim /\ Start \in {0, 2}
      <4>1. Border >= 8
        BY <1>u, <3>2
      <4>2. wire[2] = LF /\ wire[3] = LF
        BY <1>t, <3>2 DEF HeaderShape
      <4>q. QED
        BY <1>t, <3>2, <4>1, <4>2
    <3>3. CASE Start \in {Offset + 2, Offset + 4}
      <4>1. Border >= Offset + 5 /\ (Framed => Border >= Offset + 6) /\ (~Framed => Border = Offset + 5)
        BY <1>u
      <4>2. /\ wire[Offset + 3] = Field /\ wire[Offset + 4] = LF /\ wire[Border] = LF
            /\ Framed => wire[Offset + 6] = LF
        BY <1>t DEF HeaderShape
      <4>3. CASE Start = Offset + 2
        BY <1>u, <1>t, <4>1, <4>2, <4>3
      <4>4. CASE Start = Offset + 4
        BY <1>u, <1>t, <4>1, <4>2, <4>4
      <4>q. QED
        BY <3>3, <4>3, <4>4
    <3>4. CASE Framed /\ Start = Offset + 6
      BY <1>t, <1>u, <3>4 DEF HeaderShape
    <3>q. QED
      BY <1>u, <2>1, <3>1, <3>2, <3>3, <3>4
  <2>3. wire[Start + 1] # Data
    BY <1>0, <1>t, <2>2, HeaderIsText
  <2>q. QED
    BY <1>1, <1>t, <2>2, <2>3
<1>4. CASE Chunked /\ InChunkedBody
  <2>1. CASE m_State = "CHUNKLEN"
    <3>1. IsChunkLine(Start + 1)
      BY <1>4, <2>1 DEF InChunkedBody
    <3>2. /\ wire[Start + 1] # Data /\ Start + 1 \in 1 .. Len(wire) /\ LineOfChunk(Start + 1)
          /\ Start + 1 + 1 <= Len(wire)
      BY <1>0, <1>1, <1>4, <3>1, ChunkLineIsText
    <3>3. wire[Start + 1 + 1] = LF
      BY <3>2 DEF LineOfChunk
    <3>4. Start \in Nat /\ Start + 1 <= Len(wire) /\ Start + 2 <= Len(wire) /\ Start + 1 + 1 = Start + 2
      BY <1>1, <1>t, <3>2
    <3>q. QED
      BY <1>1, <3>2, <3>3, <3>4
  <2>2. CASE m_State = "CHUNKEND"
    <3>1. m_LineBuf = <<>> /\ wire[pos + 1] = LF /\ IsChunkLine(pos + 2)
      BY <1>4, <2>2 DEF InChunkedBody
    <3>2. pos + 2 <= Len(wire)
      BY <1>t, <3>1 DEF IsChunkLine
    <3>q. QED
      BY <1>1, <1>t, <3>1, <3>2, TokensDiffer
  <2>3. CASE m_State = "TRAILERS"
    <3>1. /\ Start \in Nat /\ wire[Len(wire)] = LF
          /\ \/ Start = Len(wire) - 1
             \/ Start = Len(wire) - 3 /\ wire[Start + 1] = Field /\ wire[Start + 2] = LF
      BY <1>4, <2>3 DEF InChunkedBody
    <3>q. QED
      BY <1>1, <1>t, <3>1, TokensDiffer
  <2>q. QED
    BY <2>1, <2>2, <2>3, <1>4 DEF LineStates, InChunkedBody
<1>q. QED
  BY <1>2, <1>3, <1>4

-----------------------------------------------------------------------------
\* What is on the wire does not change, nor what is defined by it.
LEMMA WireStays ==
  ASSUME UNCHANGED <<answer, wire>>
  PROVE  /\ WireInv => WireInv'
         /\ Border' = Border /\ Offset' = Offset /\ Told' = Told /\ Bodies' = Bodies
         /\ Framed' = Framed /\ Chunked' = Chunked /\ Delimited' = Delimited
BY DEF WireInv, IsChunkLine, LineOfChunk, HeaderShape, Chunked, Framed, Border, Offset, Told,
       Bodies, Delimited

\* Text passes by the data callback.
LEMMA TextStep ==
  ASSUME WireInv, DataInv, wire' = wire, pos \in Nat, pos' = pos + 1, pos + 1 <= Len(wire),
         wire[pos + 1] # Data, UNCHANGED <<delivered, m_BytesRead>>
  PROVE  DataInv' /\ delivered' \subseteq 1 .. pos'
<1>1. DOMAIN wire = 1 .. Len(wire) /\ Len(wire) \in Nat
  BY WireTypes
<1>2. {i \in Bodies : i <= pos + 1} = {i \in Bodies : i <= pos}
  BY <1>1 DEF Bodies
<1>3. Bodies' = Bodies
  BY DEF Bodies
<1>4. DataInv'
  BY <1>2, <1>3 DEF DataInv
<1>5. delivered \subseteq 1 .. pos + 1
  BY <1>1 DEF DataInv, Bodies
<1>q. QED
  BY <1>4, <1>5

\* n units of data are given to it once each.
LEMMA DataStep ==
  ASSUME WireInv, DataInv, wire' = wire, pos \in Nat, NEW n \in Nat, pos + n <= Len(wire),
         \A k \in 1 .. n : wire[pos + k] = Data, m_BytesRead \in Nat,
         pos' = pos + n, delivered' = delivered \cup (pos + 1 .. pos + n),
         m_BytesRead' = m_BytesRead + n
  PROVE  DataInv' /\ delivered' \subseteq 1 .. pos'
<1>1. DOMAIN wire = 1 .. Len(wire) /\ Len(wire) \in Nat
  BY WireTypes
<1> DEFINE new == pos + 1 .. pos + n
<1>2. \A i \in new : i \in Bodies
  <2> TAKE i \in new
  <2>1. i - pos \in 1 .. n /\ pos + (i - pos) = i /\ i \in 1 .. Len(wire)
    BY <1>1
  <2>q. QED
    BY <1>1, <2>1 DEF Bodies
<1>3. Bodies \subseteq Int
  BY <1>1 DEF Bodies
<1>4. \A i \in Int : i <= pos + n <=> (i <= pos \/ i \in new)
  OBVIOUS
<1>5. delivered' = {i \in Bodies : i <= pos + n}
  BY <1>2, <1>3, <1>4 DEF DataInv
<1>6. IsFiniteSet(new) /\ Cardinality(new) = n
  <2>1. pos + 1 \in Int /\ pos + n \in Int /\ (pos + 1 > pos + n => n = 0)
        /\ (pos + 1 <= pos + n => pos + n - (pos + 1) + 1 = n)
    OBVIOUS
  <2>q. QED
    BY <2>1, FS_Interval
<1>7. delivered \cap new = {}
  BY <1>3 DEF DataInv
<1>8. IsFiniteSet(delivered') /\ Cardinality(delivered') = m_BytesRead + n
  <2>1. IsFiniteSet(delivered) /\ Cardinality(delivered) = m_BytesRead
    BY DEF DataInv
  <2>2. Cardinality(delivered \cap new) = 0
    BY <1>7, FS_EmptySet
  <2> HIDE DEF new
  <2>3. /\ IsFiniteSet(delivered \cup new)
        /\ Cardinality(delivered \cup new) = Cardinality(delivered) + Cardinality(new) - 0
    BY <1>6, <2>1, <2>2, FS_Union
  <2>q. QED
    BY <1>6, <2>1, <2>3 DEF new
<1>9. Bodies' = Bodies
  BY DEF Bodies
<1>10. delivered' \subseteq 1 .. pos + n
  BY <1>1, <1>5 DEF Bodies
<1>q. QED
  BY <1>5, <1>8, <1>9, <1>10 DEF DataInv

\* What the line function for a state is given, and where that leaves the parser.
LEMMA LineStep ==
  ASSUME IInv, NEW state \in LineStates, WholeLine(state)
  PROVE  /\ m_State = state /\ Start \in Nat /\ Start' = pos' /\ pos' \in Nat /\ pos' <= Len(wire)
         /\ m_LineBuf = <<>> => wire[Start + 1] = LF /\ Start' = Start + 1
         /\ m_LineBuf # <<>> => /\ wire[Start + 1] # LF /\ Start' = Start + 2
                                /\ Text = wire[Start + 1].token /\ Number = wire[Start + 1].number
         /\ WireInv' /\ LineInv' /\ DataInv' /\ delivered' \subseteq 1 .. pos'
<1>0. WireInv /\ LineInv /\ DataInv /\ m_State = state
  BY DEF IInv, WholeLine
<1>1. /\ Start \in Nat /\ Start + 1 <= Len(wire) /\ wire[Start + 1] # Data
      /\ wire[Start + 1] # LF => Start + 2 <= Len(wire) /\ wire[Start + 2] = LF
      /\ m_LineBuf = <<>> => Start = pos
      /\ m_LineBuf # <<>> =>
           Start + 1 = pos /\ m_LineBuf = <<wire[Start + 1]>> /\ wire[Start + 1] # LF
  BY <1>0, LineText
<1>2. /\ pos \in Nat /\ pos < end /\ wire[pos + 1] = LF /\ pos' = pos + 1 /\ m_LineBuf' = <<>>
      /\ UNCHANGED <<answer, wire, cut, closes, end, delivered, m_BytesRead>>
  BY <1>0 DEF WholeLine, InLine, Next1, serverVars, LineInv
<1>3. LineInv'
  BY <1>0, <1>2 DEF LineInv
<1>4. pos' <= Len(wire)
  <2>1. Len(wire) \in Nat /\ end \in Nat /\ cut \in Nat /\ end <= cut /\ cut <= Len(wire)
    BY <1>0, WireTypes DEF LineInv
  <2>q. QED
    BY <1>2, <2>1
<1>5. DataInv' /\ delivered' \subseteq 1 .. pos'
  BY <1>0, <1>2, <1>4, TextStep, TokensDiffer
<1>6. Start' = pos' /\ pos' \in Nat
  BY <1>2 DEF Start
<1>7. CASE m_LineBuf = <<>>
  BY <1>0, <1>1, <1>2, <1>3, <1>4, <1>5, <1>6, <1>7, WireStays
<1>8. CASE m_LineBuf # <<>>
  <2>1. Text = wire[Start + 1].token /\ Number = wire[Start + 1].number
    BY <1>1, <1>8 DEF Text, Number
  <2>2. Start' = Start + 2
    BY <1>1, <1>2, <1>6, <1>8
  <2>q. QED
    BY <1>0, <1>1, <1>2, <1>3, <1>4, <1>5, <1>6, <1>8, <2>1, <2>2, WireStays
<1>q. QED
  BY <1>7, <1>8

-----------------------------------------------------------------------------
\* What of TypeOK a step that keeps LineInv may disturb.
Lengths == Nat \cup {Unknown}
Fields ==
  /\ m_State \in LineStates \cup {"BODY", "COMPLETE", "WOBBLY"}
  /\ m_Status \in {0} \cup 100 .. 999
  /\ m_Chunked \in BOOLEAN /\ m_Headers.chunked \in BOOLEAN
  /\ m_Length \in Lengths /\ m_Headers.length \in Lengths /\ m_ChunkLeft \in Lengths
  /\ m_BytesRead \in Nat /\ begun \in Nat /\ completed \in Nat

LEMMA Fielded ==
  ASSUME LineInv, delivered \subseteq 1 .. pos
  PROVE  TypeOK <=> Fields
BY DEF TypeOK, Fields, Lengths, LineInv

LEMMA FieldedNext ==
  ASSUME LineInv', delivered' \subseteq 1 .. pos', Fields'
  PROVE  TypeOK'
BY DEF TypeOK, Fields, Lengths, LineInv

LEMMA InitInv == Init => IInv
<1> SUFFICES ASSUME Init PROVE IInv
  OBVIOUS
<1>1. WireInv
  BY InitWire, ParserAssumption DEF Init
<1>2. Len(wire) \in Nat
  BY <1>1, WireTypes
<1>3. LineInv /\ delivered \subseteq 1 .. pos
  BY <1>2 DEF Init, LineInv
<1>4. Fields
  <2>1. Unknown \in Lengths /\ 0 \in Lengths
    BY DEF Lengths
  <2>q. QED
    BY <2>1 DEF Init, Fields, LineStates
<1>5. PlaceInv
  BY DEF Init, PlaceInv, InHeader, Start, NotTold
<1>6. CallInv
  BY DEF Init, CallInv
<1>7. DataInv
  <2>1. delivered = {} /\ m_BytesRead = 0 /\ pos = 0
    BY DEF Init
  <2>2. \A i \in Bodies : ~(i <= pos)
    BY <1>1, <2>1, WireTypes DEF Bodies
  <2>q. QED
    BY <2>1, <2>2, FS_EmptySet DEF DataInv
<1>q. QED
  BY <1>1, <1>3, <1>4, <1>5, <1>6, <1>7, Fielded DEF IInv

LEMMA StatusLineStep == ASSUME IInv, ProcessStatusLine PROVE IInv'
<1>1. /\ m_State = "STATUSLINE" /\ Start \in Nat /\ Start' = pos'
      /\ m_LineBuf # <<>> => /\ Start' = Start + 2
                             /\ Text = wire[Start + 1].token /\ Number = wire[Start + 1].number
      /\ WireInv' /\ LineInv' /\ DataInv' /\ delivered' \subseteq 1 .. pos'
  <2>1. "STATUSLINE" \in LineStates /\ WholeLine("STATUSLINE")
    BY DEF LineStates, ProcessStatusLine
  <2>q. QED
    BY <2>1, LineStep
<1>2. Fields /\ WireInv /\ PlaceInv /\ CallInv
  BY Fielded DEF IInv, TypeOK
<1>3. /\ Offset \in {0, 3} /\ (Offset = 3 <=> answer.interim)
      /\ UNCHANGED <<answer, wire, m_Headers, m_Chunked, m_Length, m_ChunkLeft, m_BytesRead,
                     begun, completed, delivered>>
      /\ m_LineBuf' = <<>>
  BY <1>2, WireTypes DEF ProcessStatusLine, WholeLine, serverVars
<1>4. /\ begun = 0 /\ (Start = 0 \/ (answer.interim /\ Start = 3)) /\ m_Headers = NotTold
      /\ completed = 0 /\ delivered = {}
  BY <1>1, <1>2 DEF PlaceInv, InHeader, InChunkedBody, InPlainBody, CallInv
<1>5. /\ answer.interim => wire[1].token = "status" /\ wire[1].number = 100
      /\ wire[Offset + 1].number = answer.status
  <2>1. /\ answer.interim => wire[1] = Token("status", 100)
        /\ wire[Offset + 1] = Token("status", answer.status)
    BY <1>2 DEF WireInv, HeaderShape
  <2>q. QED
    BY <2>1 DEF Token
<1>6. CASE Text = "status" /\ Number \in 100 .. 999
  <2>1. m_State' = "HEADERS" /\ m_Status' = Number
    BY <1>6 DEF ProcessStatusLine
  <2>2. m_LineBuf # <<>>
    BY <1>6 DEF Text
  <2>3. Start' = Start + 2 /\ Number = wire[Start + 1].number
    BY <1>1, <2>2
  <2>4. Fields'
    BY <1>2, <1>3, <1>6, <2>1 DEF Fields, LineStates
  <2>5. CallInv'
    BY <1>2, <1>3, <1>4, <1>6, <2>1 DEF CallInv
  <2>6. InHeader'
    <3>1. CASE Start = Offset
      <4>1. m_Status' = answer.status /\ Start' = Offset + 2
        BY <1>5, <2>1, <2>3, <3>1
      <4>q. QED
        BY <1>3, <1>4, <2>1, <4>1, WireStays DEF InHeader, NotTold
    <3>2. CASE Start = 0 /\ answer.interim
      <4>1. m_Status' = 100 /\ Start' = 2
        BY <1>5, <2>1, <2>3, <3>2
      <4>q. QED
        BY <1>3, <1>4, <2>1, <3>2, <4>1 DEF InHeader, NotTold
    <3>q. QED
      BY <1>3, <1>4, <3>1, <3>2
  <2>q. QED
    BY <1>1, <1>3, <1>4, <2>1, <2>4, <2>5, <2>6, FieldedNext DEF IInv, PlaceInv
<1>7. CASE ~(Text = "status" /\ Number \in 100 .. 999)
  <2>1. m_State' = "WOBBLY" /\ m_Status' = m_Status
    BY <1>7 DEF ProcessStatusLine
  <2>2. Fields' /\ CallInv' /\ PlaceInv'
    BY <1>2, <1>3, <1>4, <2>1 DEF Fields, CallInv, PlaceInv, LineStates
  <2>q. QED
    BY <1>1, <2>2, FieldedNext DEF IInv
<1>q. QED
  BY <1>6, <1>7

\* Where the parser is when a line of the header is complete.
LEMMA AtHeaders ==
  ASSUME IInv, WholeLine("HEADERS")
  PROVE  /\ begun = 0 /\ completed = 0 /\ delivered = {} /\ m_BytesRead = 0
         /\ \/ /\ m_Headers = NotTold /\ m_Status = 100 /\ answer.interim /\ Start = 2
               /\ m_LineBuf = <<>>
            \/ /\ m_Headers = NotTold /\ m_Status = answer.status
               /\ Start \in {Offset + 2, Offset + 4}
            \/ /\ m_Headers = Told /\ m_Status = answer.status /\ Framed /\ Start = Offset + 6
<1>1. m_State = "HEADERS" /\ PlaceInv /\ CallInv /\ DataInv
  BY DEF WholeLine, IInv
<1>2. begun = 0 /\ completed = 0 /\ delivered = {}
  BY <1>1 DEF PlaceInv, CallInv, InChunkedBody, InPlainBody
<1>3. m_BytesRead = 0
  BY <1>1, <1>2, FS_EmptySet DEF DataInv
<1>4. InHeader
  BY <1>1, <1>2 DEF PlaceInv
<1>q. QED
  BY <1>1, <1>2, <1>3, <1>4 DEF InHeader

LEMMA HeaderLineStep == ASSUME IInv, ProcessHeaderLine PROVE IInv'
<1>0. "HEADERS" \in LineStates /\ WholeLine("HEADERS") /\ m_LineBuf # <<>>
  BY DEF LineStates, ProcessHeaderLine
<1>1. /\ m_State = "HEADERS" /\ Start \in Nat /\ Start' = Start + 2
      /\ wire[Start + 1] # LF
      /\ Text = wire[Start + 1].token /\ Number = wire[Start + 1].number
      /\ WireInv' /\ LineInv' /\ DataInv' /\ delivered' \subseteq 1 .. pos'
  BY <1>0, LineStep
<1>2. Fields /\ WireInv /\ CallInv /\ HeaderShape(wire) /\ IsAnswer(answer)
  BY Fielded DEF IInv, TypeOK, WireInv
<1>3. /\ Offset \in {0, 3} /\ Border = Offset + (IF Framed THEN 7 ELSE 5)
      /\ answer.framing \in {"chunked", "length", "close"} /\ Len(answer.body) \in Nat
  BY <1>2, WireTypes
<1>4. /\ UNCHANGED <<answer, wire, m_State, m_Status, m_Chunked, m_Length, m_ChunkLeft,
                     m_BytesRead, begun, completed, delivered>>
      /\ m_Headers' = [chunked |-> m_Headers.chunked \/ Text = "chunked",
                       length  |-> IF Text = "length" THEN Number ELSE m_Headers.length]
  BY DEF ProcessHeaderLine, WholeLine, serverVars
<1>5. begun = 0 /\ completed = 0 /\ delivered = {}
  BY <1>0, AtHeaders
<1>6. /\ wire[Offset + 3] = Field
      /\ ~Framed => wire[Offset + 5] = LF
      /\ Framed => /\ wire[Offset + 7] = LF
                   /\ wire[Offset + 5] = IF answer.framing = "chunked" THEN Token("chunked", 0)
                                         ELSE Token("length", Len(answer.body))
  BY <1>2, <1>3 DEF HeaderShape
<1>7. \/ m_Headers = NotTold /\ m_Status = answer.status /\ Start = Offset + 2
      \/ m_Headers = NotTold /\ m_Status = answer.status /\ Start = Offset + 4 /\ Framed
  BY <1>0, <1>1, <1>3, <1>6, AtHeaders
<1>8. /\ m_Headers' \in {NotTold, Told}
      /\ InHeader'
  <2>1. CASE m_Headers = NotTold /\ m_Status = answer.status /\ Start = Offset + 2
    <3>1. Text = "field"
      BY <1>1, <1>3, <1>6, <2>1 DEF Field, Token
    <3>2. m_Headers' = NotTold
      BY <1>4, <2>1, <3>1 DEF NotTold
    <3>3. Start' = Offset' + 4 /\ NotTold' = NotTold
      BY <1>1, <1>3, <1>4, <2>1, WireStays DEF NotTold
    <3>q. QED
      BY <1>1, <1>4, <2>1, <3>2, <3>3 DEF InHeader
  <2>2. CASE m_Headers = NotTold /\ m_Status = answer.status /\ Start = Offset + 4 /\ Framed
    <3>1. wire[Start + 1] = IF answer.framing = "chunked" THEN Token("chunked", 0)
                            ELSE Token("length", Len(answer.body))
      BY <1>1, <1>3, <1>6, <2>2
    <3>2. ASSUME answer.framing = "chunked" PROVE m_Headers' = Told
      <4>1. Text = "chunked" /\ Chunked
        BY <1>1, <2>2, <3>1, <3>2 DEF Token, Chunked, Framed
      <4>2. m_Headers' = [chunked |-> TRUE, length |-> Unknown]
        BY <1>4, <2>2, <4>1 DEF NotTold
      <4>q. QED
        BY <3>2, <4>1, <4>2 DEF Told
    <3>3. ASSUME answer.framing # "chunked" PROVE m_Headers' = Told
      <4>1. /\ Text = "length" /\ Number = Len(answer.body) /\ ~Chunked
            /\ answer.framing = "length"
        BY <1>1, <1>3, <2>2, <3>1, <3>3 DEF Token, Chunked, Framed
      <4>2. m_Headers' = [chunked |-> FALSE, length |-> Len(answer.body)]
        BY <1>4, <2>2, <4>1 DEF NotTold
      <4>3. Told.chunked = FALSE /\ Told.length = Len(answer.body)
        BY <2>2, <4>1 DEF Told
      <4>q. QED
        BY <4>2, <4>3 DEF Told
    <3>4. m_Headers' = Told
      BY <3>2, <3>3
    <3>5. Start' = Offset' + 6 /\ Told' = Told /\ Framed'
      BY <1>1, <1>3, <1>4, <2>2, WireStays
    <3>q. QED
      BY <1>1, <1>4, <2>2, <3>4, <3>5 DEF InHeader
  <2>q. QED
    BY <1>7, <2>1, <2>2
<1>9. Fields'
  <2>1. /\ NotTold.chunked \in BOOLEAN /\ NotTold.length \in Lengths
        /\ Told.chunked \in BOOLEAN /\ Told.length \in Lengths
    BY <1>3 DEF NotTold, Told, Lengths, Chunked
  <2>2. m_Headers'.chunked \in BOOLEAN /\ m_Headers'.length \in Lengths
    BY <1>8, <2>1
  <2>q. QED
    BY <1>2, <1>4, <2>2 DEF Fields
<1>10. PlaceInv' /\ CallInv'
  BY <1>1, <1>2, <1>4, <1>5, <1>8 DEF PlaceInv, CallInv
<1>q. QED
  BY <1>1, <1>9, <1>10, FieldedNext DEF IInv

LEMMA ContinueStep == ASSUME IInv, IgnoreContinue PROVE IInv'
<1>0. "HEADERS" \in LineStates /\ WholeLine("HEADERS") /\ m_LineBuf = <<>> /\ m_Status = 100
  BY DEF LineStates, IgnoreContinue
<1>1. /\ Start \in Nat /\ Start' = Start + 1
      /\ WireInv' /\ LineInv' /\ DataInv' /\ delivered' \subseteq 1 .. pos'
  BY <1>0, LineStep
<1>2. Fields /\ CallInv /\ WireInv
  BY Fielded DEF IInv, TypeOK
<1>3. /\ m_State' = "STATUSLINE"
      /\ UNCHANGED <<answer, wire, m_Headers, m_Status, m_Chunked, m_Length, m_ChunkLeft,
                     m_BytesRead, begun, completed, delivered>>
  BY DEF IgnoreContinue, WholeLine, serverVars
<1>4. begun = 0 /\ m_Headers = NotTold /\ answer.interim /\ Start = 2
  <2>1. answer.status # 100
    <3>1. answer.status \in {0} \cup 101 .. 999
      BY <1>2 DEF WireInv, IsAnswer
    <3>q. QED
      BY ONLY <3>1
  <2>q. QED
    BY <1>0, <2>1, AtHeaders
<1>5. PlaceInv' /\ CallInv'
  BY <1>1, <1>2, <1>3, <1>4 DEF PlaceInv, CallInv, InHeader, NotTold
<1>6. Fields'
  BY <1>2, <1>3 DEF Fields, LineStates
<1>q. QED
  BY <1>1, <1>5, <1>6, FieldedNext DEF IInv

LEMMA BeginStep == ASSUME IInv, BeginBody PROVE IInv'
<1>0. "HEADERS" \in LineStates /\ WholeLine("HEADERS") /\ m_LineBuf = <<>> /\ m_Status # 100
  BY DEF LineStates, BeginBody, Final
<1>1. /\ Start \in Nat /\ Start' = Start + 1 /\ Start' = pos' /\ wire[Start + 1] = LF
      /\ WireInv' /\ LineInv' /\ DataInv' /\ delivered' \subseteq 1 .. pos'
  BY <1>0, LineStep
<1>2. Fields /\ CallInv /\ WireInv /\ HeaderShape(wire) /\ IsAnswer(answer)
  BY Fielded DEF IInv, TypeOK, WireInv
<1>3. /\ Offset \in {0, 3} /\ Border = Offset + (IF Framed THEN 7 ELSE 5)
      /\ Len(answer.body) \in Nat /\ Border \in Nat
  BY <1>2, WireTypes
<1>4. /\ UNCHANGED <<answer, wire, m_Headers, m_Status, m_BytesRead, completed, delivered>>
      /\ m_Chunked' = m_Headers.chunked
      /\ m_ChunkLeft' = IF m_Headers.chunked THEN Unknown ELSE m_ChunkLeft
      /\ m_Length' = IF Bodyless(m_Status) THEN 0
                     ELSE IF m_Headers.chunked THEN Unknown ELSE m_Headers.length
      /\ begun' = begun + 1
      /\ m_State' = IF m_Headers.chunked THEN "CHUNKLEN" ELSE "BODY"
  BY DEF BeginBody, WholeLine, serverVars
<1>5. begun = 0 /\ completed = 0 /\ delivered = {} /\ m_BytesRead = 0 /\ m_Status = answer.status
  BY <1>0, AtHeaders
<1>6. /\ wire[Offset + 3] = Field
      /\ Framed => wire[Offset + 5] # LF
  <2>1. /\ wire[Offset + 3] = Field
        /\ Framed => wire[Offset + 5] = IF answer.framing = "chunked" THEN Token("chunked", 0)
                                        ELSE Token("length", Len(answer.body))
    BY <1>2 DEF HeaderShape
  <2>q. QED
    BY <2>1 DEF Token, LF
<1>7. m_Headers = Told /\ pos' = Border
  <2>1. \/ m_Headers = NotTold /\ ~Framed /\ Start = Offset + 4
        \/ m_Headers = Told /\ Framed /\ Start = Offset + 6
    BY <1>0, <1>1, <1>3, <1>6, AtHeaders, TokensDiffer
  <2>2. ~Framed => Told = NotTold
    BY DEF Told, NotTold, Chunked, Framed
  <2>3. pos' = Border
    BY <1>1, <1>3, <2>1
  <2>q. QED
    BY <2>1, <2>2, <2>3
<1>8. answer.status # 0
  BY <1>0, <1>2, <1>5 DEF CallInv, WholeLine
<1>9. CallInv'
  <2>1. m_Chunked' = Chunked' /\ m_Headers' = Told'
    BY <1>4, <1>7, WireStays DEF Told
  <2>2. m_State' \in {"CHUNKLEN", "BODY"} /\ begun' = 1
    BY <1>4, <1>5
  <2>q. QED
    BY <1>2, <1>4, <1>5, <1>8, <2>1, <2>2 DEF CallInv
<1>10. PlaceInv'
  <2>1. CASE Chunked
    <3>1. m_State' = "CHUNKLEN" /\ m_Chunked' /\ begun' = 1
      BY <1>4, <1>5, <1>7, <2>1 DEF Told
    <3>2. IsChunkLine(Border + 1)
      BY <1>2, <2>1 DEF WireInv
    <3>3. InChunkedBody'
      BY <1>1, <1>4, <1>7, <3>1, <3>2, WireStays DEF InChunkedBody, IsChunkLine
    <3>q. QED
      BY <3>1, <3>3 DEF PlaceInv
  <2>2. CASE ~Chunked
    <3>1. m_State' = "BODY" /\ ~m_Chunked' /\ begun' = 1
      BY <1>4, <1>5, <1>7, <2>2 DEF Told
    <3>2. m_Length' = IF Bodyless(answer.status) THEN 0 ELSE Told.length
      BY <1>4, <1>5, <1>7, <2>2 DEF Told
    <3>3. pos' >= Border' /\ m_BytesRead' = pos' - Border'
      BY <1>3, <1>4, <1>5, <1>7, WireStays
    <3>4. InPlainBody'
      BY <1>4, <3>1, <3>2, <3>3, WireStays DEF InPlainBody
    <3>q. QED
      BY <3>1, <3>4 DEF PlaceInv
  <2>q. QED
    BY <2>1, <2>2
<1>11. Fields'
  <2>1. /\ Told.chunked \in BOOLEAN /\ Told.length \in Lengths
        /\ Unknown \in Lengths /\ 0 \in Lengths
    BY <1>3 DEF Told, Lengths, Chunked
  <2>q. QED
    BY <1>2, <1>4, <1>5, <1>7, <2>1 DEF Fields, LineStates
<1>q. QED
  BY <1>1, <1>9, <1>10, <1>11, FieldedNext DEF IInv

\* What the line of a body finds, in the states of a chunked one.
LEMMA AtChunks ==
  ASSUME IInv, m_State \in {"CHUNKLEN", "CHUNKEND", "TRAILERS"}
  PROVE  /\ begun = 1 /\ completed = 0 /\ m_Chunked /\ Chunked /\ InChunkedBody
         /\ Fields /\ CallInv /\ WireInv
<1>1. Fields /\ PlaceInv /\ CallInv /\ WireInv
  BY Fielded DEF IInv, TypeOK
<1>2. begun = 1 /\ completed = 0
  BY <1>1 DEF PlaceInv, CallInv, InHeader
<1>3. m_Chunked
  BY <1>1, <1>2 DEF PlaceInv, InPlainBody
<1>q. QED
  BY <1>1, <1>2, <1>3 DEF PlaceInv, CallInv

LEMMA ChunkLenStep == ASSUME IInv, ProcessChunkLenLine PROVE IInv'
<1>0. "CHUNKLEN" \in LineStates /\ WholeLine("CHUNKLEN")
  BY DEF LineStates, ProcessChunkLenLine
<1>1. /\ m_State = "CHUNKLEN" /\ Start \in Nat /\ Start' = pos'
      /\ m_LineBuf = <<>> => wire[Start + 1] = LF
      /\ m_LineBuf # <<>> => Start' = Start + 2 /\ Number = wire[Start + 1].number
      /\ WireInv' /\ LineInv' /\ DataInv' /\ delivered' \subseteq 1 .. pos'
  BY <1>0, LineStep
<1>2. /\ begun = 1 /\ completed = 0 /\ m_Chunked /\ Chunked /\ InChunkedBody
      /\ Fields /\ CallInv /\ WireInv
  BY <1>1, AtChunks
<1>3. /\ UNCHANGED <<answer, wire, m_Headers, m_Status, m_Chunked, m_Length, m_BytesRead,
                     begun, completed, delivered>>
      /\ m_ChunkLeft' = Number
      /\ m_State' = IF Number = 0 THEN "TRAILERS" ELSE "BODY"
  BY DEF ProcessChunkLenLine, WholeLine, serverVars
<1>4. IsChunkLine(Start + 1)
  BY <1>1, <1>2 DEF InChunkedBody
<1>5. wire[Start + 1] # LF /\ LineOfChunk(Start + 1)
  BY <1>1, <1>2, <1>4, ChunkLineIsText
<1>6. Number = wire[Start + 1].number /\ Number \in Nat /\ Start' = Start + 2
  BY <1>1, <1>5 DEF LineOfChunk
<1>7. InChunkedBody'
  <2>1. CASE Number = 0
    <3>1. /\ Len(wire) = Start + 5 /\ wire[Start + 3] = Field /\ wire[Start + 4] = LF
          /\ wire[Start + 5] = LF
      <4>1. /\ Len(wire) = Start + 1 + 4 /\ wire[Start + 1 + 2] = Field
            /\ wire[Start + 1 + 3] = LF /\ wire[Start + 1 + 4] = LF
        BY <1>5, <1>6, <2>1 DEF LineOfChunk
      <4>2. Start + 1 + 4 = Start + 5 /\ Start + 1 + 2 = Start + 3 /\ Start + 1 + 3 = Start + 4
        BY <1>1
      <4>q. QED
        BY <4>1, <4>2
    <3>2. m_State' = "TRAILERS"
      BY <1>3, <2>1
    <3>3. /\ Start' \in Nat /\ Start' = Len(wire) - 3 /\ wire[Start' + 1] = Field
          /\ wire[Start' + 2] = LF /\ wire[Len(wire)] = LF
      <4>1. Start' + 1 = Start + 3 /\ Start' + 2 = Start + 4 /\ Start' \in Nat
        BY <1>1, <1>6
      <4>2. Start' = Len(wire) - 3
        BY <1>1, <1>6, <3>1
      <4>q. QED
        BY <3>1, <4>1, <4>2
    <3>q. QED
      BY <1>3, <3>2, <3>3 DEF InChunkedBody
  <2>2. CASE Number # 0
    <3>1. /\ IsChunkLine(Start + 1 + Number + 3) /\ wire[Start + 1 + Number + 2] = LF
          /\ \A k \in 1 .. Number : wire[Start + 1 + 1 + k] = Data
      <4>1. wire[Start + 1].number > 0
        BY <1>6, <2>2
      <4>q. QED
        BY <1>5, <1>6, <4>1 DEF LineOfChunk
    <3>2. /\ Start + 1 + Number + 3 = pos' + Number + 2 /\ Start + 1 + 1 = pos'
          /\ Start + 1 + Number + 2 = pos' + Number + 1
      BY <1>1, <1>6
    <3>3. m_State' = "BODY" /\ m_ChunkLeft' = Number /\ Number > 0
      BY <1>3, <1>6, <2>2
    <3>4. /\ \A k \in 1 .. m_ChunkLeft' : wire[pos' + k] = Data
          /\ wire[pos' + m_ChunkLeft' + 1] = LF /\ IsChunkLine(pos' + m_ChunkLeft' + 2)
      BY <3>1, <3>2, <3>3
    <3>5. wire' = wire /\ Border' = Border
      BY <1>3, WireStays
    <3>q. QED
      BY <1>6, <3>3, <3>4, <3>5 DEF InChunkedBody, IsChunkLine
  <2>q. QED
    BY <2>1, <2>2
<1>8. PlaceInv'
  BY <1>2, <1>3, <1>7 DEF PlaceInv
<1>9. CallInv'
  <2>1. Chunked' = Chunked /\ Told' = Told
    BY <1>3, WireStays
  <2>2. m_State' \in {"TRAILERS", "BODY"}
    BY <1>3
  <2>q. QED
    BY <1>2, <1>3, <2>1, <2>2 DEF CallInv
<1>10. Fields'
  BY <1>2, <1>3, <1>6 DEF Fields, Lengths, LineStates
<1>q. QED
  BY <1>1, <1>8, <1>9, <1>10, FieldedNext DEF IInv

LEMMA SoakUpStep == ASSUME IInv, SoakUpLine PROVE IInv'
<1>0. "CHUNKEND" \in LineStates /\ WholeLine("CHUNKEND")
  BY DEF LineStates, SoakUpLine
<1>1. /\ m_State = "CHUNKEND" /\ Start \in Nat /\ Start' = pos'
      /\ m_LineBuf = <<>> => Start' = Start + 1
      /\ WireInv' /\ LineInv' /\ DataInv' /\ delivered' \subseteq 1 .. pos'
  BY <1>0, LineStep
<1>2. /\ begun = 1 /\ completed = 0 /\ m_Chunked /\ Chunked /\ InChunkedBody
      /\ Fields /\ CallInv /\ WireInv
  BY <1>1, AtChunks
<1>3. /\ UNCHANGED <<answer, wire, m_Headers, m_Status, m_Chunked, m_Length, m_ChunkLeft,
                     m_BytesRead, begun, completed, delivered>>
      /\ m_State' = "CHUNKLEN"
  BY DEF SoakUpLine, WholeLine, serverVars
<1>4. m_LineBuf = <<>> /\ IsChunkLine(pos + 2)
  BY <1>1, <1>2 DEF InChunkedBody
<1>5. Start' + 1 = pos + 2
  BY <1>1, <1>4 DEF Start
<1>6. InChunkedBody'
  BY <1>3, <1>4, <1>5, WireStays DEF InChunkedBody, IsChunkLine
<1>7. PlaceInv'
  BY <1>2, <1>3, <1>6 DEF PlaceInv
<1>8. CallInv'
  BY <1>2, <1>3, WireStays DEF CallInv
<1>9. Fields'
  BY <1>2, <1>3 DEF Fields, LineStates
<1>q. QED
  BY <1>1, <1>7, <1>8, <1>9, FieldedNext DEF IInv

LEMMA TrailerStep == ASSUME IInv, ProcessTrailerLine PROVE IInv'
<1>0. "TRAILERS" \in LineStates /\ WholeLine("TRAILERS")
  BY DEF LineStates, ProcessTrailerLine
<1>1. /\ m_State = "TRAILERS" /\ Start \in Nat /\ Start' = pos'
      /\ m_LineBuf = <<>> => wire[Start + 1] = LF /\ Start' = Start + 1
      /\ m_LineBuf # <<>> => wire[Start + 1] # LF /\ Start' = Start + 2
      /\ WireInv' /\ LineInv' /\ DataInv' /\ delivered' \subseteq 1 .. pos'
  BY <1>0, LineStep
<1>2. /\ begun = 1 /\ completed = 0 /\ m_Chunked /\ Chunked /\ InChunkedBody
      /\ Fields /\ CallInv /\ WireInv
  BY <1>1, AtChunks
<1>3. /\ UNCHANGED <<answer, wire, m_Headers, m_Status, m_Chunked, m_Length, m_ChunkLeft,
                     m_BytesRead, begun, delivered>>
      /\ IF m_LineBuf = <<>> THEN m_State' = "COMPLETE" /\ completed' = completed + 1
                             ELSE UNCHANGED <<m_State, completed>>
  BY DEF ProcessTrailerLine, WholeLine, serverVars, Finish
<1>4. /\ wire[Len(wire)] = LF /\ Len(wire) \in Nat
      /\ \/ Start = Len(wire) - 1
         \/ Start = Len(wire) - 3 /\ wire[Start + 1] = Field
  BY <1>1, <1>2, WireTypes, ZenonT(30) DEF InChunkedBody
<1>5. CASE m_LineBuf = <<>>
  <2>1. pos' = Len(wire)
    BY <1>1, <1>4, <1>5, TokensDiffer
  <2>2. m_State' = "COMPLETE" /\ completed' = 1
    BY <1>2, <1>3, <1>5
  <2>3. PlaceInv'
    BY <1>2, <1>3, <2>1, <2>2 DEF PlaceInv
  <2>4. CallInv'
    BY <1>2, <1>3, <2>2, WireStays DEF CallInv
  <2>5. Fields'
    BY <1>2, <1>3, <2>2 DEF Fields, LineStates
  <2>q. QED
    BY <1>1, <2>3, <2>4, <2>5, FieldedNext DEF IInv
<1>6. CASE m_LineBuf # <<>>
  <2>1. Start' = Len(wire) - 1
    <3>1. Start = Len(wire) - 1 => wire[Start + 1] = LF
      BY <1>4
    <3>q. QED
      BY <1>1, <1>4, <1>6, <3>1
  <2>2. m_State' = "TRAILERS" /\ completed' = 0
    BY <1>1, <1>2, <1>3, <1>6
  <2>3. InChunkedBody'
    BY <1>1, <1>3, <1>4, <1>6, <2>1, <2>2 DEF InChunkedBody
  <2>4. PlaceInv'
    BY <1>2, <1>3, <2>2, <2>3 DEF PlaceInv
  <2>5. CallInv'
    BY <1>2, <1>3, <2>2, WireStays DEF CallInv
  <2>6. Fields'
    BY <1>2, <1>3, <2>2 DEF Fields, LineStates
  <2>q. QED
    BY <1>1, <2>4, <2>5, <2>6, FieldedNext DEF IInv
<1>q. QED
  BY <1>5, <1>6

\* A line grows by one token, its text: it begins where it began.
LEMMA AccumulateStep == ASSUME IInv, AccumulateLine PROVE IInv'
<1>1. m_State \in LineStates /\ pos < end /\ wire[pos + 1] # LF
  BY DEF AccumulateLine, InLine, Next1
<1>2. WireInv /\ LineInv /\ PlaceInv /\ CallInv /\ DataInv /\ Fields
  BY Fielded DEF IInv, TypeOK
<1>3. /\ Start \in Nat /\ Start + 1 <= Len(wire) /\ wire[Start + 1] # Data
      /\ wire[Start + 1] # LF => wire[Start + 2] = LF
      /\ m_LineBuf = <<>> => Start = pos
      /\ m_LineBuf # <<>> => Start + 1 = pos /\ wire[Start + 1] # LF
  BY <1>1, LineText
<1>4. m_LineBuf = <<>> /\ Start = pos
  <2>1. Start + 1 = pos => Start + 2 = pos + 1
    BY <1>3
  <2>q. QED
    BY <1>1, <1>3, <2>1
<1>5. /\ UNCHANGED <<answer, wire, cut, closes, end, m_State, m_Status, m_Headers, m_Chunked,
                     m_Length, m_ChunkLeft, m_BytesRead, begun, completed, delivered>>
      /\ pos' = pos + 1 /\ m_LineBuf' = Append(m_LineBuf, wire[pos + 1])
  BY DEF AccumulateLine, serverVars, bodyVars, callbackVars, Next1
<1>6. m_LineBuf' = <<wire[pos + 1]>> /\ m_LineBuf' # <<>>
  BY <1>4, <1>5
<1>7. pos \in Nat
  BY <1>2 DEF LineInv
<1>8. LineInv'
  BY <1>1, <1>2, <1>5, <1>6, <1>7 DEF LineInv
<1>9. Start' = Start
  BY <1>4, <1>5, <1>6, <1>7 DEF Start
<1>10. DataInv' /\ delivered' \subseteq 1 .. pos'
  BY <1>2, <1>3, <1>4, <1>5, <1>7, TextStep
<1>11. WireInv' /\ Chunked' = Chunked /\ Told' = Told /\ Delimited' = Delimited
  BY <1>2, <1>5, WireStays
<1>12. Fields' /\ CallInv'
  BY <1>2, <1>5, <1>11 DEF Fields, CallInv
<1>13. InHeader => InHeader'
  <2>1. m_State = "HEADERS" /\ Start = 2 /\ m_Status = 100 /\ answer.interim => FALSE
    <3>1. answer.interim => wire[3] = LF
      BY <1>2 DEF WireInv, HeaderShape
    <3>2. Start = 2 => pos + 1 = 3
      BY <1>4
    <3>q. QED
      BY <1>1, <3>1, <3>2
  <2>q. QED
    BY <1>5, <1>9, <1>11, <2>1, WireStays DEF InHeader, NotTold
<1>14. InChunkedBody => InChunkedBody'
  BY <1>1, <1>5, <1>9, WireStays DEF InChunkedBody, IsChunkLine, LineStates
<1>15. ~InPlainBody /\ m_State \notin {"WOBBLY", "COMPLETE"}
  BY <1>1 DEF InPlainBody, LineStates
<1>16. PlaceInv'
  BY <1>2, <1>5, <1>13, <1>14, <1>15 DEF PlaceInv
<1>q. QED
  BY <1>8, <1>10, <1>11, <1>12, <1>16, FieldedNext DEF IInv

LEMMA RecvStep == ASSUME IInv, Recv PROVE IInv'
<1>1. WireInv /\ LineInv /\ PlaceInv /\ CallInv /\ DataInv /\ Fields /\ delivered \subseteq 1 .. pos
  BY Fielded DEF IInv, TypeOK
<1>2. /\ UNCHANGED <<answer, wire, cut, closes, pos, m_State, m_LineBuf, m_Status, m_Headers,
                     m_Chunked, m_Length, m_ChunkLeft, m_BytesRead, begun, completed, delivered>>
      /\ end' \in pos + 1 .. cut
  BY DEF Recv, LineKept, serverVars, bodyVars, callbackVars
<1>3. LineInv'
  BY <1>1, <1>2 DEF LineInv
<1>4. /\ WireInv' /\ DataInv' /\ delivered' \subseteq 1 .. pos'
      /\ Chunked' = Chunked /\ Told' = Told /\ Delimited' = Delimited
  BY <1>1, <1>2, WireStays DEF DataInv
<1>5. Fields' /\ CallInv'
  BY <1>1, <1>2, <1>4 DEF Fields, CallInv
<1>6. Start' = Start
  BY <1>2 DEF Start
<1>7. InHeader' = InHeader /\ InChunkedBody' = InChunkedBody /\ InPlainBody' = InPlainBody
  BY <1>2, <1>6, WireStays DEF InHeader, InChunkedBody, InPlainBody, NotTold, IsChunkLine
<1>8. PlaceInv'
  BY <1>1, <1>2, <1>4, <1>7 DEF PlaceInv
<1>q. QED
  BY <1>3, <1>4, <1>5, <1>8, FieldedNext DEF IInv

\* Only an answer that does not tell its end is completed by the end of the connection.
LEMMA ClosedStep == ASSUME IInv, NotifyConnectionClosed PROVE IInv'
<1>1. /\ WireInv /\ LineInv /\ PlaceInv /\ CallInv /\ DataInv /\ Fields /\ delivered \subseteq 1 .. pos
      /\ m_State \notin {"COMPLETE", "WOBBLY"}
  BY Fielded DEF IInv, TypeOK, NotifyConnectionClosed, Outstanding
<1>2. /\ UNCHANGED <<answer, wire, cut, closes, pos, end, m_LineBuf, m_Status, m_Headers,
                     m_Chunked, m_Length, m_ChunkLeft, m_BytesRead, begun, delivered>>
      /\ \/ CloseEnds /\ m_State' = "COMPLETE" /\ completed' = completed + 1
         \/ m_State' = "WOBBLY" /\ completed' = completed
  BY DEF NotifyConnectionClosed, Finish, serverVars, bodyVars
<1>3. /\ WireInv' /\ DataInv' /\ delivered' \subseteq 1 .. pos'
      /\ Chunked' = Chunked /\ Told' = Told /\ Delimited' = Delimited
  BY <1>1, <1>2, WireStays DEF DataInv
<1>4. CASE CloseEnds /\ m_State' = "COMPLETE" /\ completed' = completed + 1
  <2>1. m_State = "BODY" /\ ~m_Chunked /\ m_Length = Unknown
    BY <1>4 DEF CloseEnds
  <2>2. begun = 1 /\ InPlainBody
    BY <1>1, <2>1 DEF PlaceInv, CallInv, InHeader
  <2>3. ~Delimited
    <3>1. ~Chunked
      BY <1>1, <2>1, <2>2 DEF CallInv
    <3>2. Delimited => Told.length = Unknown /\ answer.framing = "length" /\ Framed
      BY <2>1, <2>2, <3>1 DEF InPlainBody, Delimited, Chunked, Framed
    <3>3. answer.framing = "length" /\ Framed => Told.length \in Nat
      BY <1>1, WireTypes DEF Told
    <3>q. QED
      BY <3>2, <3>3 DEF Unknown
  <2>4. LineInv'
    BY <1>1, <1>2, <2>1 DEF LineInv, LineStates
  <2>5. PlaceInv' /\ CallInv' /\ Fields'
    BY <1>1, <1>2, <1>3, <1>4, <2>2, <2>3 DEF PlaceInv, CallInv, Fields
  <2>q. QED
    BY <1>3, <2>4, <2>5, FieldedNext DEF IInv
<1>5. CASE m_State' = "WOBBLY" /\ completed' = completed
  <2>1. LineInv'
    BY <1>1, <1>2, <1>5 DEF LineInv
  <2>2. PlaceInv' /\ CallInv' /\ Fields'
    BY <1>1, <1>2, <1>3, <1>5 DEF PlaceInv, CallInv, Fields
  <2>q. QED
    BY <1>3, <2>1, <2>2, FieldedNext DEF IInv
<1>q. QED
  BY <1>2, <1>4, <1>5

LEMMA ChunkDataStep ==
  ASSUME IInv, ProcessDataChunked PROVE IInv' /\ begun = 1 /\ delivered' # {}
<1> DEFINE n == Least(end - pos, m_ChunkLeft)
<1>1. /\ WireInv /\ LineInv /\ PlaceInv /\ CallInv /\ DataInv /\ Fields
      /\ m_State = "BODY" /\ m_Chunked /\ pos < end
  BY Fielded DEF IInv, TypeOK, ProcessDataChunked
<1>2. begun = 1 /\ completed = 0 /\ InChunkedBody /\ Chunked
  BY <1>1 DEF PlaceInv, CallInv, InHeader
<1>3. /\ m_ChunkLeft \in Nat /\ m_ChunkLeft > 0
      /\ \A k \in 1 .. m_ChunkLeft : wire[pos + k] = Data
      /\ wire[pos + m_ChunkLeft + 1] = LF /\ IsChunkLine(pos + m_ChunkLeft + 2)
  BY <1>1, <1>2 DEF InChunkedBody
<1>4. /\ pos \in Nat /\ end \in Nat /\ cut \in Nat /\ end <= cut /\ cut <= Len(wire)
      /\ m_LineBuf = <<>> /\ Len(wire) \in Nat
  BY <1>1, WireTypes DEF LineInv, LineStates
<1>5. n \in Nat /\ n > 0 /\ n <= m_ChunkLeft /\ pos + n <= end /\ pos + n <= Len(wire)
  BY <1>1, <1>3, <1>4 DEF Least
<1>6. /\ delivered' = delivered \cup (pos + 1 .. pos + n)
      /\ m_BytesRead' = m_BytesRead + n /\ pos' = pos + n
      /\ UNCHANGED <<answer, wire, cut, closes, end, m_LineBuf, m_Status, m_Headers, m_Chunked,
                     m_Length, begun, completed>>
      /\ m_ChunkLeft' = m_ChunkLeft - n
      /\ m_State' = IF m_ChunkLeft = n THEN "CHUNKEND" ELSE "BODY"
  BY DEF ProcessDataChunked, Deliver, AfterChunk, serverVars
<1> HIDE DEF n
<1>7. DataInv' /\ delivered' \subseteq 1 .. pos'
  <2>1. m_BytesRead \in Nat /\ \A k \in 1 .. n : wire[pos + k] = Data
    BY <1>1, <1>3, <1>5 DEF Fields
  <2>q. QED
    BY <1>1, <1>4, <1>5, <1>6, <2>1, DataStep
<1>8. WireInv' /\ Chunked' = Chunked /\ Told' = Told /\ Border' = Border
  BY <1>1, <1>6, WireStays
<1>9. LineInv'
  BY <1>1, <1>4, <1>5, <1>6 DEF LineInv
<1>10. InChunkedBody'
  <2>1. CASE m_ChunkLeft = n
    <3>1. wire[pos' + 1] = LF /\ IsChunkLine(pos' + 2)
      BY <1>3, <1>6, <2>1
    <3>q. QED
      BY <1>4, <1>6, <1>8, <2>1, <3>1 DEF InChunkedBody, IsChunkLine
  <2>2. CASE m_ChunkLeft # n
    <3>1. m_ChunkLeft' \in Nat /\ m_ChunkLeft' > 0 /\ pos' + m_ChunkLeft' = pos + m_ChunkLeft
      BY <1>3, <1>4, <1>5, <1>6, <2>2
    <3>2. \A k \in 1 .. m_ChunkLeft' : wire[pos' + k] = Data
      <4> TAKE k \in 1 .. m_ChunkLeft'
      <4>1. n + k \in 1 .. m_ChunkLeft /\ pos + (n + k) = pos' + k
        BY <1>3, <1>4, <1>5, <1>6
      <4>q. QED
        BY <1>3, <4>1
    <3>3. wire[pos' + m_ChunkLeft' + 1] = LF /\ IsChunkLine(pos' + m_ChunkLeft' + 2)
      BY <1>3, <3>1
    <3>q. QED
      BY <1>6, <1>8, <2>2, <3>1, <3>2, <3>3 DEF InChunkedBody, IsChunkLine
  <2>q. QED
    BY <2>1, <2>2
<1>11. m_State' \in {"CHUNKEND", "BODY"}
  BY <1>6
<1>12. PlaceInv'
  BY <1>1, <1>2, <1>6, <1>10, <1>11 DEF PlaceInv
<1>13. CallInv'
  BY <1>1, <1>2, <1>6, <1>8, <1>11 DEF CallInv
<1>14. Fields'
  <2>1. m_ChunkLeft' \in Lengths /\ m_BytesRead' \in Nat
    BY <1>1, <1>3, <1>5, <1>6 DEF Fields, Lengths
  <2>q. QED
    BY <1>1, <1>6, <1>11, <2>1 DEF Fields, LineStates
<1>15. delivered' # {}
  <2>1. pos + 1 \in pos + 1 .. pos + n
    BY <1>4, <1>5, <1>6
  <2>q. QED
    BY <2>1, <1>6
<1>q. QED
  BY <1>2, <1>15, <1>7, <1>8, <1>9, <1>12, <1>13, <1>14, FieldedNext DEF IInv

LEMMA PlainDataStep ==
  ASSUME IInv, ProcessDataNonChunked PROVE IInv' /\ begun = 1 /\ delivered' # {}
<1> DEFINE n == IF m_Length = Unknown THEN end - pos ELSE Least(end - pos, Remaining)
<1>1. /\ WireInv /\ LineInv /\ PlaceInv /\ CallInv /\ DataInv /\ Fields
      /\ m_State = "BODY" /\ ~m_Chunked /\ pos < end
  BY Fielded DEF IInv, TypeOK, ProcessDataNonChunked
<1>2. begun = 1 /\ completed = 0 /\ InPlainBody /\ ~Chunked
  BY <1>1 DEF PlaceInv, CallInv, InHeader
<1>3. /\ pos \in Nat /\ end \in Nat /\ cut \in Nat /\ end <= cut /\ cut <= Len(wire)
      /\ m_LineBuf = <<>> /\ Len(wire) \in Nat
  BY <1>1, WireTypes DEF LineInv, LineStates
<1>4. /\ pos >= Border /\ m_BytesRead = pos - Border /\ m_BytesRead \in Nat
      /\ Border \in Nat /\ Len(answer.body) \in Nat /\ Len(wire) = Border + Len(answer.body)
  BY <1>1, <1>2, WireTypes DEF InPlainBody, Fields
<1>5. ~Bodyless(answer.status)
  <2>1. Bodyless(answer.status) => Len(answer.body) = 0
    BY <1>1 DEF WireInv, IsAnswer
  <2>2. pos < Len(wire)
    BY <1>1, <1>3
  <2>q. QED
    BY <1>3, <1>4, <2>1, <2>2
<1>6. /\ m_Length \in {Len(answer.body), Unknown}
      /\ m_Length = Unknown => ~Delimited
  BY <1>2, <1>4, <1>5 DEF InPlainBody, Told, Delimited, Chunked, Framed, Unknown
<1>7. Len(answer.body) # Unknown
  BY <1>4 DEF Unknown
<1>8. /\ n \in Nat /\ n > 0 /\ pos + n <= end /\ pos + n <= Len(wire)
  <2>1. CASE m_Length = Unknown
    BY <1>1, <1>3, <2>1
  <2>2. CASE m_Length = Len(answer.body)
    <3>1. n = Least(end - pos, Remaining)
      BY <1>7, <2>2
    <3>2. Remaining = Len(wire) - pos
      BY <1>3, <1>4, <2>2 DEF Remaining
    <3>3. n = end - pos
      <4> HIDE DEF n
      <4>1. Remaining \in Int /\ end - pos <= Remaining /\ end - pos \in Int
        BY <1>1, <1>3, <3>2
      <4>2. n = end - pos \/ (~(end - pos < Remaining) /\ n = Remaining)
        BY <3>1 DEF Least
      <4>q. QED
        BY <4>1, <4>2
    <3>q. QED
      BY <1>1, <1>3, <3>3
  <2>q. QED
    BY <1>6, <2>1, <2>2
<1>9. /\ delivered' = delivered \cup (pos + 1 .. pos + n)
      /\ m_BytesRead' = m_BytesRead + n /\ pos' = pos + n
      /\ UNCHANGED <<answer, wire, cut, closes, end, m_LineBuf, m_Status, m_Headers, m_Chunked,
                     m_Length, m_ChunkLeft, begun>>
      /\ IF m_Length # Unknown /\ m_BytesRead + n = m_Length
         THEN m_State' = "COMPLETE" /\ completed' = completed + 1
         ELSE UNCHANGED <<m_State, completed>>
  BY DEF ProcessDataNonChunked, Deliver, Finish, serverVars
<1> HIDE DEF n
<1>10. DataInv' /\ delivered' \subseteq 1 .. pos'
  <2>1. \A k \in 1 .. n : wire[pos + k] = Data
    <3> TAKE k \in 1 .. n
    <3>1. pos + k \in Border + 1 .. Len(wire)
      BY <1>3, <1>4, <1>8
    <3>q. QED
      BY <1>1, <1>2, <3>1 DEF WireInv
  <2>q. QED
    BY <1>1, <1>3, <1>4, <1>8, <1>9, <2>1, DataStep
<1>11. WireInv' /\ Chunked' = Chunked /\ Told' = Told /\ Border' = Border /\ Delimited' = Delimited
  BY <1>1, <1>9, WireStays
<1>12. LineInv'
  BY <1>1, <1>3, <1>8, <1>9 DEF LineInv
<1>13. m_State' \in {"COMPLETE", "BODY"} /\ completed' = IF m_State' = "COMPLETE" THEN 1 ELSE 0
  BY <1>1, <1>2, <1>9
<1>14. PlaceInv'
  <2>1. CASE m_State' = "COMPLETE"
    <3>1. Delimited => pos' = Len(wire)
      <4>1. Delimited => m_BytesRead + n = Len(answer.body)
        BY <1>1, <1>6, <1>9, <2>1
      <4>q. QED
        BY <1>3, <1>4, <1>8, <1>9, <4>1
    <3>q. QED
      BY <1>2, <1>9, <1>11, <2>1, <3>1 DEF PlaceInv
  <2>2. CASE m_State' = "BODY"
    <3>1. pos' >= Border /\ m_BytesRead' = pos' - Border
      BY <1>3, <1>4, <1>8, <1>9
    <3>2. InPlainBody'
      BY <1>2, <1>9, <1>11, <2>2, <3>1 DEF InPlainBody
    <3>q. QED
      BY <1>1, <1>2, <1>9, <2>2, <3>2 DEF PlaceInv
  <2>q. QED
    BY <1>13, <2>1, <2>2
<1>15. CallInv'
  BY <1>1, <1>2, <1>9, <1>11, <1>13 DEF CallInv
<1>16. Fields'
  <2>1. m_BytesRead' \in Nat
    BY <1>4, <1>8, <1>9
  <2>q. QED
    BY <1>1, <1>9, <1>13, <2>1 DEF Fields, LineStates
<1>17. delivered' # {}
  <2>1. pos + 1 \in pos + 1 .. pos + n
    BY <1>3, <1>8, <1>9
  <2>q. QED
    BY <2>1, <1>9
<1>q. QED
  BY <1>2, <1>17, <1>10, <1>11, <1>12, <1>14, <1>15, <1>16, FieldedNext DEF IInv

-----------------------------------------------------------------------------
\* Every step keeps the invariant.
THEOREM Invariance == Spec => []IInv
<1>1. Init => IInv
  BY InitInv
<1>2. ASSUME IInv, [Next]_vars PROVE IInv'
  <2>1. CASE Recv
    BY <1>2, <2>1, RecvStep
  <2>2. CASE NotifyConnectionClosed
    BY <1>2, <2>2, ClosedStep
  <2>3. CASE AccumulateLine
    BY <1>2, <2>3, AccumulateStep
  <2>4. CASE ProcessStatusLine
    BY <1>2, <2>4, StatusLineStep
  <2>5. CASE ProcessHeaderLine
    BY <1>2, <2>5, HeaderLineStep
  <2>6. CASE IgnoreContinue
    BY <1>2, <2>6, ContinueStep
  <2>7. CASE BeginBody
    BY <1>2, <2>7, BeginStep
  <2>8. CASE ProcessChunkLenLine
    BY <1>2, <2>8, ChunkLenStep
  <2>9. CASE SoakUpLine
    BY <1>2, <2>9, SoakUpStep
  <2>10. CASE ProcessTrailerLine
    BY <1>2, <2>10, TrailerStep
  <2>11. CASE ProcessDataChunked
    BY <1>2, <2>11, ChunkDataStep
  <2>12. CASE ProcessDataNonChunked
    BY <1>2, <2>12, PlainDataStep
  <2>13. CASE UNCHANGED vars
    <3>1. UNCHANGED <<answer, wire, cut, closes, pos, end, m_State, m_LineBuf, m_Status, m_Headers,
                      m_Chunked, m_Length, m_ChunkLeft, m_BytesRead, begun, completed, delivered>>
      BY <2>13 DEF vars, serverVars, bodyVars, callbackVars
    <3>2. WireInv' /\ Told' = Told /\ Chunked' = Chunked /\ Delimited' = Delimited /\ Bodies' = Bodies
      BY <1>2, <3>1, WireStays DEF IInv
    <3>3. TypeOK' /\ LineInv' /\ CallInv' /\ DataInv'
      BY <1>2, <3>1, <3>2 DEF IInv, TypeOK, LineInv, CallInv, DataInv
    <3>4. InHeader' = InHeader /\ InChunkedBody' = InChunkedBody /\ InPlainBody' = InPlainBody
      BY <3>1, WireStays
         DEF InHeader, InChunkedBody, InPlainBody, NotTold, IsChunkLine, Start
    <3>5. PlaceInv'
      BY <1>2, <3>1, <3>2, <3>4 DEF IInv, PlaceInv
    <3>q. QED
      BY <3>2, <3>3, <3>5 DEF IInv
  <2>q. QED
    BY <1>2, <2>1, <2>2, <2>3, <2>4, <2>5, <2>6, <2>7, <2>8, <2>9, <2>10, <2>11, <2>12, <2>13
       DEF Next
<1>q. QED
  BY <1>1, <1>2, PTL DEF Spec

\* The types of the parser's state: TypeOK, whatever answers a server gives.
THEOREM TypeCorrect == Spec => []TypeOK
<1>1. IInv => TypeOK
  BY DEF IInv
<1>q. QED
  BY <1>1, Invariance, PTL

\* What processDataChunked and processDataNonChunked give to the data callback is the body, and
\* all of it that has been read, however recv cuts the stream.
THEOREM Delivery == Spec => []BodyIsDelivered
<1>1. IInv => BodyIsDelivered
  BY DEF IInv, DataInv, BodyIsDelivered
<1>q. QED
  BY <1>1, Invariance, PTL

\* The order in which Response::pump calls the begin, data and complete callbacks.
THEOREM Order == Spec => []CallbackOrder
<1>1. IInv => CallbackOrder
  BY DEF IInv, CallInv, CallbackOrder
<1>q. QED
  BY <1>1, Invariance, PTL

\* A response that says how long it is calls Finish only behind its whole body.
THEOREM Completeness == Spec => []CompleteIsWhole
<1>1. IInv => CompleteIsWhole
  <2> SUFFICES ASSUME IInv, completed = 1, Delimited PROVE delivered = Bodies
    BY DEF CompleteIsWhole
  <2>1. pos = Len(wire) /\ delivered = {i \in Bodies : i <= pos}
    BY DEF IInv, CallInv, PlaceInv, DataInv
  <2>2. DOMAIN wire = 1 .. Len(wire) /\ Len(wire) \in Nat
    BY WireTypes DEF IInv
  <2>3. \A i \in Bodies : i <= pos
    BY <2>1, <2>2 DEF Bodies
  <2>q. QED
    BY <2>1, <2>3
<1>q. QED
  BY <1>1, Invariance, PTL

-----------------------------------------------------------------------------
\* The exchange, as the refinement sees it.
Phase == CASE m_State = "COMPLETE" -> "complete"
           [] m_State = "WOBBLY"   -> "failed"
           [] OTHER                -> IF begun = 0 THEN "wait" ELSE "body"
Status == IF begun = 0 THEN 0 ELSE m_Status
Result == IF m_State = "WOBBLY" THEN 999
          ELSE IF delivered # {} /\ m_Status # 200 THEN m_Status ELSE 0

LEMMA PhaseValues ==
  /\ m_State = "COMPLETE" => Phase = "complete"
  /\ m_State = "WOBBLY" => Phase = "failed"
  /\ m_State \notin {"COMPLETE", "WOBBLY"} => Phase = IF begun = 0 THEN "wait" ELSE "body"
BY DEF Phase

LEMMA PhaseValuesNext ==
  /\ m_State' = "COMPLETE" => Phase' = "complete"
  /\ m_State' = "WOBBLY" => Phase' = "failed"
  /\ m_State' \notin {"COMPLETE", "WOBBLY"} => Phase' = IF begun' = 0 THEN "wait" ELSE "body"
BY DEF Phase

LEMMA StutterStep ==
  ASSUME UNCHANGED <<Phase, Status, Result>>
  PROVE  [Exchange!Next]_(Exchange!vars)
BY DEF Exchange!vars, Phase, Status, Result

\* What is read of a line between callbacks is not seen.
LEMMA QuietStep ==
  ASSUME m_State \notin {"COMPLETE", "WOBBLY"}, m_State' \notin {"COMPLETE", "WOBBLY"},
         UNCHANGED <<begun, delivered>>,
         UNCHANGED m_Status \/ (begun = 0 /\ delivered = {})
  PROVE  [Exchange!Next]_(Exchange!vars)
<1>1. Phase' = Phase
  BY PhaseValues, PhaseValuesNext
<1>2. Status' = Status /\ Result' = Result
  BY DEF Status, Result
<1>q. QED
  BY <1>1, <1>2, StutterStep

LEMMA FailStep ==
  ASSUME m_State \notin {"COMPLETE", "WOBBLY"}, m_State' = "WOBBLY", UNCHANGED <<begun, m_Status>>
  PROVE  Exchange!Fail
<1>1. Phase \in {"wait", "body"} /\ Phase' = "failed"
  BY PhaseValues, PhaseValuesNext
<1>2. Status' = Status /\ Result' = 999
  BY DEF Status, Result
<1>q. QED
  BY <1>1, <1>2 DEF Exchange!Fail, Exchange!Failure, Phase, Status, Result

\* A closed connection that ends the body, and the line that does.
LEMMA EndStep ==
  ASSUME m_State \notin {"COMPLETE", "WOBBLY"}, begun = 1, m_State' = "COMPLETE",
         UNCHANGED <<begun, m_Status, delivered>>
  PROVE  Exchange!Complete
<1>1. Phase = "body" /\ Phase' = "complete"
  BY PhaseValues, PhaseValuesNext
<1>2. Status' = Status /\ Result' = Result
  BY DEF Status, Result
<1>q. QED
  BY <1>1, <1>2 DEF Exchange!Complete, Phase, Status, Result

LEMMA HeaderDone == ASSUME IInv, BeginBody PROVE Exchange!Begin
<1>1. /\ m_State = "HEADERS" /\ m_Status # 100 /\ begun' = begun + 1
      /\ UNCHANGED <<m_Status, delivered, answer>> /\ m_State' \in {"CHUNKLEN", "BODY"}
  BY DEF BeginBody, WholeLine, Final, serverVars
<1>2. begun = 0 /\ delivered = {}
  BY <1>1, AtHeaders DEF BeginBody
<1>3. m_Status \in {0} \cup 100 .. 999 /\ m_Status # 0
  BY <1>1 DEF IInv, TypeOK, CallInv
<1>4. Phase = "wait" /\ Phase' = "body"
  BY <1>1, <1>2, PhaseValues, PhaseValuesNext
<1>5. Status' = m_Status /\ Result' = 0 /\ m_Status \in 101 .. 999
  BY <1>1, <1>2, <1>3 DEF Status, Result
<1>q. QED
  BY <1>4, <1>5 DEF Exchange!Begin, Phase, Status, Result

\* Whoever gives units to the data callback takes the status for the result.
LEMMA DataCalled ==
  ASSUME m_State = "BODY", begun = 1, UNCHANGED <<begun, m_Status>>, delivered' # {},
         m_State' \in {"CHUNKEND", "BODY", "COMPLETE"}
  PROVE  Exchange!Data \/ Exchange!Complete
<1>1. Phase = "body" /\ Phase' = IF m_State' = "COMPLETE" THEN "complete" ELSE "body"
  BY PhaseValues, PhaseValuesNext
<1>2. Status' = Status /\ Status = m_Status /\ Result' = IF m_Status = 200 THEN 0 ELSE m_Status
  BY DEF Status, Result
<1>3. CASE m_State' = "COMPLETE"
  BY <1>1, <1>2, <1>3 DEF Exchange!Complete, Exchange!Code, Phase, Status, Result
<1>4. CASE m_State' # "COMPLETE"
  BY <1>1, <1>2, <1>4 DEF Exchange!Data, Exchange!Code, Phase, Status, Result
<1>q. QED
  BY <1>3, <1>4

\* One answer makes one exchange: HttpResponseParser implements HttpExchange.
THEOREM Implements == Spec => MakesOneExchange
<1>1. ASSUME Init PROVE Exchange!Init
  <2>1. Phase = "wait" /\ Status = 0 /\ Result = 0
    BY <1>1 DEF Init, Phase, Status, Result
  <2>q. QED
    BY <2>1 DEF Exchange!Init, Phase, Status, Result
<1>2. ASSUME IInv, IInv', [Next]_vars PROVE [Exchange!Next]_(Exchange!vars)
  <2> USE DEF serverVars, bodyVars, callbackVars, WholeLine, Exchange!Next, LineStates
  <2>0. CallInv /\ CallInv'
    BY <1>2 DEF IInv
  <2>1. CASE Recv
    BY <2>1, QuietStep DEF Recv, Outstanding
  <2>2. CASE NotifyConnectionClosed
    <3>1. CASE m_State' = "WOBBLY"
      BY <2>2, <3>1, FailStep DEF NotifyConnectionClosed, Outstanding
    <3>2. CASE m_State' # "WOBBLY"
      <4>1. m_State' = "COMPLETE" /\ begun' = 1
        BY <2>0, <2>2, <3>2 DEF NotifyConnectionClosed, Finish, CallInv
      <4>q. QED
        BY <2>2, <4>1, EndStep DEF NotifyConnectionClosed, Outstanding
    <3>q. QED
      BY <3>1, <3>2
  <2>3. CASE AccumulateLine
    BY <2>3, QuietStep DEF AccumulateLine, InLine
  <2>4. CASE ProcessStatusLine
    <3>1. begun = 0 /\ delivered = {}
      BY <1>2, <2>0, <2>4
         DEF ProcessStatusLine, IInv, PlaceInv, CallInv, InChunkedBody, InPlainBody
    <3>2. CASE m_State' = "WOBBLY"
      <4>1. UNCHANGED <<begun, m_Status>>
        BY <2>4, <3>2 DEF ProcessStatusLine
      <4>q. QED
        BY <2>4, <3>2, <4>1, FailStep DEF ProcessStatusLine
    <3>3. CASE m_State' # "WOBBLY"
      BY <2>4, <3>1, <3>3, QuietStep DEF ProcessStatusLine
    <3>q. QED
      BY <3>2, <3>3
  <2>5. CASE ProcessHeaderLine
    BY <2>5, QuietStep DEF ProcessHeaderLine
  <2>6. CASE IgnoreContinue
    BY <2>6, QuietStep DEF IgnoreContinue
  <2>7. CASE BeginBody
    BY <1>2, <2>7, HeaderDone
  <2>8. CASE ProcessChunkLenLine
    BY <2>8, QuietStep DEF ProcessChunkLenLine
  <2>9. CASE SoakUpLine
    BY <2>9, QuietStep DEF SoakUpLine
  <2>10. CASE ProcessTrailerLine
    <3>1. CASE m_LineBuf = <<>>
      <4>1. m_State' = "COMPLETE" /\ begun' = 1
        BY <2>0, <2>10, <3>1 DEF ProcessTrailerLine, Finish, CallInv
      <4>q. QED
        BY <2>10, <4>1, EndStep DEF ProcessTrailerLine
    <3>2. CASE m_LineBuf # <<>>
      BY <2>10, <3>2, QuietStep DEF ProcessTrailerLine
    <3>q. QED
      BY <3>1, <3>2
  <2>11. CASE ProcessDataChunked
    <3>1. begun = 1 /\ delivered' # {}
      BY <1>2, <2>11, ChunkDataStep
    <3>2. /\ m_State = "BODY" /\ m_State' \in {"CHUNKEND", "BODY"}
          /\ UNCHANGED <<begun, m_Status>>
      BY <2>11 DEF ProcessDataChunked, Deliver, AfterChunk
    <3>q. QED
      BY <3>1, <3>2, DataCalled
  <2>12. CASE ProcessDataNonChunked
    <3>1. begun = 1 /\ delivered' # {}
      BY <1>2, <2>12, PlainDataStep
    <3>2. /\ m_State = "BODY" /\ m_State' \in {"COMPLETE", "BODY"}
          /\ UNCHANGED <<begun, m_Status>>
      BY <2>12 DEF ProcessDataNonChunked, Deliver, Finish
    <3>q. QED
      BY <3>1, <3>2, DataCalled
  <2>13. CASE UNCHANGED vars
    <3>1. UNCHANGED <<Phase, Status, Result>>
      BY <2>13 DEF vars, Phase, Status, Result
    <3>q. QED
      BY <3>1, StutterStep
  <2>q. QED
    BY <1>2, <2>1, <2>2, <2>3, <2>4, <2>5, <2>6, <2>7, <2>8, <2>9, <2>10, <2>11, <2>12, <2>13
       DEF Next
<1>q. QED
  BY <1>1, <1>2, Invariance, PTL DEF Spec, MakesOneExchange, Exchange!Spec
=============================================================================
