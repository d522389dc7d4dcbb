------------------------- MODULE CurveChunks_proofs -------------------------
(***************************************************************************)
(* Proofs about CurveChunks for every array of counts and every limit.     *)
(***************************************************************************)
EXTENDS CurveChunks, SequenceTheorems, NatSets

\* While a curve is being cut, the last piece is one of that curve and ends
\* where the points consumed so far end; before, every piece is of a curve before.
SplitInv ==
  stage = "split" =>
    /\ consumed > 0 =>
         /\ curveIdx <= Len(counts) /\ consumed <= counts[curveIdx]
         /\ pieces # << >>
         /\ pieces[Len(pieces)].curve = curveIdx
         /\ pieces[Len(pieces)].pointOffset + pieces[Len(pieces)].pointCount
              = pointOffset + consumed
         /\ pointLimit # 1 /\ counts[curveIdx] <= pointLimit => consumed = counts[curveIdx]
    /\ \A n \in 1..Len(pieces) :
         pieces[n].curve <= curveIdx /\ (consumed = 0 => pieces[n].curve < curveIdx)

\* The chunk being filled has a piece exactly when it has points, and none without
\* combine.
ChunkInv ==
  /\ chunk.pieces = << >> => chunk.pointCount = 0
  /\ chunk.pieces # << >> => chunk.pointCount \in 1..pointLimit

\* Two pieces of a curve that follow each other share one point: the last of the
\* first is the first of the second.  With pieces of one point they touch.
ContinuationsRepeat ==
  \A n \in 1..(Len(pieces) - 1) :
    pieces[n].curve = pieces[n + 1].curve =>
      pieces[n + 1].pointOffset =
        pieces[n].pointOffset + pieces[n].pointCount - (IF pointLimit = 1 THEN 0 ELSE 1)

IInv == TypeOK /\ LimitKept /\ SplitInv /\ ChunkInv /\ ContinuationsRepeat
---------------------------------------------------------------------------
USE DEF arguments

\* What the type invariant says of the arguments, the loop variables and the pieces.
LEMMA Types ==
  ASSUME TypeOK
  PROVE  /\ Len(counts) \in Nat /\ pointLimit \in Nat
         /\ curveIdx \in Nat \ {0} /\ pointOffset \in Nat /\ consumed \in Nat
         /\ More => Count \in Int
         /\ Len(pieces) \in Nat /\ next \in Nat \ {0}
         /\ \A n \in 1..Len(pieces) :
              /\ pieces[n] \in PieceRecord
              /\ pieces[n].curve \in Nat
              /\ pieces[n].pointOffset \in Nat
              /\ pieces[n].pointCount \in Nat
<1>1. counts \in Seq(Int) /\ pointLimit \in Nat
  BY ChunkAssumption DEF TypeOK
<1>2. pieces \in Seq(PieceRecord)
  BY DEF TypeOK
<1>3. \A n \in 1..Len(pieces) : pieces[n] \in PieceRecord
  BY <1>2
<1>4. curveIdx \in Nat \ {0} /\ Len(counts) \in Nat
  BY <1>1 DEF TypeOK
<1>5. More => Count \in Int
  BY <1>1, <1>4 DEF More, Count
<1>6. Len(pieces) \in Nat /\ next \in Nat \ {0}
  BY <1>2 DEF TypeOK
<1>7. QED
  BY <1>1, <1>3, <1>4, <1>5, <1>6 DEF TypeOK, PieceRecord

\* What a step that cuts a piece of the current curve does, whichever it is: the
\* piece is of that curve, within the limit, and starts at the first point not
\* consumed or, for a continuation, one before it.
Cuts(start, size) ==
  /\ More
  /\ start \in Nat /\ size \in 1..pointLimit
  /\ pieces' = Append(pieces, Piece(start, size))
  /\ start + size = pointOffset + consumed'
  /\ consumed' \in 1..Count /\ consumed < consumed'
  /\ pointLimit # 1 /\ Count <= pointLimit => consumed' = Count
  /\ consumed = 0 => start = pointOffset
  /\ consumed > 0 => start = pointOffset + consumed - (IF pointLimit = 1 THEN 0 ELSE 1)
  /\ UNCHANGED <<arguments, stage, curveIdx, pointOffset, next, chunks, chunk>>

LEMMA TakeCuts ==
  ASSUME IInv, TakeWhole \/ TakeFirst \/ TakeNext
  PROVE  \E start, size \in Nat : Cuts(start, size)
<1>1. TypeOK /\ SplitInv
  BY DEF IInv
<1>2. /\ curveIdx \in Nat /\ consumed \in Nat /\ pointOffset \in Nat /\ pointLimit \in Nat
      /\ More => Count \in Int
  BY <1>1, Types
<1>3. CASE TakeWhole
  <2> DEFINE take == Least(Count - consumed, pointLimit)
  <2>1. More /\ consumed < Count /\ (Count <= pointLimit \/ pointLimit = 1)
    BY <1>3 DEF TakeWhole
  <2>2. take \in 1..pointLimit /\ take <= Count - consumed
    BY <1>2, <2>1 DEF More, Least
  <2>3. pointLimit # 1 => consumed = 0
    BY <1>1, <1>2, <2>1 DEF SplitInv, More, Count
  <2>4. pointLimit # 1 => take = Count
    BY <1>2, <2>1, <2>3 DEF Least
  <2>5. /\ pieces' = Append(pieces, Piece(pointOffset + consumed, take))
        /\ consumed' = consumed + take
        /\ UNCHANGED <<arguments, stage, curveIdx, pointOffset, next, chunks, chunk>>
    BY <1>3 DEF TakeWhole
  <2> HIDE DEF take
  <2>6. Cuts(pointOffset + consumed, take)
    BY <1>2, <2>1, <2>2, <2>3, <2>4, <2>5 DEF Cuts
  <2>7. QED
    BY <1>2, <2>2, <2>6
<1>4. CASE TakeFirst
  <2>1. pointLimit \in 1..pointLimit
    BY <1>2, <1>4 DEF TakeFirst, More
  <2>2. Cuts(pointOffset, pointLimit)
    BY <1>2, <1>4, <2>1 DEF TakeFirst, Cuts
  <2>3. QED
    BY <1>2, <2>2
<1>5. CASE TakeNext
  <2> DEFINE take == Least(Count - consumed, pointLimit - 1)
  <2>1. More /\ Count > pointLimit /\ pointLimit # 1 /\ consumed \in 1..(Count - 1)
    BY <1>5 DEF TakeNext
  <2>2. take \in Nat /\ 1 + take \in 1..pointLimit /\ take <= Count - consumed /\ take >= 1
    BY <1>2, <2>1 DEF More, Least
  <2>3. /\ pieces' = Append(pieces, Piece(pointOffset + consumed - 1, 1 + take))
        /\ consumed' = consumed + take
        /\ UNCHANGED <<arguments, stage, curveIdx, pointOffset, next, chunks, chunk>>
    BY <1>5 DEF TakeNext
  <2> HIDE DEF take
  <2>4. Cuts(pointOffset + consumed - 1, 1 + take)
    BY <1>2, <2>1, <2>2, <2>3 DEF Cuts
  <2>5. pointOffset + consumed - 1 \in Nat
    BY <1>2, <2>1
  <2>6. QED
    BY <2>2, <2>4, <2>5
<1>6. QED
  BY <1>3, <1>4, <1>5

\* A cut keeps the invariant.
LEMMA CutStep ==
  ASSUME IInv, NEW start \in Nat, NEW size \in Nat, Cuts(start, size)
  PROVE  IInv'
<1> DEFINE piece == Piece(start, size)
<1>1. TypeOK /\ LimitKept /\ SplitInv /\ ChunkInv /\ ContinuationsRepeat
  BY DEF IInv
<1>2. /\ curveIdx \in Nat \ {0} /\ consumed \in Nat /\ pointOffset \in Nat /\ pointLimit \in Nat
      /\ Len(pieces) \in Nat /\ Len(counts) \in Nat /\ next \in Nat \ {0} /\ Count \in Int
      /\ \A n \in 1..Len(pieces) : pieces[n].curve \in Nat
  BY <1>1, Types DEF Cuts
<1>3. /\ pieces \in Seq(PieceRecord)
      /\ piece \in PieceRecord
      /\ piece.curve = curveIdx /\ piece.pointOffset = start /\ piece.pointCount = size
  BY <1>1, <1>2 DEF TypeOK, Piece, PieceRecord
<1>4. pieces' = Append(pieces, piece)
  BY DEF Cuts
<1> HIDE DEF piece
<1>5. /\ pieces' \in Seq(PieceRecord) /\ pieces' # << >>
      /\ Len(pieces') = Len(pieces) + 1
      /\ DOMAIN pieces' = 1..(Len(pieces) + 1) /\ DOMAIN pieces = 1..Len(pieces)
      /\ pieces'[Len(pieces) + 1] = piece
      /\ \A n \in 1..Len(pieces) : pieces'[n] = pieces[n]
  BY <1>3, <1>4, Appended
<1>6. /\ consumed' \in Nat \ {0} /\ consumed' <= Count /\ size \in 1..pointLimit
      /\ start + size = pointOffset + consumed'
      /\ pointLimit # 1 /\ Count <= pointLimit => consumed' = Count
      /\ stage = "split" /\ curveIdx <= Len(counts)
  <2>1. /\ More /\ size \in 1..pointLimit /\ consumed' \in 1..Count
        /\ start + size = pointOffset + consumed'
        /\ pointLimit # 1 /\ Count <= pointLimit => consumed' = Count
    BY DEF Cuts
  <2>2. consumed' \in Nat \ {0} /\ consumed' <= Count
    BY <1>2, <2>1
  <2>3. QED
    BY <2>1, <2>2 DEF More
<1>7. UNCHANGED <<counts, pointLimit, combine, stage, curveIdx, pointOffset, next, chunks, chunk>>
  BY DEF Cuts
<1>8. TypeOK'
  <2>1. next' \in 1..(Len(pieces') + 1)
    BY <1>1, <1>2, <1>5, <1>7 DEF TypeOK
  <2>2. QED
    BY <1>1, <1>5, <1>6, <1>7, <2>1 DEF TypeOK
<1>9. LimitKept'
  <2>1. \A n \in DOMAIN pieces' : pieces'[n].pointCount \in 1..pointLimit
    BY <1>1, <1>2, <1>3, <1>5, <1>6 DEF LimitKept
  <2>2. QED
    BY <1>1, <1>7, <2>1 DEF LimitKept
<1>10. SplitInv'
  <2>1. /\ pieces'[Len(pieces')].curve = curveIdx
        /\ pieces'[Len(pieces')].pointOffset = start
        /\ pieces'[Len(pieces')].pointCount = size
    BY <1>3, <1>5
  <2>2. \A n \in 1..Len(pieces) : pieces[n].curve <= curveIdx
    BY <1>1, <1>6 DEF SplitInv
  <2>3. \A n \in 1..Len(pieces') : pieces'[n].curve <= curveIdx
    BY <1>2, <1>3, <1>5, <2>2
  <2>4. QED
    BY <1>2, <1>5, <1>6, <1>7, <2>1, <2>3 DEF SplitInv, Count
<1>11. ChunkInv'
  BY <1>1, <1>7 DEF ChunkInv
<1>12. ContinuationsRepeat'
  <2> SUFFICES ASSUME NEW n \in 1..(Len(pieces') - 1), pieces'[n].curve = pieces'[n + 1].curve
               PROVE  pieces'[n + 1].pointOffset =
                        pieces'[n].pointOffset + pieces'[n].pointCount
                          - (IF pointLimit = 1 THEN 0 ELSE 1)
    BY <1>7 DEF ContinuationsRepeat
  <2>1. n \in 1..Len(pieces) /\ pieces'[n] = pieces[n]
    BY <1>2, <1>5
  <2>2. CASE n < Len(pieces)
    <3>1. n \in 1..(Len(pieces) - 1) /\ pieces'[n + 1] = pieces[n + 1]
      BY <1>2, <1>5, <2>1, <2>2
    <3>2. QED
      BY <1>1, <2>1, <3>1 DEF ContinuationsRepeat
  <2>3. CASE n = Len(pieces)
    <3>1. pieces'[n + 1] = piece
      BY <1>5, <2>3
    <3>2. pieces[n].curve = curveIdx
      BY <1>3, <2>1, <3>1
    <3>3. consumed > 0
      BY <1>1, <1>2, <1>6, <2>1, <3>2 DEF SplitInv
    <3>4. pieces[n].pointOffset + pieces[n].pointCount = pointOffset + consumed
      BY <1>1, <1>6, <2>3, <3>3 DEF SplitInv
    <3>5. start = pointOffset + consumed - (IF pointLimit = 1 THEN 0 ELSE 1)
      BY <3>3 DEF Cuts
    <3> DEFINE before == pieces'[n].pointOffset
               points == pieces'[n].pointCount
               overlap == IF pointLimit = 1 THEN 0 ELSE 1
    <3>6. pieces'[n + 1].pointOffset = start /\ before + points = pointOffset + consumed
      BY <1>3, <2>1, <3>1, <3>4
    <3>7. before \in Nat /\ points \in Nat /\ overlap \in Nat
      BY <1>1, <2>1, Types
    <3>8. pointOffset \in Nat /\ consumed \in Nat
      BY <1>2
    <3>9. start = pointOffset + consumed - overlap
      BY <3>5
    <3> HIDE DEF before, points, overlap
    <3>10. start = before + points - overlap
      BY <3>6, <3>7, <3>8, <3>9
    <3>11. QED
      BY <3>6, <3>10 DEF before, points, overlap
  <2>4. QED
    BY <1>2, <2>1, <2>2, <2>3
<1>13. QED
  BY <1>8, <1>9, <1>10, <1>11, <1>12 DEF IInv

\* The other steps of the split cut nothing.
LEMMA SplitStep ==
  ASSUME IInv, SkipEmpty \/ NextCurve \/ EndSplit
  PROVE  IInv'
<1>1. TypeOK /\ LimitKept /\ SplitInv /\ ChunkInv /\ ContinuationsRepeat
  BY DEF IInv
<1>2. /\ curveIdx \in Nat \ {0} /\ consumed \in Nat /\ pointOffset \in Nat
      /\ Len(counts) \in Nat /\ Len(pieces) \in Nat
      /\ More => Count \in Int
      /\ \A n \in 1..Len(pieces) : pieces[n].curve \in Nat
  BY <1>1, Types
<1>3. UNCHANGED <<counts, pointLimit, combine, pieces, next, chunks, chunk>>
  BY DEF SkipEmpty, NextCurve, EndSplit
<1>4. LimitKept' /\ ChunkInv' /\ ContinuationsRepeat'
  BY <1>1, <1>3 DEF LimitKept, ChunkInv, ContinuationsRepeat
<1>5. CASE SkipEmpty \/ NextCurve
  <2>1. /\ More /\ stage' = stage /\ curveIdx' = curveIdx + 1
        /\ consumed' = 0 /\ pointOffset' \in Nat
    BY <1>1, <1>2, <1>5 DEF SkipEmpty, NextCurve, SplitInv, More, Count
  <2>2. TypeOK'
    <3>1. curveIdx' \in 1..(Len(counts') + 1)
      BY <1>2, <1>3, <2>1 DEF More
    <3>2. QED
      BY <1>1, <1>3, <2>1, <3>1 DEF TypeOK
  <2>3. \A n \in 1..Len(pieces) : pieces[n].curve <= curveIdx
    BY <1>1, <2>1 DEF SplitInv, More
  <2>4. \A n \in 1..Len(pieces') : pieces'[n].curve < curveIdx' /\ pieces'[n].curve <= curveIdx'
    BY <1>2, <1>3, <2>1, <2>3
  <2>5. SplitInv'
    BY <2>1, <2>4 DEF SplitInv
  <2>6. QED
    BY <1>4, <2>2, <2>5 DEF IInv
<1>6. CASE EndSplit
  <2>1. stage' = "group" /\ UNCHANGED <<curveIdx, pointOffset, consumed>>
    BY <1>6 DEF EndSplit
  <2>2. TypeOK' /\ SplitInv'
    BY <1>1, <1>3, <2>1 DEF TypeOK, SplitInv
  <2>3. QED
    BY <1>4, <2>2 DEF IInv
<1>7. QED
  BY <1>5, <1>6

\* The steps that pack pieces into chunks: what is left to show of one is the types
\* and limits of the chunks.
LEMMA GroupStep ==
  ASSUME IInv, Group
  PROVE  IInv'
<1>1. TypeOK /\ LimitKept /\ SplitInv /\ ChunkInv /\ ContinuationsRepeat
  BY DEF IInv
<1>2. pointLimit \in Nat /\ Len(pieces) \in Nat /\ next \in Nat \ {0}
  BY <1>1, Types
<1>3. /\ chunks \in Seq(ChunkRecord) /\ chunk \in ChunkRecord
      /\ chunk.pieces \in Seq(PieceRecord) /\ chunk.pointCount \in Nat
  BY <1>1 DEF TypeOK, ChunkRecord
<1>4. /\ stage = "group" /\ stage' \in {"group", "done"}
      /\ UNCHANGED <<counts, pointLimit, combine, curveIdx, pointOffset, consumed, pieces>>
  BY DEF Group, ChunkAlone, AddPiece, CloseChunk, EndGroup
<1>5. ASSUME next <= Len(pieces)
      PROVE  /\ next \in 1..Len(pieces) /\ next + 1 \in 1..(Len(pieces) + 1)
             /\ pieces[next] \in PieceRecord
             /\ pieces[next].pointCount \in 1..pointLimit
  <2>1. next \in 1..Len(pieces) /\ next + 1 \in 1..(Len(pieces) + 1)
    BY <1>2, <1>5
  <2>2. pieces[next] \in PieceRecord /\ next \in DOMAIN pieces
    BY <1>1, <2>1 DEF TypeOK
  <2>3. QED
    BY <1>1, <2>1, <2>2 DEF LimitKept
<1>6. ASSUME next' \in 1..(Len(pieces) + 1),
             chunks' \in Seq(ChunkRecord), chunk' \in ChunkRecord, ChunkInv',
             \A n \in DOMAIN chunks' : chunks'[n].pointCount \in 1..pointLimit
      PROVE  IInv'
  <2>1. TypeOK'
    BY <1>1, <1>4, <1>6 DEF TypeOK
  <2>2. LimitKept'
    BY <1>1, <1>4, <1>6 DEF LimitKept
  <2>3. SplitInv' /\ ContinuationsRepeat'
    BY <1>1, <1>4 DEF SplitInv, ContinuationsRepeat
  <2>4. QED
    BY <1>6, <2>1, <2>2, <2>3 DEF IInv
<1>7. ASSUME NEW closed \in ChunkRecord, closed.pointCount \in 1..pointLimit,
             chunks' = Append(chunks, closed)
      PROVE  /\ chunks' \in Seq(ChunkRecord)
             /\ \A n \in DOMAIN chunks' : chunks'[n].pointCount \in 1..pointLimit
  <2>1. /\ chunks' \in Seq(ChunkRecord) /\ Len(chunks) \in Nat
        /\ DOMAIN chunks' = 1..(Len(chunks) + 1) /\ DOMAIN chunks = 1..Len(chunks)
        /\ \A n \in 1..Len(chunks) : chunks'[n] = chunks[n]
        /\ chunks'[Len(chunks) + 1] = closed
    BY <1>3, <1>7, Appended
  <2>2. QED
    BY <1>1, <1>7, <2>1 DEF LimitKept
<1>8. CASE ChunkAlone
  <2> DEFINE alone == [pieces |-> <<pieces[next]>>, pointCount |-> pieces[next].pointCount]
  <2>1. next <= Len(pieces) /\ chunks' = Append(chunks, alone) /\ next' = next + 1 /\ chunk' = chunk
    BY <1>8 DEF ChunkAlone
  <2>2. pieces[next] \in PieceRecord /\ pieces[next].pointCount \in 1..pointLimit
    BY <1>5, <2>1
  <2>3. alone \in ChunkRecord /\ alone.pointCount \in 1..pointLimit
    BY <1>2, <2>2 DEF ChunkRecord
  <2>4. ChunkInv'
    BY <1>1, <1>4, <2>1 DEF ChunkInv
  <2> HIDE DEF alone
  <2>5. QED
    BY <1>3, <1>5, <1>6, <1>7, <2>1, <2>3, <2>4
<1>9. CASE AddPiece
  <2>1. /\ next <= Len(pieces) /\ Fits /\ next' = next + 1 /\ chunks' = chunks
        /\ chunk' = [pieces |-> Append(chunk.pieces, pieces[next]),
                     pointCount |-> chunk.pointCount + pieces[next].pointCount]
    BY <1>9 DEF AddPiece
  <2>2. pieces[next] \in PieceRecord /\ pieces[next].pointCount \in 1..pointLimit
    BY <1>5, <2>1
  <2>3. /\ Append(chunk.pieces, pieces[next]) \in Seq(PieceRecord)
        /\ Append(chunk.pieces, pieces[next]) # << >>
    BY <1>3, <2>2, Appended
  <2>4. chunk.pointCount + pieces[next].pointCount \in 1..pointLimit
    BY <1>1, <1>2, <1>3, <2>1, <2>2 DEF Fits, ChunkInv
  <2>5. chunk' \in ChunkRecord
    BY <1>2, <2>1, <2>3, <2>4 DEF ChunkRecord
  <2>6. ChunkInv'
    BY <1>4, <2>1, <2>3, <2>4 DEF ChunkInv
  <2>7. \A n \in DOMAIN chunks' : chunks'[n].pointCount \in 1..pointLimit
    BY <1>1, <2>1 DEF LimitKept
  <2>8. QED
    BY <1>3, <1>5, <1>6, <2>1, <2>5, <2>6, <2>7
<1>10. CASE CloseChunk
  <2>1. /\ chunk.pieces # << >> /\ chunks' = Append(chunks, chunk)
        /\ chunk' = NoChunk /\ next' = next
    BY <1>10 DEF CloseChunk
  <2>2. chunk.pointCount \in 1..pointLimit
    BY <1>1, <2>1 DEF ChunkInv
  <2>3. chunk' \in ChunkRecord
    BY <2>1 DEF NoChunk, ChunkRecord
  <2>4. ChunkInv'
    BY <2>1 DEF ChunkInv, NoChunk
  <2>5. next' \in 1..(Len(pieces) + 1)
    BY <1>1, <2>1 DEF TypeOK
  <2>6. QED
    BY <1>3, <1>6, <1>7, <2>1, <2>2, <2>3, <2>4, <2>5
<1>11. CASE EndGroup
  <2>1. UNCHANGED <<next, chunks, chunk>>
    BY <1>11 DEF EndGroup
  <2>2. ChunkInv'
    BY <1>1, <1>4, <2>1 DEF ChunkInv
  <2>3. next' \in 1..(Len(pieces) + 1)
    BY <1>1, <2>1 DEF TypeOK
  <2>4. \A n \in DOMAIN chunks' : chunks'[n].pointCount \in 1..pointLimit
    BY <1>1, <2>1 DEF LimitKept
  <2>5. QED
    BY <1>3, <1>6, <2>1, <2>2, <2>3, <2>4
<1>12. QED
  BY <1>8, <1>9, <1>10, <1>11 DEF Group

\* The invariant holds throughout.
THEOREM Invariance == Spec => []IInv
<1>1. Init => IInv
  <2> SUFFICES ASSUME Init PROVE IInv
    OBVIOUS
  <2>1. Len(counts) \in Nat
    BY ChunkAssumption DEF Init
  <2>2. NoChunk \in ChunkRecord
    BY DEF NoChunk, ChunkRecord
  <2>3. TypeOK
    BY <2>1, <2>2 DEF Init, TypeOK
  <2>4. QED
    BY <2>3 DEF Init, IInv, LimitKept, SplitInv, ChunkInv, ContinuationsRepeat, NoChunk
<1>2. IInv /\ [Next]_vars => IInv'
  <2> SUFFICES ASSUME IInv, [Next]_vars PROVE IInv'
    OBVIOUS
  <2>1. ASSUME TakeWhole \/ TakeFirst \/ TakeNext PROVE IInv'
    <3>1. PICK start, size \in Nat : Cuts(start, size)
      BY <2>1, TakeCuts
    <3>2. QED
      BY <3>1, CutStep
  <2>2. ASSUME SkipEmpty \/ NextCurve \/ EndSplit PROVE IInv'
    BY <2>2, SplitStep
  <2>3. ASSUME Group PROVE IInv'
    BY <2>3, GroupStep
  <2>4. CASE UNCHANGED vars
    BY <2>4 DEF vars, IInv, TypeOK, LimitKept, SplitInv, ChunkInv, ContinuationsRepeat
  <2>5. QED
    BY <2>1, <2>2, <2>3, <2>4 DEF Next, Split
<1>3. QED
  BY <1>1, <1>2, PTL DEF Spec

\* Every variable keeps its type.
THEOREM TypeCorrect == Spec => []TypeOK
<1>1. IInv => TypeOK
  BY DEF IInv
<1>2. QED
  BY <1>1, Invariance, PTL

\* No piece and no prim has more points than the limit, for any curves and limit.
THEOREM WithinLimit == Spec => []LimitKept
<1>1. IInv => LimitKept
  BY DEF IInv
<1>2. QED
  BY <1>1, Invariance, PTL

\* No visual gap: a continuation starts on the last point of the piece before.
THEOREM NoGaps == Spec => []ContinuationsRepeat
<1>1. IInv => ContinuationsRepeat
  BY DEF IInv
<1>2. QED
  BY <1>1, Invariance, PTL
---------------------------------------------------------------------------
\* What Points computes: the running sum of the counts.
LEMMA PointsDef ==
  ASSUME NEW ps \in Seq(PieceRecord)
  PROVE  \E f \in [0..Len(ps) -> Nat] :
           /\ f[0] = 0
           /\ \A n \in 1..Len(ps) : f[n] = f[n - 1] + ps[n].pointCount
           /\ Points(ps) = f[Len(ps)]
<1> DEFINE G == [n \in 1..Len(ps) |-> [x \in Nat |-> x + ps[n].pointCount]]
           sum[n \in 0..Len(ps)] == IF n = 0 THEN 0 ELSE sum[n - 1] + ps[n].pointCount
<1> HIDE DEF G, sum
<1>1. Len(ps) \in Nat /\ 0 \in Nat
  OBVIOUS
<1>2. \A n \in 1..Len(ps) : ps[n] \in PieceRecord
  OBVIOUS
<1>3. \A n \in 1..Len(ps) : ps[n].pointCount \in Nat
  BY <1>2 DEF PieceRecord
<1>4. G \in [1..Len(ps) -> [Nat -> Nat]]
  BY <1>3 DEF G
<1>5. PICK f \in [0..Len(ps) -> Nat] : Follows(f, Len(ps), 0, G)
  BY <1>1, <1>4, NatRecursion
<1>6. f[0] = 0 /\ \A n \in 1..Len(ps) : f[n] = f[n - 1] + ps[n].pointCount
  <2>1. \A n \in 1..Len(ps) : n - 1 \in 0..Len(ps) /\ f[n - 1] \in Nat
    BY <1>1
  <2>2. \A n \in 1..Len(ps) : f[n] = G[n][f[n - 1]]
    BY <1>5 DEF Follows
  <2>3. f[0] = 0
    BY <1>5 DEF Follows
  <2>4. QED
    BY <2>1, <2>2, <2>3 DEF G
<1>7. f = [n \in 0..Len(ps) |-> IF n = 0 THEN 0 ELSE f[n - 1] + ps[n].pointCount]
  <2> DEFINE g == [n \in 0..Len(ps) |-> IF n = 0 THEN 0 ELSE f[n - 1] + ps[n].pointCount]
  <2>1. \A n \in 0..Len(ps) : f[n] = g[n]
    <3>1. TAKE n \in 0..Len(ps)
    <3>2. n # 0 => n \in 1..Len(ps)
      BY <1>1
    <3>3. QED
      BY <1>6, <3>2
  <2> HIDE DEF g
  <2>2. f = [n \in 0..Len(ps) |-> f[n]]
    OBVIOUS
  <2>3. g = [n \in 0..Len(ps) |-> g[n]]
    BY DEF g
  <2>4. f = g
    BY <2>1, <2>2, <2>3
  <2>5. QED
    BY <2>4 DEF g
<1>8. sum = [n \in 0..Len(ps) |-> IF n = 0 THEN 0 ELSE sum[n - 1] + ps[n].pointCount]
  BY <1>7 DEF sum
<1>9. Alike(sum, f, Len(ps))
  <2>1. sum[0] = 0
    BY <1>1, <1>8
  <2>2. \A n \in 1..Len(ps) : sum[n] = sum[n - 1] + ps[n].pointCount
    <3>1. TAKE n \in 1..Len(ps)
    <3>2. n \in 0..Len(ps) /\ n # 0
      BY <1>1
    <3>3. QED
      BY <1>8, <3>2
  <2>3. QED
    BY <1>1, <1>6, <2>1, <2>2, SameSteps
<1>10. Points(ps) = sum[Len(ps)]
  BY DEF Points, sum
<1>11. Points(ps) = f[Len(ps)]
  BY <1>1, <1>9, <1>10 DEF Alike
<1>12. QED
  BY <1>6, <1>11

\* The sum over an empty sequence, and what appending a piece adds to it.
LEMMA PointsOf ==
  ASSUME NEW ps \in Seq(PieceRecord), NEW p \in PieceRecord
  PROVE  /\ Points(<< >>) = 0
         /\ Points(Append(ps, p)) = Points(ps) + p.pointCount
<1> DEFINE qs == Append(ps, p)
<1>1. Points(<< >>) = 0
  <2>1. << >> \in Seq(PieceRecord) /\ Len(<< >>) = 0
    OBVIOUS
  <2>2. QED
    BY <2>1, PointsDef
<1>2. /\ qs \in Seq(PieceRecord) /\ Len(ps) \in Nat /\ Len(qs) = Len(ps) + 1
      /\ qs[Len(qs)] = p /\ \A n \in 1..Len(ps) : qs[n] = ps[n]
  BY Appended
<1> HIDE DEF qs
<1>3. PICK f \in [0..Len(ps) -> Nat] :
        /\ f[0] = 0
        /\ \A n \in 1..Len(ps) : f[n] = f[n - 1] + ps[n].pointCount
        /\ Points(ps) = f[Len(ps)]
  BY PointsDef
<1>4. PICK g \in [0..Len(qs) -> Nat] :
        /\ g[0] = 0
        /\ \A n \in 1..Len(qs) : g[n] = g[n - 1] + qs[n].pointCount
        /\ Points(qs) = g[Len(qs)]
  BY <1>2, PointsDef
<1>5. \A n \in 1..Len(ps) : g[n] = g[n - 1] + ps[n].pointCount
  BY <1>2, <1>4
<1>6. Alike(f, g, Len(ps))
  <2>1. \A n \in 1..Len(ps) : f[n - 1] = g[n - 1] => f[n] = g[n]
    BY <1>3, <1>5
  <2>2. f[0] = g[0]
    BY <1>3, <1>4
  <2>3. QED
    BY <1>2, <2>1, <2>2, SameSteps
<1>7. Len(qs) \in 1..Len(qs) /\ Len(qs) - 1 = Len(ps) /\ Len(ps) \in 0..Len(ps)
  BY <1>2
<1>8. Points(qs) = f[Len(ps)] + p.pointCount
  BY <1>2, <1>4, <1>6, <1>7 DEF Alike
<1>9. QED
  BY <1>1, <1>3, <1>8 DEF qs

\* What Flat computes: the pieces of the chunks, laid end to end.
LEMMA FlatChunksDef ==
  ASSUME NEW cs \in Seq(ChunkRecord)
  PROVE  \E f \in [0..Len(cs) -> Seq(PieceRecord)] :
           /\ f[0] = << >>
           /\ \A n \in 1..Len(cs) : f[n] = f[n - 1] \o cs[n].pieces
           /\ Flat(cs) = f[Len(cs)]
<1> DEFINE G == [n \in 1..Len(cs) |-> [x \in Seq(PieceRecord) |-> x \o cs[n].pieces]]
           flat[n \in 0..Len(cs)] == IF n = 0 THEN << >> ELSE flat[n - 1] \o cs[n].pieces
<1> HIDE DEF G, flat
<1>1. Len(cs) \in Nat /\ << >> \in Seq(PieceRecord)
  OBVIOUS
<1>2. \A n \in 1..Len(cs) : cs[n] \in ChunkRecord
  OBVIOUS
<1>3. \A n \in 1..Len(cs) : cs[n].pieces \in Seq(PieceRecord)
  BY <1>2 DEF ChunkRecord
<1>4. G \in [1..Len(cs) -> [Seq(PieceRecord) -> Seq(PieceRecord)]]
  BY <1>3 DEF G
<1>5. PICK f \in [0..Len(cs) -> Seq(PieceRecord)] : Follows(f, Len(cs), << >>, G)
  BY <1>1, <1>4, NatRecursion
<1>6. f[0] = << >> /\ \A n \in 1..Len(cs) : f[n] = f[n - 1] \o cs[n].pieces
  <2>1. \A n \in 1..Len(cs) : n - 1 \in 0..Len(cs) /\ f[n - 1] \in Seq(PieceRecord)
    BY <1>1
  <2>2. \A n \in 1..Len(cs) : f[n] = G[n][f[n - 1]]
    BY <1>5 DEF Follows
  <2>3. f[0] = << >>
    BY <1>5 DEF Follows
  <2>4. QED
    BY <2>1, <2>2, <2>3 DEF G
<1>7. f = [n \in 0..Len(cs) |-> IF n = 0 THEN << >> ELSE f[n - 1] \o cs[n].pieces]
  <2> DEFINE g == [n \in 0..Len(cs) |-> IF n = 0 THEN << >> ELSE f[n - 1] \o cs[n].pieces]
  <2>1. \A n \in 0..Len(cs) : f[n] = g[n]
    <3>1. TAKE n \in 0..Len(cs)
    <3>2. n # 0 => n \in 1..Len(cs)
      BY <1>1
    <3>3. QED
      BY <1>6, <3>2
  <2> HIDE DEF g
  <2>2. f = [n \in 0..Len(cs) |-> f[n]]
    OBVIOUS
  <2>3. g = [n \in 0..Len(cs) |-> g[n]]
    BY DEF g
  <2>4. f = g
    BY <2>1, <2>2, <2>3
  <2>5. QED
    BY <2>4 DEF g
<1>8. flat = [n \in 0..Len(cs) |-> IF n = 0 THEN << >> ELSE flat[n - 1] \o cs[n].pieces]
  BY <1>7 DEF flat
<1>9. Alike(flat, f, Len(cs))
  <2>1. flat[0] = << >>
    BY <1>1, <1>8
  <2>2. \A n \in 1..Len(cs) : flat[n] = flat[n - 1] \o cs[n].pieces
    <3>1. TAKE n \in 1..Len(cs)
    <3>2. n \in 0..Len(cs) /\ n # 0
      BY <1>1
    <3>3. QED
      BY <1>8, <3>2
  <2>3. QED
    BY <1>1, <1>6, <2>1, <2>2, SameSteps
<1>10. Flat(cs) = flat[Len(cs)]
  BY DEF Flat, flat
<1>11. Flat(cs) = f[Len(cs)]
  BY <1>1, <1>9, <1>10 DEF Alike
<1>12. QED
  BY <1>6, <1>11

\* No chunks are no pieces, and a chunk adds its pieces at the end.
LEMMA FlatChunks ==
  ASSUME NEW cs \in Seq(ChunkRecord), NEW c \in ChunkRecord
  PROVE  /\ Flat(<< >>) = << >>
         /\ Flat(cs) \in Seq(PieceRecord)
         /\ Flat(Append(cs, c)) = Flat(cs) \o c.pieces
<1> DEFINE ds == Append(cs, c)
<1>1. Flat(<< >>) = << >>
  <2>1. << >> \in Seq(ChunkRecord) /\ Len(<< >>) = 0
    OBVIOUS
  <2>2. QED
    BY <2>1, FlatChunksDef
<1>2. /\ ds \in Seq(ChunkRecord) /\ Len(cs) \in Nat /\ Len(ds) = Len(cs) + 1
      /\ ds[Len(ds)] = c /\ \A n \in 1..Len(cs) : ds[n] = cs[n]
  BY Appended
<1> HIDE DEF ds
<1>3. PICK f \in [0..Len(cs) -> Seq(PieceRecord)] :
        /\ f[0] = << >>
        /\ \A n \in 1..Len(cs) : f[n] = f[n - 1] \o cs[n].pieces
        /\ Flat(cs) = f[Len(cs)]
  BY FlatChunksDef
<1>4. PICK g \in [0..Len(ds) -> Seq(PieceRecord)] :
        /\ g[0] = << >>
        /\ \A n \in 1..Len(ds) : g[n] = g[n - 1] \o ds[n].pieces
        /\ Flat(ds) = g[Len(ds)]
  BY <1>2, FlatChunksDef
<1>5. \A n \in 1..Len(cs) : g[n] = g[n - 1] \o cs[n].pieces
  <2>1. \A n \in 1..Len(cs) : n \in 1..Len(ds)
    BY <1>2
  <2>2. QED
    BY <1>2, <1>4, <2>1
<1>6. Alike(f, g, Len(cs))
  BY <1>2, <1>3, <1>4, <1>5, SameSteps
<1>7. Len(ds) \in 1..Len(ds) /\ Len(ds) - 1 = Len(cs) /\ Len(cs) \in 0..Len(cs)
  BY <1>2
<1>8. Flat(ds) = f[Len(cs)] \o c.pieces
  BY <1>2, <1>4, <1>6, <1>7 DEF Alike
<1>9. f[Len(cs)] \in Seq(PieceRecord)
  BY <1>3, <1>7
<1>10. QED
  BY <1>1, <1>3, <1>8, <1>9 DEF ds

\* The points of curve n: none when its count is not positive.
PointsOfCurve(n) == IF counts[n] > 0 THEN counts[n] ELSE 0

\* Where curves start, as a recursion from the first curve.
LEMMA StartDef ==
  ASSUME counts \in Seq(Int), NEW c \in Nat, c <= Len(counts)
  PROVE  \E f \in [0..c -> Nat] :
           /\ f[0] = 0
           /\ \A n \in 1..c : f[n] = f[n - 1] + PointsOfCurve(n)
           /\ StartOf(c + 1) = f[c]
<1> DEFINE G == [n \in 1..c |-> [x \in Nat |-> x + PointsOfCurve(n)]]
           start[n \in 1..(c + 1)] ==
             IF n = 1 THEN 0 ELSE start[n - 1] + (IF counts[n - 1] > 0 THEN counts[n - 1] ELSE 0)
<1> HIDE DEF G, start
<1>1. \A n \in 1..c : PointsOfCurve(n) \in Nat
  <2>1. \A n \in 1..c : counts[n] \in Int
    OBVIOUS
  <2>2. QED
    BY <2>1 DEF PointsOfCurve
<1>2. G \in [1..c -> [Nat -> Nat]]
  BY <1>1 DEF G
<1>3. PICK f \in [0..c -> Nat] : Follows(f, c, 0, G)
  BY <1>2, NatRecursion
<1>4. f[0] = 0 /\ \A n \in 1..c : f[n] = f[n - 1] + PointsOfCurve(n)
  <2>1. \A n \in 1..c : n - 1 \in 0..c /\ f[n - 1] \in Nat
    OBVIOUS
  <2>2. \A n \in 1..c : f[n] = G[n][f[n - 1]]
    BY <1>3 DEF Follows
  <2>3. f[0] = 0
    BY <1>3 DEF Follows
  <2>4. QED
    BY <2>1, <2>2, <2>3 DEF G
<1> DEFINE h == [n \in 1..(c + 1) |-> f[n - 1]]
<1>5. h = [n \in 1..(c + 1) |-> IF n = 1 THEN 0 ELSE h[n - 1] + PointsOfCurve(n - 1)]
  <2>1. \A n \in 1..(c + 1) : f[n - 1] = IF n = 1 THEN 0 ELSE h[n - 1] + PointsOfCurve(n - 1)
    <3>1. TAKE n \in 1..(c + 1)
    <3>2. n # 1 => n - 1 \in 1..c /\ n - 1 \in 1..(c + 1)
      OBVIOUS
    <3>3. QED
      BY <1>4, <3>2
  <2>2. QED
    BY <2>1
<1> HIDE DEF h
<1>6. start = [n \in 1..(c + 1) |-> IF n = 1 THEN 0 ELSE start[n - 1] + PointsOfCurve(n - 1)]
  BY <1>5 DEF start, PointsOfCurve
<1> DEFINE k == [n \in 0..c |-> start[n + 1]]
<1>7. Alike(k, f, c)
  <2>1. k[0] = 0
    BY <1>6
  <2>2. \A n \in 1..c : k[n] = k[n - 1] + PointsOfCurve(n)
    <3>1. TAKE n \in 1..c
    <3>2. n \in 0..c /\ n - 1 \in 0..c /\ n + 1 \in 1..(c + 1) /\ n + 1 # 1 /\ (n + 1) - 1 = n /\ (n - 1) + 1 = n
      OBVIOUS
    <3>3. QED
      BY <1>6, <3>2
  <2> HIDE DEF k
  <2>3. QED
    BY <1>4, <2>1, <2>2, SameSteps
<1>8. StartOf(c + 1) = start[c + 1]
  BY DEF StartOf, start
<1>9. StartOf(c + 1) = f[c]
  BY <1>7, <1>8 DEF Alike
<1>10. QED
  BY <1>4, <1>9

\* The first curve starts the array, another follows the one before.
LEMMA StartOfNext ==
  ASSUME counts \in Seq(Int)
  PROVE  /\ StartOf(1) = 0
         /\ \A c \in 1..Len(counts) :
              StartOf(c) \in Nat /\ StartOf(c + 1) = StartOf(c) + PointsOfCurve(c)
<1>1. Len(counts) \in Nat
  OBVIOUS
<1>2. StartOf(1) = 0
  <2>1. PICK c \in Nat : c = 0 /\ c <= Len(counts) /\ c + 1 = 1
    BY <1>1
  <2>2. PICK f \in [0..c -> Nat] : f[0] = 0 /\ StartOf(c + 1) = f[c]
    BY <2>1, StartDef
  <2>3. QED
    BY <2>1, <2>2
<1>3. ASSUME NEW c \in 1..Len(counts)
      PROVE  StartOf(c) \in Nat /\ StartOf(c + 1) = StartOf(c) + PointsOfCurve(c)
  <2>1. PICK m \in Nat : m = c - 1 /\ c = m + 1
    OBVIOUS
  <2>2. m <= Len(counts) /\ c \in Nat /\ c <= Len(counts)
    BY <1>1, <2>1
  <2>3. PICK f \in [0..m -> Nat] :
          /\ f[0] = 0
          /\ \A n \in 1..m : f[n] = f[n - 1] + PointsOfCurve(n)
          /\ StartOf(m + 1) = f[m]
    BY <2>2, StartDef
  <2>4. PICK g \in [0..c -> Nat] :
          /\ g[0] = 0
          /\ \A n \in 1..c : g[n] = g[n - 1] + PointsOfCurve(n)
          /\ StartOf(c + 1) = g[c]
    BY <2>2, StartDef
  <2>5. \A n \in 1..m : f[n - 1] = g[n - 1] => f[n] = g[n]
    <3>1. \A n \in 1..m : n \in 1..c
      BY <2>1
    <3>2. QED
      BY <2>3, <2>4, <3>1
  <2>6. Alike(f, g, m)
    BY <2>3, <2>4, <2>5, SameSteps
  <2>7. f[m] = g[m] /\ f[m] \in Nat
    BY <2>6 DEF Alike
  <2>8. StartOf(c) = f[m] /\ g[c] = g[m] + PointsOfCurve(c)
    BY <2>1, <2>3, <2>4
  <2>9. QED
    BY <2>4, <2>7, <2>8
<1>4. QED
  BY <1>2, <1>3
---------------------------------------------------------------------------
\* Packing: a chunk, closed or being filled, knows its points; nothing is packed
\* before the split ends; a closed chunk is followed by a piece that did not fit.
PackInv ==
  /\ stage = "split" => next = 1 /\ chunks = << >> /\ chunk = NoChunk
  /\ ~combine => chunk = NoChunk
  /\ chunk.pointCount = Points(chunk.pieces)
  /\ \A n \in 1..Len(chunks) :
       chunks[n].pieces # << >> /\ chunks[n].pointCount = Points(chunks[n].pieces)
  /\ combine => \A n \in 1..(Len(chunks) - 1) :
       chunks[n].pointCount + chunks[n + 1].pieces[1].pointCount > pointLimit
  /\ combine /\ chunks # << >> =>
       IF chunk.pieces # << >>
       THEN chunks[Len(chunks)].pointCount + chunk.pieces[1].pointCount > pointLimit
       ELSE next <= Len(pieces) =>
              chunks[Len(chunks)].pointCount + pieces[next].pointCount > pointLimit

\* What packing has done so far is what the variables say.
PackedInv == PackInv /\ ChunksArePieces

\* The next piece: the prefix before it grows by it.
LEMMA Prefix ==
  ASSUME NEW S, NEW s \in Seq(S), NEW n \in 1..Len(s)
  PROVE  /\ SubSeq(s, 1, n - 1) \in Seq(S)
         /\ SubSeq(s, 1, n) = SubSeq(s, 1, n - 1) \o <<s[n]>>
         /\ SubSeq(s, 1, 0) = << >>
<1>1. n \in Nat /\ n - 1 \in Nat /\ Len(s) \in Nat
  OBVIOUS
<1>2. \A i \in 1..(n - 1) : s[i] \in S
  BY <1>1
<1>3. SubSeq(s, 1, n - 1) \in Seq(S)
  BY <1>1, <1>2, SubSeqProperties
<1>4. SubSeq(s, 1, n) = SubSeq(s, 1, n - 1) \o <<s[n]>>
  <2>1. 1 \in 1..Len(s) /\ n \in 1..Len(s)
    BY <1>1
  <2>2. QED
    BY <2>1, SubSeqRecursiveSecond
<1>5. SubSeq(s, 1, 0) = << >>
  OBVIOUS
<1>6. QED
  BY <1>3, <1>4, <1>5

\* A chunk has pieces and points.
LEMMA ChunkFields ==
  ASSUME NEW c \in ChunkRecord
  PROVE  c.pieces \in Seq(PieceRecord) /\ c.pointCount \in Nat
BY DEF ChunkRecord

\* A step that touches no chunk keeps what is known of them.
LEMMA UnpackedStep ==
  ASSUME IInv, IInv', PackedInv, Split
  PROVE  PackedInv'
<1>1. PackInv /\ TypeOK /\ TypeOK'
  BY DEF IInv, PackedInv
<1>2. /\ stage = "split"
      /\ UNCHANGED <<combine, next, chunks, chunk>>
  BY DEF Split, SkipEmpty, TakeWhole, TakeFirst, TakeNext, NextCurve, EndSplit, More
<1>3. next' = 1 /\ chunks' = << >> /\ chunk' = NoChunk
  BY <1>1, <1>2 DEF PackInv
<1>4. Points(<< >>) = 0 /\ Flat(<< >>) = << >>
  <2>1. /\ [curve |-> 0, pointOffset |-> 0, pointCount |-> 0] \in PieceRecord
        /\ << >> \in Seq(PieceRecord) /\ << >> \in Seq(ChunkRecord)
        /\ NoChunk \in ChunkRecord
    BY DEF PieceRecord, ChunkRecord, NoChunk
  <2>2. QED
    BY <2>1, PointsOf, FlatChunks
<1>5. PackInv'
  BY <1>1, <1>2, <1>3, <1>4 DEF PackInv, NoChunk
<1>6. pieces' \in Seq(PieceRecord) /\ Len(pieces') \in Nat
  BY <1>1 DEF TypeOK
<1>7. SubSeq(pieces', 1, 0) = << >>
  BY <1>6
<1>8. ChunksArePieces'
  <2>1. chunk'.pieces = << >> /\ Flat(chunks') = << >> /\ next' - 1 = 0
    BY <1>3, <1>4 DEF NoChunk
  <2>2. << >> \o << >> = << >>
    OBVIOUS
  <2>3. QED
    BY <1>7, <2>1, <2>2 DEF ChunksArePieces
<1>9. QED
  BY <1>5, <1>8 DEF PackedInv

\* A step that packs.
LEMMA PackStep ==
  ASSUME IInv, IInv', PackedInv, Group
  PROVE  PackedInv'
<1>1. PackInv /\ ChunksArePieces /\ TypeOK /\ TypeOK'
  BY DEF IInv, PackedInv
<1>2. /\ stage # "split" /\ stage' # "split"
      /\ UNCHANGED <<counts, pointLimit, combine, pieces>>
  BY DEF Group, ChunkAlone, AddPiece, CloseChunk, EndGroup
<1>3. /\ pointLimit \in Nat /\ Len(pieces) \in Nat /\ next \in Nat \ {0} /\ Len(chunks) \in Nat
      /\ pieces \in Seq(PieceRecord) /\ chunks \in Seq(ChunkRecord) /\ chunk \in ChunkRecord
      /\ DOMAIN chunks = 1..Len(chunks) /\ (chunks = << >> <=> Len(chunks) = 0)
  BY <1>1, Types DEF TypeOK
<1>4. /\ chunk.pieces \in Seq(PieceRecord) /\ chunk.pointCount \in Nat
      /\ \A n \in 1..Len(chunks) : chunks[n] \in ChunkRecord
  BY <1>3, ChunkFields
<1>5. \A n \in 1..Len(chunks) : chunks[n].pieces \in Seq(PieceRecord) /\ chunks[n].pointCount \in Nat
  BY <1>4, ChunkFields
<1>6. Points(<< >>) = 0 /\ Flat(chunks) \in Seq(PieceRecord)
  <2>1. /\ [curve |-> 0, pointOffset |-> 0, pointCount |-> 0] \in PieceRecord
        /\ << >> \in Seq(PieceRecord)
    BY DEF PieceRecord
  <2>2. QED
    BY <1>3, <2>1, PointsOf, FlatChunks
<1>7. ASSUME next <= Len(pieces)
      PROVE  /\ next \in 1..Len(pieces) /\ pieces[next] \in PieceRecord
             /\ pieces[next].pointCount \in Nat
             /\ SubSeq(pieces, 1, next - 1) \in Seq(PieceRecord)
             /\ SubSeq(pieces, 1, next) = SubSeq(pieces, 1, next - 1) \o <<pieces[next]>>
             /\ <<pieces[next]>> \in Seq(PieceRecord)
             /\ Points(<<pieces[next]>>) = pieces[next].pointCount
  <2>1. next \in 1..Len(pieces)
    BY <1>3, <1>7
  <2>2. pieces[next] \in PieceRecord /\ pieces[next].pointCount \in Nat
    BY <1>1, <2>1, Types
  <2>3. /\ SubSeq(pieces, 1, next - 1) \in Seq(PieceRecord)
        /\ SubSeq(pieces, 1, next) = SubSeq(pieces, 1, next - 1) \o <<pieces[next]>>
    BY <1>3, <2>1, Prefix
  <2>4. <<pieces[next]>> \in Seq(PieceRecord) /\ << >> \in Seq(PieceRecord)
    BY <2>2
  <2>5. Append(<< >>, pieces[next]) = <<pieces[next]>>
    OBVIOUS
  <2>6. Points(Append(<< >>, pieces[next])) = Points(<< >>) + pieces[next].pointCount
    BY <2>2, <2>4, PointsOf
  <2>7. Points(<<pieces[next]>>) = pieces[next].pointCount
    BY <1>6, <2>2, <2>5, <2>6
  <2>8. QED
    BY <2>1, <2>2, <2>3, <2>4, <2>7
\* What closing a chunk does to the chunks.
<1>8. ASSUME NEW closed \in ChunkRecord, chunks' = Append(chunks, closed)
      PROVE  /\ Len(chunks') = Len(chunks) + 1 /\ chunks' # << >>
             /\ \A n \in 1..Len(chunks) : chunks'[n] = chunks[n]
             /\ chunks'[Len(chunks) + 1] = closed
             /\ Flat(chunks') = Flat(chunks) \o closed.pieces
             /\ closed.pieces \in Seq(PieceRecord) /\ closed.pointCount \in Nat
  <2>1. closed.pieces \in Seq(PieceRecord) /\ closed.pointCount \in Nat
    BY DEF ChunkRecord
  <2>2. /\ Len(chunks') = Len(chunks) + 1 /\ chunks' # << >>
        /\ \A n \in 1..Len(chunks) : chunks'[n] = chunks[n]
        /\ chunks'[Len(chunks) + 1] = closed
    BY <1>3, <1>8, Appended
  <2>3. Flat(chunks') = Flat(chunks) \o closed.pieces
    BY <1>3, <1>8, FlatChunks
  <2>4. QED
    BY <2>1, <2>2, <2>3
<1>9. CASE ChunkAlone
  <2> DEFINE alone == [pieces |-> <<pieces[next]>>, pointCount |-> pieces[next].pointCount]
  <2>1. /\ ~combine /\ next <= Len(pieces)
        /\ chunks' = Append(chunks, alone) /\ next' = next + 1 /\ chunk' = chunk
    BY <1>9 DEF ChunkAlone
  <2>2. alone \in ChunkRecord
    BY <1>7, <2>1 DEF ChunkRecord
  <2>3. /\ alone.pieces = <<pieces[next]>> /\ alone.pieces # << >>
        /\ alone.pointCount = Points(alone.pieces)
    BY <1>7, <2>1
  <2>4. chunk = NoChunk /\ chunk.pieces = << >>
    BY <1>1, <2>1 DEF PackInv, NoChunk
  <2> HIDE DEF alone
  <2>5. \A n \in 1..Len(chunks') : chunks'[n].pieces # << >> /\ chunks'[n].pointCount = Points(chunks'[n].pieces)
    <3>1. \A n \in 1..Len(chunks) :
            chunks[n].pieces # << >> /\ chunks[n].pointCount = Points(chunks[n].pieces)
      BY <1>1 DEF PackInv
    <3>2. /\ Len(chunks') = Len(chunks) + 1
          /\ \A n \in 1..Len(chunks) : chunks'[n] = chunks[n]
          /\ chunks'[Len(chunks) + 1] = alone
      BY <1>8, <2>1, <2>2
    <3>3. \A n \in 1..Len(chunks') : n \in 1..Len(chunks) \/ n = Len(chunks) + 1
      BY <1>3, <3>2
    <3>4. QED
      BY <2>3, <3>1, <3>2, <3>3
  <2>6. PackInv'
    BY <1>1, <1>2, <2>1, <2>4, <2>5 DEF PackInv
  <2>7. Flat(chunks) = SubSeq(pieces, 1, next - 1)
    BY <1>1, <1>6, <2>4, ConcatEmptySeq DEF ChunksArePieces
  <2>8. Flat(chunks') = SubSeq(pieces, 1, next)
    BY <1>7, <1>8, <2>1, <2>2, <2>3, <2>7
  <2>9. Flat(chunks') \in Seq(PieceRecord) /\ next' - 1 = next
    BY <1>3, <1>6, <1>7, <2>1, <2>7, <2>8, ConcatProperties
  <2>10. Flat(chunks') \o chunk'.pieces = Flat(chunks')
    BY <2>1, <2>4, <2>9, ConcatEmptySeq
  <2>11. ChunksArePieces'
    BY <1>2, <2>8, <2>9, <2>10 DEF ChunksArePieces
  <2>12. QED
    BY <2>6, <2>11 DEF PackedInv
<1>10. CASE AddPiece
  <2>1. /\ combine /\ next <= Len(pieces) /\ Fits /\ next' = next + 1 /\ chunks' = chunks
        /\ chunk' = [pieces |-> Append(chunk.pieces, pieces[next]),
                     pointCount |-> chunk.pointCount + pieces[next].pointCount]
    BY <1>10 DEF AddPiece
  <2>2. /\ chunk'.pieces = Append(chunk.pieces, pieces[next])
        /\ chunk'.pointCount = chunk.pointCount + pieces[next].pointCount
    BY <2>1
  <2>3. chunk'.pointCount = Points(chunk'.pieces)
    BY <1>1, <1>4, <1>7, <2>1, <2>2, PointsOf DEF PackInv
  <2>4. /\ chunk'.pieces # << >> /\ Len(chunk.pieces) \in Nat
        /\ chunk'.pieces[1] = IF chunk.pieces = << >> THEN pieces[next] ELSE chunk.pieces[1]
    <3>1. /\ chunk'.pieces # << >> /\ Len(chunk.pieces) \in Nat
          /\ \A n \in 1..Len(chunk.pieces) : chunk'.pieces[n] = chunk.pieces[n]
          /\ chunk'.pieces[Len(chunk.pieces) + 1] = pieces[next]
      <4>1. pieces[next] \in PieceRecord /\ chunk.pieces \in Seq(PieceRecord)
        BY <1>4, <1>7, <2>1
      <4>2. QED
        BY <2>2, <4>1, Appended
    <3>2. chunk.pieces = << >> <=> Len(chunk.pieces) = 0
      BY <1>4
    <3>3. QED
      BY <3>1, <3>2
  <2>5. chunks # << >> => chunks'[Len(chunks')].pointCount + chunk'.pieces[1].pointCount > pointLimit
    BY <1>1, <2>1, <2>4 DEF PackInv
  <2>6. PackInv'
    BY <1>1, <1>2, <2>1, <2>3, <2>4, <2>5 DEF PackInv
  <2> DEFINE one == <<pieces[next]>>
             before == SubSeq(pieces, 1, next - 1)
  <2>7. chunk'.pieces = chunk.pieces \o one
    BY <1>4, <1>7, <2>1, <2>2, AppendIsConcat
  <2>8. one \in Seq(PieceRecord) /\ SubSeq(pieces, 1, next) = before \o one
    BY <1>7, <2>1
  <2>9. Flat(chunks) \o chunk.pieces = before
    BY <1>1 DEF ChunksArePieces
  <2> HIDE DEF one, before
  <2>10. Flat(chunks) \o (chunk.pieces \o one) = (Flat(chunks) \o chunk.pieces) \o one
    <3>1. Flat(chunks) \in Seq(PieceRecord) /\ chunk.pieces \in Seq(PieceRecord) /\ one \in Seq(PieceRecord)
      BY <1>4, <1>6, <2>8
    <3>2. \A a, b, c \in Seq(PieceRecord) : a \o (b \o c) = (a \o b) \o c
      BY ConcatAssociative
    <3>3. QED
      BY <3>1, <3>2
  <2>11. Flat(chunks') \o chunk'.pieces = SubSeq(pieces, 1, next)
    BY <2>1, <2>7, <2>8, <2>9, <2>10
  <2>12. next' - 1 = next
    BY <1>3, <2>1
  <2>13. ChunksArePieces'
    BY <1>2, <2>11, <2>12 DEF ChunksArePieces
  <2>14. QED
    BY <2>6, <2>13 DEF PackedInv
<1>11. CASE CloseChunk
  <2>1. /\ combine /\ chunk.pieces # << >> /\ next <= Len(pieces) => ~Fits
        /\ chunks' = Append(chunks, chunk) /\ chunk' = NoChunk /\ next' = next
    BY <1>11 DEF CloseChunk
  <2>2. combine /\ chunk.pieces # << >> /\ (next <= Len(pieces) => ~Fits)
    BY <1>11 DEF CloseChunk
  <2>3. /\ chunks' = Append(chunks, chunk) /\ chunk' = NoChunk /\ next' = next
        /\ chunk'.pieces = << >> /\ chunk'.pointCount = 0
    BY <1>11 DEF CloseChunk, NoChunk
  <2>4. /\ Len(chunks') = Len(chunks) + 1 /\ chunks' # << >>
        /\ \A n \in 1..Len(chunks) : chunks'[n] = chunks[n]
        /\ chunks'[Len(chunks) + 1] = chunk
        /\ Flat(chunks') = Flat(chunks) \o chunk.pieces
    BY <1>3, <1>8, <2>3
  <2>5. \A n \in 1..Len(chunks') : chunks'[n].pieces # << >> /\ chunks'[n].pointCount = Points(chunks'[n].pieces)
    <3>1. TAKE n \in 1..Len(chunks')
    <3>2. n \in 1..Len(chunks) \/ n = Len(chunks) + 1
      BY <1>3, <2>4
    <3>3. CASE n \in 1..Len(chunks)
      <4>1. chunks'[n] = chunks[n]
        BY <2>4, <3>3
      <4>2. chunks[n].pieces # << >> /\ chunks[n].pointCount = Points(chunks[n].pieces)
        BY <1>1, <3>3 DEF PackInv
      <4>3. QED
        BY <4>1, <4>2
    <3>4. CASE n = Len(chunks) + 1
      <4>1. chunks'[n] = chunk
        BY <2>4, <3>4
      <4>2. chunk.pieces # << >> /\ chunk.pointCount = Points(chunk.pieces)
        BY <1>1, <2>2 DEF PackInv
      <4>3. QED
        BY <4>1, <4>2
    <3>5. QED
      BY <3>2, <3>3, <3>4
  <2>6. \A n \in 1..(Len(chunks') - 1) :
          chunks'[n].pointCount + chunks'[n + 1].pieces[1].pointCount > pointLimit
    <3>1. TAKE n \in 1..(Len(chunks') - 1)
    <3>2. n \in 1..Len(chunks) /\ chunks'[n] = chunks[n]
      BY <1>3, <2>4
    <3>3. CASE n < Len(chunks)
      <4>1. n \in 1..(Len(chunks) - 1) /\ n + 1 \in 1..Len(chunks)
        BY <1>3, <3>2, <3>3
      <4>2. QED
        BY <1>1, <2>2, <2>4, <3>2, <4>1 DEF PackInv
    <3>4. CASE n = Len(chunks)
      <4>1. chunks # << >>
        BY <1>3, <3>2
      <4>2. QED
        BY <1>1, <2>2, <2>4, <3>2, <3>4, <4>1 DEF PackInv
    <3>5. QED
      <4>1. PICK size \in Nat : size = Len(chunks)
        BY <1>3
      <4>2. n \in 1..size
        BY <3>2, <4>1
      <4>3. n < size \/ n = size
        BY <4>2
      <4>4. QED
        BY <3>3, <3>4, <4>1, <4>3
  <2>7. next' <= Len(pieces') => chunks'[Len(chunks')].pointCount + pieces'[next'].pointCount > pointLimit
    <3>1. ASSUME next <= Len(pieces) PROVE chunk.pointCount + pieces[next].pointCount > pointLimit
      BY <1>3, <1>4, <1>7, <2>2, <3>1 DEF Fits
    <3>2. QED
      BY <1>2, <2>3, <2>4, <3>1
  <2>8. PackInv'
    BY <1>2, <1>6, <2>2, <2>3, <2>5, <2>6, <2>7 DEF PackInv
  <2>9. Flat(chunks) \o chunk.pieces \in Seq(PieceRecord)
    BY <1>4, <1>6, ConcatProperties
  <2>10. (Flat(chunks) \o chunk.pieces) \o << >> = Flat(chunks) \o chunk.pieces
    BY <2>9, ConcatEmptySeq
  <2>11. ChunksArePieces'
    BY <1>1, <1>2, <2>3, <2>4, <2>10 DEF ChunksArePieces
  <2>12. QED
    BY <2>8, <2>11 DEF PackedInv
<1>12. CASE EndGroup
  <2>1. UNCHANGED <<next, chunks, chunk>>
    BY <1>12 DEF EndGroup
  <2>2. PackInv' /\ ChunksArePieces'
    BY <1>1, <1>2, <2>1 DEF PackInv, ChunksArePieces
  <2>3. QED
    BY <2>2 DEF PackedInv
<1>13. QED
  BY <1>9, <1>10, <1>11, <1>12 DEF Group

\* Packing loses, repeats and reorders nothing, and knows what it packed.
THEOREM PackInvariance == Spec => []PackedInv
<1>1. Init => PackedInv
  <2> SUFFICES ASSUME Init PROVE PackedInv
    OBVIOUS
  <2>1. /\ [curve |-> 0, pointOffset |-> 0, pointCount |-> 0] \in PieceRecord
        /\ << >> \in Seq(PieceRecord) /\ << >> \in Seq(ChunkRecord)
        /\ NoChunk \in ChunkRecord
    BY DEF PieceRecord, ChunkRecord, NoChunk
  <2>2. Points(<< >>) = 0 /\ Flat(<< >>) = << >>
    BY <2>1, PointsOf, FlatChunks
  <2>3. chunk.pieces = << >> /\ chunk.pointCount = 0 /\ chunks = << >> /\ pieces = << >> /\ next = 1
    BY DEF Init, NoChunk
  <2>4. PackInv
    BY <2>2, <2>3 DEF Init, PackInv
  <2>5. SubSeq(pieces, 1, next - 1) = << >>
    BY <2>3
  <2>6. ChunksArePieces
    <3>1. << >> \o << >> = << >>
      OBVIOUS
    <3>2. QED
      BY <2>2, <2>3, <2>5, <3>1 DEF ChunksArePieces
  <2>7. QED
    BY <2>4, <2>6 DEF PackedInv
<1>2. IInv /\ IInv' /\ PackedInv /\ [Next]_vars => PackedInv'
  <2> SUFFICES ASSUME IInv, IInv', PackedInv, [Next]_vars PROVE PackedInv'
    OBVIOUS
  <2>1. CASE Split
    BY <2>1, UnpackedStep
  <2>2. CASE Group
    BY <2>2, PackStep
  <2>3. CASE UNCHANGED vars
    BY <2>3 DEF vars, PackedInv, PackInv, ChunksArePieces
  <2>4. QED
    BY <2>1, <2>2, <2>3 DEF Next
<1>3. QED
  BY <1>1, <1>2, Invariance, PTL DEF Spec

\* Laid end to end the chunks are the pieces, whatever the counts and the limit.
THEOREM NothingLost == Spec => []ChunksArePieces
<1>1. PackedInv => ChunksArePieces
  BY DEF PackedInv
<1>2. QED
  BY <1>1, PackInvariance, PTL

\* A chunk is closed only when the next piece would not fit, and its count is the
\* sum of its pieces.
THEOREM PackedTight == Spec => []ChunksPacked
<1>1. IInv /\ PackedInv => ChunksPacked
  <2> SUFFICES ASSUME IInv, PackedInv PROVE ChunksPacked
    OBVIOUS
  <2>1. DOMAIN chunks = 1..Len(chunks)
    BY DEF IInv, TypeOK
  <2>2. QED
    BY <2>1 DEF PackedInv, PackInv, ChunksPacked
<1>2. QED
  BY <1>1, Invariance, PackInvariance, PTL
---------------------------------------------------------------------------
\* The pieces ps of curve c show the points from a up to b, b not included: no piece
\* shows others, each point is in a piece, each segment in one only.
Covers(ps, c, a, b, limit) ==
  /\ \A n \in 1..Len(ps) :
       ps[n].curve = c => a <= ps[n].pointOffset /\ ps[n].pointOffset + ps[n].pointCount <= b
  /\ \A x \in Int : a <= x /\ x < b =>
       \E n \in 1..Len(ps) : /\ ps[n].curve = c /\ ps[n].pointOffset <= x
                             /\ x < ps[n].pointOffset + ps[n].pointCount
  /\ limit > 1 =>
       /\ \A x \in Int : a <= x /\ x + 1 < b =>
            \E n \in 1..Len(ps) : /\ ps[n].curve = c /\ ps[n].pointOffset <= x
                                  /\ x + 1 < ps[n].pointOffset + ps[n].pointCount
       /\ \A m, n \in 1..Len(ps) :
            m < n /\ ps[m].curve = c /\ ps[n].curve = c =>
              ps[m].pointOffset + ps[m].pointCount <= ps[n].pointOffset + 1

\* What the fields of pieces are.
LEMMA PieceFields ==
  ASSUME NEW ps \in Seq(PieceRecord)
  PROVE  \A n \in 1..Len(ps) : ps[n].pointOffset \in Nat /\ ps[n].pointCount \in Nat
<1>1. \A n \in 1..Len(ps) : ps[n] \in PieceRecord
  OBVIOUS
<1>2. QED
  BY <1>1 DEF PieceRecord

\* A curve of which no piece is cut shows no points.
LEMMA CoversNone ==
  ASSUME NEW ps \in Seq(PieceRecord), NEW c, NEW a \in Int, NEW b \in Int, NEW limit, b <= a,
         \A n \in 1..Len(ps) : ps[n].curve # c
  PROVE  Covers(ps, c, a, b, limit)
<1>1. \A x \in Int : ~(a <= x /\ x < b) /\ ~(a <= x /\ x + 1 < b)
  OBVIOUS
<1>2. QED
  BY <1>1 DEF Covers

\* A piece of another curve changes nothing for this one.
LEMMA CoversOther ==
  ASSUME NEW ps \in Seq(PieceRecord), NEW p \in PieceRecord, NEW c, NEW a, NEW b, NEW limit,
         Covers(ps, c, a, b, limit), p.curve # c
  PROVE  Covers(Append(ps, p), c, a, b, limit)
<1> DEFINE qs == Append(ps, p)
<1>1. /\ Len(ps) \in Nat /\ Len(qs) = Len(ps) + 1
      /\ \A n \in 1..Len(ps) : qs[n] = ps[n]
      /\ qs[Len(ps) + 1] = p
  BY Appended
<1> HIDE DEF qs
<1>2. PICK size \in Nat : size = Len(ps)
  BY <1>1
<1>3. \A n \in 1..Len(qs) : qs[n].curve = c => n \in 1..Len(ps) /\ qs[n] = ps[n]
  <2>1. TAKE n \in 1..Len(qs)
  <2>2. n \in 1..size \/ n = size + 1
    BY <1>1, <1>2
  <2>3. QED
    BY <1>1, <1>2, <2>2
<1>4. \A n \in 1..Len(ps) : n \in 1..Len(qs) /\ qs[n] = ps[n]
  BY <1>1
<1>5. Covers(qs, c, a, b, limit)
  BY <1>3, <1>4 DEF Covers
<1>6. QED
  BY <1>5 DEF qs

\* The piece cut next: it starts where the points shown end, or on the last of them.
LEMMA CoversCut ==
  ASSUME NEW ps \in Seq(PieceRecord), NEW p \in PieceRecord, NEW c,
         NEW a \in Int, NEW b \in Int, NEW e \in Int, NEW limit \in Nat,
         Covers(ps, c, a, b, limit), a <= b, b < e, limit > 0,
         \A n \in 1..Len(ps) : ps[n].pointCount > 0,
         p.curve = c, p.pointOffset + p.pointCount = e,
         p.pointOffset = IF b = a \/ limit = 1 THEN b ELSE b - 1
  PROVE  Covers(Append(ps, p), c, a, e, limit)
<1> DEFINE qs == Append(ps, p)
<1>1. /\ Len(ps) \in Nat /\ Len(qs) = Len(ps) + 1
      /\ \A n \in 1..Len(ps) : qs[n] = ps[n]
      /\ qs[Len(ps) + 1] = p
  BY Appended
<1> HIDE DEF qs
<1>2. PICK size \in Nat : size = Len(ps)
  BY <1>1
<1>3. /\ \A n \in 1..Len(qs) : n \in 1..size \/ n = size + 1
      /\ \A n \in 1..size : n \in 1..Len(qs)
      /\ size + 1 \in 1..Len(qs)
  BY <1>1, <1>2
<1>4. /\ \A n \in 1..size : qs[n] = ps[n]
      /\ qs[size + 1] = p
  BY <1>1, <1>2
<1>5. /\ p.pointOffset \in Nat /\ p.pointCount \in Nat
      /\ \A n \in 1..size : ps[n].pointOffset \in Nat /\ ps[n].pointCount \in Nat
  BY <1>2, PieceFields DEF PieceRecord
<1>6. p.pointOffset <= b /\ a <= p.pointOffset /\ (limit > 1 => b <= p.pointOffset + 1)
  OBVIOUS
<1>7. \A n \in 1..size :
        ps[n].curve = c => a <= ps[n].pointOffset /\ ps[n].pointOffset + ps[n].pointCount <= b
  BY <1>2 DEF Covers
<1>8. \A n \in 1..Len(qs) :
        qs[n].curve = c => a <= qs[n].pointOffset /\ qs[n].pointOffset + qs[n].pointCount <= e
  <2>1. TAKE n \in 1..Len(qs)
  <2>2. HAVE qs[n].curve = c
  <2>3. CASE n \in 1..size
    <3>1. a <= ps[n].pointOffset /\ ps[n].pointOffset + ps[n].pointCount <= b
      BY <1>4, <1>7, <2>2, <2>3
    <3>2. ps[n].pointOffset \in Nat /\ ps[n].pointCount \in Nat
      BY <1>5, <2>3
    <3>3. ps[n].pointOffset + ps[n].pointCount <= e
      BY <3>1, <3>2
    <3>4. QED
      BY <1>4, <2>3, <3>1, <3>3
  <2>4. CASE n = size + 1
    BY <1>4, <1>6, <2>4
  <2>5. QED
    BY <1>3, <2>3, <2>4
<1>9. ASSUME NEW x \in Int, a <= x, x < e
      PROVE  \E n \in 1..Len(qs) : /\ qs[n].curve = c /\ qs[n].pointOffset <= x
                                   /\ x < qs[n].pointOffset + qs[n].pointCount
  <2>1. CASE x < b
    <3>1. PICK n \in 1..size : /\ ps[n].curve = c /\ ps[n].pointOffset <= x
                               /\ x < ps[n].pointOffset + ps[n].pointCount
      BY <1>2, <1>9, <2>1 DEF Covers
    <3>2. QED
      BY <1>3, <1>4, <3>1
  <2>2. CASE b <= x
    <3>1. p.pointOffset <= x
      BY <1>5, <1>6, <2>2
    <3>2. QED
      BY <1>3, <1>4, <1>9, <3>1
  <2>3. QED
    BY <2>1, <2>2
<1>10. ASSUME limit > 1, NEW x \in Int, a <= x, x + 1 < e
       PROVE  \E n \in 1..Len(qs) : /\ qs[n].curve = c /\ qs[n].pointOffset <= x
                                    /\ x + 1 < qs[n].pointOffset + qs[n].pointCount
  <2>1. CASE x + 1 < b
    <3>1. PICK n \in 1..size : /\ ps[n].curve = c /\ ps[n].pointOffset <= x
                               /\ x + 1 < ps[n].pointOffset + ps[n].pointCount
      BY <1>2, <1>10, <2>1 DEF Covers
    <3>2. QED
      BY <1>3, <1>4, <3>1
  <2>2. CASE b <= x + 1
    <3>1. p.pointOffset <= x
      BY <1>10, <2>2
    <3>2. QED
      BY <1>3, <1>4, <1>10, <3>1
  <2>3. QED
    BY <2>1, <2>2
<1>11. ASSUME limit > 1, NEW m \in 1..Len(qs), NEW n \in 1..Len(qs),
              m < n, qs[m].curve = c, qs[n].curve = c
       PROVE  qs[m].pointOffset + qs[m].pointCount <= qs[n].pointOffset + 1
  <2>1. m \in 1..size /\ qs[m] = ps[m]
    BY <1>1, <1>2, <1>4, <1>11
  <2>2. CASE n \in 1..size
    BY <1>2, <1>4, <1>11, <2>1, <2>2 DEF Covers
  <2>3. CASE n = size + 1
    <3>1. ps[m].pointOffset + ps[m].pointCount <= b
      BY <1>7, <1>11, <2>1
    <3>2. ps[m].pointOffset \in Nat /\ ps[m].pointCount \in Nat /\ p.pointOffset \in Nat
      BY <1>5, <2>1
    <3>3. b <= p.pointOffset + 1
      BY <1>6, <1>11
    <3>4. ps[m].pointOffset + ps[m].pointCount <= p.pointOffset + 1
      <4>1. PICK before, offset \in Int :
              before = ps[m].pointOffset + ps[m].pointCount /\ offset = p.pointOffset
        BY <3>2
      <4>2. QED
        BY <3>1, <3>3, <4>1
    <3>5. QED
      BY <1>4, <2>1, <2>3, <3>4
  <2>4. QED
    BY <1>3, <2>2, <2>3
<1>12. Covers(qs, c, a, e, limit)
  BY <1>8, <1>9, <1>10, <1>11 DEF Covers
<1>13. QED
  BY <1>12 DEF qs

\* The curves before the current one are shown in full, the current one up to the
\* points consumed; the split ends after the last curve.
ShowInv ==
  pointLimit > 0 =>
    /\ stage # "split" => curveIdx > Len(counts)
    /\ \A c \in 1..Len(counts) : c < curveIdx =>
         Covers(pieces, c, StartOf(c), StartOf(c) + counts[c], pointLimit)
    /\ curveIdx <= Len(counts) =>
         /\ pointOffset = StartOf(curveIdx)
         /\ Covers(pieces, curveIdx, pointOffset, pointOffset + consumed, pointLimit)

\* Where curves start does not change.
LEMMA StartKept ==
  ASSUME counts' = counts
  PROVE  \A c : StartOf(c)' = StartOf(c)
BY DEF StartOf

\* A cut shows the points it consumes.
LEMMA CutShows ==
  ASSUME IInv, ShowInv, NEW start \in Nat, NEW size \in Nat, Cuts(start, size)
  PROVE  ShowInv'
<1> DEFINE piece == Piece(start, size)
<1>1. TypeOK /\ LimitKept /\ SplitInv
  BY DEF IInv
<1>2. /\ curveIdx \in Nat \ {0} /\ consumed \in Nat /\ pointOffset \in Nat /\ pointLimit \in Nat
      /\ Len(counts) \in Nat /\ Count \in Int /\ counts \in Seq(Int)
  BY <1>1, Types, ChunkAssumption DEF Cuts, TypeOK
<1>3. /\ pieces \in Seq(PieceRecord) /\ piece \in PieceRecord
      /\ piece.curve = curveIdx /\ piece.pointOffset = start /\ piece.pointCount = size
  BY <1>1, <1>2 DEF TypeOK, Piece, PieceRecord
<1> HIDE DEF piece
<1>4. /\ pieces' = Append(pieces, piece)
      /\ UNCHANGED <<counts, pointLimit, stage, curveIdx, pointOffset>>
  BY DEF Cuts, piece
<1>5. stage = "split" /\ pointLimit > 0 /\ curveIdx \in 1..Len(counts)
  BY <1>2 DEF Cuts, More
<1>6. /\ consumed' \in Nat /\ consumed' > consumed
      /\ start + size = pointOffset + consumed'
      /\ consumed = 0 => start = pointOffset
      /\ consumed > 0 => start = pointOffset + consumed - (IF pointLimit = 1 THEN 0 ELSE 1)
  <2>1. /\ consumed' \in 1..Count /\ consumed < consumed'
        /\ start + size = pointOffset + consumed'
        /\ consumed = 0 => start = pointOffset
        /\ consumed > 0 => start = pointOffset + consumed - (IF pointLimit = 1 THEN 0 ELSE 1)
    BY DEF Cuts
  <2>2. consumed' \in Nat /\ consumed' > consumed
    <3>1. consumed \in Nat /\ Count \in Int
      BY <1>2
    <3>2. consumed' \in 1..Count /\ consumed < consumed'
      BY <2>1
    <3>3. QED
      BY <3>1, <3>2
  <2>3. QED
    BY <2>1, <2>2
<1>7. \A c : StartOf(c)' = StartOf(c)
  BY <1>4, StartKept
<1>8. \A n \in 1..Len(pieces) : pieces[n].pointCount > 0
  BY <1>1, <1>2 DEF LimitKept, TypeOK
<1>9. \A c \in 1..Len(counts) : c < curveIdx =>
        Covers(pieces', c, StartOf(c), StartOf(c) + counts[c], pointLimit)
  <2>1. TAKE c \in 1..Len(counts)
  <2>2. HAVE c < curveIdx
  <2>3. Covers(pieces, c, StartOf(c), StartOf(c) + counts[c], pointLimit) /\ curveIdx # c
    BY <1>2, <1>5, <2>2 DEF ShowInv
  <2>4. QED
    BY <1>3, <1>4, <2>3, CoversOther
<1>10. Covers(pieces', curveIdx, pointOffset, pointOffset + consumed', pointLimit)
  <2> DEFINE b == pointOffset + consumed
             e == pointOffset + consumed'
  <2>1. b \in Int /\ e \in Int /\ b = pointOffset + consumed /\ e = pointOffset + consumed'
    BY <1>2, <1>6
  <2> HIDE DEF b, e
  <2>2. pointOffset <= b /\ b < e /\ (b = pointOffset <=> consumed = 0)
    <3>1. /\ pointOffset \in Nat /\ consumed \in Nat
          /\ consumed' \in Nat /\ consumed' > consumed
      BY <1>2, <1>6
    <3>2. pointOffset <= b
      BY <2>1, <3>1
    <3>3. b < e
      <4>1. \A o, c, d \in Nat : d > c => o + c < o + d
        OBVIOUS
      <4>2. pointOffset + consumed < pointOffset + consumed'
        BY <3>1, <4>1
      <4>3. QED
        BY <4>2 DEF b, e
    <3>4. b = pointOffset <=> consumed = 0
      BY <2>1, <3>1
    <3>5. QED
      BY <3>2, <3>3, <3>4
  <2>3. Covers(pieces, curveIdx, pointOffset, b, pointLimit)
    BY <1>5, <2>1 DEF ShowInv
  <2>4. piece.pointOffset + piece.pointCount = e
    BY <1>3, <1>6, <2>1
  <2>5. piece.pointOffset = IF b = pointOffset \/ pointLimit = 1 THEN b ELSE b - 1
    BY <1>2, <1>3, <1>6, <2>1, <2>2
  <2>6. Covers(Append(pieces, piece), curveIdx, pointOffset, e, pointLimit)
    <3>1. pointOffset \in Int /\ pointLimit \in Nat
      BY <1>2
    <3>2. QED
      BY <1>3, <1>5, <1>8, <2>1, <2>2, <2>3, <2>4, <2>5, <3>1, CoversCut
  <2>7. QED
    BY <1>4, <2>1, <2>6
<1>11. curveIdx <= Len(counts) => pointOffset = StartOf(curveIdx)
  BY <1>5 DEF ShowInv
<1>12. QED
  BY <1>4, <1>5, <1>7, <1>9, <1>10, <1>11 DEF ShowInv

\* Passing to the next curve: the one before is shown in full.
LEMMA NextShows ==
  ASSUME IInv, IInv', ShowInv, SkipEmpty \/ NextCurve
  PROVE  ShowInv'
<1>1. TypeOK /\ SplitInv /\ SplitInv' /\ TypeOK'
  BY DEF IInv
<1>2. /\ curveIdx \in Nat \ {0} /\ consumed \in Nat /\ pointOffset \in Nat /\ pointLimit \in Nat
      /\ Len(counts) \in Nat /\ counts \in Seq(Int) /\ pieces \in Seq(PieceRecord)
  BY <1>1, Types, ChunkAssumption DEF TypeOK
<1>3. /\ stage = "split" /\ pointLimit > 0 /\ curveIdx \in 1..Len(counts)
      /\ UNCHANGED <<counts, pointLimit, stage, pieces>> /\ curveIdx' = curveIdx + 1
  BY <1>2 DEF SkipEmpty, NextCurve, More
<1>4. /\ pointOffset = StartOf(curveIdx)
      /\ Covers(pieces, curveIdx, pointOffset, pointOffset + consumed, pointLimit)
      /\ \A c \in 1..Len(counts) : c < curveIdx =>
           Covers(pieces, c, StartOf(c), StartOf(c) + counts[c], pointLimit)
  BY <1>3 DEF ShowInv
<1>5. Count = counts[curveIdx] /\ Count \in Int
  BY <1>2, <1>3 DEF Count
<1>6. /\ consumed' = 0
      /\ pointOffset' = pointOffset + PointsOfCurve(curveIdx)
      /\ Covers(pieces, curveIdx, StartOf(curveIdx), StartOf(curveIdx) + Count, pointLimit)
  <2>1. CASE SkipEmpty
    <3>1. Count <= 0 /\ pointOffset' = pointOffset /\ consumed' = consumed
      BY <2>1 DEF SkipEmpty
    <3>2. consumed = 0
      BY <1>1, <1>2, <1>3, <1>5, <3>1 DEF SplitInv
    <3>3. \A n \in 1..Len(pieces) : pieces[n].curve # curveIdx
      <4>1. \A n \in 1..Len(pieces) : pieces[n].curve < curveIdx
        BY <1>1, <1>3, <3>2 DEF SplitInv
      <4>2. QED
        BY <1>1, <1>2, <4>1, Types
    <3>4. PICK e \in Int : e = pointOffset + Count /\ e <= pointOffset
      BY <1>2, <1>5, <3>1
    <3>5. Covers(pieces, curveIdx, pointOffset, e, pointLimit)
      BY <1>2, <3>3, <3>4, CoversNone
    <3>6. PointsOfCurve(curveIdx) = 0
      BY <1>5, <3>1 DEF PointsOfCurve
    <3>7. QED
      BY <1>2, <1>4, <3>1, <3>2, <3>4, <3>5, <3>6
  <2>2. CASE NextCurve
    <3>1. Count > 0 /\ consumed = Count /\ pointOffset' = pointOffset + Count /\ consumed' = 0
      BY <2>2 DEF NextCurve
    <3>2. PointsOfCurve(curveIdx) = Count
      BY <1>5, <3>1 DEF PointsOfCurve
    <3>3. QED
      BY <1>4, <3>1, <3>2
  <2>3. QED
    BY <2>1, <2>2
<1>7. \A c : StartOf(c)' = StartOf(c)
  BY <1>3, StartKept
<1>8. \A c \in 1..Len(counts) : c < curveIdx' =>
        Covers(pieces, c, StartOf(c), StartOf(c) + counts[c], pointLimit)
  <2>1. TAKE c \in 1..Len(counts)
  <2>2. HAVE c < curveIdx'
  <2>3. c < curveIdx \/ c = curveIdx
    BY <1>2, <1>3, <2>2
  <2>4. QED
    BY <1>4, <1>5, <1>6, <2>3
<1>9. pointOffset' = StartOf(curveIdx')
  BY <1>2, <1>3, <1>4, <1>6, StartOfNext
<1>10. Covers(pieces, curveIdx', pointOffset', pointOffset' + consumed', pointLimit)
  <2>1. \A n \in 1..Len(pieces) : pieces[n].curve <= curveIdx /\ pieces[n].curve \in Nat
    BY <1>1, <1>2, <1>3, Types DEF SplitInv
  <2>2. PICK c, o \in Nat : c = curveIdx' /\ o = pointOffset' /\ c = curveIdx + 1
    BY <1>1, <1>2, <1>3 DEF TypeOK
  <2>3. \A n \in 1..Len(pieces) : pieces[n].curve # c
    BY <1>2, <2>1, <2>2
  <2>4. Covers(pieces, c, o, o, pointLimit)
    BY <1>2, <2>3, CoversNone
  <2>5. o + consumed' = o
    BY <1>6, <2>2
  <2>6. QED
    BY <2>2, <2>4, <2>5
<1>11. QED
  BY <1>3, <1>7, <1>8, <1>9, <1>10 DEF ShowInv

\* The pieces show the curves cut so far, throughout.
THEOREM ShowInvariance == Spec => []ShowInv
<1>1. Init => ShowInv
  <2> SUFFICES ASSUME Init PROVE ShowInv
    OBVIOUS
  <2>1. counts \in Seq(Int) /\ << >> \in Seq(PieceRecord)
    BY ChunkAssumption DEF Init
  <2>2. StartOf(1) = 0
    BY <2>1, StartOfNext
  <2>3. Covers(pieces, 1, 0, 0, pointLimit)
    <3>1. pieces \in Seq(PieceRecord) /\ \A n \in 1..Len(pieces) : pieces[n].curve # 1
      BY DEF Init
    <3>2. QED
      BY <2>1, <3>1, CoversNone
  <2>4. 0 + 0 = 0 /\ Len(counts) \in Nat
    BY <2>1
  <2>5. QED
    BY <2>2, <2>3, <2>4 DEF Init, ShowInv
<1>2. IInv /\ IInv' /\ ShowInv /\ [Next]_vars => ShowInv'
  <2> SUFFICES ASSUME IInv, IInv', ShowInv, [Next]_vars PROVE ShowInv'
    OBVIOUS
  <2>1. ASSUME UNCHANGED <<counts, pointLimit, curveIdx, pointOffset, consumed, pieces>>,
               pointLimit > 0 /\ stage' # "split" => curveIdx > Len(counts)
        PROVE  ShowInv'
    BY <2>1, StartKept DEF ShowInv
  <2>2. ASSUME TakeWhole \/ TakeFirst \/ TakeNext PROVE ShowInv'
    <3>1. PICK start, size \in Nat : Cuts(start, size)
      BY <2>2, TakeCuts
    <3>2. QED
      BY <3>1, CutShows
  <2>3. ASSUME SkipEmpty \/ NextCurve PROVE ShowInv'
    BY <2>3, NextShows
  <2>4. CASE EndSplit
    BY <2>1, <2>4 DEF EndSplit
  <2>5. CASE Group
    <3>1. /\ stage # "split"
          /\ UNCHANGED <<counts, pointLimit, curveIdx, pointOffset, consumed, pieces>>
      BY <2>5 DEF Group, ChunkAlone, AddPiece, CloseChunk, EndGroup
    <3>2. pointLimit > 0 => curveIdx > Len(counts)
      BY <3>1 DEF ShowInv
    <3>3. QED
      BY <2>1, <3>1, <3>2
  <2>6. CASE UNCHANGED vars
    <3>1. UNCHANGED <<counts, pointLimit, curveIdx, pointOffset, consumed, pieces, stage>>
      BY <2>6 DEF vars
    <3>2. QED
      BY <2>1, <3>1 DEF ShowInv
  <2>7. QED
    BY <2>2, <2>3, <2>4, <2>5, <2>6 DEF Next, Split
<1>3. QED
  BY <1>1, <1>2, Invariance, PTL DEF Spec

\* The pieces show every point of every curve and each segment once, whatever the
\* counts and the limit.
THEOREM NothingMissing == Spec => []PiecesShowCurves
<1>1. IInv /\ ShowInv => PiecesShowCurves
  <2> SUFFICES ASSUME IInv, ShowInv, stage # "split", pointLimit > 0, NEW c \in DOMAIN counts
               PROVE  LET mine == {n \in DOMAIN pieces : pieces[n].curve = c}
                          points == UNION {pieces[n].pointOffset..(pieces[n].pointOffset + pieces[n].pointCount - 1) : n \in mine}
                      IN /\ points = StartOf(c)..(StartOf(c) + counts[c] - 1)
                         /\ pointLimit > 1 => \A s \in Segments(StartOf(c), counts[c]) :
                              \E n \in mine : /\ s \in Segments(pieces[n].pointOffset, pieces[n].pointCount)
                                              /\ \A m \in mine \ {n} :
                                                   s \notin Segments(pieces[m].pointOffset, pieces[m].pointCount)
    BY DEF PiecesShowCurves
  <2> DEFINE mine == {n \in DOMAIN pieces : pieces[n].curve = c}
             run(n) == pieces[n].pointOffset..(pieces[n].pointOffset + pieces[n].pointCount - 1)
             points == UNION {run(n) : n \in mine}
  <2>1. /\ counts \in Seq(Int) /\ pieces \in Seq(PieceRecord) /\ c \in 1..Len(counts)
        /\ DOMAIN pieces = 1..Len(pieces) /\ Len(pieces) \in Nat /\ Len(counts) \in Nat
        /\ curveIdx \in Nat /\ pointLimit \in Nat
    BY Types, ChunkAssumption DEF IInv, TypeOK
  <2>2. PICK a, e \in Int : a = StartOf(c) /\ e = StartOf(c) + counts[c] /\ counts[c] = e - a
    <3>1. StartOf(c) \in Nat /\ counts[c] \in Int
      BY <2>1, StartOfNext
    <3>2. QED
      BY <3>1
  <2>3. Covers(pieces, c, a, e, pointLimit)
    BY <2>1, <2>2 DEF ShowInv
  <2>4. \A n \in mine : /\ n \in 1..Len(pieces) /\ pieces[n].curve = c
                        /\ pieces[n].pointOffset \in Nat /\ pieces[n].pointCount \in Nat
    BY <2>1, PieceFields
  <2>5. \A n \in 1..Len(pieces) : pieces[n].curve = c => n \in mine
    BY <2>1
  <2> HIDE DEF mine
  <2>6. points = a..(e - 1)
    <3>1. ASSUME NEW x \in points PROVE x \in a..(e - 1)
      <4>1. PICK n \in mine : x \in run(n)
        BY <3>1
      <4>2. a <= pieces[n].pointOffset /\ pieces[n].pointOffset + pieces[n].pointCount <= e
        BY <2>3, <2>4 DEF Covers
      <4>3. pieces[n].pointOffset \in Nat /\ pieces[n].pointCount \in Nat
        BY <2>4
      <4>4. QED
        BY <4>1, <4>2, <4>3
    <3>2. ASSUME NEW x \in a..(e - 1) PROVE x \in points
      <4>1. PICK n \in 1..Len(pieces) : /\ pieces[n].curve = c /\ pieces[n].pointOffset <= x
                                        /\ x < pieces[n].pointOffset + pieces[n].pointCount
        BY <2>3 DEF Covers
      <4>2. n \in mine /\ pieces[n].pointOffset \in Nat /\ pieces[n].pointCount \in Nat
        BY <2>4, <2>5, <4>1
      <4>3. x \in run(n)
        BY <4>1, <4>2
      <4>4. QED
        BY <4>2, <4>3
    <3>3. QED
      BY <3>1, <3>2
  <2>7. \A first, size, s : first \in Int /\ size \in Int =>
          (s \in Segments(first, size) <=> s \in Int /\ first <= s /\ s + 1 < first + size)
    <3>1. TAKE first, size, s
    <3>2. HAVE first \in Int /\ size \in Int
    <3>3. s \in Segments(first, size) => s \in Int /\ first <= s /\ s + 1 < first + size
      BY <3>2 DEF Segments
    <3>4. ASSUME s \in Int, first <= s, s + 1 < first + size PROVE s \in Segments(first, size)
      <4>1. s - first \in 0..(size - 2) /\ s = first + (s - first)
        BY <3>2, <3>4
      <4>2. QED
        BY <4>1 DEF Segments
    <3>5. QED
      BY <3>3, <3>4
  <2>8. ASSUME pointLimit > 1, NEW s \in Segments(StartOf(c), counts[c])
        PROVE  \E n \in mine : /\ s \in Segments(pieces[n].pointOffset, pieces[n].pointCount)
                               /\ \A m \in mine \ {n} :
                                    s \notin Segments(pieces[m].pointOffset, pieces[m].pointCount)
    <3>1. s \in Int /\ a <= s /\ s + 1 < e
      <4>1. counts[c] \in Int /\ a + counts[c] = e /\ s \in Segments(a, counts[c])
        BY <2>2, <2>8
      <4>2. s \in Int /\ a <= s /\ s + 1 < a + counts[c]
        BY <2>7, <4>1
      <4>3. QED
        BY <4>1, <4>2
    <3>2. PICK n \in 1..Len(pieces) : /\ pieces[n].curve = c /\ pieces[n].pointOffset <= s
                                      /\ s + 1 < pieces[n].pointOffset + pieces[n].pointCount
      BY <2>3, <2>8, <3>1 DEF Covers
    <3>3. n \in mine /\ pieces[n].pointOffset \in Nat /\ pieces[n].pointCount \in Nat
      BY <2>4, <2>5, <3>2
    <3>4. s \in Segments(pieces[n].pointOffset, pieces[n].pointCount)
      BY <2>7, <3>1, <3>2, <3>3
    <3>5. ASSUME NEW m \in mine \ {n}, s \in Segments(pieces[m].pointOffset, pieces[m].pointCount)
          PROVE  FALSE
      <4>1. /\ m \in 1..Len(pieces) /\ pieces[m].curve = c
            /\ pieces[m].pointOffset \in Nat /\ pieces[m].pointCount \in Nat
        BY <2>4, <3>5
      <4>2. pieces[m].pointOffset <= s /\ s + 1 < pieces[m].pointOffset + pieces[m].pointCount
        BY <2>7, <3>5, <4>1
      <4>3. /\ m < n => pieces[m].pointOffset + pieces[m].pointCount <= pieces[n].pointOffset + 1
            /\ n < m => pieces[n].pointOffset + pieces[n].pointCount <= pieces[m].pointOffset + 1
        BY <2>3, <2>8, <3>2, <4>1 DEF Covers
      <4>4. m < n \/ n < m
        BY <3>5, <4>1
      <4>5. QED
        BY <3>1, <3>2, <3>3, <4>1, <4>2, <4>3, <4>4
    <3>6. QED
      BY <3>3, <3>4, <3>5
  <2>9. points = StartOf(c)..(StartOf(c) + counts[c] - 1)
    BY <2>2, <2>6
  <2>10. QED
    BY <2>8, <2>9 DEF mine
<1>2. QED
  BY <1>1, Invariance, ShowInvariance, PTL
=============================================================================
