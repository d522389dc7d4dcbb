---------------------------- MODULE CurveChunks ----------------------------
(***************************************************************************)
(* lib/CadUSD/Tessellation/Utils/TessellationUtils.cpp: how the wireframe  *)
(* and sketch curves of a prototype, too long for one prim, are cut into   *)
(* pieces of at most pointLimit points (splitCurvesIntoPieces) and packed  *)
(* into chunks, one BasisCurves prim each (computeCurveChunks).  The loops *)
(* are followed one iteration at a time; curves and pieces are runs of     *)
(* points in one flat array, whose values play no part.                    *)
(***************************************************************************)
EXTENDS Integers, Sequences

CONSTANTS Inputs,    \* the counts arrays considered
          Limits     \* the values of pointLimit considered

ASSUME ChunkAssumption == Inputs \subseteq Seq(Int) /\ Limits \subseteq Nat

VARIABLES
  counts, pointLimit, combine,  \* the arguments
  stage,        \* "split", "group" or "done"
  curveIdx,     \* the curve splitCurvesIntoPieces is on
  pointOffset,  \* where that curve starts in the flat array
  consumed,     \* how many of its points are in pieces
  pieces,       \* CurvePieces, in order
  next,         \* the piece computeCurveChunks is on (i)
  chunks,       \* the chunks that are closed
  chunk         \* the chunk being filled: its pieces and the points they add up to

arguments == <<counts, pointLimit, combine>>
vars == <<arguments, stage, curveIdx, pointOffset, consumed, pieces, next, chunks, chunk>>

Least(a, b) == IF a <= b THEN a ELSE b

Piece(start, size) == [curve |-> curveIdx, pointOffset |-> start, pointCount |-> size]

NoChunk == [pieces |-> << >>, pointCount |-> 0]

More == stage = "split" /\ pointLimit # 0 /\ curveIdx <= Len(counts)
Count == counts[curveIdx]

---------------------------------------------------------------------------
\* Mutated form: the offset moves on by the count of a curve without points.
SkipEmpty_MovesOffset ==
  /\ More
  /\ Count <= 0
  /\ curveIdx' = curveIdx + 1
  /\ pointOffset' = pointOffset + Count
  /\ UNCHANGED <<arguments, stage, consumed, pieces, next, chunks, chunk>>

\* A curve without points is passed over.
SkipEmpty ==
  /\ More
  /\ Count <= 0
  /\ curveIdx' = curveIdx + 1
  /\ UNCHANGED <<arguments, stage, pointOffset, consumed, pieces, next, chunks, chunk>>

\* A curve that fits, or any curve when pieces have one point: no point repeats.
TakeWhole ==
  /\ More
  /\ consumed < Count
  /\ Count <= pointLimit \/ pointLimit = 1
  /\ LET take == Least(Count - consumed, pointLimit) IN
       /\ pieces' = Append(pieces, Piece(pointOffset + consumed, take))
       /\ consumed' = consumed + take
  /\ UNCHANGED <<arguments, stage, curveIdx, pointOffset, next, chunks, chunk>>

\* The first piece of a curve that does not fit.
TakeFirst ==
  /\ More
  /\ Count > pointLimit /\ pointLimit # 1
  /\ consumed = 0
  /\ pieces' = Append(pieces, Piece(pointOffset, pointLimit))
  /\ consumed' = pointLimit
  /\ UNCHANGED <<arguments, stage, curveIdx, pointOffset, next, chunks, chunk>>

\* Mutated form: the repeated endpoint is not counted against the limit.
TakeNext_FullPiece ==
  /\ More
  /\ Count > pointLimit /\ pointLimit # 1
  /\ consumed \in 1..(Count - 1)
  /\ LET take == Least(Count - consumed, pointLimit) IN
       /\ pieces' = Append(pieces, Piece(pointOffset + consumed - 1, 1 + take))
       /\ consumed' = consumed + take
  /\ UNCHANGED <<arguments, stage, curveIdx, pointOffset, next, chunks, chunk>>

\* Mutated form: a continuation starts after the last point of the piece before.
TakeNext_NoRepeat ==
  /\ More
  /\ Count > pointLimit /\ pointLimit # 1
  /\ consumed \in 1..(Count - 1)
  /\ LET take == Least(Count - consumed, pointLimit - 1) IN
       /\ pieces' = Append(pieces, Piece(pointOffset + consumed, take))
       /\ consumed' = consumed + take
  /\ UNCHANGED <<arguments, stage, curveIdx, pointOffset, next, chunks, chunk>>

\* A continuation repeats the last point of the piece before it.
TakeNext ==
  /\ More
  /\ Count > pointLimit /\ pointLimit # 1
  /\ consumed \in 1..(Count - 1)
  /\ LET take == Least(Count - consumed, pointLimit - 1) IN
       /\ pieces' = Append(pieces, Piece(pointOffset + consumed - 1, 1 + take))
       /\ consumed' = consumed + take
  /\ UNCHANGED <<arguments, stage, curveIdx, pointOffset, next, chunks, chunk>>

NextCurve ==
  /\ More
  /\ Count > 0 /\ consumed = Count
  /\ curveIdx' = curveIdx + 1
  /\ pointOffset' = pointOffset + Count
  /\ consumed' = 0
  /\ UNCHANGED <<arguments, stage, pieces, next, chunks, chunk>>

\* Mutated form: a zero limit is not seen.
EndSplit_ZeroLimit ==
  /\ stage = "split"
  /\ curveIdx > Len(counts)
  /\ stage' = "group"
  /\ UNCHANGED <<arguments, curveIdx, pointOffset, consumed, pieces, next, chunks, chunk>>

EndSplit ==
  /\ stage = "split"
  /\ pointLimit = 0 \/ curveIdx > Len(counts)
  /\ stage' = "group"
  /\ UNCHANGED <<arguments, curveIdx, pointOffset, consumed, pieces, next, chunks, chunk>>

---------------------------------------------------------------------------
\* Without combine every piece is a chunk of its own.
ChunkAlone ==
  /\ stage = "group" /\ ~combine /\ next <= Len(pieces)
  /\ chunks' = Append(chunks, [pieces |-> <<pieces[next]>>, pointCount |-> pieces[next].pointCount])
  /\ next' = next + 1
  /\ UNCHANGED <<arguments, stage, curveIdx, pointOffset, consumed, pieces, chunk>>

\* The first piece of a chunk goes in whatever its size; another if it fits.
Fits == chunk.pieces = << >> \/ chunk.pointCount + pieces[next].pointCount <= pointLimit

AddPiece ==
  /\ stage = "group" /\ combine /\ next <= Len(pieces)
  /\ Fits
  /\ chunk' = [pieces |-> Append(chunk.pieces, pieces[next]),
               pointCount |-> chunk.pointCount + pieces[next].pointCount]
  /\ next' = next + 1
  /\ UNCHANGED <<arguments, stage, curveIdx, pointOffset, consumed, pieces, chunks>>

\* Mutated form: the piece that did not fit is passed over.
CloseChunk_DropsPiece ==
  /\ stage = "group" /\ combine /\ chunk.pieces # << >>
  /\ next <= Len(pieces) => ~Fits
  /\ chunks' = Append(chunks, chunk)
  /\ chunk' = NoChunk
  /\ next' = IF next <= Len(pieces) THEN next + 1 ELSE next
  /\ UNCHANGED <<arguments, stage, curveIdx, pointOffset, consumed, pieces>>

\* The next piece does not fit, or there is none.
CloseChunk ==
  /\ stage = "group" /\ combine /\ chunk.pieces # << >>
  /\ next <= Len(pieces) => ~Fits
  /\ chunks' = Append(chunks, chunk)
  /\ chunk' = NoChunk
  /\ UNCHANGED <<arguments, stage, curveIdx, pointOffset, consumed, pieces, next>>

EndGroup ==
  /\ stage = "group" /\ next > Len(pieces) /\ chunk = NoChunk
  /\ stage' = "done"
  /\ UNCHANGED <<arguments, curveIdx, pointOffset, consumed, pieces, next, chunks, chunk>>

Init ==
  /\ counts \in Inputs /\ pointLimit \in Limits /\ combine \in BOOLEAN
  /\ stage = "split"
  /\ curveIdx = 1 /\ pointOffset = 0 /\ consumed = 0
  /\ pieces = << >> /\ next = 1 /\ chunks = << >> /\ chunk = NoChunk

Split == SkipEmpty \/ TakeWhole \/ TakeFirst \/ TakeNext \/ NextCurve \/ EndSplit
Group == ChunkAlone \/ AddPiece \/ CloseChunk \/ EndGroup
Next == Split \/ Group

Spec == Init /\ [][Next]_vars

\* Neither loop waits for anything.
FairSpec == Spec /\ WF_vars(Next)
---------------------------------------------------------------------------
PieceRecord == [curve : Nat, pointOffset : Nat, pointCount : Nat]
ChunkRecord == [pieces : Seq(PieceRecord), pointCount : Nat]

TypeOK ==
  /\ counts \in Inputs /\ pointLimit \in Limits /\ combine \in BOOLEAN
  /\ stage \in {"split", "group", "done"}
  /\ curveIdx \in 1..(Len(counts) + 1)
  /\ pointOffset \in Nat /\ consumed \in Nat
  /\ pieces \in Seq(PieceRecord)
  /\ next \in 1..(Len(pieces) + 1)
  /\ chunks \in Seq(ChunkRecord) /\ chunk \in ChunkRecord

\* No piece and no prim is empty or gets more points than pointLimit, repeated
\* points included.
LimitKept ==
  /\ \A n \in DOMAIN pieces : pieces[n].pointCount \in 1..pointLimit
  /\ \A n \in DOMAIN chunks : chunks[n].pointCount \in 1..pointLimit

\* Where curve c starts in the flat array: after the points of the curves before.
StartOf(c) ==
  LET start[n \in 1..c] ==
        IF n = 1 THEN 0 ELSE start[n - 1] + (IF counts[n - 1] > 0 THEN counts[n - 1] ELSE 0)
  IN start[c]

\* The segments of a run of points, named by their first point.
Segments(start, size) == {start + k : k \in 0..(size - 2)}

\* The pieces show what the curves show: every segment of a curve is in exactly
\* one piece of that curve, no piece joins two curves, and no point is lost.  With
\* one point per piece there are no segments, only points.
PiecesShowCurves ==
  stage # "split" /\ pointLimit > 0 =>
    \A c \in DOMAIN counts :
      LET mine == {n \in DOMAIN pieces : pieces[n].curve = c}
          points == UNION {pieces[n].pointOffset..(pieces[n].pointOffset + pieces[n].pointCount - 1) : n \in mine}
      IN /\ points = StartOf(c)..(StartOf(c) + counts[c] - 1)
         /\ pointLimit > 1 => \A s \in Segments(StartOf(c), counts[c]) :
              \E n \in mine : /\ s \in Segments(pieces[n].pointOffset, pieces[n].pointCount)
                              /\ \A m \in mine \ {n} :
                                   s \notin Segments(pieces[m].pointOffset, pieces[m].pointCount)

\* Packing loses, repeats and reorders nothing: laid end to end, the chunks are the
\* pieces.
Flat(cs) ==
  LET flat[n \in 0..Len(cs)] == IF n = 0 THEN << >> ELSE flat[n - 1] \o cs[n].pieces
  IN flat[Len(cs)]

ChunksArePieces == Flat(chunks) \o chunk.pieces = SubSeq(pieces, 1, next - 1)

\* A chunk knows how many points it has, and combining stops only when the next
\* piece would not fit.
Points(ps) ==
  LET sum[n \in 0..Len(ps)] == IF n = 0 THEN 0 ELSE sum[n - 1] + ps[n].pointCount
  IN sum[Len(ps)]

ChunksPacked ==
  /\ \A n \in DOMAIN chunks : chunks[n].pointCount = Points(chunks[n].pieces)
  /\ combine => \A n \in 1..(Len(chunks) - 1) :
       chunks[n].pointCount + chunks[n + 1].pieces[1].pointCount > pointLimit

\* Both loops end, whatever the counts and the limit.
Ends == <>(stage = "done")
=============================================================================
