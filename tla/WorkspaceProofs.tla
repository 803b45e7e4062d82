--------------------------- MODULE WorkspaceProofs ---------------------------
(***************************************************************************)
(* What becomes of the files of a workspace.  For every file list and      *)
(* every chunk size, the parse pipeline folds the files in order, and its  *)
(* receive loop ends with exactly the prefix it should have written; for   *)
(* every graph of files, the search of weave drift finds its cycles.       *)
(***************************************************************************)
EXTENDS ParsePipeline, DriftReport, FiniteSetTheorems, SequenceTheorems,
        WellFoundedInduction, TLAPS

(***************************************************************************)
(* The chunks in flight are consecutive intervals of the file list: the    *)
(* rest of the current chunk, the buffered chunk, the held chunk, and then *)
(* the files not parsed yet.  HeldFrom and BufferFrom are where the last   *)
(* two begin; Cursor is the first file that was not folded.                *)
(***************************************************************************)
HeldFrom == IF producer = "send" THEN held.lo ELSE next
BufferFrom == IF Len(channel) = 1 THEN channel[1].lo ELSE HeldFrom
Cursor == IF consumer = "fold" THEN current.lo ELSE BufferFrom

Contiguous ==
  /\ producer = "send" => held.lo <= held.hi /\ held.hi + 1 = next
  /\ producer # "send" => held = NoChunk
  /\ Len(channel) = 1 => channel[1].lo <= channel[1].hi
                          /\ channel[1].hi + 1 = HeldFrom
  /\ consumer = "fold" => current.lo <= current.hi + 1
                          /\ current.hi + 1 = BufferFrom
  /\ producer = "done" => next = NFiles + 1 \/ ~rxOpen
  /\ ~rxOpen => consumer = "done" /\ producer = "done"

\* What the consumer has folded so far.
Written(f) == \E i \in DOMAIN folded : folded[i] = f

FoldedUpToCursor ==
  /\ consumer \in {"recv", "fold"} =>
        /\ failure < Cursor
        /\ \A f \in parses :
             Written(f) <=> f < Cursor /\ (failure = 0 \/ f < failure)
  /\ consumer = "recv" => failure = 0
  /\ consumer \in {"join", "done"} =>
        \A f \in parses : Written(f) <=> failure = 0 \/ f < failure
  /\ \A i \in DOMAIN folded :
        folded[i] \in parses /\ (consumer \in {"recv", "fold"} => folded[i] < Cursor)
  /\ FoldsInOrder

\* The inductive invariant.
IInv == TypeOK /\ Contiguous /\ FoldedUpToCursor

\* The chunk at a file begins there and ends within the list.
LEMMA ChunkAtFacts ==
  ASSUME NEW i \in 1..NFiles
  PROVE  /\ ChunkAt(i) \in Chunk
         /\ ChunkAt(i).lo = i
         /\ i <= ChunkAt(i).hi
         /\ ChunkAt(i).hi + 1 \in 1..(NFiles + 1)
BY PipelineAssumption DEF ChunkAt, ChunkSize, Chunk

\* The invariant holds at first,
LEMMA InitIInv == Init => IInv
BY PipelineAssumption
   DEF Init, IInv, TypeOK, Contiguous, FoldedUpToCursor, FoldsInOrder, Chunk,
       NoChunk, File, HeldFrom, BufferFrom, Cursor, ChannelBound, Written

\* The numbers of a typed state.
LEMMA Bounds ==
  ASSUME TypeOK
  PROVE  /\ current.lo \in 1..(NFiles + 1) /\ current.hi \in 0..NFiles
         /\ held.lo \in 1..(NFiles + 1) /\ held.hi \in 0..NFiles
         /\ next \in 1..(NFiles + 1) /\ failure \in 0..NFiles
         /\ Len(channel) \in 0..1
         /\ Len(channel) = 1 =>
              /\ channel[1] \in Chunk
              /\ channel[1].lo \in 1..(NFiles + 1) /\ channel[1].hi \in 0..NFiles
         /\ HeldFrom \in 1..(NFiles + 1) /\ BufferFrom \in 1..(NFiles + 1)
         /\ Cursor \in 1..(NFiles + 1)
         /\ \A f \in parses : f \in 1..NFiles
<1>1. channel \in Seq(Chunk) /\ Len(channel) \in 0..1
  <2>1. channel \in Seq(Chunk) /\ Len(channel) <= 1
    BY Zenon DEF TypeOK, ChannelBound
  <2>2. Len(channel) \in Nat
    BY <2>1, LenProperties, Zenon
  <2>3. \A n \in Nat : n <= 1 => n \in 0..1
    OBVIOUS
  <2> QED
    BY <2>1, <2>2, <2>3, Zenon
<1>2. Len(channel) = 1 => channel[1] \in Chunk
  BY <1>1
<1>3. Len(channel) = 1 => channel[1].lo \in 1..(NFiles + 1) /\ channel[1].hi \in 0..NFiles
  BY <1>2, Zenon DEF Chunk
<1>4. /\ current.lo \in 1..(NFiles + 1) /\ current.hi \in 0..NFiles
      /\ held.lo \in 1..(NFiles + 1) /\ held.hi \in 0..NFiles
      /\ next \in 1..(NFiles + 1) /\ failure \in 0..NFiles
      /\ \A f \in parses : f \in 1..NFiles
  BY Zenon DEF TypeOK, Chunk, File
<1>5. HeldFrom \in 1..(NFiles + 1)
  BY <1>4, Zenon DEF HeldFrom
<1>6. BufferFrom \in 1..(NFiles + 1)
  BY <1>3, <1>5, Zenon DEF BufferFrom
<1> QED
  BY <1>1, <1>2, <1>3, <1>4, <1>5, <1>6, Zenon DEF Cursor

\* is kept by every step of both threads,
LEMMA NextIInv == IInv /\ [Next]_vars => IInv'
<1> SUFFICES ASSUME IInv, [Next]_vars
             PROVE  TypeOK' /\ Contiguous' /\ FoldedUpToCursor'
  BY Zenon DEF IInv
<1> USE PipelineAssumption
<1>i. TypeOK /\ Contiguous /\ FoldedUpToCursor
  BY Zenon DEF IInv
<1>b. /\ current.lo \in 1..(NFiles + 1) /\ current.hi \in 0..NFiles
      /\ held.lo \in 1..(NFiles + 1) /\ held.hi \in 0..NFiles
      /\ next \in 1..(NFiles + 1) /\ failure \in 0..NFiles
      /\ Len(channel) \in 0..1
      /\ Len(channel) = 1 =>
           /\ channel[1] \in Chunk
           /\ channel[1].lo \in 1..(NFiles + 1) /\ channel[1].hi \in 0..NFiles
      /\ HeldFrom \in 1..(NFiles + 1) /\ BufferFrom \in 1..(NFiles + 1)
      /\ Cursor \in 1..(NFiles + 1)
      /\ \A f \in parses : f \in 1..NFiles
  BY <1>i, Bounds, Zenon
\* A producer step leaves the consumer alone; it only has to keep the cursor.
<1>p. ASSUME UNCHANGED <<parses, rejects>>, UNCHANGED consumerVars, Cursor' = Cursor
      PROVE  FoldedUpToCursor'
  BY <1>i, <1>p, Zenon DEF FoldedUpToCursor, FoldsInOrder, Written, consumerVars
<1>1. CASE ParseChunkMapped
  <2>1. next \in 1..NFiles
    BY <1>1, <1>b DEF ParseChunkMapped
  <2>2. /\ held' \in Chunk /\ held'.lo = next /\ held'.lo <= held'.hi
        /\ next' = held'.hi + 1 /\ next' \in 1..(NFiles + 1)
    BY <1>1, <2>1, ChunkAtFacts, Zenon DEF ParseChunkMapped
  <2>3. HeldFrom' = HeldFrom /\ BufferFrom' = BufferFrom /\ Cursor' = Cursor
    BY <1>1, <2>2, Zenon DEF ParseChunkMapped, HeldFrom, BufferFrom, Cursor, consumerVars
  <2>4. TypeOK'
    BY <1>1, <1>i, <2>2, Zenon DEF ParseChunkMapped, TypeOK, consumerVars
  <2>5. Contiguous'
    BY <1>1, <1>i, <1>b, <2>2, <2>3, Zenon DEF ParseChunkMapped, Contiguous, consumerVars
  <2> QED
    BY <1>1, <1>p, <2>3, <2>4, <2>5, Zenon DEF ParseChunkMapped
<1>2. CASE Send
  <2>1. CASE rxOpen
    <3>1. /\ channel' \in Seq(Chunk) /\ Len(channel) = 0 /\ Len(channel') = 1
          /\ channel'[1] = held
      BY <1>2, <1>i, <1>b, <2>1 DEF Send, TypeOK, ChannelBound
    <3>2. HeldFrom' = next /\ BufferFrom' = BufferFrom /\ Cursor' = Cursor
      BY <1>2, <2>1, <3>1 DEF Send, HeldFrom, BufferFrom, Cursor, consumerVars
    <3>3. TypeOK'
      BY <1>2, <1>i, <2>1, <3>1
         DEF Send, TypeOK, ChannelBound, NoChunk, Chunk, consumerVars
    <3>4. Contiguous'
      BY <1>2, <1>i, <1>b, <2>1, <3>1, <3>2, Zenon DEF Send, Contiguous, consumerVars
    <3> QED
      BY <1>2, <1>p, <3>2, <3>3, <3>4, Zenon DEF Send
  <2>2. CASE ~rxOpen
    BY <1>2, <1>i, <2>2, Zenon DEF Send, Contiguous
  <2> QED
    BY <2>1, <2>2, Zenon
<1>3. CASE ProducerEnds
  <2>1. HeldFrom' = HeldFrom /\ BufferFrom' = BufferFrom /\ Cursor' = Cursor
    BY <1>3, Zenon DEF ProducerEnds, HeldFrom, BufferFrom, Cursor, consumerVars
  <2>2. TypeOK'
    BY <1>3, <1>i, Zenon DEF ProducerEnds, TypeOK, consumerVars
  <2>3. Contiguous'
    BY <1>3, <1>i, <1>b, <2>1 DEF ProducerEnds, Contiguous, consumerVars
  <2> QED
    BY <1>3, <1>p, <2>1, <2>2, <2>3, Zenon DEF ProducerEnds
<1>4. CASE Receive
  <2>1. /\ Len(channel) = 1 /\ current' = channel[1]
        /\ channel' \in Seq(Chunk) /\ Len(channel') = 0
    BY <1>4, <1>i, <1>b DEF Receive, TypeOK
  <2>2. HeldFrom' = HeldFrom /\ BufferFrom' = HeldFrom /\ Cursor' = Cursor
    BY <1>4, <2>1 DEF Receive, HeldFrom, BufferFrom, Cursor, producerVars
  <2>3. TypeOK'
    <3>1. current' \in [lo : 1..(NFiles + 1), hi : 0..NFiles]
      BY <1>b, <2>1, Zenon DEF Chunk
    <3> QED
      BY <1>4, <1>i, <2>1, <3>1 DEF Receive, TypeOK, ChannelBound, producerVars
  <2>4. Contiguous'
    <3>1. current'.lo <= current'.hi + 1 /\ current'.hi + 1 = HeldFrom
      BY <1>i, <1>b, <2>1 DEF Contiguous
    <3> QED
      BY <1>4, <1>i, <2>1, <2>2, <3>1 DEF Receive, Contiguous, producerVars
  <2>5. FoldedUpToCursor'
    BY <1>4, <1>i, <2>2, Zenon DEF Receive, FoldedUpToCursor, FoldsInOrder, Written
  <2> QED
    BY <2>3, <2>4, <2>5, Zenon
<1>5. CASE FoldFile
  <2> DEFINE f == current.lo
  <2>1. /\ consumer = "fold" /\ consumer' = "fold" /\ parses' = parses
        /\ rejects' = rejects /\ f <= current.hi
        /\ current' = [current EXCEPT !.lo = @ + 1]
        /\ channel' = channel /\ rxOpen' = rxOpen
        /\ next' = next /\ held' = held /\ producer' = producer
    BY <1>5, Zenon DEF FoldFile, producerVars
  <2>2. /\ f \in File /\ Cursor = f /\ Cursor' = f + 1
        /\ current'.hi = current.hi /\ current'.lo = f + 1
        /\ current' \in [lo : 1..(NFiles + 1), hi : 0..NFiles]
    BY <1>i, <1>b, <2>1, SMTT(60) DEF TypeOK, Cursor, File
  <2>3. HeldFrom' = HeldFrom /\ BufferFrom' = BufferFrom
    BY <2>1, Zenon DEF HeldFrom, BufferFrom
  <2>4. Contiguous'
    BY <1>i, <1>b, <2>1, <2>2, <2>3 DEF Contiguous
  <2>5. CASE f \in parses /\ failure = 0 /\ f \notin rejects
    <3>1. folded' = Append(folded, f) /\ failure' = failure /\ folded \in Seq(File)
      BY <1>5, <1>i, <2>5, Zenon DEF FoldFile, TypeOK
    <3>2. /\ folded' \in Seq(File)
          /\ Len(folded) \in Nat
          /\ DOMAIN folded = 1..Len(folded)
          /\ DOMAIN folded' = 1..(Len(folded) + 1)
          /\ folded'[Len(folded) + 1] = f
          /\ \A i \in 1..Len(folded) : folded'[i] = folded[i]
      BY <2>2, <3>1
    <3>3. TypeOK'
      BY <1>i, <2>1, <2>2, <3>1, <3>2, Zenon DEF TypeOK
    <3>4. \A i \in DOMAIN folded : folded[i] \in parses /\ folded[i] < f
      BY <1>i, <2>1, <2>2, Zenon DEF FoldedUpToCursor
    <3>5. \A i \in DOMAIN folded' : folded'[i] \in parses' /\ folded'[i] < f + 1
      <4> SUFFICES ASSUME NEW i \in 1..(Len(folded) + 1)
                   PROVE  folded'[i] \in parses /\ folded'[i] < f + 1
        BY <2>1, <3>2, Zenon
      <4>1. CASE i = Len(folded) + 1
        BY <2>2, <2>5, <3>2, <4>1 DEF File
      <4>2. CASE i # Len(folded) + 1
        <5>1. i \in DOMAIN folded /\ folded'[i] = folded[i]
          BY <3>2, <4>2
        <5>2. folded[i] \in parses /\ folded[i] < f
          BY <3>4, <5>1, Zenon
        <5> QED
          BY <1>b, <5>1, <5>2
      <4> QED
        BY <4>1, <4>2, Zenon
    <3>6. FoldsInOrder'
      BY <1>i, <1>b, <3>2, <3>4, SMTT(60) DEF FoldedUpToCursor, FoldsInOrder
    <3>7. \A g : Written(g)' <=> g = f \/ Written(g)
      BY <3>2 DEF Written
    <3>8. \A g \in parses : Written(g)' <=> g < f + 1
      BY <1>i, <1>b, <2>1, <2>2, <2>5, <3>7, SMTT(60) DEF FoldedUpToCursor
    <3> QED
      BY <1>b, <2>1, <2>2, <2>4, <2>5, <3>1, <3>3, <3>5, <3>6, <3>8, SMTT(60)
         DEF FoldedUpToCursor
  <2>6. CASE ~(f \in parses /\ failure = 0 /\ f \notin rejects)
    <3>1. /\ folded' = folded
          /\ IF f \in parses /\ failure = 0 THEN failure' = f ELSE failure' = failure
      BY <1>5, <2>6, Zenon DEF FoldFile
    <3>2. TypeOK'
      BY <1>i, <2>1, <2>2, <3>1 DEF TypeOK, File
    <3>3. FoldsInOrder' /\ (\A g : Written(g)' <=> Written(g))
      BY <1>i, <3>1, Zenon DEF FoldedUpToCursor, FoldsInOrder, Written
    <3>4. failure' < f + 1
      BY <1>i, <1>b, <2>1, <2>2, <3>1 DEF FoldedUpToCursor
    <3>5. \A g \in parses : Written(g) <=> g < f + 1 /\ (failure' = 0 \/ g < failure')
      BY <1>i, <1>b, <2>1, <2>2, <3>1, SMTT(60) DEF FoldedUpToCursor
    <3>6. \A i \in DOMAIN folded : folded[i] \in parses /\ folded[i] < f + 1
      BY <1>i, <1>b, <2>1, <2>2 DEF FoldedUpToCursor
    <3> QED
      BY <2>1, <2>2, <2>4, <3>1, <3>2, <3>3, <3>4, <3>5, <3>6, Zenon DEF FoldedUpToCursor
  <2> QED
    BY <2>5, <2>6, Zenon
<1>6. CASE ChunkFolded
  <2>1. /\ consumer = "fold" /\ current.lo > current.hi /\ current' = NoChunk
        /\ parses' = parses /\ rejects' = rejects /\ channel' = channel
        /\ rxOpen' = rxOpen /\ failure' = failure /\ folded' = folded
        /\ next' = next /\ held' = held /\ producer' = producer
        /\ consumer' = IF failure # 0 THEN "join" ELSE "recv"
    BY <1>6, Zenon DEF ChunkFolded, producerVars
  <2>2. HeldFrom' = HeldFrom /\ BufferFrom' = BufferFrom
    BY <2>1, Zenon DEF HeldFrom, BufferFrom
  <2>3. Cursor = BufferFrom
    <3>1. current.hi + 1 = BufferFrom /\ current.lo <= current.hi + 1
      BY <1>i, <2>1, Zenon DEF Contiguous
    <3> QED
      BY <1>b, <2>1, <3>1 DEF Cursor
  <2>4. TypeOK'
    BY <1>i, <2>1 DEF TypeOK, NoChunk
  <2>5. Contiguous'
    BY <1>i, <2>1, <2>2, Zenon DEF Contiguous
  <2>6. FoldsInOrder' /\ (\A g : Written(g)' <=> Written(g))
    BY <1>i, <2>1, Zenon DEF FoldedUpToCursor, FoldsInOrder, Written
  <2>7. /\ failure < BufferFrom
        /\ \A g \in parses : Written(g) <=> g < BufferFrom /\ (failure = 0 \/ g < failure)
        /\ \A i \in DOMAIN folded : folded[i] \in parses /\ folded[i] < BufferFrom
    BY <1>i, <2>1, <2>3, Zenon DEF FoldedUpToCursor
  <2>8. FoldedUpToCursor'
    <3>1. CASE failure = 0
      <4>1. consumer' = "recv" /\ Cursor' = BufferFrom
        BY <2>1, <2>2, <3>1, Zenon DEF Cursor
      <4> QED
        BY <2>1, <2>6, <2>7, <3>1, <4>1, Zenon DEF FoldedUpToCursor
    <3>2. CASE failure # 0
      <4>1. consumer' = "join"
        BY <2>1, <3>2, Zenon
      <4>2. \A g \in parses : Written(g) <=> g < failure
        BY <1>b, <2>7, <3>2
      <4> QED
        BY <2>1, <2>6, <2>7, <3>2, <4>1, <4>2, Zenon DEF FoldedUpToCursor
    <3> QED
      BY <3>1, <3>2, Zenon
  <2> QED
    BY <2>4, <2>5, <2>8, Zenon
<1>7. CASE ChannelClosed
  <2>1. /\ consumer = "recv" /\ consumer' = "join" /\ Len(channel) = 0
        /\ producer = "done"
        /\ UNCHANGED <<parses, rejects, channel, rxOpen, current, failure, folded>>
        /\ UNCHANGED producerVars
    BY <1>7, Zenon DEF ChannelClosed
  <2>2. next = NFiles + 1 /\ Cursor = next
    BY <1>i, <2>1 DEF Contiguous, Cursor, BufferFrom, HeldFrom
  <2>3. HeldFrom' = HeldFrom
    BY <2>1, Zenon DEF HeldFrom, producerVars
  <2>4. TypeOK' /\ Contiguous'
    BY <1>i, <2>1, <2>3, Zenon DEF TypeOK, Contiguous, producerVars
  <2>5. FoldsInOrder' /\ (\A g : Written(g)' <=> Written(g))
    BY <1>i, <2>1, Zenon DEF FoldedUpToCursor, FoldsInOrder, Written
  <2>6. \A g \in parses : Written(g)
    BY <1>i, <1>b, <2>1, <2>2 DEF FoldedUpToCursor
  <2> QED
    BY <1>i, <2>1, <2>4, <2>5, <2>6, Zenon DEF FoldedUpToCursor
<1>8. CASE Return
  <2>1. HeldFrom' = HeldFrom /\ BufferFrom' = BufferFrom
    BY <1>8, Zenon DEF Return, HeldFrom, BufferFrom, producerVars
  <2>2. TypeOK' /\ Contiguous'
    BY <1>8, <1>i, <2>1, Zenon DEF Return, TypeOK, Contiguous, producerVars
  <2> QED
    BY <1>8, <1>i, <2>2, Zenon DEF Return, FoldedUpToCursor, FoldsInOrder, Written
<1>9. CASE UNCHANGED vars
  BY <1>9, <1>i, Zenon DEF vars, TypeOK, Contiguous, FoldedUpToCursor, FoldsInOrder,
                    HeldFrom, BufferFrom, Cursor, Written
<1> QED
  BY <1>1, <1>2, <1>3, <1>4, <1>5, <1>6, <1>7, <1>8, <1>9, Zenon
     DEF Next, Producer, Consumer, Finished

\* and so holds always.
LEMMA InductiveInvariant == Spec => []IInv
<1>1. QED
  BY InitIInv, NextIInv, PTL DEF Spec

\* Every state of a parse_files_bounded call is well typed; in particular
\* the channel never holds more than one chunk.
THEOREM TypeCorrect == Spec => []TypeOK
<1>1. IInv => TypeOK
  BY Zenon DEF IInv
<1> QED
  BY <1>1, InductiveInvariant, PTL

\* For any file list and any chunk size, fold sees the files in list order
\* and none of them twice.
THEOREM FoldOrder == Spec => []FoldsInOrder
<1>1. IInv => FoldsInOrder
  BY Zenon DEF IInv, FoldedUpToCursor
<1> QED
  BY <1>1, InductiveInvariant, PTL

\* For any file list and any chunk size, the receive loop ends having folded
\* every parsed file, or exactly those before the first file whose fold failed.
THEOREM FoldPrefix == Spec => []FoldsExactlyThePrefix
<1>1. IInv => FoldsExactlyThePrefix
  <2> SUFFICES ASSUME IInv, consumer \in {"join", "done"}
               PROVE  Range(folded) = {f \in parses : failure = 0 \/ f < failure}
    BY Zenon DEF FoldsExactlyThePrefix
  <2>1. /\ \A f \in parses : Written(f) <=> failure = 0 \/ f < failure
        /\ \A i \in DOMAIN folded : folded[i] \in parses
    BY Zenon DEF IInv, FoldedUpToCursor
  <2> QED
    BY <2>1, Zenon DEF Range, Written
<1> QED
  BY <1>1, InductiveInvariant, PTL

\* Whatever the chunk size, at most two parsed chunks wait behind the one
\* being folded: the bound on the pipeline's memory.
THEOREM PipelineMemory == Spec => []AtMostTwoAhead
<1>1. IInv => AtMostTwoAhead
  <2> SUFFICES ASSUME IInv PROVE AtMostTwoAhead
    BY Zenon
  <2>1. Len(channel) \in 0..1
    BY Bounds, Zenon DEF IInv
  <2> QED
    <3>1. Chunks(held) \in 0..1
      BY DEF Chunks
    <3>2. \A m, n \in 0..1 : m + n <= 2
      OBVIOUS
    <3> QED
      BY <2>1, <3>1, <3>2, Zenon DEF AtMostTwoAhead, ChunksAhead
<1> QED
  BY <1>1, InductiveInvariant, PTL

-----------------------------------------------------------------------------
(* DriftReport: the search for cycles.  The invariant is stated of files   *)
(* st yet to start from, colours co, a stack tr and rings rg.  A file that *)
(* is done has only successors that are done or on a ring: so when a file  *)
(* is done as the last of a set in which every file has a successor, some  *)
(* file of the set had it as a successor while it was on the stack.        *)

AllFiles == {FileOf[n] : n \in DOMAIN FileOf}
Call == [file : AllFiles, rest : SUBSET AllFiles]
OnRing(rg, v) == \E r \in rg : \E i \in DOMAIN r : r[i] = v

WalkTypes(st, co, tr, rg) ==
    st \subseteq AllFiles /\ co \in [AllFiles -> {0, 1, 2}] /\ tr \in Seq(Call) /\ rg \subseteq Seq(AllFiles)

\* The files on the stack are those with colour 1, each there once.
OnTrail(co, tr) ==
    /\ \A f \in AllFiles : co[f] = 1 <=> \E i \in DOMAIN tr : tr[i].file = f
    /\ \A i, j \in DOMAIN tr : tr[i].file = tr[j].file => i = j

\* The stack is a path, and what a call has yet to visit are successors.
TrailLeads(tr) ==
    /\ \A i \in DOMAIN tr : tr[i].rest \subseteq Graph[tr[i].file]
    /\ \A i, j \in DOMAIN tr : i < j => Reaches(tr[i].file, tr[j].file)

\* What a call has visited is done, is on a ring, or is being visited.
Dealt(co, tr, rg) ==
    \A i \in DOMAIN tr : \A v \in Graph[tr[i].file] \ tr[i].rest :
        co[v] = 2 \/ OnRing(rg, v) \/ (i < Len(tr) /\ v = tr[i + 1].file)

DoneDealt(co, rg) == \A u \in AllFiles : co[u] = 2 => \A v \in Graph[u] : co[v] = 2 \/ OnRing(rg, v)

\* Every tangle that is done has been met by a ring.
TanglesMet(co, rg) ==
    \A T \in SUBSET AllFiles :
        T # {} /\ (\A t \in T : co[t] = 2 /\ Graph[t] \cap T # {}) => \E t \in T : OnRing(rg, t)

RingsLead(rg) == \A r \in rg : r # <<>> /\ \A i, j \in DOMAIN r : Reaches(r[i], r[j])

StartsLeft(st, co) == \A f \in AllFiles : Graph[f] # {} => f \in st \/ co[f] # 0

Walked(st, co, tr, rg) ==
    /\ WalkTypes(st, co, tr, rg)
    /\ OnTrail(co, tr)
    /\ TrailLeads(tr)
    /\ Dealt(co, tr, rg)
    /\ DoneDealt(co, rg)
    /\ TanglesMet(co, rg)
    /\ RingsLead(rg)
    /\ StartsLeft(st, co)

DriftInv ==
    /\ view \in Views
    /\ Walked(starts, color, trail, rings)
    /\ EveryTangleIsReported

-----------------------------------------------------------------------------
(* Facts the steps need.                                                   *)

\* A set of numbers has a smallest one.
LEMMA FirstNumber ==
  ASSUME NEW S \in SUBSET Nat, S # {} PROVE \E n \in S : \A m \in S : n <= m
<1>1. PICK n \in S : \A m \in S : ~(<<m, n>> \in OpToRel(<, Nat))
  BY NatLessThanWellFounded, WFMin, Zenon
<1>2. \A m \in S : ~(m < n) /\ m \in Nat /\ n \in Nat
  BY <1>1, Zenon DEF OpToRel
<1>. QED  BY <1>2

\* The file graph: files, whose successors are other files that may be seen.
LEMMA GraphIs ==
  ASSUME view \in Views
  PROVE  /\ DOMAIN Graph = AllFiles /\ AllFiles \subseteq Nat /\ Files \subseteq AllFiles
         /\ \A f \in AllFiles : Graph[f] \subseteq Files /\ Graph[f] \subseteq AllFiles /\ f \notin Graph[f]
<1>1. DOMAIN Graph = AllFiles
  BY Zenon DEF Graph, Adjacency, AllFiles
<1>2. AllFiles \subseteq Nat /\ Files \subseteq AllFiles
  BY DriftAssumption, Zenon DEF AllFiles, Files
<1>3. ASSUME NEW f \in AllFiles PROVE Graph[f] \subseteq Files /\ f \notin Graph[f]
  <2>1. Graph[f] = {FileOf[e[2]] : e \in {d \in Kept : FileOf[d[1]] = f}} \ {f}
    BY Zenon DEF Graph, Adjacency, AllFiles
  <2>2. \A e \in Kept : e[2] \in view
    BY Zenon DEF Kept
  <2>. QED  BY <2>1, <2>2, Zenon DEF Files
<1>. QED  BY <1>1, <1>2, <1>3, Zenon

\* An edge is a dependency.
LEMMA ReachesOver ==
  ASSUME view \in Views, NEW f \in AllFiles, NEW g \in Graph[f]
  PROVE  Reaches(f, g)
BY Zenon DEF Reaches

\* Dependencies lead on.
LEMMA ReachesOn ==
  ASSUME view \in Views, NEW f \in AllFiles, NEW g \in AllFiles, NEW h \in AllFiles, Reaches(f, g), Reaches(g, h)
  PROVE  Reaches(f, h)
<1>. SUFFICES ASSUME NEW S \in SUBSET Files, Graph[f] \subseteq S, ClosedFiles(S) PROVE h \in S
  BY Zenon DEF Reaches
<1>1. g \in S
  BY Zenon DEF Reaches
<1>2. Graph[g] \subseteq S
  BY <1>1, Zenon DEF ClosedFiles
<1>. QED  BY <1>2, Zenon DEF Reaches

\* A dependency starts with a successor.
LEMMA ReachesFirst ==
  ASSUME view \in Views, NEW f \in AllFiles, NEW g \in AllFiles, Reaches(f, g)
  PROVE  \E h \in Graph[f] : h = g \/ Reaches(h, g)
<1>. SUFFICES ASSUME \A h \in Graph[f] : h # g /\ ~Reaches(h, g) PROVE FALSE
  BY Zenon
<1>. DEFINE S == {x \in Files : x # g /\ ~Reaches(x, g)}
<1>1. Graph[f] \subseteq S
  BY GraphIs, Zenon
<1>2. ASSUME NEW x \in S, NEW y \in Graph[x] PROVE y \in S
  <2>1. x \in AllFiles /\ y \in Files /\ y \in AllFiles
    BY GraphIs, Zenon
  <2>2. Reaches(x, y)
    BY <2>1, ReachesOver, Zenon
  <2>3. y # g /\ ~Reaches(y, g)
    BY <2>1, <2>2, ReachesOn, Zenon
  <2>. QED  BY <2>1, <2>3, Zenon
<1>3. ClosedFiles(S) /\ S \in SUBSET Files /\ g \notin S
  BY <1>2, Zenon DEF ClosedFiles
<1>. QED  BY <1>1, <1>3, Zenon DEF Reaches

\* The first of some files is one of them.
LEMMA LeastIs ==
  ASSUME NEW S \in SUBSET Nat, S # {} PROVE Least(S) \in S /\ \A y \in S : Least(S) <= y
<1>1. PICK n \in S : \A m \in S : n <= m
  BY FirstNumber, Zenon
<1>. QED  BY <1>1, Zenon DEF Least

\* What the stack is made of.
LEMMA TrailIs ==
  ASSUME NEW st, NEW co, NEW tr, NEW rg, Walked(st, co, tr, rg)
  PROVE  /\ tr \in Seq(Call) /\ Len(tr) \in Nat /\ DOMAIN tr = 1..Len(tr) /\ (tr # <<>> => Len(tr) # 0)
         /\ \A i \in 1..Len(tr) : tr[i] \in Call /\ tr[i].file \in AllFiles /\ tr[i].rest \subseteq AllFiles
<1>1. tr \in Seq(Call)
  BY Zenon DEF Walked, WalkTypes
<1>2. /\ Len(tr) \in Nat /\ DOMAIN tr = 1..Len(tr) /\ (tr # <<>> => Len(tr) # 0)
      /\ \A i \in 1..Len(tr) : tr[i] \in Call
  BY <1>1, LenProperties, ElementOfSeq, EmptySeq, Zenon
<1>3. \A c \in Call : c.file \in AllFiles /\ c.rest \subseteq AllFiles
  BY Zenon DEF Call
<1>. QED  BY <1>1, <1>2, <1>3, Zenon

-----------------------------------------------------------------------------
(* The steps of the search.                                                *)

\* The call on top of the stack, or the loop of find_cycles, takes up file f.
TakesUp(f, st, tr, st2, tr2) ==
    \/ tr = <<>> /\ tr2 = <<>> /\ f \in st /\ st2 = st \ {f}
    \/ /\ tr # <<>> /\ st2 = st /\ tr2 \in Seq(Call) /\ Len(tr2) = Len(tr)
       /\ \A i \in 1..Len(tr) : tr2[i].file = tr[i].file /\ (i # Len(tr) => tr2[i].rest = tr[i].rest)
       /\ f \in tr[Len(tr)].rest /\ tr2[Len(tr)].rest = tr[Len(tr)].rest \ {f}

\* What a step that takes up f leaves as it was.
TakenFrom(f, co, st, tr, st2, tr2) ==
    /\ st2 \subseteq AllFiles /\ tr2 \in Seq(Call) /\ OnTrail(co, tr2) /\ TrailLeads(tr2)
    /\ Len(tr2) = Len(tr) /\ DOMAIN tr2 = 1..Len(tr)
    /\ \A i \in 1..Len(tr) : tr2[i].file = tr[i].file
    /\ \A i \in 1..Len(tr) : \A v \in Graph[tr2[i].file] \ tr2[i].rest :
         v \notin tr[i].rest \/ (i = Len(tr) /\ v = f)
    /\ \A g \in st : g \in st2 \/ g = f
    /\ tr # <<>> => Len(tr) # 0 /\ f \in Graph[tr[Len(tr)].file]

\* A step that takes up f leaves the rest of the search as it was.
LEMMA TakenUp ==
  ASSUME view \in Views, NEW st, NEW co, NEW tr, NEW rg, Walked(st, co, tr, rg),
         NEW f \in AllFiles, NEW st2, NEW tr2, TakesUp(f, st, tr, st2, tr2)
  PROVE  TakenFrom(f, co, st, tr, st2, tr2)
<1>0. /\ tr \in Seq(Call) /\ Len(tr) \in Nat /\ DOMAIN tr = 1..Len(tr) /\ (tr # <<>> => Len(tr) # 0)
      /\ \A i \in 1..Len(tr) : tr[i] \in Call /\ tr[i].file \in AllFiles /\ tr[i].rest \subseteq AllFiles
  BY TrailIs, Zenon
<1>1. st \subseteq AllFiles /\ OnTrail(co, tr) /\ TrailLeads(tr)
  BY Zenon DEF Walked, WalkTypes
<1>2. CASE tr = <<>> /\ tr2 = <<>> /\ f \in st /\ st2 = st \ {f}
  BY <1>0, <1>1, <1>2, Zenon DEF TakenFrom
<1>3. CASE /\ tr # <<>> /\ st2 = st /\ tr2 \in Seq(Call) /\ Len(tr2) = Len(tr)
           /\ \A i \in 1..Len(tr) : tr2[i].file = tr[i].file /\ (i # Len(tr) => tr2[i].rest = tr[i].rest)
           /\ f \in tr[Len(tr)].rest /\ tr2[Len(tr)].rest = tr[Len(tr)].rest \ {f}
  <2>1. DOMAIN tr2 = 1..Len(tr) /\ Len(tr) \in 1..Len(tr)
    <3>1. Len(tr) \in Nat /\ Len(tr) # 0
      BY <1>0, <1>3, Zenon
    <3>2. Len(tr) \in 1..Len(tr)
      BY <3>1
    <3>. QED  BY <1>3, <3>2, LenProperties, Zenon
  <2>2. \A i \in 1..Len(tr) : tr2[i].file = tr[i].file /\ tr2[i].rest \subseteq tr[i].rest
    BY <1>3, Zenon
  <2>3. OnTrail(co, tr2)
    BY <1>0, <1>1, <2>1, <2>2 DEF OnTrail
  <2>4. TrailLeads(tr2)
    BY <1>0, <1>1, <2>1, <2>2, SMTT(30) DEF TrailLeads
  <2>5. f \in Graph[tr[Len(tr)].file]
    BY <1>0, <1>1, <1>3, <2>1, Zenon DEF TrailLeads
  <2>6. ASSUME NEW i \in 1..Len(tr), NEW v \in Graph[tr2[i].file] \ tr2[i].rest
        PROVE  v \notin tr[i].rest \/ (i = Len(tr) /\ v = f)
    BY <1>3, Zenon
  <2>. QED  BY <1>0, <1>1, <1>3, <2>1, <2>2, <2>3, <2>4, <2>5, <2>6, Zenon DEF TakenFrom
<1>. QED  BY <1>2, <1>3, Zenon DEF TakesUp

\* A file that is done, or that is on a ring, is taken up and left.
LEMMA SkipKeeps ==
  ASSUME view \in Views, NEW st, NEW co, NEW tr, NEW rg, Walked(st, co, tr, rg),
         NEW f \in AllFiles, NEW st2, NEW tr2, TakesUp(f, st, tr, st2, tr2),
         co[f] # 0, co[f] = 2 \/ OnRing(rg, f)
  PROVE  Walked(st2, co, tr2, rg)
<1>1. /\ st2 \subseteq AllFiles /\ tr2 \in Seq(Call) /\ OnTrail(co, tr2) /\ TrailLeads(tr2)
      /\ Len(tr2) = Len(tr) /\ DOMAIN tr2 = 1..Len(tr)
      /\ \A i \in 1..Len(tr) : tr2[i].file = tr[i].file
      /\ \A i \in 1..Len(tr) : \A v \in Graph[tr2[i].file] \ tr2[i].rest :
           v \notin tr[i].rest \/ (i = Len(tr) /\ v = f)
      /\ \A g \in st : g \in st2 \/ g = f
  <2>1. TakenFrom(f, co, st, tr, st2, tr2)
    BY TakenUp, Zenon
  <2>. QED  BY <2>1, Zenon DEF TakenFrom
<1>2. Len(tr) \in Nat /\ DOMAIN tr = 1..Len(tr)
  BY TrailIs, Zenon
<1>3. Dealt(co, tr2, rg)
  <2>. SUFFICES ASSUME NEW i \in 1..Len(tr), NEW v \in Graph[tr2[i].file] \ tr2[i].rest
                PROVE  co[v] = 2 \/ OnRing(rg, v) \/ (i < Len(tr2) /\ v = tr2[i + 1].file)
    BY <1>1, Zenon DEF Dealt
  <2>1. CASE v = f
    BY <2>1, Zenon
  <2>2. CASE v \notin tr[i].rest
    <3>1. v \in Graph[tr[i].file] \ tr[i].rest
      BY <1>1, <2>2, Zenon
    <3>2. co[v] = 2 \/ OnRing(rg, v) \/ (i < Len(tr) /\ v = tr[i + 1].file)
      BY <1>2, <3>1, Zenon DEF Walked, Dealt
    <3>3. i < Len(tr) => i + 1 \in 1..Len(tr)
      BY <1>2
    <3>. QED  BY <1>1, <3>2, <3>3, Zenon
  <2>. QED  BY <1>1, <2>1, <2>2, Zenon
<1>4. StartsLeft(st2, co)
  BY <1>1, Zenon DEF Walked, StartsLeft
<1>5. WalkTypes(st2, co, tr2, rg)
  BY <1>1, Zenon DEF Walked, WalkTypes
<1>. QED  BY <1>1, <1>3, <1>4, <1>5, Zenon DEF Walked

\* A ring from position s of the stack to its top and back to file f.
RingFrom(f, tr, s, ring) ==
    /\ s \in 1..Len(tr) /\ tr[s].file = f
    /\ ring = [i \in 1..Len(tr) - s + 2 |-> IF i = Len(tr) - s + 2 THEN f ELSE tr[s + i - 1].file]

\* A position from s to k.
LEMMA Between ==
  ASSUME NEW s \in Nat, NEW k \in Nat, s \in 1..k, NEW a \in s..k
  PROVE  a \in 1..k /\ (a # k => a < k) /\ (a # s => s < a)
  OBVIOUS

\* The files of a ring are on the stack, and depend on each other.
LEMMA RingIs ==
  ASSUME view \in Views, NEW st, NEW co, NEW tr, NEW rg, Walked(st, co, tr, rg),
         NEW f \in AllFiles, f \in Graph[tr[Len(tr)].file], NEW s, NEW ring, RingFrom(f, tr, s, ring)
  PROVE  /\ ring \in Seq(AllFiles) /\ ring # <<>> /\ \E i \in DOMAIN ring : ring[i] = f
         /\ \A i, j \in DOMAIN ring : Reaches(ring[i], ring[j])
<1>. DEFINE k == Len(tr)
            n == k - s + 2
<1>0. /\ Len(tr) \in Nat /\ DOMAIN tr = 1..Len(tr)
      /\ \A i \in 1..Len(tr) : tr[i].file \in AllFiles
  BY TrailIs, Zenon
<1>1. s \in 1..k /\ tr[s].file = f /\ s \in Nat /\ k \in 1..k
  BY <1>0 DEF RingFrom
<1>2. ring = [i \in 1..n |-> IF i = n THEN f ELSE tr[s + i - 1].file] /\ n \in Nat /\ n \in 1..n
  BY <1>0, <1>1 DEF RingFrom
<1>3. \A i \in 1..n : i # n => s + i - 1 \in s..k
  BY <1>0, <1>1
<1>. HIDE DEF n
<1>4. \A i \in 1..n : \E a \in s..k : ring[i] = tr[a].file
  <2>1. s \in s..k
    BY <1>0, <1>1
  <2>. QED  BY <1>1, <1>2, <1>3, <2>1, Zenon
<1>5. \A a \in s..k : a \in 1..k /\ tr[a].file \in AllFiles
  BY <1>0, <1>1
<1>6. \A i \in 1..n : ring[i] \in AllFiles
  BY <1>4, <1>5, Zenon
<1>7. ring \in Seq(AllFiles) /\ DOMAIN ring = 1..n /\ ring[n] = f
  BY <1>2, <1>6
<1>8. ring # <<>>
  <2>1. DOMAIN ring # {}
    BY <1>2, <1>7, Zenon
  <2>2. DOMAIN <<>> = {}
    OBVIOUS
  <2>. QED  BY <2>1, <2>2, Zenon
<1>9. Reaches(tr[k].file, f)
  BY <1>0, <1>1, ReachesOver, Zenon
<1>10. \A i, j \in 1..k : i < j => Reaches(tr[i].file, tr[j].file)
  BY <1>0, Zenon DEF Walked, TrailLeads
<1>11. ASSUME NEW a \in s..k, NEW b \in s..k PROVE Reaches(tr[a].file, tr[b].file)
  <2>0. a \in 1..k /\ b \in 1..k /\ (a # k => a < k) /\ (b # s => s < b)
    <3>1. k \in Nat /\ s \in Nat /\ s \in 1..k
      BY <1>0, <1>1, Zenon
    <3>. HIDE DEF k
    <3>. QED  BY <3>1, Between, Zenon
  <2>1. Reaches(tr[a].file, f)
    <3>1. CASE a = k
      BY <1>9, <3>1, Zenon
    <3>2. CASE a # k
      <4>1. Reaches(tr[a].file, tr[k].file)
        BY <1>1, <1>10, <2>0, <3>2, Zenon
      <4>. QED  BY <1>1, <1>5, <1>9, <2>0, <4>1, ReachesOn, <1>0, Zenon
    <3>. QED  BY <3>1, <3>2, Zenon
  <2>2. CASE b = s
    BY <1>1, <2>1, <2>2, Zenon
  <2>3. CASE b # s
    <3>1. Reaches(f, tr[b].file)
      BY <1>1, <1>10, <2>0, <2>3, Zenon
    <3>. QED  BY <1>0, <2>0, <2>1, <3>1, ReachesOn, Zenon
  <2>. QED  BY <2>2, <2>3, Zenon
<1>12. \A i, j \in 1..n : Reaches(ring[i], ring[j])
  BY <1>4, <1>11, Zenon
<1>. QED  BY <1>2, <1>7, <1>8, <1>12, Zenon

\* A ring is recorded.
LEMMA RingKeeps ==
  ASSUME NEW st, NEW co, NEW tr, NEW rg, Walked(st, co, tr, rg),
         NEW ring \in Seq(AllFiles), ring # <<>>, \A i, j \in DOMAIN ring : Reaches(ring[i], ring[j])
  PROVE  Walked(st, co, tr, rg \cup {ring})
<1>1. \A v : OnRing(rg, v) => OnRing(rg \cup {ring}, v)
  BY Zenon DEF OnRing
<1>2. WalkTypes(st, co, tr, rg \cup {ring})
  BY Zenon DEF Walked, WalkTypes
<1>3. RingsLead(rg \cup {ring})
  BY Zenon DEF Walked, RingsLead
<1>4. Dealt(co, tr, rg \cup {ring})
  BY <1>1, Zenon DEF Walked, Dealt
<1>5. DoneDealt(co, rg \cup {ring})
  BY <1>1, Zenon DEF Walked, DoneDealt
<1>6. TanglesMet(co, rg \cup {ring})
  BY <1>1, Zenon DEF Walked, TanglesMet
<1>. QED  BY <1>2, <1>3, <1>4, <1>5, <1>6, Zenon DEF Walked

\* A file gets a colour.
Recolored(co, f, c, co2) ==
    co2 \in [AllFiles -> {0, 1, 2}] /\ co2[f] = c /\ \A g \in AllFiles : g # f => co2[g] = co[g]

\* A call for file f is pushed.
PushedCall(f, tr2, tr3) ==
    /\ tr3 \in Seq(Call) /\ Len(tr3) = Len(tr2) + 1 /\ DOMAIN tr3 = 1..Len(tr3)
    /\ \A i \in 1..Len(tr2) : tr3[i] = tr2[i]
    /\ tr3[Len(tr3)].file = f /\ tr3[Len(tr3)].rest = Graph[f]

\* The stack with a new file on top.
LEMMA EnteredTrail ==
  ASSUME view \in Views, NEW st, NEW co, NEW tr, NEW rg, Walked(st, co, tr, rg),
         NEW f \in AllFiles, NEW st2, NEW tr2, TakenFrom(f, co, st, tr, st2, tr2),
         co[f] = 0, NEW co2, Recolored(co, f, 1, co2), NEW tr3, PushedCall(f, tr2, tr3)
  PROVE  OnTrail(co2, tr3) /\ TrailLeads(tr3)
<1>. DEFINE k == Len(tr)
<1>0. /\ k \in Nat /\ (k = 0 => tr = <<>>)
      /\ \A i \in 1..k : tr[i].file \in AllFiles
  <2>1. tr \in Seq(Call)
    BY TrailIs, Zenon
  <2>2. k = 0 => tr = <<>>
    BY <2>1, EmptySeq, Zenon
  <2>. QED  BY <2>2, TrailIs, Zenon
<1>1. /\ OnTrail(co, tr2) /\ TrailLeads(tr2) /\ Len(tr2) = k /\ DOMAIN tr2 = 1..k
      /\ (\A i \in 1..k : tr2[i].file = tr[i].file)
      /\ (tr # <<>> => f \in Graph[tr[k].file])
  BY Zenon DEF TakenFrom
<1>. HIDE DEF k
<1>2. /\ DOMAIN tr3 = 1..(k + 1) /\ (\A i \in 1..k : tr3[i] = tr2[i])
      /\ tr3[k + 1].file = f /\ tr3[k + 1].rest = Graph[f] /\ k + 1 \in 1..(k + 1)
      /\ \A i \in 1..(k + 1) : i \in 1..k \/ i = k + 1
  BY <1>0, <1>1 DEF PushedCall
<1>3. \A i \in 1..k : i \in 1..(k + 1) /\ i # k + 1 /\ ~(k + 1 < i)
  BY <1>0
<1>4. co2[f] = 1 /\ \A g \in AllFiles : g # f => co2[g] = co[g]
  BY Zenon DEF Recolored
<1>5. /\ (\A g \in AllFiles : co[g] = 1 <=> \E i \in 1..k : tr2[i].file = g)
      /\ \A i, j \in 1..k : tr2[i].file = tr2[j].file => i = j
  BY <1>1, ZenonT(60) DEF OnTrail
<1>6. \A i \in 1..k : tr2[i].file # f
  BY <1>5, 0 # 1, Zenon
<1>7. OnTrail(co2, tr3)
  <2>1. ASSUME NEW g \in AllFiles PROVE co2[g] = 1 <=> \E i \in 1..(k + 1) : tr3[i].file = g
    <3>1. CASE g = f
      BY <1>2, <1>4, <3>1, Zenon
    <3>2. CASE g # f
      <4>1. co2[g] = 1 <=> \E i \in 1..k : tr2[i].file = g
        BY <1>4, <1>5, <3>2, Zenon
      <4>2. ASSUME NEW i \in 1..k, tr2[i].file = g PROVE \E a \in 1..(k + 1) : tr3[a].file = g
        <5>1. i \in 1..(k + 1) /\ tr3[i].file = g
          BY <1>2, <1>3, <4>2, Zenon
        <5>. QED  BY <5>1, Zenon
      <4>3. ASSUME NEW a \in 1..(k + 1), tr3[a].file = g PROVE \E i \in 1..k : tr2[i].file = g
        <5>1. a \in 1..k
          BY <1>2, <3>2, <4>3, Zenon
        <5>2. tr2[a].file = g
          BY <1>2, <4>3, <5>1, Zenon
        <5>. QED  BY <5>1, <5>2, Zenon
      <4>. QED  BY <4>1, <4>2, <4>3, Zenon
    <3>. QED  BY <3>1, <3>2, Zenon
  <2>2. ASSUME NEW i \in 1..(k + 1), NEW j \in 1..(k + 1), tr3[i].file = tr3[j].file PROVE i = j
    <3>0. \A a \in 1..k : tr3[a].file = tr2[a].file /\ tr3[a].file # f
      BY <1>2, <1>6, Zenon
    <3>1. CASE i \in 1..k /\ j \in 1..k
      <4>1. tr2[i].file = tr2[j].file
        BY <2>2, <3>0, <3>1, Zenon
      <4>. QED  BY <1>5, <3>1, <4>1, Zenon
    <3>2. CASE i = k + 1 /\ j \in 1..k
      BY <1>2, <2>2, <3>0, <3>2, Zenon
    <3>3. CASE j = k + 1 /\ i \in 1..k
      BY <1>2, <2>2, <3>0, <3>3, Zenon
    <3>. QED  BY <1>2, <3>1, <3>2, <3>3, Zenon
  <2>. QED  BY <1>2, <2>1, <2>2, ZenonT(60) DEF OnTrail
<1>8. TrailLeads(tr3)
  <2>0. /\ (\A i \in 1..k : tr2[i].rest \subseteq Graph[tr2[i].file])
        /\ \A i, j \in 1..k : i < j => Reaches(tr2[i].file, tr2[j].file)
    BY <1>1, Zenon DEF TrailLeads
  <2>1. ASSUME NEW i \in 1..(k + 1) PROVE tr3[i].rest \subseteq Graph[tr3[i].file]
    BY <1>2, <2>0, Zenon
  <2>2. ASSUME NEW i \in 1..(k + 1), NEW j \in 1..(k + 1), i < j PROVE Reaches(tr3[i].file, tr3[j].file)
    <3>1. CASE j \in 1..k
      <4>1. i \in 1..k
        BY <1>0, <2>2, <3>1
      <4>. QED  BY <1>2, <2>0, <2>2, <3>1, <4>1, Zenon
    <3>2. CASE j = k + 1
      <4>1. i \in 1..k /\ k \in 1..k /\ k # 0 /\ (i # k => i < k)
        BY <1>0, <2>2, <3>2
      <4>2. f \in Graph[tr[k].file] /\ tr[k].file \in AllFiles /\ tr[i].file \in AllFiles
        <5>1. tr # <<>>
          BY <4>1, EmptySeq, Zenon DEF k
        <5>. QED  BY <1>0, <1>1, <4>1, <5>1, Zenon
      <4>3. Reaches(tr[k].file, f)
        BY <4>2, ReachesOver, Zenon
      <4>4. i # k => Reaches(tr[i].file, tr[k].file)
        BY <1>1, <2>0, <4>1, Zenon
      <4>5. Reaches(tr[i].file, f)
        BY <4>2, <4>3, <4>4, ReachesOn, Zenon
      <4>. QED  BY <1>1, <1>2, <3>2, <4>1, <4>5, Zenon
    <3>. QED  BY <1>2, <3>1, <3>2, Zenon
  <2>. QED  BY <1>2, <2>1, <2>2, Zenon DEF TrailLeads
<1>. QED  BY <1>7, <1>8, Zenon

\* A new file is entered.
LEMMA EnterKeeps ==
  ASSUME view \in Views, NEW st, NEW co, NEW tr, NEW rg, Walked(st, co, tr, rg),
         NEW f \in AllFiles, NEW st2, NEW tr2, TakesUp(f, st, tr, st2, tr2),
         co[f] = 0, NEW co2, Recolored(co, f, 1, co2), NEW tr3, PushedCall(f, tr2, tr3)
  PROVE  Walked(st2, co2, tr3, rg)
<1>. DEFINE k == Len(tr)
<1>1. TakenFrom(f, co, st, tr, st2, tr2)
  BY TakenUp, ZenonT(30)
<1>2. OnTrail(co2, tr3) /\ TrailLeads(tr3)
  BY <1>1, EnteredTrail, ZenonT(30)
<1>3. /\ st2 \subseteq AllFiles /\ Len(tr2) = k /\ (\A g \in st : g \in st2 \/ g = f)
      /\ (\A i \in 1..k : tr2[i].file = tr[i].file)
      /\ \A i \in 1..k : \A v \in Graph[tr2[i].file] \ tr2[i].rest :
           v \notin tr[i].rest \/ (i = k /\ v = f)
  BY <1>1, Zenon DEF TakenFrom
<1>4. k \in Nat /\ DOMAIN tr = 1..k /\ \A i \in 1..k : tr[i].file \in AllFiles
  BY TrailIs, Zenon
<1>. HIDE DEF k
<1>5. /\ tr3 \in Seq(Call) /\ Len(tr3) = k + 1 /\ DOMAIN tr3 = 1..(k + 1) /\ (\A i \in 1..k : tr3[i] = tr2[i])
      /\ tr3[k + 1].file = f /\ tr3[k + 1].rest = Graph[f]
      /\ \A i \in 1..(k + 1) : i \in 1..k \/ i = k + 1
  BY <1>3, <1>4 DEF PushedCall
<1>6. co2 \in [AllFiles -> {0, 1, 2}] /\ co2[f] = 1 /\ \A g \in AllFiles : g # f => co2[g] = co[g]
  BY Zenon DEF Recolored
<1>7. \A g \in AllFiles : co2[g] = 2 <=> co[g] = 2
  <2>1. 0 # 2 /\ 1 # 2
    OBVIOUS
  <2>. QED  BY <1>6, <2>1, Zenon
<1>8. Dealt(co2, tr3, rg)
  <2>. SUFFICES ASSUME NEW i \in 1..(k + 1), NEW v \in Graph[tr3[i].file] \ tr3[i].rest
                PROVE  co2[v] = 2 \/ OnRing(rg, v) \/ (i < k + 1 /\ v = tr3[i + 1].file)
    BY <1>5, Zenon DEF Dealt
  <2>1. i \in 1..k
    BY <1>5, Zenon
  <2>2. tr3[i] = tr2[i] /\ i < k + 1 /\ (i = k => i + 1 = k + 1) /\ (i < k => i + 1 \in 1..k)
    BY <1>4, <1>5, <2>1
  <2>3. CASE i = k /\ v = f
    BY <1>5, <2>2, <2>3, Zenon
  <2>4. CASE v \notin tr[i].rest
    <3>1. v \in Graph[tr[i].file] \ tr[i].rest /\ tr[i].file \in AllFiles
      <4>1. v \in Graph[tr[i].file]
        BY <1>3, <2>1, <2>2, Zenon
      <4>. QED  BY <1>4, <2>1, <2>4, <4>1, Zenon
    <3>2. co[v] = 2 \/ OnRing(rg, v) \/ (i < k /\ v = tr[i + 1].file)
      BY <1>4, <2>1, <3>1, Zenon DEF Walked, Dealt, k
    <3>3. v \in AllFiles
      BY <3>1, GraphIs, Zenon
    <3>. QED  BY <1>3, <1>5, <1>7, <2>2, <3>2, <3>3, ZenonT(60)
  <2>. QED  BY <1>3, <2>1, <2>2, <2>3, <2>4, Zenon
<1>9. DoneDealt(co2, rg)
  <2>1. \A u \in AllFiles : Graph[u] \subseteq AllFiles
    BY GraphIs, Zenon
  <2>. QED  BY <1>7, <2>1, Zenon DEF Walked, DoneDealt
<1>10. TanglesMet(co2, rg)
  <2>. SUFFICES ASSUME NEW T \in SUBSET AllFiles, T # {}, \A t \in T : co2[t] = 2 /\ Graph[t] \cap T # {}
                PROVE  \E t \in T : OnRing(rg, t)
    BY Zenon DEF TanglesMet
  <2>1. \A t \in T : co[t] = 2 /\ Graph[t] \cap T # {}
    BY <1>7, Zenon
  <2>. QED  BY <2>1, Zenon DEF Walked, TanglesMet
<1>11. StartsLeft(st2, co2)
  <2>1. 1 # 0
    OBVIOUS
  <2>. QED  BY <1>3, <1>6, <2>1, Zenon DEF Walked, StartsLeft
<1>12. WalkTypes(st2, co2, tr3, rg) /\ RingsLead(rg)
  BY <1>3, <1>5, <1>6, Zenon DEF Walked, WalkTypes
<1>. QED  BY <1>2, <1>8, <1>9, <1>10, <1>11, <1>12, Zenon DEF Walked

\* The top call has visited all and returns.
PoppedCall(u, tr, tr2) ==
    /\ tr # <<>> /\ tr[Len(tr)].file = u /\ tr[Len(tr)].rest = {}
    /\ tr2 \in Seq(Call) /\ Len(tr2) = Len(tr) - 1 /\ DOMAIN tr2 = 1..(Len(tr) - 1)
    /\ \A i \in 1..(Len(tr) - 1) : tr2[i] = tr[i]

\* A file that is done was dealt with, and so was every tangle that is done with it.
LEMMA DoneKeeps ==
  ASSUME view \in Views, NEW co \in [AllFiles -> {0, 1, 2}], NEW rg, DoneDealt(co, rg), TanglesMet(co, rg),
         NEW u \in AllFiles, co[u] = 1, \A v \in Graph[u] : co[v] = 2 \/ OnRing(rg, v),
         NEW co2, Recolored(co, u, 2, co2)
  PROVE  DoneDealt(co2, rg) /\ TanglesMet(co2, rg)
<1>0. co2[u] = 2 /\ \A g \in AllFiles : g # u => co2[g] = co[g]
  BY Zenon DEF Recolored
<1>1. \A g \in AllFiles : (co[g] = 2 => co2[g] = 2) /\ (co2[g] = 2 => co[g] = 2 \/ g = u)
  BY <1>0, Zenon
<1>2. \A g \in AllFiles : Graph[g] \subseteq AllFiles /\ g \notin Graph[g]
  BY GraphIs, Zenon
<1>3. DoneDealt(co2, rg)
  <2>. SUFFICES ASSUME NEW g \in AllFiles, co2[g] = 2, NEW v \in Graph[g] PROVE co2[v] = 2 \/ OnRing(rg, v)
    BY Zenon DEF DoneDealt
  <2>1. v \in AllFiles
    BY <1>2, Zenon
  <2>2. co[v] = 2 \/ OnRing(rg, v)
    BY <1>1, Zenon DEF DoneDealt
  <2>. QED  BY <1>1, <2>1, <2>2, Zenon
<1>4. TanglesMet(co2, rg)
  <2>. SUFFICES ASSUME NEW T \in SUBSET AllFiles, T # {}, \A t \in T : co2[t] = 2 /\ Graph[t] \cap T # {}
                PROVE  \E t \in T : OnRing(rg, t)
    BY Zenon DEF TanglesMet
  <2>1. CASE u \notin T
    <3>1. \A t \in T : co[t] = 2 /\ Graph[t] \cap T # {}
      BY <1>1, <2>1, Zenon
    <3>. QED  BY <3>1, Zenon DEF TanglesMet
  <2>2. CASE u \in T
    <3>. DEFINE S == T \ {u}
    <3>1. S # {} /\ S \in SUBSET AllFiles /\ \A t \in S : t \in T /\ co[t] = 2
      <4>1. Graph[u] \cap T # {} /\ u \notin Graph[u]
        BY <1>2, <2>2, Zenon
      <4>2. S # {}
        BY <4>1, Zenon
      <4>3. \A t \in S : t \in T /\ t \in AllFiles /\ t # u
        BY Zenon
      <4>. QED  BY <1>1, <4>2, <4>3, Zenon
    <3>2. CASE \A t \in S : Graph[t] \cap S # {}
      <4>1. \E t \in S : OnRing(rg, t)
        <5>. HIDE DEF S
        <5>. QED  BY <3>1, <3>2, Zenon DEF TanglesMet
      <4>. QED  BY <3>1, <4>1, Zenon
    <3>3. CASE ~\A t \in S : Graph[t] \cap S # {}
      <4>1. PICK t \in S : Graph[t] \cap S = {}
        BY <3>3, Zenon
      <4>2. u \in Graph[t]
        BY <4>1
      <4>3. co[u] = 2 \/ OnRing(rg, u)
        BY <3>1, <4>2, Zenon DEF DoneDealt
      <4>4. co[u] # 2
        OBVIOUS
      <4>. QED  BY <2>2, <4>3, <4>4, Zenon
    <3>. QED  BY <3>2, <3>3, Zenon
  <2>. QED  BY <2>1, <2>2, Zenon
<1>. QED  BY <1>3, <1>4, Zenon

\* A call returns.
LEMMA LeaveKeeps ==
  ASSUME view \in Views, NEW st, NEW co, NEW tr, NEW rg, Walked(st, co, tr, rg),
         NEW u, NEW tr2, PoppedCall(u, tr, tr2), NEW co2, Recolored(co, u, 2, co2)
  PROVE  Walked(st, co2, tr2, rg)
<1>. DEFINE k == Len(tr)
<1>0. k \in Nat /\ DOMAIN tr = 1..k /\ (tr # <<>> => k # 0) /\ \A i \in 1..k : tr[i].file \in AllFiles
  BY TrailIs, Zenon
<1>1. /\ tr # <<>> /\ tr[k].file = u /\ tr[k].rest = {}
      /\ tr2 \in Seq(Call) /\ Len(tr2) = k - 1 /\ DOMAIN tr2 = 1..(k - 1) /\ \A i \in 1..(k - 1) : tr2[i] = tr[i]
  BY Zenon DEF PoppedCall
<1>2. /\ st \subseteq AllFiles /\ co \in [AllFiles -> {0, 1, 2}] /\ rg \subseteq Seq(AllFiles)
      /\ OnTrail(co, tr) /\ TrailLeads(tr) /\ Dealt(co, tr, rg) /\ DoneDealt(co, rg) /\ TanglesMet(co, rg)
      /\ RingsLead(rg) /\ StartsLeft(st, co)
  BY Zenon DEF Walked, WalkTypes
<1>3. /\ co2 \in [AllFiles -> {0, 1, 2}] /\ co2[u] = 2 /\ \A g \in AllFiles : g # u => co2[g] = co[g]
  BY Zenon DEF Recolored
<1>4. \A v \in Graph[tr[k].file] \ tr[k].rest :
        co[v] = 2 \/ OnRing(rg, v) \/ (k < k /\ v = tr[k + 1].file)
  <2>1. k \in DOMAIN tr
    BY <1>0, <1>1
  <2>. QED  BY <1>2, <2>1, Zenon DEF Dealt
<1>. HIDE DEF k
<1>5. /\ k \in 1..k /\ ~(k < k) /\ (\A i \in 1..k : i # k => i \in 1..(k - 1))
      /\ (\A i \in 1..(k - 1) : i \in 1..k /\ i # k /\ i < k)
      /\ (\A i \in 1..(k - 1) : i + 1 # k => i < k - 1 /\ i + 1 \in 1..(k - 1))
  BY <1>0, <1>1
<1>6. u \in AllFiles /\ co[u] = 1
  BY <1>0, <1>1, <1>2, <1>5, Zenon DEF OnTrail
<1>7. \A v \in Graph[u] : co[v] = 2 \/ OnRing(rg, v)
  BY <1>1, <1>4, <1>5, Zenon
<1>8. DoneDealt(co2, rg) /\ TanglesMet(co2, rg)
  BY <1>2, <1>6, <1>7, DoneKeeps, Zenon
<1>9. OnTrail(co2, tr2)
  <2>0. /\ (\A g \in AllFiles : co[g] = 1 <=> \E i \in 1..k : tr[i].file = g)
        /\ \A i, j \in 1..k : tr[i].file = tr[j].file => i = j
    BY <1>0, <1>2, Zenon DEF OnTrail
  <2>1. ASSUME NEW g \in AllFiles PROVE co2[g] = 1 <=> \E i \in 1..(k - 1) : tr2[i].file = g
    <3>1. CASE g = u
      <4>1. co2[g] # 1
        BY <1>3, <3>1
      <4>2. ASSUME NEW i \in 1..(k - 1), tr2[i].file = g PROVE FALSE
        <5>1. i \in 1..k /\ i # k /\ tr[i].file = tr[k].file
          BY <1>1, <1>5, <3>1, <4>2, Zenon
        <5>. QED  BY <1>5, <2>0, <5>1, Zenon
      <4>. QED  BY <4>1, <4>2, Zenon
    <3>2. CASE g # u
      <4>1. co2[g] = 1 <=> \E i \in 1..k : tr[i].file = g
        BY <1>3, <2>0, <3>2, Zenon
      <4>2. ASSUME NEW i \in 1..k, tr[i].file = g PROVE \E a \in 1..(k - 1) : tr2[a].file = g
        <5>1. i \in 1..(k - 1)
          BY <1>1, <1>5, <3>2, <4>2, Zenon
        <5>2. tr2[i].file = g
          BY <1>1, <4>2, <5>1, Zenon
        <5>. QED  BY <5>1, <5>2, Zenon
      <4>3. ASSUME NEW a \in 1..(k - 1), tr2[a].file = g PROVE \E i \in 1..k : tr[i].file = g
        <5>1. a \in 1..k /\ tr[a].file = g
          BY <1>1, <1>5, <4>3, Zenon
        <5>. QED  BY <5>1, Zenon
      <4>. QED  BY <4>1, <4>2, <4>3, Zenon
    <3>. QED  BY <3>1, <3>2, Zenon
  <2>2. ASSUME NEW i \in 1..(k - 1), NEW j \in 1..(k - 1), tr2[i].file = tr2[j].file PROVE i = j
    <3>1. i \in 1..k /\ j \in 1..k /\ tr[i].file = tr[j].file
      BY <1>1, <1>5, <2>2, Zenon
    <3>. QED  BY <2>0, <3>1, Zenon
  <2>. QED  BY <1>1, <2>1, <2>2, Zenon DEF OnTrail
<1>10. TrailLeads(tr2)
  <2>1. \A i \in 1..(k - 1) : tr2[i].rest \subseteq Graph[tr2[i].file]
    BY <1>0, <1>1, <1>2, <1>5, Zenon DEF TrailLeads
  <2>2. ASSUME NEW i \in 1..(k - 1), NEW j \in 1..(k - 1), i < j PROVE Reaches(tr2[i].file, tr2[j].file)
    <3>1. tr2[i] = tr[i] /\ tr2[j] = tr[j] /\ i \in DOMAIN tr /\ j \in DOMAIN tr
      BY <1>0, <1>1, <1>5, Zenon
    <3>2. Reaches(tr[i].file, tr[j].file)
      BY <1>2, <2>2, <3>1, Zenon DEF TrailLeads
    <3>. QED  BY <3>1, <3>2, Zenon
  <2>. QED  BY <1>1, <2>1, <2>2, Zenon DEF TrailLeads
<1>11. Dealt(co2, tr2, rg)
  <2>. SUFFICES ASSUME NEW i \in 1..(k - 1), NEW v \in Graph[tr2[i].file] \ tr2[i].rest
                PROVE  co2[v] = 2 \/ OnRing(rg, v) \/ (i < k - 1 /\ v = tr2[i + 1].file)
    BY <1>1, Zenon DEF Dealt
  <2>1. i \in 1..k /\ tr2[i] = tr[i] /\ v \in Graph[tr[i].file] \ tr[i].rest /\ tr[i].file \in AllFiles
    BY <1>0, <1>1, <1>5, Zenon
  <2>2. co[v] = 2 \/ OnRing(rg, v) \/ (i < k /\ v = tr[i + 1].file)
    BY <1>0, <1>2, <2>1, Zenon DEF Dealt, k
  <2>3. v \in AllFiles
    BY <2>1, GraphIs, Zenon
  <2>4. co[v] = 2 => co2[v] = 2
    BY <1>3, <2>3, Zenon
  <2>5. CASE v = tr[i + 1].file
    <3>1. CASE i + 1 = k
      BY <1>1, <1>3, <2>5, <3>1, Zenon
    <3>2. CASE i + 1 # k
      BY <1>1, <1>5, <2>5, <3>2, Zenon
    <3>. QED  BY <3>1, <3>2, Zenon
  <2>. QED  BY <2>2, <2>4, <2>5, Zenon
<1>12. StartsLeft(st, co2)
  <2>1. 2 # 0
    OBVIOUS
  <2>. QED  BY <1>2, <1>3, <2>1, Zenon DEF StartsLeft
<1>13. WalkTypes(st, co2, tr2, rg)
  BY <1>1, <1>2, <1>3, Zenon DEF WalkTypes
<1>. QED  BY <1>2, <1>8, <1>9, <1>10, <1>11, <1>12, <1>13, Zenon DEF Walked

-----------------------------------------------------------------------------
(* The actions.                                                            *)

\* A step reads the same graph before and after: what holds of the new values in
\* it holds of the new state.
LEMMA WalkedNext ==
  ASSUME UNCHANGED <<edges, view>>, Walked(starts', color', trail', rings')
  PROVE  Walked(starts, color, trail, rings)'
<1>1. Graph' = Graph /\ Files' = Files
  BY Zenon DEF Graph, Kept, Adjacency, Files
<1>2. \A f, g : Reaches(f, g)' <=> Reaches(f, g)
  BY <1>1, Zenon DEF Reaches, ClosedFiles
<1>3. \A v : OnRing(rings, v)' <=> OnRing(rings', v)
  BY Zenon DEF OnRing
<1>4. WalkTypes(starts, color, trail, rings)' /\ OnTrail(color, trail)'
  BY Zenon DEF Walked, WalkTypes, OnTrail
<1>5. TrailLeads(trail)'
  BY <1>1, <1>2, Zenon DEF Walked, TrailLeads
<1>6. Dealt(color, trail, rings)'
  BY <1>1, <1>3, Zenon DEF Walked, Dealt
<1>7. DoneDealt(color, rings)'
  BY <1>1, <1>3, Zenon DEF Walked, DoneDealt
<1>8. TanglesMet(color, rings)'
  BY <1>1, <1>3, Zenon DEF Walked, TanglesMet
<1>9. RingsLead(rings)'
  BY <1>2, Zenon DEF Walked, RingsLead
<1>10. StartsLeft(starts, color)'
  BY <1>1, Zenon DEF Walked, StartsLeft
<1>. QED  BY <1>4, <1>5, <1>6, <1>7, <1>8, <1>9, <1>10, Zenon DEF Walked

\* A report that has not been given tells no lie, and one that stays stays true.
LEMMA ReportNext ==
  ASSUME DriftInv, UNCHANGED <<edges, view, answer>>, Walked(starts', color', trail', rings')
  PROVE  DriftInv'
<1>1. Graph' = Graph /\ Files' = Files
  BY Zenon DEF Graph, Kept, Adjacency, Files
<1>2. \A f, g : Reaches(f, g)' <=> Reaches(f, g)
  BY <1>1, Zenon DEF Reaches, ClosedFiles
<1>3. EveryTangleIsReported'
  BY <1>1, <1>2, Zenon DEF DriftInv, EveryTangleIsReported
<1>4. Walked(starts, color, trail, rings)'
  BY WalkedNext, Zenon
<1>5. (view \in Views)'
  BY Zenon DEF DriftInv
<1>. QED  BY <1>3, <1>4, <1>5, Zenon DEF DriftInv

\* dfs_cycle is called with a file that waits.
LEMMA VisitTakes ==
  ASSUME DriftInv, NEW f, Visits(f)
  PROVE  f \in AllFiles /\ TakesUp(f, starts, trail, StartsAfter(f), TrailAfter(f))
<1>0. view \in Views /\ Walked(starts, color, trail, rings) /\ starts \subseteq AllFiles
  BY Zenon DEF DriftInv, Walked, WalkTypes
<1>1. /\ trail \in Seq(Call) /\ Len(trail) \in Nat /\ DOMAIN trail = 1..Len(trail) /\ (trail # <<>> => Len(trail) # 0)
      /\ \A i \in 1..Len(trail) : trail[i] \in Call /\ trail[i].file \in AllFiles /\ trail[i].rest \subseteq AllFiles
  BY <1>0, TrailIs, Zenon
<1>2. AllFiles \subseteq Nat
  BY <1>0, GraphIs, Zenon
<1>3. trail # <<>> => Len(trail) \in 1..Len(trail)
  BY <1>1
<1>4. Waiting \subseteq AllFiles /\ Waiting # {}
  BY <1>0, <1>1, <1>3, Zenon DEF Waiting, Visits
<1>5. f \in Waiting
  <2>1. Waiting \in SUBSET Nat
    BY <1>2, <1>4, Zenon
  <2>. QED  BY <1>4, <2>1, LeastIs, Zenon DEF Visits
<1>6. CASE trail = <<>>
  <2>1. StartsAfter(f) = starts \ {f} /\ TrailAfter(f) = <<>> /\ f \in starts
    BY <1>5, <1>6, Zenon DEF StartsAfter, TrailAfter, Waiting
  <2>. QED  BY <1>4, <1>5, <1>6, <2>1, Zenon DEF TakesUp
<1>7. CASE trail # <<>>
  <2>. DEFINE k == Len(trail)
              tr2 == [trail EXCEPT ![k].rest = @ \ {f}]
  <2>1. StartsAfter(f) = starts /\ TrailAfter(f) = tr2 /\ f \in trail[k].rest
    BY <1>5, <1>7, Zenon DEF StartsAfter, TrailAfter, Waiting
  <2>2. k \in 1..k /\ trail[k] \in Call
    BY <1>1, <1>3, <1>7, Zenon
  <2>3. [trail[k] EXCEPT !.rest = @ \ {f}] \in Call
    BY <2>2, Zenon DEF Call
  <2>4. tr2 \in Seq(Call)
    BY <1>1, <2>2, <2>3
  <2>5. Len(tr2) = k
    BY <1>1, <2>4
  <2>6. trail[k].rest \ {f} = tr2[k].rest /\ tr2[k].file = trail[k].file
    BY <1>1, <2>2, Zenon DEF Call
  <2>7. \A i \in 1..k : i # k => tr2[i] = trail[i]
    BY <1>1, Zenon
  <2>8. \A i \in 1..k : tr2[i].file = trail[i].file /\ (i # k => tr2[i].rest = trail[i].rest)
    BY <2>6, <2>7, Zenon
  <2>. HIDE DEF tr2
  <2>. QED  BY <1>4, <1>5, <1>7, <2>1, <2>4, <2>5, <2>6, <2>8, Zenon DEF TakesUp
<1>. QED  BY <1>6, <1>7, Zenon

\* A file that is done is skipped.
LEMMA SkipFileInv ==
  ASSUME DriftInv, NEW f, SkipFile(f) PROVE DriftInv'
<1>0. view \in Views /\ Walked(starts, color, trail, rings)
  BY Zenon DEF DriftInv
<1>1. f \in AllFiles /\ TakesUp(f, starts, trail, StartsAfter(f), TrailAfter(f))
  BY VisitTakes, Zenon DEF SkipFile
<1>2. TakesUp(f, starts, trail, starts', trail') /\ color[f] = 2 /\ color' = color /\ rings' = rings
  BY <1>1, Zenon DEF SkipFile
<1>3. color[f] # 0
  BY <1>2
<1>4. Walked(starts', color, trail', rings)
  BY <1>0, <1>1, <1>2, <1>3, SkipKeeps, Zenon
<1>5. Walked(starts', color', trail', rings') /\ UNCHANGED <<edges, view, answer>>
  BY <1>2, <1>4, Zenon DEF SkipFile
<1>. QED  BY <1>5, ReportNext, Zenon

\* A ring is closed.
LEMMA CloseRingInv ==
  ASSUME DriftInv, NEW f, CloseRing(f) PROVE DriftInv'
<1>. DEFINE s == Least({i \in DOMAIN trail : trail[i].file = f})
            ring == [i \in 1..Len(trail) - s + 2 |->
                       IF i = Len(trail) - s + 2 THEN f ELSE trail[s + i - 1].file]
<1>0. view \in Views /\ Walked(starts, color, trail, rings)
  BY Zenon DEF DriftInv
<1>1. f \in AllFiles /\ TakesUp(f, starts, trail, StartsAfter(f), TrailAfter(f))
  BY VisitTakes, Zenon DEF CloseRing
<1>2. /\ TakesUp(f, starts, trail, starts', trail') /\ color[f] = 1 /\ color' = color
      /\ rings' = rings \cup {ring}
  BY <1>1, Zenon DEF CloseRing
<1>3. /\ Len(trail) \in Nat /\ DOMAIN trail = 1..Len(trail)
  BY <1>0, TrailIs, Zenon
<1>4. s \in 1..Len(trail) /\ trail[s].file = f
  <2>1. \E i \in DOMAIN trail : trail[i].file = f
    BY <1>0, <1>1, <1>2, Zenon DEF Walked, OnTrail
  <2>2. {i \in DOMAIN trail : trail[i].file = f} \in SUBSET Nat
    BY <1>3
  <2>3. s \in {i \in DOMAIN trail : trail[i].file = f}
    BY <2>1, <2>2, LeastIs, Zenon
  <2>. QED  BY <1>3, <2>3, Zenon
<1>5. RingFrom(f, trail, s, ring)
  BY <1>4, Zenon DEF RingFrom
<1>6. trail # <<>>
  BY <1>3, <1>4, EmptySeq
<1>7. f \in Graph[trail[Len(trail)].file]
  <2>1. TakenFrom(f, color, starts, trail, starts', trail')
    BY <1>0, <1>1, <1>2, TakenUp, ZenonT(30)
  <2>. QED  BY <1>6, <2>1, Zenon DEF TakenFrom
<1>. HIDE DEF s, ring
<1>8. /\ ring \in Seq(AllFiles) /\ ring # <<>> /\ \E i \in DOMAIN ring : ring[i] = f
      /\ \A i, j \in DOMAIN ring : Reaches(ring[i], ring[j])
  BY <1>0, <1>1, <1>5, <1>7, RingIs, ZenonT(30)
<1>9. Walked(starts, color, trail, rings')
  BY <1>0, <1>2, <1>8, RingKeeps, Zenon
<1>10. OnRing(rings', f) /\ color[f] # 0
  BY <1>2, <1>8 DEF OnRing
<1>11. Walked(starts', color, trail', rings')
  BY <1>0, <1>1, <1>2, <1>9, <1>10, SkipKeeps, Zenon
<1>12. Walked(starts', color', trail', rings') /\ UNCHANGED <<edges, view, answer>>
  BY <1>2, <1>11, Zenon DEF CloseRing
<1>. QED  BY <1>12, ReportNext, Zenon

\* A new file is entered.
LEMMA EnterFileInv ==
  ASSUME DriftInv, NEW f, EnterFile(f) PROVE DriftInv'
<1>. DEFINE tr2 == TrailAfter(f)
            call == [file |-> f, rest |-> Graph[f]]
<1>0. view \in Views /\ Walked(starts, color, trail, rings)
  BY Zenon DEF DriftInv
<1>1. f \in AllFiles /\ TakesUp(f, starts, trail, StartsAfter(f), TrailAfter(f))
  BY VisitTakes, Zenon DEF EnterFile
<1>2. /\ TakesUp(f, starts, trail, starts', tr2) /\ color[f] = 0 /\ rings' = rings
      /\ trail' = Append(tr2, call) /\ color' = [color EXCEPT ![f] = 1]
  BY <1>1, Zenon DEF EnterFile
<1>3. color \in [AllFiles -> {0, 1, 2}]
  BY <1>0, Zenon DEF Walked, WalkTypes
<1>4. Recolored(color, f, 1, color')
  BY <1>1, <1>2, <1>3, Zenon DEF Recolored
<1>5. tr2 \in Seq(Call)
  <2>1. TakenFrom(f, color, starts, trail, starts', tr2)
    BY <1>0, <1>1, <1>2, TakenUp, ZenonT(30)
  <2>. QED  BY <2>1, Zenon DEF TakenFrom
<1>6. call \in Call
  BY <1>0, <1>1, GraphIs, Zenon DEF Call
<1>7. call.file = f /\ call.rest = Graph[f]
  BY Zenon
<1>. HIDE DEF tr2, call
<1>8. PushedCall(f, tr2, trail')
  <2>1. /\ trail' \in Seq(Call) /\ Len(trail') = Len(tr2) + 1
        /\ \A i \in 1..Len(tr2) : trail'[i] = tr2[i]
    BY <1>2, <1>5, <1>6, AppendProperties
  <2>2. trail'[Len(tr2) + 1] = call /\ DOMAIN trail' = 1..Len(trail')
    BY <1>2, <1>5, <1>6, <2>1, AppendProperties, LenProperties
  <2>. QED  BY <1>7, <2>1, <2>2, Zenon DEF PushedCall
<1>9. Walked(starts', color', trail', rings)
  BY <1>0, <1>1, <1>2, <1>4, <1>8, EnterKeeps, ZenonT(30)
<1>10. Walked(starts', color', trail', rings') /\ UNCHANGED <<edges, view, answer>>
  BY <1>2, <1>9, Zenon DEF EnterFile
<1>. QED  BY <1>10, ReportNext, Zenon

\* A call returns.
LEMMA LeaveFileInv ==
  ASSUME DriftInv, LeaveFile PROVE DriftInv'
<1>. DEFINE k == Len(trail)
            u == trail[k].file
<1>0. view \in Views /\ Walked(starts, color, trail, rings)
  BY Zenon DEF DriftInv
<1>1. /\ trail \in Seq(Call) /\ k \in Nat /\ DOMAIN trail = 1..k /\ (trail # <<>> => k # 0)
      /\ \A i \in 1..k : trail[i] \in Call /\ trail[i].file \in AllFiles
  BY <1>0, TrailIs, Zenon
<1>2. /\ trail # <<>> /\ trail[k].rest = {} /\ trail' = SubSeq(trail, 1, k - 1)
      /\ color' = [color EXCEPT ![u] = 2] /\ rings' = rings /\ starts' = starts
  BY Zenon DEF LeaveFile
<1>3. color \in [AllFiles -> {0, 1, 2}]
  BY <1>0, Zenon DEF Walked, WalkTypes
<1>4. u \in AllFiles
  BY <1>1, <1>2
<1>5. Recolored(color, u, 2, color')
  BY <1>2, <1>3, <1>4, Zenon DEF Recolored
<1>. HIDE DEF k
<1>6. PoppedCall(u, trail, trail')
  <2>. DEFINE n == k - 1
  <2>1. n \in Nat /\ 1 \in Int /\ n \in Int /\ \A i \in 1..n : trail[i] \in Call
    BY <1>1, <1>2
  <2>2. /\ SubSeq(trail, 1, n) \in Seq(Call) /\ Len(SubSeq(trail, 1, n)) = IF 1 <= n THEN n - 1 + 1 ELSE 0
        /\ \A j \in 1..n - 1 + 1 : SubSeq(trail, 1, n)[j] = trail[1 + j - 1]
    <3>. HIDE DEF n
    <3>. QED  BY <2>1, SubSeqProperties
  <2>3. trail' \in Seq(Call) /\ Len(trail') = n /\ \A j \in 1..n : trail'[j] = trail[j]
    <3>1. trail' = SubSeq(trail, 1, n)
      BY <1>2, Zenon
    <3>. HIDE DEF n
    <3>. QED  BY <2>1, <2>2, <3>1
  <2>4. DOMAIN trail' = 1..n
    <3>. HIDE DEF n
    <3>. QED  BY <2>3, LenProperties, Zenon
  <2>. QED  BY <1>2, <2>3, <2>4, Zenon DEF PoppedCall, k
<1>. HIDE DEF u
<1>7. Walked(starts, color', trail', rings)
  BY <1>0, <1>5, <1>6, LeaveKeeps, Zenon
<1>8. Walked(starts', color', trail', rings') /\ UNCHANGED <<edges, view, answer>>
  BY <1>2, <1>7, Zenon DEF LeaveFile
<1>. QED  BY <1>8, ReportNext, Zenon

\* rotate_canonical neither drops nor adds a file.
LEMMA RotateSame ==
  ASSUME view \in Views, NEW ring \in Seq(AllFiles), ring # <<>>
  PROVE  /\ \A i \in DOMAIN RotateCanonical(ring) : \E j \in DOMAIN ring : RotateCanonical(ring)[i] = ring[j]
         /\ \A j \in DOMAIN ring : \E i \in DOMAIN RotateCanonical(ring) : RotateCanonical(ring)[i] = ring[j]
<1>. DEFINE n == Len(ring)
            M == {i \in DOMAIN ring : \A j \in DOMAIN ring : ring[i] <= ring[j]}
            k == Least(M)
            a == SubSeq(ring, k, n)
            b == SubSeq(ring, 1, k - 1)
            r == RotateCanonical(ring)
<1>1. n \in Nat /\ n # 0 /\ DOMAIN ring = 1..n /\ \A i \in 1..n : ring[i] \in AllFiles
  BY LenProperties, ElementOfSeq, EmptySeq, Zenon
<1>2. AllFiles \subseteq Nat
  BY GraphIs, Zenon
<1>3. k \in 1..n
  <2>. DEFINE V == {ring[i] : i \in 1..n}
  <2>1. V \in SUBSET Nat /\ V # {}
    <3>1. 1 \in 1..n
      BY <1>1
    <3>. QED  BY <1>1, <1>2, <3>1, Zenon
  <2>2. PICK v \in V : \A w \in V : v <= w
    <3>. HIDE DEF V
    <3>. QED  BY <2>1, FirstNumber, Zenon
  <2>3. PICK i \in 1..n : v = ring[i]
    BY <2>2, Zenon
  <2>4. M # {} /\ M \in SUBSET Nat /\ M \subseteq 1..n
    BY <1>1, <2>2, <2>3, SMTT(60)
  <2>5. k \in M
    <3>. HIDE DEF M
    <3>. QED  BY <2>4, LeastIs, Zenon
  <2>. QED  BY <2>4, <2>5, Zenon
<1>4. r = a \o b
  BY Zenon DEF RotateCanonical
<1>. HIDE DEF M, k, n, r
<1>5. k \in Int /\ n \in Int /\ 1 \in Int /\ k - 1 \in Int
  BY <1>1, <1>3
<1>6. a \in Seq(AllFiles) /\ Len(a) = n - k + 1 /\ \A i \in 1..(n - k + 1) : a[i] = ring[k + i - 1]
  <2>1. \A i \in k..n : ring[i] \in AllFiles
    BY <1>1, <1>3
  <2>2. /\ a \in Seq(AllFiles) /\ Len(a) = IF k <= n THEN n - k + 1 ELSE 0
        /\ \A i \in 1..n - k + 1 : a[i] = ring[k + i - 1]
    BY <1>5, <2>1, SubSeqProperties
  <2>. HIDE DEF a
  <2>. QED  BY <1>1, <1>3, <2>2
<1>7. b \in Seq(AllFiles) /\ Len(b) = k - 1 /\ \A i \in 1..(k - 1) : b[i] = ring[i]
  <2>. DEFINE m == k - 1
  <2>1. m \in Nat /\ m \in Int /\ \A i \in 1..m : ring[i] \in AllFiles
    BY <1>1, <1>3
  <2>2. /\ SubSeq(ring, 1, m) \in Seq(AllFiles) /\ Len(SubSeq(ring, 1, m)) = IF 1 <= m THEN m - 1 + 1 ELSE 0
        /\ \A i \in 1..m - 1 + 1 : SubSeq(ring, 1, m)[i] = ring[1 + i - 1]
    <3>. HIDE DEF m
    <3>. QED  BY <1>5, <2>1, SubSeqProperties
  <2>3. Len(SubSeq(ring, 1, m)) = m /\ \A i \in 1..m : SubSeq(ring, 1, m)[i] = ring[i]
    <3>. HIDE DEF m
    <3>. QED  BY <2>1, <2>2
  <2>. QED  BY <2>2, <2>3, Zenon
<1>. HIDE DEF a, b
<1>8. /\ Len(r) = Len(a) + Len(b) /\ DOMAIN r = 1..Len(r) /\ r \in Seq(AllFiles)
      /\ \A i \in 1..Len(a) + Len(b) : r[i] = IF i <= Len(a) THEN a[i] ELSE b[i - Len(a)]
  BY <1>4, <1>6, <1>7, ConcatProperties, LenProperties, Zenon
<1>9. Len(r) = n /\ DOMAIN r = 1..n
  BY <1>1, <1>3, <1>6, <1>7, <1>8
<1>10. \A i \in 1..n : r[i] = IF i <= n - k + 1 THEN ring[k + i - 1] ELSE ring[i - (n - k + 1)]
  <2>. SUFFICES ASSUME NEW i \in 1..n
                PROVE  r[i] = IF i <= n - k + 1 THEN ring[k + i - 1] ELSE ring[i - (n - k + 1)]
    BY Zenon
  <2>1. i \in 1..Len(a) + Len(b)
    BY <1>1, <1>3, <1>6, <1>7
  <2>2. r[i] = IF i <= n - k + 1 THEN a[i] ELSE b[i - (n - k + 1)]
    BY <1>6, <1>8, <2>1, Zenon
  <2>3. CASE i <= n - k + 1
    <3>1. i \in 1..(n - k + 1)
      BY <1>1, <1>3, <2>3
    <3>. QED  BY <1>6, <2>2, <2>3, <3>1, Zenon
  <2>4. CASE ~(i <= n - k + 1)
    <3>1. i - (n - k + 1) \in 1..(k - 1)
      BY <1>1, <1>3, <2>4
    <3>. QED  BY <1>7, <2>2, <2>4, <3>1, Zenon
  <2>. QED  BY <2>3, <2>4, Zenon
<1>11. ASSUME NEW i \in 1..n PROVE \E j \in 1..n : r[i] = ring[j]
  <2>1. CASE i <= n - k + 1
    <3>1. k + i - 1 \in 1..n
      BY <1>1, <1>3, <2>1
    <3>. QED  BY <1>10, <2>1, <3>1, Zenon
  <2>2. CASE ~(i <= n - k + 1)
    <3>1. i - (n - k + 1) \in 1..n
      BY <1>1, <1>3, <2>2
    <3>. QED  BY <1>10, <2>2, <3>1, Zenon
  <2>. QED  BY <2>1, <2>2, Zenon
<1>12. ASSUME NEW j \in 1..n PROVE \E i \in 1..n : r[i] = ring[j]
  <2>1. CASE k <= j
    <3>. DEFINE i == j - k + 1
    <3>1. i \in 1..n /\ i <= n - k + 1 /\ k + i - 1 = j
      BY <1>1, <1>3, <2>1
    <3>. HIDE DEF i
    <3>. QED  BY <1>10, <3>1, Zenon
  <2>2. CASE ~(k <= j)
    <3>. DEFINE i == j + (n - k + 1)
    <3>1. i \in 1..n /\ ~(i <= n - k + 1) /\ i - (n - k + 1) = j
      BY <1>1, <1>3, <2>2
    <3>. HIDE DEF i
    <3>. QED  BY <1>10, <3>1, Zenon
  <2>. QED  BY <2>1, <2>2, Zenon
<1>. QED  BY <1>1, <1>9, <1>11, <1>12, Zenon DEF r

\* When the search is over, every file that depends on itself has a file on a ring
\* in its tangle.
LEMMA SearchedAll ==
  ASSUME view \in Views, NEW co, NEW rg, Walked({}, co, <<>>, rg),
         NEW f \in Files, Reaches(f, f)
  PROVE  \E t \in AllFiles : OnRing(rg, t) /\ Reaches(f, t) /\ Reaches(t, f)
<1>. DEFINE T == {g \in AllFiles : Reaches(f, g) /\ Reaches(g, f)}
<1>0. f \in AllFiles /\ \A g \in AllFiles : Graph[g] \subseteq AllFiles
  BY GraphIs, Zenon
<1>1. T \in SUBSET AllFiles /\ f \in T /\ T # {}
  BY <1>0, Zenon
<1>2. ASSUME NEW t \in T PROVE Graph[t] \cap T # {}
  <2>1. t \in AllFiles /\ Reaches(f, t) /\ Reaches(t, f)
    BY Zenon
  <2>2. PICK h \in Graph[t] : h = f \/ Reaches(h, f)
    BY <1>0, <2>1, ReachesFirst, Zenon
  <2>3. h \in AllFiles /\ Reaches(t, h)
    BY <1>0, <2>1, ReachesOver, Zenon
  <2>4. Reaches(f, h)
    BY <1>0, <2>1, <2>3, ReachesOn, Zenon
  <2>5. Reaches(h, f)
    BY <2>2, Zenon
  <2>. QED  BY <2>2, <2>3, <2>4, <2>5, Zenon
<1>3. ASSUME NEW t \in T PROVE co[t] = 2
  <2>1. t \in AllFiles /\ Graph[t] # {}
    BY <1>2, Zenon
  <2>2. co[t] # 0
    BY <2>1, Zenon DEF Walked, StartsLeft
  <2>3. co[t] # 1
    BY <2>1 DEF Walked, OnTrail
  <2>4. co \in [AllFiles -> {0, 1, 2}]
    BY Zenon DEF Walked, WalkTypes
  <2>. QED  BY <2>1, <2>2, <2>3, <2>4, Zenon
<1>4. \E t \in T : OnRing(rg, t)
  <2>1. TanglesMet(co, rg)
    BY Zenon DEF Walked
  <2>2. \A t \in T : co[t] = 2 /\ Graph[t] \cap T # {}
    BY <1>2, <1>3, Zenon
  <2>. HIDE DEF T
  <2>. QED  BY <1>1, <2>1, <2>2, Zenon DEF TanglesMet
<1>. QED  BY <1>4, Zenon

\* The report is made of the rings.
LEMMA ReportInv ==
  ASSUME DriftInv, Report PROVE DriftInv'
<1>0. view \in Views /\ Walked(starts, color, trail, rings)
  BY Zenon DEF DriftInv
<1>1. /\ trail = <<>> /\ starts = {} /\ answer'.cycles = {RotateCanonical(ring) : ring \in rings}
      /\ UNCHANGED <<edges, view, starts, color, trail, rings>>
  BY Zenon DEF Report
<1>2. Graph' = Graph /\ Files' = Files
  BY <1>1, Zenon DEF Graph, Kept, Adjacency, Files
<1>3. \A f, g : Reaches(f, g)' <=> Reaches(f, g)
  BY <1>2, Zenon DEF Reaches, ClosedFiles
<1>4. rings \subseteq Seq(AllFiles) /\ RingsLead(rings)
  BY <1>0, Zenon DEF Walked, WalkTypes
<1>5. ASSUME NEW ring \in rings
      PROVE  /\ \A i \in DOMAIN RotateCanonical(ring) : \E j \in DOMAIN ring : RotateCanonical(ring)[i] = ring[j]
             /\ \A j \in DOMAIN ring : \E i \in DOMAIN RotateCanonical(ring) : RotateCanonical(ring)[i] = ring[j]
  <2>1. ring \in Seq(AllFiles) /\ ring # <<>>
    BY <1>4, Zenon DEF RingsLead
  <2>. QED  BY <1>0, <2>1, RotateSame, Zenon
<1>6. ASSUME NEW f \in Files, Reaches(f, f)
      PROVE  \E c \in answer'.cycles : \E i \in DOMAIN c : Reaches(f, c[i]) /\ Reaches(c[i], f)
  <2>1. Walked({}, color, <<>>, rings)
    BY <1>0, <1>1, Zenon
  <2>2. PICK t \in AllFiles : OnRing(rings, t) /\ Reaches(f, t) /\ Reaches(t, f)
    BY <1>0, <1>6, <2>1, SearchedAll, Zenon
  <2>3. PICK ring \in rings : \E j \in DOMAIN ring : ring[j] = t
    BY <2>2, Zenon DEF OnRing
  <2>4. PICK i \in DOMAIN RotateCanonical(ring) : RotateCanonical(ring)[i] = t
    <3>1. \A j \in DOMAIN ring : \E i \in DOMAIN RotateCanonical(ring) : RotateCanonical(ring)[i] = ring[j]
      BY <1>5, Zenon
    <3>. QED  BY <2>3, <3>1, Zenon
  <2>5. RotateCanonical(ring) \in answer'.cycles
    BY <1>1, Zenon
  <2>. QED  BY <2>2, <2>4, <2>5, Zenon
<1>7. ASSUME NEW c \in answer'.cycles, NEW i \in DOMAIN c, NEW j \in DOMAIN c PROVE Reaches(c[i], c[j])
  <2>1. PICK ring \in rings : c = RotateCanonical(ring)
    BY <1>1, Zenon
  <2>2. PICK a \in DOMAIN ring : c[i] = ring[a]
    BY <1>5, <2>1, Zenon
  <2>3. PICK b \in DOMAIN ring : c[j] = ring[b]
    BY <1>5, <2>1, Zenon
  <2>4. Reaches(ring[a], ring[b])
    BY <1>4, Zenon DEF RingsLead
  <2>. QED  BY <2>2, <2>3, <2>4, Zenon
<1>8. EveryTangleIsReported'
  BY <1>2, <1>3, <1>6, <1>7, Zenon DEF EveryTangleIsReported
<1>9. Walked(starts, color, trail, rings)'
  <2>1. Walked(starts', color', trail', rings') /\ UNCHANGED <<edges, view>>
    BY <1>0, <1>1, Zenon
  <2>. QED  BY <2>1, WalkedNext, Zenon
<1>10. (view \in Views)'
  BY <1>0, <1>1, Zenon
<1>. QED  BY <1>8, <1>9, <1>10, Zenon DEF DriftInv

\* Before the search nothing is on the stack and every file with a successor waits.
LEMMA DriftInitInv == DriftInit => DriftInv
<1>. SUFFICES ASSUME DriftInit PROVE DriftInv
  BY Zenon
<1>1. /\ view \in Views /\ starts = {f \in AllFiles : Graph[f] # {}} /\ color = [f \in AllFiles |-> 0]
      /\ trail = <<>> /\ rings = {} /\ answer = NotAsked
  <2>1. view \in Views
    BY Zenon DEF DriftInit
  <2>2. DOMAIN Graph = AllFiles
    BY <2>1, GraphIs, Zenon
  <2>. QED  BY <2>2, Zenon DEF DriftInit, Starts
<1>2. \A f \in AllFiles : color[f] = 0 /\ color[f] # 1 /\ color[f] # 2
  BY <1>1
<1>3. trail \in Seq(Call) /\ DOMAIN trail = {}
  BY <1>1
<1>4. WalkTypes(starts, color, trail, rings)
  BY <1>1, <1>3, Zenon DEF WalkTypes
<1>5. OnTrail(color, trail) /\ TrailLeads(trail) /\ Dealt(color, trail, rings)
  BY <1>2, <1>3, Zenon DEF OnTrail, TrailLeads, Dealt
<1>6. DoneDealt(color, rings)
  BY <1>2, Zenon DEF DoneDealt
<1>7. TanglesMet(color, rings)
  <2>. SUFFICES ASSUME NEW T \in SUBSET AllFiles, T # {}, \A t \in T : color[t] = 2 PROVE FALSE
    BY Zenon DEF TanglesMet
  <2>. QED  BY <1>2, Zenon
<1>8. RingsLead(rings) /\ StartsLeft(starts, color)
  BY <1>1, Zenon DEF RingsLead, StartsLeft
<1>9. EveryTangleIsReported
  BY <1>1, Zenon DEF EveryTangleIsReported, NotAsked
<1>. QED  BY <1>1, <1>4, <1>5, <1>6, <1>7, <1>8, <1>9, Zenon DEF DriftInv, Walked

\* find_cycles and dfs_cycle (policy.rs:155, :179): however the files depend on each
\* other, whatever an identity may see, every tangle of mutually dependent files has
\* a ring in the report and every ring stays in one tangle, although the search looks
\* at each file once.
THEOREM TanglesAlwaysReported == DriftSpec => []EveryTangleIsReported
<1>1. DriftInv /\ [Drift]_driftVars => DriftInv'
  <2>. SUFFICES ASSUME DriftInv, [Drift]_driftVars PROVE DriftInv'
    BY Zenon
  <2>1. CASE \E f \in DOMAIN Graph : CloseRing(f)
    BY <2>1, CloseRingInv, Zenon
  <2>2. CASE \E f \in DOMAIN Graph : SkipFile(f)
    BY <2>2, SkipFileInv, Zenon
  <2>3. CASE \E f \in DOMAIN Graph : EnterFile(f)
    BY <2>3, EnterFileInv, Zenon
  <2>4. CASE LeaveFile
    BY <2>4, LeaveFileInv, Zenon
  <2>5. CASE Report
    BY <2>5, ReportInv, Zenon
  <2>6. CASE UNCHANGED driftVars
    <3>1. /\ starts' = starts /\ color' = color /\ trail' = trail /\ rings' = rings
          /\ UNCHANGED <<edges, view, answer>>
      BY <2>6, Zenon DEF driftVars
    <3>2. Walked(starts', color', trail', rings')
      BY <3>1, Zenon DEF DriftInv
    <3>. QED  BY <3>1, <3>2, ReportNext, Zenon
  <2>. QED  BY <2>1, <2>2, <2>3, <2>4, <2>5, <2>6, Zenon DEF Drift
<1>2. DriftInv => EveryTangleIsReported
  BY Zenon DEF DriftInv
<1>. QED  BY <1>1, <1>2, DriftInitInv, PTL DEF DriftSpec
==============================================================================
