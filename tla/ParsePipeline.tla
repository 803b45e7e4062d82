---------------------------- MODULE ParsePipeline ----------------------------
(***************************************************************************)
(* The two-thread parse/write pipeline every index pass runs through       *)
(* (parse_files_bounded, weave-graph-cli/src/index.rs).  A producer thread *)
(* parses the file list chunk by chunk and sends each mapped chunk through *)
(* a sync_channel(1); the calling thread receives the chunks and folds     *)
(* every parsed file into the single SQLite writer.  Both threads live in  *)
(* a std::thread::scope, so the call returns only after the producer has   *)
(* ended, and the receiver rx lives in the caller's frame until then.      *)
(*                                                                         *)
(* Files are their positions 1..NFiles in the discovered order.  A chunk   *)
(* is the interval of positions it holds.                                  *)
(***************************************************************************)
EXTENDS Integers, Sequences, Functions

CONSTANTS NFiles,      \* how many files the pass was given
          ParseChunk   \* AdmissionBudget.parse_chunk

ASSUME PipelineAssumption == NFiles \in Nat /\ ParseChunk \in Nat

VARIABLES
  parses,    \* the files that read and parse; the others are skipped
  rejects,   \* the files whose fold returns Err
  next,      \* producer: first file not yet given to parse_chunk_mapped
  held,      \* producer: the mapped chunk it is about to send, or NoChunk
  producer,  \* "parse", "send" or "done"
  channel,   \* the sync_channel's buffer
  rxOpen,    \* FALSE once rx is dropped
  current,   \* consumer: what is left of the chunk being folded
  consumer,  \* "recv", "fold", "join" or "done"
  failure,   \* the file whose fold failed, or 0
  folded     \* history: the files folded, in order

vars == <<parses, rejects, next, held, producer, channel, rxOpen, current,
          consumer, failure, folded>>

producerVars == <<next, held, producer>>
consumerVars == <<current, consumer, failure, folded>>

File == 1..NFiles
NoChunk == [lo |-> 1, hi |-> 0]
Chunk == [lo : 1..(NFiles + 1), hi : 0..NFiles]

\* mpsc::sync_channel::<..>(1)
ChannelBound == 1

\* files.chunks(parse_chunk.max(1)): the chunk that starts at file i.
ChunkSize == IF ParseChunk < 1 THEN 1 ELSE ParseChunk
ChunkAt(i) ==
  [lo |-> i,
   hi |-> IF i + ChunkSize - 1 < NFiles THEN i + ChunkSize - 1 ELSE NFiles]

Init ==
  /\ parses \in SUBSET File
  /\ rejects \in SUBSET parses
  /\ next = 1
  /\ held = NoChunk
  /\ producer = "parse"
  /\ channel = <<>>
  /\ rxOpen = TRUE
  /\ current = NoChunk
  /\ consumer = "recv"
  /\ failure = 0
  /\ folded = <<>>

-----------------------------------------------------------------------------
(* The producer thread.                                                    *)

\* parse_chunk_mapped on the next chunk of the file list.
ParseChunkMapped ==
  /\ producer = "parse"
  /\ next <= NFiles
  /\ held' = ChunkAt(next)
  /\ next' = ChunkAt(next).hi + 1
  /\ producer' = "send"
  /\ UNCHANGED <<parses, rejects, channel, rxOpen>>
  /\ UNCHANGED consumerVars

\* A faulty form: the buffer takes one chunk more than its bound.
SendOverBound ==
  /\ producer = "send"
  /\ ~rxOpen \/ Len(channel) <= ChannelBound
  /\ held' = NoChunk
  /\ channel' = IF rxOpen THEN Append(channel, held) ELSE channel
  /\ producer' = IF rxOpen THEN "parse" ELSE "done"
  /\ UNCHANGED <<parses, rejects, next, rxOpen>>
  /\ UNCHANGED consumerVars

\* tx.send blocks while the buffer is full and the receiver exists, and
\* returns Err (break) once rx is dropped.
Send ==
  /\ producer = "send"
  /\ ~rxOpen \/ Len(channel) < ChannelBound
  /\ held' = NoChunk
  /\ channel' = IF rxOpen THEN Append(channel, held) ELSE channel
  /\ producer' = IF rxOpen THEN "parse" ELSE "done"
  /\ UNCHANGED <<parses, rejects, next, rxOpen>>
  /\ UNCHANGED consumerVars

\* The chunk iterator is exhausted: the closure returns and drops tx.
ProducerEnds ==
  /\ producer = "parse"
  /\ next > NFiles
  /\ producer' = "done"
  /\ UNCHANGED <<parses, rejects, next, held, channel, rxOpen>>
  /\ UNCHANGED consumerVars

-----------------------------------------------------------------------------
(* The calling thread.                                                     *)

\* for mapped in &rx: take the oldest chunk.
Receive ==
  /\ consumer = "recv"
  /\ channel # <<>>
  /\ current' = Head(channel)
  /\ channel' = Tail(channel)
  /\ consumer' = "fold"
  /\ UNCHANGED <<parses, rejects, rxOpen, failure, folded>>
  /\ UNCHANGED producerVars

\* A faulty form: fold runs on after a failure in the same chunk.
FoldFileAfterFailure ==
  /\ consumer = "fold"
  /\ current.lo <= current.hi
  /\ current' = [current EXCEPT !.lo = @ + 1]
  /\ IF current.lo \in parses
       THEN IF current.lo \in rejects
              THEN failure' = current.lo /\ UNCHANGED folded
              ELSE folded' = Append(folded, current.lo) /\ UNCHANGED failure
       ELSE UNCHANGED <<failure, folded>>
  /\ UNCHANGED <<parses, rejects, channel, rxOpen, consumer>>
  /\ UNCHANGED producerVars

\* One entry of the chunk: an unparsed file, and every file after a failure,
\* is passed over; otherwise fold runs and may fail.
FoldFile ==
  /\ consumer = "fold"
  /\ current.lo <= current.hi
  /\ current' = [current EXCEPT !.lo = @ + 1]
  /\ IF current.lo \in parses /\ failure = 0
       THEN IF current.lo \in rejects
              THEN failure' = current.lo /\ UNCHANGED folded
              ELSE folded' = Append(folded, current.lo) /\ UNCHANGED failure
       ELSE UNCHANGED <<failure, folded>>
  /\ UNCHANGED <<parses, rejects, channel, rxOpen, consumer>>
  /\ UNCHANGED producerVars

\* The chunk is folded: break after a failure, otherwise receive again.
ChunkFolded ==
  /\ consumer = "fold"
  /\ current.lo > current.hi
  /\ consumer' = IF failure # 0 THEN "join" ELSE "recv"
  /\ current' = NoChunk
  /\ UNCHANGED <<parses, rejects, channel, rxOpen, failure, folded>>
  /\ UNCHANGED producerVars

\* A faulty form: without `move` the caller's frame still owns tx, and the
\* channel closes only when the call has returned.
ChannelClosedWithoutMove ==
  /\ consumer = "recv"
  /\ channel = <<>>
  /\ ~rxOpen
  /\ consumer' = "join"
  /\ UNCHANGED <<parses, rejects, channel, rxOpen, current, failure, folded>>
  /\ UNCHANGED producerVars

\* The channel is closed and drained: the iterator ends.
ChannelClosed ==
  /\ consumer = "recv"
  /\ channel = <<>>
  /\ producer = "done"
  /\ consumer' = "join"
  /\ UNCHANGED <<parses, rejects, channel, rxOpen, current, failure, folded>>
  /\ UNCHANGED producerVars

\* thread::scope joins the producer, then the frame drops rx.
Return ==
  /\ consumer = "join"
  /\ producer = "done"
  /\ consumer' = "done"
  /\ rxOpen' = FALSE
  /\ UNCHANGED <<parses, rejects, channel, current, failure, folded>>
  /\ UNCHANGED producerVars

-----------------------------------------------------------------------------

Producer == ParseChunkMapped \/ Send \/ ProducerEnds
Consumer == Receive \/ FoldFile \/ ChunkFolded \/ ChannelClosed \/ Return

\* The call has returned.
Finished == consumer = "done" /\ UNCHANGED vars

Next == Producer \/ Consumer \/ Finished

Spec == Init /\ [][Next]_vars

\* Both threads keep running whenever they can: neither waits for anything
\* but the channel and the join.
FairSpec == Spec /\ WF_vars(Producer) /\ WF_vars(Consumer)

-----------------------------------------------------------------------------
(* Properties.                                                             *)

\* Type invariant: the buffer holds at most ChannelBound chunks.
TypeOK ==
  /\ parses \subseteq File
  /\ rejects \subseteq parses
  /\ next \in 1..(NFiles + 1)
  /\ held \in Chunk
  /\ producer \in {"parse", "send", "done"}
  /\ channel \in Seq(Chunk) /\ Len(channel) <= ChannelBound
  /\ rxOpen \in BOOLEAN
  /\ current \in [lo : 1..(NFiles + 1), hi : 0..NFiles]
  /\ consumer \in {"recv", "fold", "join", "done"}
  /\ failure \in 0..NFiles
  /\ folded \in Seq(File)

\* Overlapping the parse with the writes never reorders or repeats a file:
\* fold sees the files in the order of the file list (the doc comment's
\* "file processing order never changes").
FoldsInOrder ==
  \A i, j \in DOMAIN folded : i < j => folded[i] < folded[j]

\* When the receive loop ends, every file that parsed was folded, or, after
\* a fold error, exactly those that precede the failing file: the loop
\* neither drops a chunk that was in flight nor folds past the first error.
FoldsExactlyThePrefix ==
  consumer \in {"join", "done"} =>
    Range(folded) = {f \in parses : failure = 0 \/ f < failure}

Chunks(c) == IF c.lo <= c.hi THEN 1 ELSE 0
ChunksAhead == Len(channel) + Chunks(held)

\* While a chunk is being folded at most two later chunks are in memory: one
\* in the buffer and one the producer holds while its send blocks.
AtMostTwoAhead == ChunksAhead <= 2

ChunkNo(f) == (f - 1) \div ChunkSize

\* At most one chunk follows the chunk of the first file whose fold fails.
FewChunksFollow ==
  \A f \in rejects : (\A g \in rejects : f <= g) =>
     ChunkNo(NFiles) <= ChunkNo(f) + 1

\* The call returns when no fold fails, and also when one does but at most
\* one chunk is left behind it: the channel closes because the producer owns
\* tx alone.
ReturnsWhenFewChunksFollow == FewChunksFollow => <>(consumer = "done")

\* The comment on the break: dropping rx makes "the producer's next `send`
\* fail fast instead of blocking on a full channel forever", so the call
\* always returns.
AlwaysReturns == <>(consumer = "done")
=============================================================================
