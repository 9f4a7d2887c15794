---------------------------- MODULE PipeRefines -----------------------------
(***************************************************************************)
(* Pipe implements AudioQueue: the queue is what the chunks of the ring    *)
(* hold, one after the other from buffer_ridx on.                          *)
(***************************************************************************)
EXTENDS Pipe, SequencesExt

(* The ring has a largest size (player_set_buffer_chunks: 30 chunks).      *)
ASSUME RefinesAssumption == \E most \in NrChunks : \A nr \in NrChunks : nr <= most

(* The bytes of a chunk that were filled in and not consumed yet.          *)
ChunkBytes(c) ==
    [i \in 1 .. chunk_h[c] - chunk_l[c] |-> chunk_data[c][chunk_l[c] + i - 1]]

(* The chunks in the order in which the consumer gets to them.             *)
Contents ==
    IF heap # "live" THEN << >>
    ELSE FlattenSeq([i \in 1 .. buffer_nr_chunks |->
                       ChunkBytes((buffer_ridx + i - 1) % buffer_nr_chunks)])

Queue == INSTANCE AudioQueue WITH
    queue <- Contents,
    next <- produced,
    Capacity <- CHUNK_SIZE * Max(NrChunks),
    MaxPut <- CHUNK_SIZE

(* The ring buffer under its producer, its consumer and the commands does  *)
(* nothing a queue of bytes could not do.                                  *)
ImplementsQueue == Queue!Spec

=============================================================================
