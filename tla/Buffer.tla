------------------------------- MODULE Buffer -------------------------------
(***************************************************************************)
(* The PCM ring buffer of buffer.c: buffer_nr_chunks chunks of CHUNK_SIZE  *)
(* bytes between the producer (input plugin) and the consumer (output      *)
(* plugin).  Every function of buffer.c holds buffer_mutex from start to   *)
(* end, except buffer_init, so each of them is one step here; buffer_init  *)
(* is the sequence BufferFree, BufferAlloc, BufferReset.                   *)
(*                                                                         *)
(* A byte is represented by its number in the stream the input delivered,  *)
(* so that loss, duplication and reordering are visible.                   *)
(***************************************************************************)
EXTENDS Integers

CONSTANTS
    CHUNK_SIZE,   \* bytes in a chunk (64 KiB in the code)
    MIN_FREE,     \* a chunk with fewer free bytes is closed (1024 in the code)
    NrChunks      \* values buffer_nr_chunks may take (3..30 in the code)

ASSUME BufferAssumption ==
    /\ CHUNK_SIZE \in Nat /\ MIN_FREE \in Nat
    /\ 1 <= MIN_FREE /\ MIN_FREE <= CHUNK_SIZE
    /\ NrChunks \subseteq Nat \ {0, 1}

VARIABLES
    buffer_nr_chunks,
    buffer_ridx,      \* chunk the consumer reads next
    buffer_widx,      \* chunk the producer writes next
    heap,             \* "live", "freed" or "raw" (allocated, not yet reset)
    chunk_l,          \* per chunk: first filled byte
    chunk_h,          \* per chunk: last filled byte + 1
    chunk_filled,     \* per chunk: TRUE: consumer's, FALSE: producer's
    chunk_data        \* per chunk: the stream numbers of the bytes stored

bufferVars == << buffer_nr_chunks, buffer_ridx, buffer_widx, heap,
                 chunk_l, chunk_h, chunk_filled, chunk_data >>

Chunks == DOMAIN chunk_filled
Bytes  == 0 .. CHUNK_SIZE - 1

(* buffer_ridx and buffer_widx go round the ring.                          *)
NextChunk(c) == (c + 1) % buffer_nr_chunks

(* buffer_get_rpos: bytes available at the read position, 0 if the chunk   *)
(* still belongs to the producer.                                          *)
buffer_get_rpos ==
    IF chunk_filled[buffer_ridx]
    THEN chunk_h[buffer_ridx] - chunk_l[buffer_ridx]
    ELSE 0

(* buffer_get_wpos: room at the write position, 0 if the buffer is full.   *)
buffer_get_wpos ==
    IF chunk_filled[buffer_widx] THEN 0 ELSE CHUNK_SIZE - chunk_h[buffer_widx]

(* buffer_get_filled_chunks: the indices tell, unless they are equal.      *)
buffer_get_filled_chunks ==
    IF buffer_ridx < buffer_widx THEN buffer_widx - buffer_ridx
    ELSE IF buffer_ridx > buffer_widx THEN buffer_nr_chunks - buffer_ridx + buffer_widx
    ELSE IF chunk_filled[buffer_ridx] THEN buffer_nr_chunks ELSE 0

(* A buffer_fill that closes a chunk only when it is full to the last byte. *)
BufferFillToTheBrim(count) ==
    LET w == buffer_widx
        h == chunk_h[w] + count
        closed == h = CHUNK_SIZE \/ (count = 0 /\ h > 0)
    IN  /\ chunk_h' = [chunk_h EXCEPT ![w] = h]
        /\ chunk_filled' = [chunk_filled EXCEPT ![w] = closed]
        /\ buffer_widx' = IF closed THEN NextChunk(w) ELSE w
        /\ UNCHANGED << buffer_nr_chunks, buffer_ridx, heap, chunk_l >>

(* A buffer_fill that keeps a last, partly filled chunk back.              *)
BufferFillKeepsLast(count) ==
    LET w == buffer_widx
        h == chunk_h[w] + count
        closed == CHUNK_SIZE - h < MIN_FREE
    IN  /\ chunk_h' = [chunk_h EXCEPT ![w] = h]
        /\ chunk_filled' = [chunk_filled EXCEPT ![w] = closed]
        /\ buffer_widx' = IF closed THEN NextChunk(w) ELSE w
        /\ UNCHANGED << buffer_nr_chunks, buffer_ridx, heap, chunk_l >>

(* buffer_fill(count): hand the chunk to the consumer when fewer than      *)
(* MIN_FREE bytes are free, or at end of file (count = 0) if it holds any. *)
(* (chunk_data is the caller's: the plugin has stored the bytes already.)  *)
BufferFill(count) ==
    LET w == buffer_widx
        h == chunk_h[w] + count
        closed == CHUNK_SIZE - h < MIN_FREE \/ (count = 0 /\ h > 0)
    IN  /\ chunk_h' = [chunk_h EXCEPT ![w] = h]
        /\ chunk_filled' = [chunk_filled EXCEPT ![w] = closed]
        /\ buffer_widx' = IF closed THEN NextChunk(w) ELSE w
        /\ UNCHANGED << buffer_nr_chunks, buffer_ridx, heap, chunk_l >>

(* A buffer_consume that goes on to the next chunk every time.             *)
BufferConsumeAdvances(count) ==
    LET r == buffer_ridx
        l == chunk_l[r] + count
        empty == l = chunk_h[r]
    IN  /\ chunk_l' = [chunk_l EXCEPT ![r] = IF empty THEN 0 ELSE l]
        /\ chunk_h' = [chunk_h EXCEPT ![r] = IF empty THEN 0 ELSE @]
        /\ chunk_filled' = [chunk_filled EXCEPT ![r] = ~empty]
        /\ buffer_ridx' = NextChunk(r)
        /\ UNCHANGED << buffer_nr_chunks, buffer_widx, heap, chunk_data >>

(* buffer_consume(count): give the chunk back once all of it is consumed.  *)
BufferConsume(count) ==
    LET r == buffer_ridx
        l == chunk_l[r] + count
        empty == l = chunk_h[r]
    IN  /\ chunk_l' = [chunk_l EXCEPT ![r] = IF empty THEN 0 ELSE l]
        /\ chunk_h' = [chunk_h EXCEPT ![r] = IF empty THEN 0 ELSE @]
        /\ chunk_filled' = [chunk_filled EXCEPT ![r] = ~empty]
        /\ buffer_ridx' = IF empty THEN NextChunk(r) ELSE r
        /\ UNCHANGED << buffer_nr_chunks, buffer_widx, heap, chunk_data >>

(* buffer_reset *)
BufferReset ==
    /\ buffer_ridx' = 0
    /\ buffer_widx' = 0
    /\ chunk_l' = [c \in 0 .. buffer_nr_chunks - 1 |-> 0]
    /\ chunk_h' = [c \in 0 .. buffer_nr_chunks - 1 |-> 0]
    /\ chunk_filled' = [c \in 0 .. buffer_nr_chunks - 1 |-> FALSE]
    /\ heap' = "live"
    /\ UNCHANGED << buffer_nr_chunks, chunk_data >>

(* player_set_buffer_chunks assigns buffer_nr_chunks and calls             *)
(* buffer_init, whose first statement is free(buffer_chunks).  The ring    *)
(* was reset before, so both indices are 0 and nothing can tell the two    *)
(* statements apart.                                                       *)
BufferFree(nr) ==
    /\ buffer_nr_chunks' = nr
    /\ heap' = "freed"
    /\ UNCHANGED << buffer_ridx, buffer_widx,
                    chunk_l, chunk_h, chunk_filled, chunk_data >>

(* buffer_init, second statement: the new chunks hold whatever was in      *)
(* memory.  The filled flag is the only field anyone may look at before    *)
(* buffer_reset, so it is the one left undetermined.                       *)
BufferAlloc ==
    LET new == 0 .. buffer_nr_chunks - 1
    IN  /\ heap' = "raw"
        /\ chunk_filled' \in [new -> BOOLEAN]
        /\ chunk_l' = [c \in new |-> 0]
        /\ chunk_h' = [c \in new |-> 0]
        /\ chunk_data' = [c \in new |-> [b \in Bytes |-> 0]]
        /\ UNCHANGED << buffer_nr_chunks, buffer_ridx, buffer_widx >>

(* The plugin stores count bytes, numbered from first, at the write        *)
(* position wpos = <<chunk, offset>> it was given.                         *)
StoreAt(wpos, count, first) ==
    chunk_data' = [chunk_data EXCEPT ![wpos[1]] =
        [b \in Bytes |-> IF b >= wpos[2] /\ b < wpos[2] + count
                         THEN first + (b - wpos[2]) ELSE @[b]]]

BufferInit ==
    /\ buffer_nr_chunks \in NrChunks
    /\ buffer_ridx = 0
    /\ buffer_widx = 0
    /\ heap = "live"
    /\ chunk_l = [c \in 0 .. buffer_nr_chunks - 1 |-> 0]
    /\ chunk_h = [c \in 0 .. buffer_nr_chunks - 1 |-> 0]
    /\ chunk_filled = [c \in 0 .. buffer_nr_chunks - 1 |-> FALSE]
    /\ chunk_data = [c \in 0 .. buffer_nr_chunks - 1 |-> [b \in Bytes |-> 0]]

BufferTypeOK ==
    /\ buffer_nr_chunks \in NrChunks
    /\ buffer_ridx \in Nat /\ buffer_widx \in Nat
    /\ heap \in {"live", "freed", "raw"}
    /\ heap # "freed" =>
         /\ chunk_l \in [0 .. buffer_nr_chunks - 1 -> 0 .. CHUNK_SIZE]
         /\ chunk_h \in [0 .. buffer_nr_chunks - 1 -> 0 .. CHUNK_SIZE]
         /\ chunk_filled \in [0 .. buffer_nr_chunks - 1 -> BOOLEAN]
         /\ chunk_data \in [0 .. buffer_nr_chunks - 1 -> [Bytes -> Nat]]
    /\ heap = "live" => buffer_ridx < buffer_nr_chunks /\ buffer_widx < buffer_nr_chunks

=============================================================================
