------------------------------ MODULE PipeProofs -----------------------------
(***************************************************************************)
(* Proofs about module Pipe, for every chunk size, every set of buffer     *)
(* sizes and every stream length: PipeInv is an inductive invariant, the   *)
(* safety properties of the data path follow from it, and Pipe implements  *)
(* AudioQueue.                                                             *)
(***************************************************************************)
EXTENDS PipeRefines, Induction, SequenceTheorems, TLAPS

(* The wrap-around of buffer_ridx and buffer_widx, without the modulus.    *)
LEMMA NextChunkValue ==
    ASSUME BufferTypeOK, NEW c \in 0 .. buffer_nr_chunks - 1
    PROVE  /\ NextChunk(c) = IF c + 1 = buffer_nr_chunks THEN 0 ELSE c + 1
           /\ NextChunk(c) \in 0 .. buffer_nr_chunks - 1
<1>1. buffer_nr_chunks \in Nat \ {0, 1}
  BY BufferAssumption DEF BufferTypeOK
<1>2. CASE c + 1 = buffer_nr_chunks
  BY <1>1, <1>2, SMT DEF NextChunk
<1>3. CASE c + 1 # buffer_nr_chunks
  BY <1>1, <1>3, SMT DEF NextChunk
<1> QED BY <1>1, <1>2, <1>3

(* An operation that leaves the buffer and both counters alone keeps what  *)
(* is known of the ring.                                                   *)
LEMMA RingUnchanged ==
    ASSUME RingOK, UNCHANGED bufferVars, UNCHANGED << produced, played >>
    PROVE  RingOK'
BY DEF RingOK, bufferVars, BufferTypeOK, RingInv, ChunkInv, StreamInv, Chunks,
       First, Following, NextChunk, Bytes

(* buffer_reset leaves an empty ring.                                      *)
RingIsEmpty ==
    /\ buffer_ridx = 0 /\ buffer_widx = 0 /\ heap = "live"
    /\ \A c \in Chunks : ~chunk_filled[c] /\ chunk_l[c] = 0 /\ chunk_h[c] = 0
    /\ ~chunk_filled[buffer_widx] /\ chunk_h[buffer_widx] = 0

LEMMA RingReset ==
    ASSUME BufferTypeOK, heap # "freed", BufferReset,
           produced \in Nat, produced' = produced, played' = produced
    PROVE  RingOK' /\ RingIsEmpty'
<1> DEFINE n == buffer_nr_chunks
<1>1. n \in Nat \ {0, 1} /\ CHUNK_SIZE \in Nat /\ MIN_FREE \in Nat /\ MIN_FREE <= CHUNK_SIZE
  BY BufferAssumption DEF BufferTypeOK
<1>2. /\ buffer_ridx' = 0 /\ buffer_widx' = 0 /\ heap' = "live" /\ buffer_nr_chunks' = n
      /\ chunk_l' = [c \in 0 .. n - 1 |-> 0]
      /\ chunk_h' = [c \in 0 .. n - 1 |-> 0]
      /\ chunk_filled' = [c \in 0 .. n - 1 |-> FALSE]
      /\ chunk_data' = chunk_data
  BY DEF BufferReset
<1>3. BufferTypeOK'
  BY <1>1, <1>2 DEF BufferTypeOK
<1>4. RingInv'
  BY <1>1, <1>2 DEF RingInv, Chunks
<1>5. ChunkInv'
  BY <1>1, <1>2 DEF ChunkInv, Chunks
<1>6. StreamInv'
  <2>1. \A c \in 0 .. n - 1 : First(c)' = produced /\ Following(c)' = produced
    BY <1>1, <1>2 DEF First, Following
  <2>2. \A c \in Chunks' : ~chunk_filled'[c] /\ chunk_l'[c] = 0 /\ chunk_h'[c] = 0
    BY <1>2 DEF Chunks
  <2> QED BY <1>1, <1>2, <2>1, <2>2 DEF StreamInv, Chunks, Bytes
<1>7. RingIsEmpty'
  BY <1>1, <1>2 DEF RingIsEmpty, Chunks
<1> QED BY <1>3, <1>4, <1>5, <1>6, <1>7 DEF RingOK

(* What the ring invariant says of two neighbouring chunks.                *)
LEMMA Neighbours ==
    ASSUME RingOK, heap = "live", NEW c \in 0 .. buffer_nr_chunks - 1, chunk_filled[c]
    PROVE  /\ chunk_filled[buffer_ridx]
           /\ chunk_filled[NextChunk(c)] \/ NextChunk(c) = buffer_widx
           /\ c = buffer_widx => buffer_ridx = buffer_widx
           /\ NextChunk(c) = buffer_ridx => buffer_ridx = buffer_widx
<1>1. /\ BufferTypeOK /\ buffer_nr_chunks \in Nat \ {0, 1}
      /\ buffer_ridx \in 0 .. buffer_nr_chunks - 1
      /\ buffer_widx \in 0 .. buffer_nr_chunks - 1
      /\ Chunks = 0 .. buffer_nr_chunks - 1
  BY BufferAssumption DEF RingOK, BufferTypeOK, Chunks
<1>2. /\ NextChunk(c) = IF c + 1 = buffer_nr_chunks THEN 0 ELSE c + 1
      /\ NextChunk(c) \in 0 .. buffer_nr_chunks - 1
  BY <1>1, NextChunkValue
<1> QED BY <1>1, <1>2 DEF RingOK, RingInv

(* The bytes buffer_fill publishes: everything else is left alone.         *)
Stored(count) ==
    /\ chunk_data' \in [0 .. buffer_nr_chunks - 1 -> [Bytes -> Nat]]
    /\ \A c \in 0 .. buffer_nr_chunks - 1 : \A b \in Bytes :
         /\ c # buffer_widx \/ b < chunk_h[buffer_widx] =>
              chunk_data'[c][b] = chunk_data[c][b]
         /\ c = buffer_widx /\ chunk_h[c] <= b /\ b < chunk_h[c] + count =>
              chunk_data'[c][b] = produced + (b - chunk_h[c])

(* buffer_fill appends count bytes to what the ring holds.                 *)
LEMMA RingFill ==
    ASSUME RingOK, heap = "live", produced \in Nat, played \in Nat,
           NEW count \in Nat, ~chunk_filled[buffer_widx],
           chunk_h[buffer_widx] + count <= CHUNK_SIZE,
           Stored(count), BufferFill(count),
           produced' = produced + count, played' = played
    PROVE  RingOK'
<1> DEFINE n == buffer_nr_chunks
<1>w. PICK w \in 0 .. n - 1 : w = buffer_widx
  BY BufferAssumption DEF RingOK, BufferTypeOK
<1>r. PICK r \in 0 .. n - 1 : r = buffer_ridx
  BY BufferAssumption DEF RingOK, BufferTypeOK
<1> DEFINE h == chunk_h[w] + count
           closed == CHUNK_SIZE - h < MIN_FREE \/ (count = 0 /\ h > 0)
<1>1. /\ BufferTypeOK /\ n \in Nat \ {0, 1}
      /\ CHUNK_SIZE \in Nat /\ MIN_FREE \in Nat /\ 1 <= MIN_FREE /\ MIN_FREE <= CHUNK_SIZE
      /\ r = buffer_ridx /\ w = buffer_widx /\ ~chunk_filled[w] /\ h <= CHUNK_SIZE
      /\ chunk_l \in [0 .. n - 1 -> 0 .. CHUNK_SIZE]
      /\ chunk_h \in [0 .. n - 1 -> 0 .. CHUNK_SIZE]
      /\ chunk_filled \in [0 .. n - 1 -> BOOLEAN]
      /\ Chunks = 0 .. n - 1
  BY <1>w, <1>r, BufferAssumption DEF RingOK, BufferTypeOK, Chunks
<1>2. /\ chunk_h' = [chunk_h EXCEPT ![w] = h]
      /\ chunk_filled' = [chunk_filled EXCEPT ![w] = closed]
      /\ buffer_widx' = IF closed THEN NextChunk(w) ELSE w
      /\ buffer_nr_chunks' = n /\ buffer_ridx' = r
      /\ heap' = heap /\ chunk_l' = chunk_l
  BY <1>1 DEF BufferFill
<1>3. /\ NextChunk(w) = IF w + 1 = n THEN 0 ELSE w + 1
      /\ NextChunk(w) \in 0 .. n - 1 /\ NextChunk(w) # w
  BY SMTT(60), <1>1, NextChunkValue
<1>4. h \in 0 .. CHUNK_SIZE /\ closed \in BOOLEAN /\ chunk_l[w] = 0
  BY <1>1 DEF RingOK, ChunkInv
<1>5. /\ Chunks' = 0 .. n - 1
      /\ chunk_h' \in [0 .. n - 1 -> 0 .. CHUNK_SIZE]
      /\ chunk_filled' \in [0 .. n - 1 -> BOOLEAN]
      /\ \A c \in 0 .. n - 1 :
           /\ chunk_h'[c] = IF c = w THEN h ELSE chunk_h[c]
           /\ c # w => (chunk_filled'[c] <=> chunk_filled[c])
      /\ chunk_filled'[w] <=> closed
  <2> HIDE DEF closed, h
  <2> QED BY <1>1, <1>2, <1>4 DEF Chunks
<1>a. /\ buffer_widx' \in 0 .. n - 1
      /\ buffer_nr_chunks' = n /\ buffer_ridx' = r
      /\ heap' = "live" /\ chunk_l' = chunk_l
  BY <1>1, <1>2, <1>3
<1>b. \A c \in 0 .. n - 1 :
        /\ chunk_filled[c] => chunk_l[c] < chunk_h[c]
        /\ ~chunk_filled[c] => chunk_l[c] = 0 /\ CHUNK_SIZE - chunk_h[c] >= MIN_FREE
        /\ ~chunk_filled[c] /\ c # w => chunk_h[c] = 0
  BY <1>1 DEF RingOK, ChunkInv
<1>6. BufferTypeOK'
  <2>1. /\ buffer_nr_chunks' \in NrChunks
        /\ buffer_ridx' \in Nat /\ buffer_widx' \in Nat
        /\ buffer_ridx' < n /\ buffer_widx' < n
    BY <1>1, <1>a DEF BufferTypeOK
  <2>2. chunk_data' \in [0 .. n - 1 -> [Bytes -> Nat]]
    BY DEF Stored
  <2> HIDE DEF h, closed
  <2> QED BY <1>1, <1>5, <1>a, <2>1, <2>2 DEF BufferTypeOK, Bytes
<1>7. RingInv'
  <2>1. CASE closed
    <3>1. buffer_widx' = NextChunk(w) /\ chunk_filled'[w]
      BY <1>2, <1>5, <2>1
    <3> HIDE DEF closed, h
    <3>2. SUFFICES ASSUME NEW c \in 0 .. n - 1
                   PROVE /\ r < buffer_widx' =>
                              (chunk_filled'[c] <=> r <= c /\ c < buffer_widx')
                         /\ r > buffer_widx' =>
                              (chunk_filled'[c] <=> r <= c \/ c < buffer_widx')
                         /\ r = buffer_widx' =>
                              (chunk_filled'[c] <=> chunk_filled'[r])
      BY <1>5, <1>a DEF RingInv
    <3>3. \A d \in 0 .. n - 1 :
            /\ r < w => (chunk_filled[d] <=> r <= d /\ d < w)
            /\ r > w => (chunk_filled[d] <=> r <= d \/ d < w)
            /\ r = w => (chunk_filled[d] <=> chunk_filled[r])
      BY <1>1 DEF RingOK, RingInv
    <3>4. /\ c # w => (chunk_filled'[c] <=> chunk_filled[c])
          /\ r # w => (chunk_filled'[r] <=> chunk_filled[r])
          /\ chunk_filled'[w] /\ ~chunk_filled[w]
      BY <1>1, <1>5, <3>1
    <3>5. buffer_widx' = IF w + 1 = n THEN 0 ELSE w + 1
      BY <1>3, <3>1
    <3>6. r # w => chunk_filled[r]
      BY <1>1, <3>3
    <3>7. CASE r < w
      BY SMTT(100), <1>1, <3>3, <3>4, <3>5, <3>6, <3>7
    <3>8. CASE r > w
      BY SMTT(100), <1>1, <3>3, <3>4, <3>5, <3>6, <3>8
    <3>9. CASE r = w
      BY SMTT(60), <1>1, <3>3, <3>4, <3>5, <3>9
    <3> QED BY <1>1, <3>7, <3>8, <3>9
  <2>2. CASE ~closed
    <3>1. buffer_widx' = w /\ ~chunk_filled'[w]
      BY <1>2, <1>5, <2>2
    <3> HIDE DEF closed, h
    <3> QED BY <1>1, <1>5, <1>a, <3>1 DEF RingOK, RingInv
  <2> QED BY <2>1, <2>2
<1>8. ChunkInv'
  <2>1. CASE closed
    <3>1. buffer_widx' = NextChunk(w) /\ chunk_filled'[w] /\ h > 0
      BY <1>1, <1>2, <1>5, <2>1
    <3> HIDE DEF closed, h
    <3>2. \A c \in 0 .. n - 1 :
            /\ chunk_filled'[c] => chunk_l'[c] < chunk_h'[c]
            /\ ~chunk_filled'[c] => chunk_l'[c] = 0 /\ CHUNK_SIZE - chunk_h'[c] >= MIN_FREE
            /\ ~chunk_filled'[c] => chunk_h'[c] = 0
      <4> SUFFICES ASSUME NEW c \in 0 .. n - 1
                   PROVE /\ chunk_filled'[c] => chunk_l'[c] < chunk_h'[c]
                         /\ ~chunk_filled'[c] =>
                              /\ chunk_l'[c] = 0 /\ chunk_h'[c] = 0
                              /\ CHUNK_SIZE - chunk_h'[c] >= MIN_FREE
        OBVIOUS
      <4>1. CASE c = w
        BY <1>4, <1>5, <1>a, <3>1, <4>1
      <4>2. CASE c # w
        BY <1>1, <1>5, <1>a, <1>b, <4>2
      <4> QED BY <4>1, <4>2
    <3> QED BY <1>5, <3>2 DEF ChunkInv
  <2>2. CASE ~closed
    <3>1. buffer_widx' = w /\ ~chunk_filled'[w] /\ CHUNK_SIZE - h >= MIN_FREE
      BY <1>1, <1>2, <1>4, <1>5, <2>2
    <3> HIDE DEF closed, h
    <3> QED BY SMTT(100), <1>1, <1>4, <1>5, <1>a, <1>b, <3>1 DEF ChunkInv
  <2> QED BY <2>1, <2>2
<1>9. StreamInv'
  <2> DEFINE F == First(w)
  <2>1. /\ chunk_data' \in [0 .. n - 1 -> [Bytes -> Nat]]
        /\ chunk_data \in [0 .. n - 1 -> [Bytes -> Nat]]
        /\ \A c \in 0 .. n - 1 : \A b \in Bytes :
             c # w => chunk_data'[c][b] = chunk_data[c][b]
        /\ \A b \in Bytes : b < chunk_h[w] => chunk_data'[w][b] = chunk_data[w][b]
        /\ \A b \in Bytes : chunk_h[w] <= b /\ b < h =>
             chunk_data'[w][b] = produced + (b - chunk_h[w])
    BY <1>1 DEF Stored, RingOK, BufferTypeOK
  <2>2. /\ First(r) = played
        /\ Following(w) = produced
        /\ \A c \in 0 .. n - 1 :
             /\ \A b \in Bytes : chunk_l[c] <= b /\ b < chunk_h[c] =>
                  chunk_data[c][b] = First(c) + (b - chunk_l[c])
             /\ chunk_filled[c] => Following(c) = First(NextChunk(c))
    BY <1>1 DEF RingOK, StreamInv
  <2>3. h = chunk_h[w] + count /\ chunk_h[w] \in Nat
    BY <1>1
  <2>4. closed => h > 0
    BY <1>1, <1>4
  <2> HIDE DEF closed, h
  <2>a. /\ 0 \in Bytes
        /\ \A c \in 0 .. n - 1, b \in Bytes : chunk_data[c][b] \in Nat /\ b \in Nat
    <3>1. 0 \in Bytes /\ \A b \in Bytes : b \in Nat
      BY <1>1 DEF Bytes
    <3>2. \A c \in 0 .. n - 1 : chunk_data[c] \in [Bytes -> Nat]
      BY <2>1
    <3> QED BY <3>1, <3>2
  <2>5. /\ F \in Nat /\ F + chunk_h[w] = produced
        /\ chunk_h[w] > 0 => F = chunk_data[w][0]
        /\ chunk_h[w] = 0 => F = produced
    BY <1>4, <2>a, <2>2, <2>3 DEF First, Following
  <2>6. First(w)' = F /\ Following(w)' = produced'
    <3>1. chunk_l'[w] = 0 /\ chunk_h'[w] = h
      BY <1>1, <1>4, <1>5, <1>a
    <3>2. CASE h = 0
      <4>1. chunk_h[w] = 0 /\ count = 0
        BY <2>3, <3>2
      <4>2. produced' = produced /\ produced' = F
        BY <2>5, <4>1
      <4>3. First(w)' = produced'
        BY <3>1, <3>2 DEF First
      <4>4. Following(w)' = First(w)' + 0 - 0
        BY <3>1, <3>2 DEF Following
      <4> HIDE DEF F
      <4> QED BY <2>5, <4>2, <4>3, <4>4
    <3>3. CASE h > 0
      <4>1. First(w)' = chunk_data'[w][0]
        BY <3>1, <3>3 DEF First
      <4>2. chunk_data'[w][0] = F
        <5>1. CASE chunk_h[w] = 0
          BY <2>a, <2>1, <2>5, <3>3, <5>1
        <5>2. CASE chunk_h[w] > 0
          BY <2>a, <2>1, <2>5, <5>2
        <5> QED BY <2>3, <5>1, <5>2
      <4> QED BY <2>3, <2>5, <3>1, <4>1, <4>2 DEF Following
    <3> QED BY <1>4, <3>2, <3>3
  <2>7. \A b \in Bytes : b < h => chunk_data'[w][b] = F + b
    <3> SUFFICES ASSUME NEW b \in Bytes, b < h
                 PROVE  chunk_data'[w][b] = F + b
      OBVIOUS
    <3>1. CASE b < chunk_h[w]
      <4>1. chunk_data'[w][b] = chunk_data[w][b]
        BY <2>1, <3>1
      <4>2. chunk_data[w][b] = First(w) + (b - 0)
        BY <1>4, <2>a, <2>2, <3>1
      <4> QED BY <2>a, <2>5, <4>1, <4>2
    <3>2. CASE chunk_h[w] <= b
      BY <1>1, <2>1, <2>3, <2>5, <3>2 DEF Bytes
    <3> QED BY <1>1, <2>3, <3>1, <3>2 DEF Bytes
  <2>8. \A c \in 0 .. n - 1 : c # w /\ chunk_filled[c] =>
          First(c)' = First(c) /\ Following(c)' = Following(c)
    <3> SUFFICES ASSUME NEW c \in 0 .. n - 1, c # w, chunk_filled[c]
                 PROVE  First(c)' = First(c) /\ Following(c)' = Following(c)
      OBVIOUS
    <3>1. /\ chunk_l[c] < chunk_h[c] /\ chunk_l[c] \in Bytes
          /\ chunk_l'[c] = chunk_l[c] /\ chunk_h'[c] = chunk_h[c]
      BY SMTT(100), <1>1, <1>5, <1>a, <1>b DEF Bytes
    <3>2. chunk_data'[c][chunk_l[c]] = chunk_data[c][chunk_l[c]]
      BY <2>1, <3>1
    <3> QED BY <3>1, <3>2 DEF First, Following
  <2>9. First(r)' = played'
    <3>1. r # w => chunk_filled[r]
      BY <1>1 DEF RingOK, RingInv
    <3> QED BY <1>1, <1>a, <2>2, <2>6, <2>8, <3>1
  <2>10. PICK m \in 0 .. n - 1 : m = NextChunk(w) /\ m # w
    BY <1>3
  <2>11. \A c \in 0 .. n - 1 : NextChunk(c)' = NextChunk(c)
    BY <1>a DEF NextChunk
  <2>12. ASSUME ~chunk_filled'[m]
         PROVE  First(m)' = produced' /\ Following(m)' = produced'
    <3>1. chunk_l'[m] = 0 /\ chunk_h'[m] = 0
      BY <1>5, <1>a, <1>b, <2>10, <2>12
    <3> QED BY <3>1 DEF First, Following
  <2>13. /\ closed => buffer_widx' = m /\ chunk_filled'[w]
         /\ ~closed => buffer_widx' = w /\ ~chunk_filled'[w]
    BY <1>2, <1>5, <2>10
  <2>14. ASSUME NEW c \in 0 .. n - 1, NEW b \in Bytes, chunk_l'[c] <= b, b < chunk_h'[c]
         PROVE  chunk_data'[c][b] = First(c)' + (b - chunk_l'[c])
    <3>1. CASE c = w
      BY <1>4, <1>5, <1>a, <2>a, <2>5, <2>6, <2>7, <2>14, <3>1
    <3>2. CASE c # w
      <4>1. chunk_l'[c] = chunk_l[c] /\ chunk_h'[c] = chunk_h[c]
        BY <1>5, <1>a, <3>2
      <4>2. chunk_filled[c]
        BY <1>b, <2>a, <2>14, <3>2, <4>1
      <4> QED BY <2>1, <2>2, <2>8, <2>14, <3>2, <4>1, <4>2
    <3> QED BY <3>1, <3>2
  <2>15. ASSUME NEW c \in 0 .. n - 1, chunk_filled'[c]
         PROVE  Following(c)' =
                  IF NextChunk(c)' = buffer_widx' /\ chunk_filled'[buffer_widx']
                  THEN produced' ELSE First(NextChunk(c))'
    <3>1. CASE c = w
      <4>1. closed /\ NextChunk(c)' = m /\ buffer_widx' = m
        BY <2>10, <2>11, <2>13, <2>15, <3>1
      <4>2. CASE chunk_filled'[m]
        BY <2>6, <3>1, <4>1, <4>2
      <4>3. CASE ~chunk_filled'[m]
        BY <2>6, <2>12, <3>1, <4>1, <4>3
      <4> QED BY <4>2, <4>3
    <3>2. CASE c # w
      <4>1. PICK d \in 0 .. n - 1 : d = NextChunk(c) /\ d = NextChunk(c)'
        BY <1>1, <2>11, NextChunkValue
      <4>2. chunk_filled[c] /\ (chunk_filled[d] \/ d = w)
        BY <1>1, <1>5, <2>15, <3>2, <4>1, Neighbours
      <4>3. First(d)' = First(d)
        BY <2>6, <2>8, <4>2
      <4>4. ~(d = buffer_widx' /\ chunk_filled'[buffer_widx'])
        <5>1. CASE closed
          <6>1. d # m
            <7>1. d = IF c + 1 = n THEN 0 ELSE c + 1
              BY <1>1, <4>1, NextChunkValue
            <7>2. m = IF w + 1 = n THEN 0 ELSE w + 1
              BY <1>3, <2>10
            <7> QED BY <1>1, <3>2, <7>1, <7>2
          <6> QED BY <2>13, <5>1, <6>1
        <5>2. CASE ~closed
          BY <2>13, <5>2
        <5> QED BY <5>1, <5>2
      <4>5. Following(c)' = First(d)
        BY <2>2, <2>8, <3>2, <4>1, <4>2
      <4>6. First(NextChunk(c))' = First(d)'
        BY <4>1
      <4> QED BY <4>1, <4>3, <4>4, <4>5, <4>6
    <3> QED BY <3>1, <3>2
  <2>16. ~chunk_filled'[buffer_widx'] => Following(buffer_widx)' = produced'
    BY <2>6, <2>12, <2>13
  <2> QED BY <1>5, <1>a, <2>9, <2>14, <2>15, <2>16 DEF StreamInv
<1> QED BY <1>6, <1>7, <1>8, <1>9 DEF RingOK

(* buffer_consume takes count bytes from what the ring holds.              *)
LEMMA RingConsume ==
    ASSUME RingOK, heap = "live", produced \in Nat, played \in Nat,
           chunk_filled[buffer_ridx],
           NEW count \in 1 .. chunk_h[buffer_ridx] - chunk_l[buffer_ridx],
           BufferConsume(count),
           produced' = produced, played' = played + count
    PROVE  RingOK'
<1> DEFINE n == buffer_nr_chunks
<1>w. PICK w \in 0 .. n - 1 : w = buffer_widx
  BY BufferAssumption DEF RingOK, BufferTypeOK
<1>r. PICK r \in 0 .. n - 1 : r = buffer_ridx
  BY BufferAssumption DEF RingOK, BufferTypeOK
<1> DEFINE l == chunk_l[r] + count
           empty == l = chunk_h[r]
<1>1. /\ BufferTypeOK /\ n \in Nat \ {0, 1}
      /\ CHUNK_SIZE \in Nat /\ MIN_FREE \in Nat /\ 1 <= MIN_FREE /\ MIN_FREE <= CHUNK_SIZE
      /\ r = buffer_ridx /\ w = buffer_widx /\ chunk_filled[r]
      /\ chunk_l \in [0 .. n - 1 -> 0 .. CHUNK_SIZE]
      /\ chunk_h \in [0 .. n - 1 -> 0 .. CHUNK_SIZE]
      /\ chunk_filled \in [0 .. n - 1 -> BOOLEAN]
      /\ Chunks = 0 .. n - 1
  BY <1>w, <1>r, BufferAssumption DEF RingOK, BufferTypeOK, Chunks
<1>2. /\ chunk_l' = [chunk_l EXCEPT ![r] = IF empty THEN 0 ELSE l]
      /\ chunk_h' = [chunk_h EXCEPT ![r] = IF empty THEN 0 ELSE @]
      /\ chunk_filled' = [chunk_filled EXCEPT ![r] = ~empty]
      /\ buffer_ridx' = IF empty THEN NextChunk(r) ELSE r
      /\ buffer_nr_chunks' = n /\ buffer_widx' = w
      /\ heap' = heap /\ chunk_data' = chunk_data
  BY <1>1 DEF BufferConsume
<1>3. PICK m \in 0 .. n - 1 :
        m = NextChunk(r) /\ m # r /\ m = IF r + 1 = n THEN 0 ELSE r + 1
  BY SMTT(100), <1>1, NextChunkValue
<1>4. /\ count \in Nat /\ count > 0 /\ l \in 0 .. CHUNK_SIZE /\ l <= chunk_h[r]
      /\ ~empty => l < chunk_h[r]
  <2>1. /\ chunk_l[r] \in Nat /\ chunk_h[r] \in Nat /\ chunk_h[r] <= CHUNK_SIZE
    BY <1>1
  <2>2. count \in Nat /\ count > 0 /\ count <= chunk_h[r] - chunk_l[r]
    BY <1>1, <2>1
  <2>3. CHUNK_SIZE \in Nat
    BY BufferAssumption
  <2>4. l \in Nat /\ l <= chunk_h[r]
    BY <2>1, <2>2
  <2>5. ~empty => l < chunk_h[r]
    BY <2>1, <2>4
  <2> HIDE DEF l, empty
  <2> QED BY <2>1, <2>2, <2>3, <2>4, <2>5
<1>5. /\ Chunks' = 0 .. n - 1
      /\ chunk_l' \in [0 .. n - 1 -> 0 .. CHUNK_SIZE]
      /\ chunk_h' \in [0 .. n - 1 -> 0 .. CHUNK_SIZE]
      /\ chunk_filled' \in [0 .. n - 1 -> BOOLEAN]
      /\ \A c \in 0 .. n - 1 : c # r =>
           /\ chunk_l'[c] = chunk_l[c] /\ chunk_h'[c] = chunk_h[c]
           /\ chunk_filled'[c] <=> chunk_filled[c]
      /\ empty => /\ chunk_l'[r] = 0 /\ chunk_h'[r] = 0 /\ ~chunk_filled'[r]
                  /\ buffer_ridx' = m
      /\ ~empty => /\ chunk_l'[r] = l /\ chunk_h'[r] = chunk_h[r] /\ chunk_filled'[r]
                   /\ buffer_ridx' = r
  <2> HIDE DEF l
  <2>1. CASE empty
    <3>1. /\ chunk_l' = [chunk_l EXCEPT ![r] = 0]
          /\ chunk_h' = [chunk_h EXCEPT ![r] = 0]
          /\ chunk_filled' = [chunk_filled EXCEPT ![r] = FALSE]
          /\ buffer_ridx' = m
      BY <1>2, <1>3, <2>1
    <3> QED BY SMTT(60), <1>1, <2>1, <3>1 DEF Chunks
  <2>2. CASE ~empty
    <3>1. /\ chunk_l' = [chunk_l EXCEPT ![r] = l]
          /\ chunk_h' = [chunk_h EXCEPT ![r] = @]
          /\ chunk_filled' = [chunk_filled EXCEPT ![r] = TRUE]
          /\ buffer_ridx' = r
      BY <1>2, <2>2
    <3> HIDE DEF empty
    <3> QED BY <1>1, <1>4, <2>2, <3>1 DEF Chunks
  <2> QED BY <2>1, <2>2
<1>6. /\ buffer_ridx' \in 0 .. n - 1 /\ buffer_widx' = w
      /\ buffer_nr_chunks' = n /\ heap' = "live" /\ chunk_data' = chunk_data
  BY <1>1, <1>2, <1>3
<1>7. \A c \in 0 .. n - 1 :
        /\ chunk_filled[c] => chunk_l[c] < chunk_h[c]
        /\ ~chunk_filled[c] => chunk_l[c] = 0 /\ CHUNK_SIZE - chunk_h[c] >= MIN_FREE
        /\ ~chunk_filled[c] /\ c # w => chunk_h[c] = 0
  BY <1>1 DEF RingOK, ChunkInv
<1>8. \A c \in 0 .. n - 1 :
        /\ r < w => (chunk_filled[c] <=> r <= c /\ c < w)
        /\ r > w => (chunk_filled[c] <=> r <= c \/ c < w)
        /\ r = w => chunk_filled[c]
  BY <1>1 DEF RingOK, RingInv
<1>9. BufferTypeOK'
  <2>1. buffer_nr_chunks' \in NrChunks /\ chunk_data' \in [0 .. n - 1 -> [Bytes -> Nat]]
    BY <1>6 DEF RingOK, BufferTypeOK
  <2> HIDE DEF empty, l
  <2>2. /\ buffer_ridx' \in Nat /\ buffer_widx' \in Nat
        /\ buffer_ridx' < n /\ buffer_widx' < n
    BY <1>1, <1>6
  <2> QED BY <1>5, <1>6, <2>1, <2>2 DEF BufferTypeOK, Bytes
<1>10. RingInv'
  <2> HIDE DEF l
  <2>1. CASE ~empty
    <3>1. \A c \in 0 .. n - 1 : chunk_filled'[c] <=> chunk_filled[c]
      BY <1>1, <1>5, <2>1
    <3> HIDE DEF empty
    <3> QED BY ZenonT(60), <1>1, <1>5, <1>6, <1>8, <2>1, <3>1 DEF RingInv
  <2>2. CASE empty
    <3> HIDE DEF empty
    <3> SUFFICES ASSUME NEW c \in 0 .. n - 1
                 PROVE  /\ m < w => (chunk_filled'[c] <=> m <= c /\ c < w)
                        /\ m > w => (chunk_filled'[c] <=> m <= c \/ c < w)
                        /\ m = w => (chunk_filled'[c] <=> chunk_filled'[m])
      BY <1>5, <1>6, <2>2 DEF RingInv
    <3>1. /\ chunk_filled'[c] <=> (chunk_filled[c] /\ c # r)
          /\ chunk_filled'[m] <=> chunk_filled[m]
      BY <1>3, <1>5, <2>2
    <3>2. CASE r < w
      BY SMTT(100), <1>1, <1>3, <1>8, <3>1, <3>2
    <3>3. CASE r > w
      BY SMTT(100), <1>1, <1>3, <1>8, <3>1, <3>3
    <3>4. CASE r = w
      BY SMTT(100), <1>1, <1>3, <1>8, <3>1, <3>4
    <3> QED BY <3>2, <3>3, <3>4
  <2> QED BY <2>1, <2>2
<1>11. ChunkInv'
  <2> HIDE DEF l, empty
  <2> SUFFICES ASSUME NEW c \in 0 .. n - 1
               PROVE  /\ chunk_filled'[c] => chunk_l'[c] < chunk_h'[c]
                      /\ ~chunk_filled'[c] =>
                           chunk_l'[c] = 0 /\ CHUNK_SIZE - chunk_h'[c] >= MIN_FREE
                      /\ ~chunk_filled'[c] /\ c # w => chunk_h'[c] = 0
    BY <1>5, <1>6 DEF ChunkInv
  <2>1. CASE c = r
    BY SMTT(100), <1>1, <1>4, <1>5, <2>1
  <2>2. CASE c # r
    BY <1>5, <1>7, <2>2
  <2> QED BY <2>1, <2>2
<1>12. StreamInv'
  <2>1. /\ First(r) = played
        /\ ~chunk_filled[w] => Following(w) = produced
        /\ \A c \in 0 .. n - 1 :
             /\ \A b \in Bytes : chunk_l[c] <= b /\ b < chunk_h[c] =>
                  chunk_data[c][b] = First(c) + (b - chunk_l[c])
             /\ chunk_filled[c] =>
                  Following(c) = IF NextChunk(c) = w /\ chunk_filled[w]
                                 THEN produced ELSE First(NextChunk(c))
    BY <1>1 DEF RingOK, StreamInv
  <2>2. \A c \in 0 .. n - 1 : c # r => First(c)' = First(c) /\ Following(c)' = Following(c)
    BY <1>5, <1>6 DEF First, Following
  <2>3. \A c \in 0 .. n - 1 : NextChunk(c)' = NextChunk(c)
    BY <1>6 DEF NextChunk
  <2>4. /\ chunk_filled[w] => r = w
        /\ \A c \in 0 .. n - 1 : chunk_filled[c] /\ NextChunk(c) = r => r = w
    BY <1>1, Neighbours
  <2>5. chunk_l[r] \in Nat /\ chunk_h[r] \in Nat /\ Following(r) = played + (chunk_h[r] - chunk_l[r])
    BY <1>1, <2>1 DEF Following
  <2>6. ~empty => First(r)' = played' /\ Following(r)' = Following(r)
    <3> SUFFICES ASSUME ~empty PROVE First(r)' = played' /\ Following(r)' = Following(r)
      OBVIOUS
    <3>1. l \in Bytes /\ chunk_l[r] <= l /\ l < chunk_h[r]
      BY <1>1, <1>4, <2>5 DEF Bytes
    <3>2. chunk_l'[r] = l /\ chunk_h'[r] = chunk_h[r]
      BY <1>5
    <3>3. First(r)' = chunk_data[r][l]
      <4> HIDE DEF l
      <4> QED BY <1>6, <3>1, <3>2 DEF First
    <3>4. chunk_data[r][l] = played + (l - chunk_l[r])
      <4> HIDE DEF l
      <4> QED BY <2>1, <3>1
    <3>5. First(r)' = played'
      BY <1>4, <2>5, <3>3, <3>4
    <3> QED BY <1>4, <2>5, <3>2, <3>5 DEF Following
  <2>7. empty => /\ First(r)' = produced /\ Following(r)' = produced
                 /\ First(m)' = played'
    <3> SUFFICES ASSUME empty
                 PROVE  /\ First(r)' = produced /\ Following(r)' = produced
                        /\ First(m)' = played'
      OBVIOUS
    <3>1. chunk_l'[r] = 0 /\ chunk_h'[r] = 0
      BY <1>5
    <3>2. First(r)' = produced /\ Following(r)' = produced
      BY <3>1 DEF First, Following
    <3>3. Following(r) = First(m)
      BY <1>1, <1>3, <2>1, <2>4
    <3>4. Following(r) = played'
      BY <1>4, <2>5
    <3> QED BY <1>3, <2>2, <3>2, <3>3, <3>4
  <2>8. First(buffer_ridx)' = played'
    <3>1. CASE empty
      <4> HIDE DEF empty
      <4> QED BY <1>5, <2>7, <3>1
    <3>2. CASE ~empty
      <4> HIDE DEF empty
      <4> QED BY <1>5, <2>6, <3>2
    <3> QED BY <3>1, <3>2
  <2> HIDE DEF empty, l
  <2>9. ~chunk_filled'[w] => Following(w)' = produced'
    <3>1. CASE w = r
      BY <1>5, <2>7, <3>1
    <3>2. CASE w # r
      BY <1>5, <2>1, <2>2, <3>2
    <3> QED BY <3>1, <3>2
  <2>10. ASSUME NEW c \in 0 .. n - 1, NEW b \in Bytes, chunk_l'[c] <= b, b < chunk_h'[c]
         PROVE  chunk_data'[c][b] = First(c)' + (b - chunk_l'[c])
    <3>1. CASE c # r
      BY <1>5, <1>6, <2>1, <2>2, <2>10, <3>1
    <3>2. CASE c = r
      <4>1. b \in Nat
        BY <1>1 DEF Bytes
      <4>2. ~empty
        BY <1>5, <2>10, <3>2, <4>1
      <4>3. chunk_l'[r] = l /\ chunk_h'[r] = chunk_h[r] /\ l = chunk_l[r] + count
        BY <1>5, <4>2 DEF l
      <4>4. chunk_data[r][b] = played + (b - chunk_l[r])
        BY <1>4, <2>1, <2>5, <2>10, <3>2, <4>1, <4>3
      <4> QED BY <1>4, <1>6, <2>5, <2>6, <3>2, <4>1, <4>2, <4>3, <4>4
    <3> QED BY <3>1, <3>2
  <2>11. ASSUME NEW c \in 0 .. n - 1, chunk_filled'[c]
         PROVE  Following(c)' =
                  IF NextChunk(c)' = w /\ chunk_filled'[w]
                  THEN produced' ELSE First(NextChunk(c))'
    <3>1. PICK d \in 0 .. n - 1 : d = NextChunk(c) /\ d = NextChunk(c)'
      BY <1>1, <2>3, NextChunkValue
    <3>2. First(NextChunk(c))' = First(d)'
      BY <3>1
    <3>3. chunk_filled[c]
      BY <1>1, <1>5, <2>11
    <3>4. Following(c)' = Following(c)
      BY <1>5, <2>2, <2>6, <2>11
    <3>5. Following(c)' = IF d = w /\ chunk_filled[w] THEN produced ELSE First(d)
      BY <2>1, <3>1, <3>3, <3>4
    <3>6. CASE d # r
      <4>1. d = w => (chunk_filled'[w] <=> chunk_filled[w])
        BY <1>5, <3>6
      <4> QED BY <2>2, <3>1, <3>2, <3>5, <3>6, <4>1
    <3>7. CASE d = r
      <4>1. r = w
        BY <2>4, <3>1, <3>3, <3>7
      <4>2. Following(c)' = produced
        BY <1>1, <3>5, <3>7, <4>1
      <4>3. ~chunk_filled'[w] => First(d)' = produced
        BY <1>5, <2>7, <3>7, <4>1
      <4> QED BY <3>1, <3>2, <3>7, <4>1, <4>2, <4>3
    <3> QED BY <3>6, <3>7
  <2> QED BY <1>5, <1>6, <2>8, <2>9, <2>10, <2>11 DEF StreamInv
<1> QED BY <1>9, <1>10, <1>11, <1>12 DEF RingOK

(* What a thread in the middle of its work may rely on.                    *)
LEMMA LiveRing ==
    ASSUME PipeInv, mpc \notin {"alloc", "reset"}
    PROVE  /\ RingOK /\ heap = "live" /\ produced \in Nat /\ played \in Nat
           /\ buffer_nr_chunks \in Nat /\ CHUNK_SIZE \in Nat
           /\ buffer_ridx \in 0 .. buffer_nr_chunks - 1
           /\ buffer_widx \in 0 .. buffer_nr_chunks - 1
           /\ chunk_l \in [0 .. buffer_nr_chunks - 1 -> 0 .. CHUNK_SIZE]
           /\ chunk_h \in [0 .. buffer_nr_chunks - 1 -> 0 .. CHUNK_SIZE]
           /\ chunk_filled \in [0 .. buffer_nr_chunks - 1 -> BOOLEAN]
           /\ chunk_data \in [0 .. buffer_nr_chunks - 1 -> [Bytes -> Nat]]
<1>1. heap = "live" /\ BufferTypeOK
  BY DEF PipeInv, TypeOK, BufferTypeOK, StatusInv
<1>2. buffer_nr_chunks \in Nat /\ CHUNK_SIZE \in Nat
  BY <1>1, BufferAssumption DEF BufferTypeOK
<1>3. RingOK /\ produced \in Nat /\ played \in Nat
  BY <1>1 DEF PipeInv, TypeOK, RingOK
<1> QED BY <1>1, <1>2, <1>3 DEF BufferTypeOK

(* The bytes ip_read stores are where buffer_fill will look for them.      *)
LEMMA StoreAtWpos ==
    ASSUME RingOK, heap = "live", produced \in Nat,
           NEW count \in Nat, chunk_h[buffer_widx] + count <= CHUNK_SIZE,
           StoreAt(<< buffer_widx, chunk_h[buffer_widx] >>, count, produced)
    PROVE  Stored(count)
<1> DEFINE n == buffer_nr_chunks
           h == chunk_h[buffer_widx]
<1>1. /\ chunk_data \in [0 .. n - 1 -> [Bytes -> Nat]]
      /\ n \in Nat /\ CHUNK_SIZE \in Nat /\ buffer_widx \in 0 .. n - 1
      /\ h \in Nat
  <2>1. n \in Nat /\ CHUNK_SIZE \in Nat
    BY BufferAssumption DEF RingOK, BufferTypeOK
  <2>2. buffer_widx \in 0 .. n - 1 /\ chunk_h \in [0 .. n - 1 -> 0 .. CHUNK_SIZE]
    BY <2>1 DEF RingOK, BufferTypeOK
  <2>3. h \in Nat
    BY <2>1, <2>2
  <2> QED BY <2>1, <2>2, <2>3 DEF RingOK, BufferTypeOK
<1>2. chunk_data' = [chunk_data EXCEPT ![buffer_widx] =
        [b \in Bytes |-> IF b >= h /\ b < h + count
                         THEN produced + (b - h) ELSE chunk_data[buffer_widx][b]]]
  BY DEF StoreAt
<1> HIDE DEF h
<1>3. \A b \in Bytes : b \in Nat
  BY <1>1 DEF Bytes
<1>4. [b \in Bytes |-> IF b >= h /\ b < h + count
                       THEN produced + (b - h) ELSE chunk_data[buffer_widx][b]]
        \in [Bytes -> Nat]
  BY <1>1, <1>3
<1>5. chunk_data' \in [0 .. n - 1 -> [Bytes -> Nat]]
  BY <1>1, <1>2, <1>4
<1>6. \A c \in 0 .. n - 1 : \A b \in Bytes :
        /\ c # buffer_widx \/ b < h => chunk_data'[c][b] = chunk_data[c][b]
        /\ c = buffer_widx /\ h <= b /\ b < h + count =>
             chunk_data'[c][b] = produced + (b - h)
  BY <1>1, <1>2, <1>3
<1> QED BY <1>5, <1>6 DEF Stored, h

(* Storing them does not change what the ring holds.                       *)
LEMMA RingStore ==
    ASSUME RingOK, heap = "live", NEW count \in Nat, Stored(count),
           ~chunk_filled[buffer_widx],
           UNCHANGED << buffer_nr_chunks, buffer_ridx, buffer_widx, heap,
                        chunk_l, chunk_h, chunk_filled, produced, played >>
    PROVE  RingOK'
<1> DEFINE n == buffer_nr_chunks
<1>1. /\ BufferTypeOK /\ n \in Nat /\ CHUNK_SIZE \in Nat /\ Chunks = 0 .. n - 1
      /\ Chunks' = 0 .. n - 1
      /\ buffer_ridx \in 0 .. n - 1 /\ buffer_widx \in 0 .. n - 1
      /\ chunk_l \in [0 .. n - 1 -> 0 .. CHUNK_SIZE]
      /\ chunk_h \in [0 .. n - 1 -> 0 .. CHUNK_SIZE]
  BY BufferAssumption DEF RingOK, BufferTypeOK, Chunks
<1>2. chunk_data' \in [0 .. n - 1 -> [Bytes -> Nat]]
  BY DEF Stored
<1>3. BufferTypeOK'
  BY <1>1, <1>2 DEF BufferTypeOK, Bytes
<1>4. RingInv' /\ ChunkInv'
  BY DEF RingOK, RingInv, ChunkInv, Chunks
<1>5. \A c \in 0 .. n - 1 : \A b \in Bytes : b < chunk_h[c] =>
        chunk_data'[c][b] = chunk_data[c][b]
  BY DEF Stored
<1>6. \A c \in 0 .. n - 1 : First(c)' = First(c) /\ Following(c)' = Following(c)
  <2> SUFFICES ASSUME NEW c \in 0 .. n - 1
               PROVE  First(c)' = First(c) /\ Following(c)' = Following(c)
    OBVIOUS
  <2>1. chunk_l[c] < chunk_h[c] => chunk_l[c] \in Bytes
    BY <1>1 DEF Bytes
  <2> QED BY <1>5, <2>1 DEF First, Following
<1>7. \A c \in 0 .. n - 1 : NextChunk(c)' = NextChunk(c) /\ NextChunk(c) \in 0 .. n - 1
  BY <1>1, NextChunkValue DEF NextChunk
<1>8. StreamInv'
  <2>1. \A c \in 0 .. n - 1 : First(NextChunk(c))' = First(NextChunk(c))
    BY <1>6, <1>7
  <2>2. First(buffer_ridx)' = First(buffer_ridx) /\ Following(buffer_widx)' = Following(buffer_widx)
    BY <1>1, <1>6
  <2>3. \A c \in 0 .. n - 1 : \A b \in Bytes : chunk_l[c] <= b /\ b < chunk_h[c] =>
          chunk_data'[c][b] = First(c)' + (b - chunk_l[c])
    BY <1>1, <1>5, <1>6 DEF RingOK, StreamInv
  <2>4. \A c \in 0 .. n - 1 : chunk_filled[c] =>
          Following(c)' = IF NextChunk(c)' = buffer_widx /\ chunk_filled[buffer_widx]
                          THEN produced ELSE First(NextChunk(c))'
    <3> SUFFICES ASSUME NEW c \in 0 .. n - 1, chunk_filled[c]
                 PROVE  Following(c)' = First(NextChunk(c))'
      OBVIOUS
    <3>1. Following(c) = First(NextChunk(c))
      BY <1>1 DEF RingOK, StreamInv
    <3> QED BY <1>6, <2>1, <3>1
  <2>5. First(buffer_ridx)' = played /\ Following(buffer_widx)' = produced
    BY <2>2 DEF RingOK, StreamInv
  <2> QED BY <1>1, <2>3, <2>4, <2>5 DEF StreamInv
<1> QED BY <1>3, <1>4, <1>8 DEF RingOK

(* buffer_get_rpos and buffer_get_wpos stay within a chunk.                *)
LEMMA RposRange ==
    ASSUME PipeInv, mpc \notin {"alloc", "reset"}
    PROVE  buffer_get_rpos \in 0 .. CHUNK_SIZE
<1>1. /\ chunk_l[buffer_ridx] \in Nat /\ chunk_h[buffer_ridx] \in Nat
      /\ chunk_h[buffer_ridx] <= CHUNK_SIZE /\ CHUNK_SIZE \in Nat
  BY LiveRing
<1>2. chunk_filled[buffer_ridx] => chunk_l[buffer_ridx] < chunk_h[buffer_ridx]
  BY LiveRing DEF RingOK, ChunkInv, Chunks
<1> QED BY <1>1, <1>2 DEF buffer_get_rpos

LEMMA WposRange ==
    ASSUME PipeInv, mpc \notin {"alloc", "reset"}
    PROVE  buffer_get_wpos \in 0 .. CHUNK_SIZE
<1>1. chunk_h[buffer_widx] \in Nat /\ chunk_h[buffer_widx] <= CHUNK_SIZE /\ CHUNK_SIZE \in Nat
  BY LiveRing
<1> QED BY <1>1 DEF buffer_get_wpos

(* buffer_fill(0) leaves nothing behind in the chunk at widx.              *)
LEMMA FillAtEof ==
    ASSUME PipeInv, mpc \notin {"alloc", "reset"}, ~chunk_filled[buffer_widx],
           BufferFill(0)
    PROVE  ~chunk_filled'[buffer_widx'] => ~(chunk_h'[buffer_widx'] > 0)
<1>1. /\ RingOK /\ heap = "live"
      /\ buffer_widx \in 0 .. buffer_nr_chunks - 1
      /\ chunk_h \in [0 .. buffer_nr_chunks - 1 -> 0 .. CHUNK_SIZE]
      /\ chunk_filled \in [0 .. buffer_nr_chunks - 1 -> BOOLEAN]
      /\ CHUNK_SIZE \in Nat /\ buffer_nr_chunks \in Nat \ {0, 1}
      /\ BufferTypeOK
  BY LiveRing, BufferAssumption DEF RingOK, BufferTypeOK
<1>2. /\ NextChunk(buffer_widx) \in 0 .. buffer_nr_chunks - 1
      /\ NextChunk(buffer_widx) # buffer_widx
  <2>1. /\ NextChunk(buffer_widx) = IF buffer_widx + 1 = buffer_nr_chunks THEN 0 ELSE buffer_widx + 1
        /\ NextChunk(buffer_widx) \in 0 .. buffer_nr_chunks - 1
    BY <1>1, NextChunkValue
  <2> QED BY <1>1, <2>1
<1>3. CASE chunk_h[buffer_widx] > 0
  <2>1. buffer_widx' = NextChunk(buffer_widx)
    BY <1>1, <1>3 DEF BufferFill
  <2>2. /\ chunk_h'[NextChunk(buffer_widx)] = chunk_h[NextChunk(buffer_widx)]
        /\ chunk_filled'[NextChunk(buffer_widx)] = chunk_filled[NextChunk(buffer_widx)]
    BY <1>1, <1>2 DEF BufferFill
  <2>3. ~chunk_filled[NextChunk(buffer_widx)] => chunk_h[NextChunk(buffer_widx)] = 0
    BY <1>1, <1>2 DEF RingOK, ChunkInv, Chunks
  <2> QED BY <2>1, <2>2, <2>3
<1>4. CASE chunk_h[buffer_widx] = 0
  <2>1. CHUNK_SIZE - 0 >= MIN_FREE
    BY BufferAssumption
  <2>2. chunk_h' = [chunk_h EXCEPT ![buffer_widx] = 0] /\ buffer_widx' = buffer_widx
    BY <1>1, <1>4, <2>1, BufferAssumption DEF BufferFill
  <2> QED BY <1>1, <2>2
<1> QED BY <1>1, <1>3, <1>4

(* A chunk left with some bytes in it was not handed over.                 *)
LEMMA FillOpen ==
    ASSUME PipeInv, mpc \notin {"alloc", "reset"}, ~chunk_filled[buffer_widx],
           NEW n, BufferFill(n),
           ~chunk_filled'[buffer_widx'], chunk_h'[buffer_widx'] > 0
    PROVE  /\ buffer_widx' = buffer_widx /\ buffer_ridx' = buffer_ridx
           /\ buffer_nr_chunks' = buffer_nr_chunks
           /\ chunk_filled'[buffer_ridx] = chunk_filled[buffer_ridx]
<1> DEFINE w == buffer_widx
           h == chunk_h[w] + n
           closed == CHUNK_SIZE - h < MIN_FREE \/ (n = 0 /\ h > 0)
<1>1. /\ RingOK /\ heap = "live" /\ BufferTypeOK
      /\ w \in 0 .. buffer_nr_chunks - 1 /\ buffer_ridx \in 0 .. buffer_nr_chunks - 1
      /\ chunk_h \in [0 .. buffer_nr_chunks - 1 -> 0 .. CHUNK_SIZE]
      /\ chunk_filled \in [0 .. buffer_nr_chunks - 1 -> BOOLEAN]
      /\ buffer_nr_chunks \in Nat \ {0, 1}
  BY LiveRing, BufferAssumption DEF RingOK, BufferTypeOK
<1>2. /\ chunk_h' = [chunk_h EXCEPT ![w] = h]
      /\ chunk_filled' = [chunk_filled EXCEPT ![w] = closed]
      /\ buffer_widx' = IF closed THEN NextChunk(w) ELSE w
      /\ buffer_nr_chunks' = buffer_nr_chunks /\ buffer_ridx' = buffer_ridx
  BY DEF BufferFill
<1>3. ~closed
  <2> SUFFICES ASSUME closed PROVE FALSE
    OBVIOUS
  <2>1. buffer_widx' = NextChunk(w)
    BY <1>2
  <2>2. /\ NextChunk(w) = IF w + 1 = buffer_nr_chunks THEN 0 ELSE w + 1
        /\ NextChunk(w) \in 0 .. buffer_nr_chunks - 1
    BY <1>1, NextChunkValue
  <2> HIDE DEF h, closed
  <2>3. NextChunk(w) # w
    BY <1>1, <2>2
  <2>4. /\ chunk_h'[NextChunk(w)] = chunk_h[NextChunk(w)]
        /\ chunk_filled'[NextChunk(w)] = chunk_filled[NextChunk(w)]
    BY <1>1, <1>2, <2>2, <2>3
  <2>5. ~chunk_filled[NextChunk(w)] => chunk_h[NextChunk(w)] = 0
    BY <1>1, <2>2, <2>3 DEF RingOK, ChunkInv, Chunks
  <2> QED BY <2>1, <2>4, <2>5
<1>4. chunk_filled' = [chunk_filled EXCEPT ![w] = FALSE]
  BY <1>2, <1>3
<1> HIDE DEF h, closed
<1>5. chunk_filled'[buffer_ridx] = chunk_filled[buffer_ridx]
  BY <1>1, <1>4
<1> QED BY <1>2, <1>3, <1>5

-----------------------------------------------------------------------------
(* The steps: each action keeps each part of PipeInv.                      *)

(* The producer thread.                                                    *)
LEMMA ProducerStep ==
    ASSUME PipeInv, Producer
    PROVE  PipeInv'
<1>1. CASE ProducerLock
  <2>0. PipeInv /\ ProducerLock
    BY <1>1
  <2>1. RingOK'
    <3> QED BY <2>0, RingUnchanged DEF PipeInv, TypeOK, RingOK, ProducerLock, bufferVars,
      streamVars, statusVars, consumerVars
  <2>2. TypeOK'
    BY <2>0, <2>1, BufferAssumption DEF PipeInv, TypeOK, RingOK, NoThread, Threads, chunks,
      ProducerLock, bufferVars, streamVars, statusVars, consumerVars
  <2>3. LockInv'
    BY <2>0 DEF PipeInv, TypeOK, LockInv, NoThread, ProducerLock, bufferVars, streamVars,
      statusVars, consumerVars
  <2>4. StatusInv'
    BY <2>0, <2>1 DEF PipeInv, TypeOK, LockInv, StatusInv, Prebuffering, Chunks, ProducerLock,
      bufferVars, streamVars, statusVars, consumerVars
  <2>5. ExclusiveAccess'
    BY <2>0, <2>1 DEF PipeInv, TypeOK, LockInv, StatusInv, ExclusiveAccess, ProducerLock,
      bufferVars, streamVars, statusVars, consumerVars
  <2>6. ReadInv'
    BY <2>0, <2>1 DEF PipeInv, TypeOK, LockInv, ReadInv, ExclusiveAccess, ProducerLock,
      bufferVars, streamVars, statusVars, consumerVars
  <2>7. EofInv'
    BY <2>0, <2>1 DEF PipeInv, TypeOK, LockInv, StatusInv, EofInv, Prebuffering,
      buffer_get_filled_chunks, ProducerLock, bufferVars, streamVars,
      statusVars, consumerVars
  <2> QED BY <2>1, <2>2, <2>3, <2>4, <2>5, <2>6, <2>7 DEF PipeInv, RingOK
<1>2. CASE ProducerGetWpos
  <2>0. PipeInv /\ ProducerGetWpos
    BY <1>2
  <2>1. RingOK'
    <3> QED BY <2>0, RingUnchanged DEF PipeInv, TypeOK, RingOK, ProducerGetWpos,
      ProducerUnlocks, buffer_get_wpos, bufferVars, streamVars, statusVars, consumerVars
  <2>2. TypeOK'
    <3>0. mpc \notin {"alloc", "reset"}
      BY <2>0 DEF PipeInv, LockInv, NoThread, ProducerGetWpos
    <3>1. buffer_widx \in Nat /\ chunk_h[buffer_widx] \in Nat
      BY <3>0, <2>0, LiveRing
    <3> QED BY <2>0, <2>1, <3>1, BufferAssumption DEF PipeInv, TypeOK, RingOK, NoThread,
      Threads, chunks, ProducerGetWpos, ProducerUnlocks, buffer_get_wpos, bufferVars,
      streamVars, statusVars, consumerVars
  <2>3. LockInv'
    BY <2>0 DEF PipeInv, TypeOK, LockInv, NoThread, ProducerGetWpos, ProducerUnlocks,
      buffer_get_wpos, bufferVars, streamVars, statusVars, consumerVars
  <2>4. StatusInv'
    BY <2>0, <2>1 DEF PipeInv, TypeOK, LockInv, StatusInv, Prebuffering, Chunks,
      ProducerGetWpos, ProducerUnlocks, buffer_get_wpos, bufferVars, streamVars, statusVars,
      consumerVars
  <2>5. ExclusiveAccess'
    <3>0. mpc \notin {"alloc", "reset"}
      BY <2>0 DEF PipeInv, LockInv, NoThread, ProducerGetWpos
    <3>1. heap = "live"
      BY <2>0, <3>0, LiveRing
    <3> QED BY <2>0, <3>1 DEF PipeInv, TypeOK, LockInv, ExclusiveAccess, ProducerGetWpos,
      ProducerUnlocks, buffer_get_wpos, bufferVars, streamVars, statusVars, consumerVars
  <2>6. ReadInv'
    BY <2>0, <2>1 DEF PipeInv, TypeOK, LockInv, ReadInv, ExclusiveAccess, ProducerGetWpos,
      ProducerUnlocks, buffer_get_wpos, bufferVars, streamVars, statusVars, consumerVars
  <2>7. EofInv'
    BY <2>0, <2>1 DEF PipeInv, TypeOK, LockInv, StatusInv, EofInv, Prebuffering,
      buffer_get_filled_chunks, ProducerGetWpos, ProducerUnlocks,
      buffer_get_wpos, bufferVars, streamVars, statusVars, consumerVars
  <2> QED BY <2>1, <2>2, <2>3, <2>4, <2>5, <2>6, <2>7 DEF PipeInv, RingOK
<1>3. CASE ProducerRead
  <2>0. PipeInv /\ ProducerRead
    BY <1>3
  <2>1. RingOK' /\ ReadInv'
    <3>0. mpc \notin {"alloc", "reset"}
      BY <2>0 DEF PipeInv, LockInv, NoThread, ProducerRead
    <3>1. PICK n \in 1 .. CHUNK_SIZE - wpos[2] :
            StoreAt(wpos, n, produced) /\ nr_read' = n
      BY <2>0 DEF ProducerRead
    <3>2. wpos = << buffer_widx, chunk_h[buffer_widx] >> /\ ~chunk_filled[buffer_widx]
      BY <2>0 DEF PipeInv, ExclusiveAccess, ProducerRead
    <3>3. /\ RingOK /\ heap = "live" /\ produced \in Nat /\ CHUNK_SIZE \in Nat
          /\ chunk_h[buffer_widx] \in Nat
      BY <2>0, <3>0, LiveRing
    <3>4. n \in Nat /\ chunk_h[buffer_widx] + n <= CHUNK_SIZE
      BY <3>1, <3>2, <3>3
    <3>5. Stored(n)
      BY <3>1, <3>2, <3>3, <3>4, StoreAtWpos
    <3>6. RingOK'
      BY <2>0, <3>2, <3>3, <3>4, <3>5, RingStore DEF ProducerRead, streamVars
    <3>7. ReadInv'
      <4>1. wpos' = wpos /\ nr_read' = n /\ produced' = produced
        BY <2>0, <3>1 DEF ProducerRead, streamVars
      <4>2. \A b \in Bytes : chunk_h[buffer_widx] <= b /\ b < chunk_h[buffer_widx] + n =>
              chunk_data'[buffer_widx][b] = produced + (b - chunk_h[buffer_widx])
        BY <2>0, <3>0, <3>5, LiveRing DEF Stored
      <4>3. wpos[1] = buffer_widx /\ wpos[2] = chunk_h[buffer_widx]
        BY <3>2
      <4> QED BY <3>4, <4>1, <4>2, <4>3 DEF ReadInv
    <3> QED BY <3>6, <3>7
  <2>2. TypeOK'
    BY <2>0, <2>1, BufferAssumption DEF PipeInv, TypeOK, RingOK, NoThread, Threads, chunks,
      ProducerRead, StoreAt, lockVars, streamVars, statusVars, consumerVars
  <2>3. LockInv'
    BY <2>0 DEF PipeInv, TypeOK, LockInv, NoThread, ProducerRead, StoreAt, lockVars,
      streamVars, statusVars, consumerVars
  <2>4. StatusInv'
    BY <2>0, <2>1 DEF PipeInv, TypeOK, LockInv, StatusInv, Prebuffering, Chunks, ProducerRead,
      StoreAt, lockVars, streamVars, statusVars, consumerVars
  <2>5. ExclusiveAccess'
    BY <2>0, <2>1 DEF PipeInv, TypeOK, LockInv, StatusInv, ExclusiveAccess, ProducerRead,
      StoreAt, lockVars, streamVars, statusVars, consumerVars
  <2>6. ReadInv'
    BY <2>1
  <2>7. EofInv'
    BY <2>0, <2>1 DEF PipeInv, TypeOK, LockInv, StatusInv, EofInv, Prebuffering,
      buffer_get_filled_chunks, ProducerRead, StoreAt, lockVars, streamVars,
      statusVars, consumerVars
  <2> QED BY <2>1, <2>2, <2>3, <2>4, <2>5, <2>6, <2>7 DEF PipeInv, RingOK
<1>4. CASE ProducerReadEof
  <2>0. PipeInv /\ ProducerReadEof
    BY <1>4
  <2>1. RingOK'
    <3> QED BY <2>0, RingUnchanged DEF PipeInv, TypeOK, RingOK, ProducerReadEof, bufferVars,
      lockVars, statusVars, consumerVars
  <2>2. TypeOK'
    BY <2>0, <2>1, BufferAssumption DEF PipeInv, TypeOK, RingOK, NoThread, Threads, chunks,
      ProducerReadEof, bufferVars, lockVars, statusVars, consumerVars
  <2>3. LockInv'
    BY <2>0 DEF PipeInv, TypeOK, LockInv, NoThread, ProducerReadEof, bufferVars, lockVars,
      statusVars, consumerVars
  <2>4. StatusInv'
    BY <2>0, <2>1 DEF PipeInv, TypeOK, LockInv, StatusInv, Prebuffering, Chunks,
      ProducerReadEof, bufferVars, lockVars, statusVars, consumerVars
  <2>5. ExclusiveAccess'
    BY <2>0, <2>1 DEF PipeInv, TypeOK, LockInv, StatusInv, ExclusiveAccess, ProducerReadEof,
      bufferVars, lockVars, statusVars, consumerVars
  <2>6. ReadInv'
    <3>0. mpc \notin {"alloc", "reset"}
      BY <2>0 DEF PipeInv, LockInv, NoThread, ProducerReadEof
    <3>1. wpos[2] = chunk_h[buffer_widx] /\ wpos[2] \in Nat /\ wpos[2] <= CHUNK_SIZE
      BY <2>0, <3>0, LiveRing DEF PipeInv, ExclusiveAccess, ProducerReadEof
    <3> QED BY <2>0, <3>1, BufferAssumption DEF ReadInv, Bytes, ProducerReadEof
  <2>7. EofInv'
    BY <2>0, <2>1 DEF PipeInv, TypeOK, LockInv, StatusInv, EofInv, Prebuffering,
      buffer_get_filled_chunks, ProducerReadEof, bufferVars, lockVars,
      statusVars, consumerVars
  <2> QED BY <2>1, <2>2, <2>3, <2>4, <2>5, <2>6, <2>7 DEF PipeInv, RingOK
<1>5. CASE ProducerReadAgain
  <2>0. PipeInv /\ ProducerReadAgain
    BY <1>5
  <2>1. RingOK'
    <3> QED BY <2>0, RingUnchanged DEF PipeInv, TypeOK, RingOK, ProducerReadAgain,
      ProducerUnlocks, bufferVars, streamVars, statusVars, consumerVars
  <2>2. TypeOK'
    BY <2>0, <2>1, BufferAssumption DEF PipeInv, TypeOK, RingOK, NoThread, Threads, chunks,
      ProducerReadAgain, ProducerUnlocks, bufferVars, streamVars, statusVars, consumerVars
  <2>3. LockInv'
    BY <2>0 DEF PipeInv, TypeOK, LockInv, NoThread, ProducerReadAgain, ProducerUnlocks,
      bufferVars, streamVars, statusVars, consumerVars
  <2>4. StatusInv'
    BY <2>0, <2>1 DEF PipeInv, TypeOK, LockInv, StatusInv, Prebuffering, Chunks,
      ProducerReadAgain, ProducerUnlocks, bufferVars, streamVars, statusVars, consumerVars
  <2>5. ExclusiveAccess'
    BY <2>0, <2>1 DEF PipeInv, TypeOK, LockInv, StatusInv, ExclusiveAccess, ProducerReadAgain,
      ProducerUnlocks, bufferVars, streamVars, statusVars, consumerVars
  <2>6. ReadInv'
    BY <2>0, <2>1 DEF PipeInv, TypeOK, LockInv, ReadInv, ExclusiveAccess, ProducerReadAgain,
      ProducerUnlocks, bufferVars, streamVars, statusVars, consumerVars
  <2>7. EofInv'
    BY <2>0, <2>1 DEF PipeInv, TypeOK, LockInv, StatusInv, EofInv, Prebuffering,
      buffer_get_filled_chunks, ProducerReadAgain, ProducerUnlocks, bufferVars,
      streamVars, statusVars, consumerVars
  <2> QED BY <2>1, <2>2, <2>3, <2>4, <2>5, <2>6, <2>7 DEF PipeInv, RingOK
<1>6. CASE ProducerFill
  <2>0. PipeInv /\ ProducerFill
    BY <1>6
  <2>1. RingOK'
    <3>0. mpc \notin {"alloc", "reset"}
      BY <2>0 DEF PipeInv, LockInv, NoThread, ProducerFill
    <3>1. /\ wpos = << buffer_widx, chunk_h[buffer_widx] >> /\ ~chunk_filled[buffer_widx]
          /\ nr_read \in Nat /\ chunk_h[buffer_widx] + nr_read <= CHUNK_SIZE
      BY <2>0, BufferAssumption DEF PipeInv, TypeOK, ExclusiveAccess, ReadInv, ProducerFill
    <3>2. Stored(nr_read)
      BY <2>0, <3>0, <3>1, LiveRing DEF PipeInv, ReadInv, Stored, ProducerFill
    <3>3. BufferFill(nr_read) /\ produced' = produced + nr_read /\ played' = played
      BY <2>0 DEF ProducerFill
    <3> QED BY <2>0, <3>0, <3>1, <3>2, <3>3, LiveRing, RingFill
  <2>2. TypeOK'
    BY <2>0, <2>1, BufferAssumption DEF PipeInv, TypeOK, RingOK, NoThread, Threads, chunks,
      ProducerFill, ProducerUnlocks, BufferFill, statusVars, consumerVars
  <2>3. LockInv'
    BY <2>0 DEF PipeInv, TypeOK, LockInv, NoThread, ProducerFill, ProducerUnlocks, BufferFill,
      statusVars, consumerVars
  <2>4. StatusInv'
    BY <2>0, <2>1 DEF PipeInv, TypeOK, LockInv, StatusInv, Prebuffering, Chunks, ProducerFill,
      ProducerUnlocks, BufferFill, statusVars, consumerVars
  <2>5. ExclusiveAccess'
    BY <2>0, <2>1 DEF PipeInv, TypeOK, LockInv, StatusInv, ExclusiveAccess, ProducerFill,
      ProducerUnlocks, BufferFill, statusVars, consumerVars
  <2>6. ReadInv'
    BY <2>0, <2>1 DEF PipeInv, TypeOK, LockInv, ReadInv, ExclusiveAccess, ProducerFill,
      ProducerUnlocks, BufferFill, statusVars, consumerVars
  <2>7. EofInv'
    <3> SUFFICES ASSUME ip_eof' PROVE EofInv'
      BY DEF EofInv
    <3>1. ip_eof /\ nr_read = 0 /\ BufferFill(0)
      BY <2>0 DEF PipeInv, EofInv, ProducerFill
    <3>2. ~chunk_filled'[buffer_widx'] => ~(chunk_h'[buffer_widx'] > 0)
      BY <2>0, <3>1, FillAtEof DEF PipeInv, LockInv, ExclusiveAccess, ProducerFill
    <3>3. ppc' = "update"
      BY <2>0, <3>1 DEF ProducerFill, ProducerUnlocks
    <3> QED BY <3>2, <3>3 DEF EofInv
  <2> QED BY <2>1, <2>2, <2>3, <2>4, <2>5, <2>6, <2>7 DEF PipeInv, RingOK
<1>7. CASE ProducerFillUpdate
  <2>0. PipeInv /\ ProducerFillUpdate
    BY <1>7
  <2>1. RingOK'
    <3> QED BY <2>0, RingUnchanged DEF PipeInv, TypeOK, RingOK, ProducerFillUpdate,
      bufferVars, lockVars, streamVars, statusVars, consumerVars
  <2>2. TypeOK'
    BY <2>0, <2>1, BufferAssumption DEF PipeInv, TypeOK, RingOK, NoThread, Threads, chunks,
      ProducerFillUpdate, bufferVars, lockVars, streamVars,
      statusVars, consumerVars
  <2>3. LockInv'
    BY <2>0 DEF PipeInv, TypeOK, LockInv, NoThread, ProducerFillUpdate, bufferVars, lockVars, streamVars, statusVars, consumerVars
  <2>4. StatusInv'
    BY <2>0, <2>1 DEF PipeInv, TypeOK, LockInv, StatusInv, Prebuffering, Chunks,
      ProducerFillUpdate, bufferVars, lockVars, streamVars,
      statusVars, consumerVars
  <2>5. ExclusiveAccess'
    BY <2>0, <2>1 DEF PipeInv, TypeOK, LockInv, StatusInv, ExclusiveAccess,
      ProducerFillUpdate, bufferVars, lockVars, streamVars,
      statusVars, consumerVars
  <2>6. ReadInv'
    BY <2>0, <2>1 DEF PipeInv, TypeOK, LockInv, ReadInv, ExclusiveAccess, ProducerFillUpdate,
      bufferVars, lockVars, streamVars, statusVars, consumerVars
  <2>7. EofInv'
    BY <2>0, <2>1 DEF PipeInv, TypeOK, LockInv, StatusInv, EofInv, Prebuffering,
      buffer_get_filled_chunks, ProducerFillUpdate, bufferVars, lockVars, streamVars, statusVars, consumerVars
  <2> QED BY <2>1, <2>2, <2>3, <2>4, <2>5, <2>6, <2>7 DEF PipeInv, RingOK
<1> QED BY <1>1, <1>2, <1>3, <1>4, <1>5, <1>6, <1>7 DEF Producer

(* The consumer thread.                                                    *)
LEMMA ConsumerStep ==
    ASSUME PipeInv, Consumer
    PROVE  PipeInv'
<1>1. CASE ConsumerLock
  <2>0. PipeInv /\ ConsumerLock
    BY <1>1
  <2>1. RingOK'
    <3> QED BY <2>0, RingUnchanged DEF PipeInv, TypeOK, RingOK, ConsumerLock, bufferVars,
      streamVars, statusVars, producerVars
  <2>2. TypeOK'
    BY <2>0, <2>1, BufferAssumption DEF PipeInv, TypeOK, RingOK, NoThread, Threads, chunks,
      ConsumerLock, bufferVars, streamVars, statusVars, producerVars
  <2>3. LockInv'
    BY <2>0 DEF PipeInv, TypeOK, LockInv, NoThread, ConsumerLock, bufferVars, streamVars,
      statusVars, producerVars
  <2>4. StatusInv'
    BY <2>0, <2>1 DEF PipeInv, TypeOK, LockInv, StatusInv, Prebuffering, Chunks, ConsumerLock,
      bufferVars, streamVars, statusVars, producerVars
  <2>5. ExclusiveAccess'
    BY <2>0, <2>1 DEF PipeInv, TypeOK, LockInv, StatusInv, ExclusiveAccess, ConsumerLock,
      bufferVars, streamVars, statusVars, producerVars
  <2>6. ReadInv'
    BY <2>0, <2>1 DEF PipeInv, TypeOK, LockInv, ReadInv, ExclusiveAccess, ConsumerLock,
      bufferVars, streamVars, statusVars, producerVars
  <2>7. EofInv'
    BY <2>0, <2>1 DEF PipeInv, TypeOK, LockInv, StatusInv, EofInv, Prebuffering,
      buffer_get_filled_chunks, ConsumerLock, bufferVars, streamVars,
      statusVars, producerVars
  <2> QED BY <2>1, <2>2, <2>3, <2>4, <2>5, <2>6, <2>7 DEF PipeInv, RingOK
<1>2. CASE ConsumerNoSpace
  <2>0. PipeInv /\ ConsumerNoSpace
    BY <1>2
  <2>1. RingOK'
    <3> QED BY <2>0, RingUnchanged DEF PipeInv, TypeOK, RingOK, ConsumerNoSpace,
      ConsumerUnlocks, bufferVars, streamVars, statusVars, producerVars
  <2>2. TypeOK'
    BY <2>0, <2>1, BufferAssumption DEF PipeInv, TypeOK, RingOK, NoThread, Threads, chunks,
      ConsumerNoSpace, ConsumerUnlocks, bufferVars, streamVars, statusVars, producerVars
  <2>3. LockInv'
    BY <2>0 DEF PipeInv, TypeOK, LockInv, NoThread, ConsumerNoSpace, ConsumerUnlocks,
      bufferVars, streamVars, statusVars, producerVars
  <2>4. StatusInv'
    BY <2>0, <2>1 DEF PipeInv, TypeOK, LockInv, StatusInv, Prebuffering, Chunks,
      ConsumerNoSpace, ConsumerUnlocks, bufferVars, streamVars, statusVars, producerVars
  <2>5. ExclusiveAccess'
    BY <2>0, <2>1 DEF PipeInv, TypeOK, LockInv, StatusInv, ExclusiveAccess, ConsumerNoSpace,
      ConsumerUnlocks, bufferVars, streamVars, statusVars, producerVars
  <2>6. ReadInv'
    BY <2>0, <2>1 DEF PipeInv, TypeOK, LockInv, ReadInv, ExclusiveAccess, ConsumerNoSpace,
      ConsumerUnlocks, bufferVars, streamVars, statusVars, producerVars
  <2>7. EofInv'
    BY <2>0, <2>1 DEF PipeInv, TypeOK, LockInv, StatusInv, EofInv, Prebuffering,
      buffer_get_filled_chunks, ConsumerNoSpace, ConsumerUnlocks, bufferVars,
      streamVars, statusVars, producerVars
  <2> QED BY <2>1, <2>2, <2>3, <2>4, <2>5, <2>6, <2>7 DEF PipeInv, RingOK
<1>3. CASE ConsumerGetRpos
  <2>0. PipeInv /\ ConsumerGetRpos
    BY <1>3
  <2>1. RingOK'
    <3> QED BY <2>0, RingUnchanged DEF PipeInv, TypeOK, RingOK, ConsumerGetRpos,
      buffer_get_rpos, bufferVars, lockVars, streamVars, statusVars, producerVars
  <2>2. TypeOK'
    <3>0. mpc \notin {"alloc", "reset"}
      BY <2>0 DEF PipeInv, LockInv, NoThread, ConsumerGetRpos
    <3>1. buffer_ridx \in Nat /\ chunk_l[buffer_ridx] \in Nat /\ buffer_get_rpos \in 0 .. CHUNK_SIZE
      BY <3>0, <2>0, LiveRing, RposRange
    <3> QED BY <2>0, <2>1, <3>1, BufferAssumption DEF PipeInv, TypeOK, RingOK, NoThread,
      Threads, chunks, ConsumerGetRpos, bufferVars, lockVars, streamVars, statusVars,
      producerVars
  <2>3. LockInv'
    BY <2>0 DEF PipeInv, TypeOK, LockInv, NoThread, ConsumerGetRpos, buffer_get_rpos,
      bufferVars, lockVars, streamVars, statusVars, producerVars
  <2>4. StatusInv'
    BY <2>0, <2>1 DEF PipeInv, TypeOK, LockInv, StatusInv, Prebuffering, Chunks,
      ConsumerGetRpos, buffer_get_rpos, bufferVars, lockVars, streamVars, statusVars,
      producerVars
  <2>5. ExclusiveAccess'
    <3>0. mpc \notin {"alloc", "reset"}
      BY <2>0 DEF PipeInv, LockInv, NoThread, ConsumerGetRpos
    <3>1. heap = "live"
      BY <2>0, <3>0, LiveRing
    <3> QED BY <2>0, <3>1 DEF PipeInv, TypeOK, LockInv, ExclusiveAccess, ConsumerGetRpos,
      buffer_get_rpos, bufferVars, lockVars, streamVars, statusVars, producerVars
  <2>6. ReadInv'
    BY <2>0, <2>1 DEF PipeInv, TypeOK, LockInv, ReadInv, ExclusiveAccess, ConsumerGetRpos,
      buffer_get_rpos, bufferVars, lockVars, streamVars, statusVars, producerVars
  <2>7. EofInv'
    BY <2>0, <2>1 DEF PipeInv, TypeOK, LockInv, StatusInv, EofInv, Prebuffering,
      buffer_get_filled_chunks, ConsumerGetRpos, buffer_get_rpos, bufferVars,
      lockVars, streamVars, statusVars, producerVars
  <2> QED BY <2>1, <2>2, <2>3, <2>4, <2>5, <2>6, <2>7 DEF PipeInv, RingOK
<1>4. CASE ConsumerLockProducer
  <2>0. PipeInv /\ ConsumerLockProducer
    BY <1>4
  <2>1. RingOK'
    <3> QED BY <2>0, RingUnchanged DEF PipeInv, TypeOK, RingOK, ConsumerLockProducer,
      bufferVars, streamVars, statusVars, producerVars
  <2>2. TypeOK'
    BY <2>0, <2>1, BufferAssumption DEF PipeInv, TypeOK, RingOK, NoThread, Threads, chunks,
      ConsumerLockProducer, bufferVars, streamVars, statusVars, producerVars
  <2>3. LockInv'
    BY <2>0 DEF PipeInv, TypeOK, LockInv, NoThread, ConsumerLockProducer, bufferVars,
      streamVars, statusVars, producerVars
  <2>4. StatusInv'
    BY <2>0, <2>1 DEF PipeInv, TypeOK, LockInv, StatusInv, Prebuffering, Chunks,
      ConsumerLockProducer, bufferVars, streamVars, statusVars, producerVars
  <2>5. ExclusiveAccess'
    BY <2>0, <2>1 DEF PipeInv, TypeOK, LockInv, StatusInv, ExclusiveAccess,
      ConsumerLockProducer, bufferVars, streamVars, statusVars, producerVars
  <2>6. ReadInv'
    BY <2>0, <2>1 DEF PipeInv, TypeOK, LockInv, ReadInv, ExclusiveAccess,
      ConsumerLockProducer, bufferVars, streamVars, statusVars, producerVars
  <2>7. EofInv'
    BY <2>0, <2>1 DEF PipeInv, TypeOK, LockInv, StatusInv, EofInv, Prebuffering,
      buffer_get_filled_chunks, ConsumerLockProducer, bufferVars, streamVars,
      statusVars, producerVars
  <2> QED BY <2>1, <2>2, <2>3, <2>4, <2>5, <2>6, <2>7 DEF PipeInv, RingOK
<1>5. CASE ConsumerRecheckData
  <2>0. PipeInv /\ ConsumerRecheckData
    BY <1>5
  <2>1. RingOK'
    <3> QED BY <2>0, RingUnchanged DEF PipeInv, TypeOK, RingOK, ConsumerRecheckData,
      buffer_get_rpos, bufferVars, streamVars, statusVars, producerVars
  <2>2. TypeOK'
    <3>0. mpc \notin {"alloc", "reset"}
      BY <2>0 DEF PipeInv, LockInv, NoThread, ConsumerRecheckData
    <3>1. buffer_ridx \in Nat /\ chunk_l[buffer_ridx] \in Nat /\ buffer_get_rpos \in 0 .. CHUNK_SIZE
      BY <3>0, <2>0, LiveRing, RposRange
    <3> QED BY <2>0, <2>1, <3>1, BufferAssumption DEF PipeInv, TypeOK, RingOK, NoThread,
      Threads, chunks, ConsumerRecheckData, bufferVars, streamVars, statusVars, producerVars
  <2>3. LockInv'
    BY <2>0 DEF PipeInv, TypeOK, LockInv, NoThread, ConsumerRecheckData, buffer_get_rpos,
      bufferVars, streamVars, statusVars, producerVars
  <2>4. StatusInv'
    BY <2>0, <2>1 DEF PipeInv, TypeOK, LockInv, StatusInv, Prebuffering, Chunks,
      ConsumerRecheckData, buffer_get_rpos, bufferVars, streamVars, statusVars, producerVars
  <2>5. ExclusiveAccess'
    <3>0. mpc \notin {"alloc", "reset"}
      BY <2>0 DEF PipeInv, LockInv, NoThread, ConsumerRecheckData
    <3>1. heap = "live"
      BY <2>0, <3>0, LiveRing
    <3> QED BY <2>0, <3>1 DEF PipeInv, TypeOK, LockInv, ExclusiveAccess, ConsumerRecheckData,
      buffer_get_rpos, bufferVars, streamVars, statusVars, producerVars
  <2>6. ReadInv'
    BY <2>0, <2>1 DEF PipeInv, TypeOK, LockInv, ReadInv, ExclusiveAccess, ConsumerRecheckData,
      buffer_get_rpos, bufferVars, streamVars, statusVars, producerVars
  <2>7. EofInv'
    BY <2>0, <2>1 DEF PipeInv, TypeOK, LockInv, StatusInv, EofInv, Prebuffering,
      buffer_get_filled_chunks, ConsumerRecheckData, buffer_get_rpos,
      bufferVars, streamVars, statusVars, producerVars
  <2> QED BY <2>1, <2>2, <2>3, <2>4, <2>5, <2>6, <2>7 DEF PipeInv, RingOK
<1>6. CASE ConsumerUnderrun
  <2>0. PipeInv /\ ConsumerUnderrun
    BY <1>6
  <2>1. RingOK'
    <3> QED BY <2>0, RingUnchanged DEF PipeInv, TypeOK, RingOK, ConsumerUnderrun,
      ConsumerUnlocks, buffer_get_rpos, bufferVars, streamVars, statusVars, producerVars
  <2>2. TypeOK'
    BY <2>0, <2>1, BufferAssumption DEF PipeInv, TypeOK, RingOK, NoThread, Threads, chunks,
      ConsumerUnderrun, ConsumerUnlocks, buffer_get_rpos, bufferVars, streamVars, statusVars,
      producerVars
  <2>3. LockInv'
    BY <2>0 DEF PipeInv, TypeOK, LockInv, NoThread, ConsumerUnderrun, ConsumerUnlocks,
      buffer_get_rpos, bufferVars, streamVars, statusVars, producerVars
  <2>4. StatusInv'
    BY <2>0, <2>1 DEF PipeInv, TypeOK, LockInv, StatusInv, Prebuffering, Chunks,
      ConsumerUnderrun, ConsumerUnlocks, buffer_get_rpos, bufferVars, streamVars, statusVars,
      producerVars
  <2>5. ExclusiveAccess'
    BY <2>0, <2>1 DEF PipeInv, TypeOK, LockInv, StatusInv, ExclusiveAccess, ConsumerUnderrun,
      ConsumerUnlocks, buffer_get_rpos, bufferVars, streamVars, statusVars, producerVars
  <2>6. ReadInv'
    BY <2>0, <2>1 DEF PipeInv, TypeOK, LockInv, ReadInv, ExclusiveAccess, ConsumerUnderrun,
      ConsumerUnlocks, buffer_get_rpos, bufferVars, streamVars, statusVars, producerVars
  <2>7. EofInv'
    BY <2>0, <2>1 DEF PipeInv, TypeOK, LockInv, StatusInv, EofInv, Prebuffering,
      buffer_get_filled_chunks, ConsumerUnderrun, ConsumerUnlocks,
      buffer_get_rpos, bufferVars, streamVars, statusVars, producerVars
  <2> QED BY <2>1, <2>2, <2>3, <2>4, <2>5, <2>6, <2>7 DEF PipeInv, RingOK
<1>7. CASE ConsumerHandleEof
  <2>0. PipeInv /\ ConsumerHandleEof
    BY <1>7
  <2>1. RingOK' /\ RingIsEmpty'
    <3>1. BufferReset /\ produced' = produced /\ played' = produced
      BY <2>0 DEF PipeInv, TypeOK, StatusInv, ConsumerHandleEof, ConsumerUnlocks,
        buffer_get_rpos, lockVars, statusVars, producerVars
    <3>2. heap # "freed" /\ produced \in Nat /\ BufferTypeOK
      BY <2>0 DEF PipeInv, TypeOK, BufferTypeOK, StatusInv, LockInv, ConsumerHandleEof,
        ConsumerUnlocks, buffer_get_rpos, lockVars, statusVars, producerVars
    <3> QED BY <3>1, <3>2, RingReset
  <2>2. TypeOK'
    <3>1. ip_eof' \in BOOLEAN
      BY <2>0, PipeAssumption DEF ConsumerHandleEof
    <3>2. BufferTypeOK' /\ produced' = produced /\ played' = produced /\ produced \in Nat
      BY <2>0, <2>1 DEF PipeInv, TypeOK, RingOK, ConsumerHandleEof
    <3> QED BY <2>0, <3>1, <3>2, BufferAssumption DEF PipeInv, TypeOK, NoThread, Threads,
              ConsumerHandleEof, ConsumerUnlocks, lockVars, statusVars, producerVars
  <2>3. LockInv'
    BY <2>0 DEF PipeInv, TypeOK, LockInv, NoThread, ConsumerHandleEof, ConsumerUnlocks,
      buffer_get_rpos, lockVars, statusVars, producerVars
  <2>4. StatusInv'
    BY <2>0, <2>1 DEF PipeInv, TypeOK, LockInv, StatusInv, Prebuffering, Chunks, RingIsEmpty,
      ConsumerHandleEof, ConsumerUnlocks, buffer_get_rpos, lockVars, statusVars, producerVars
  <2>5. ExclusiveAccess'
    BY <2>0, <2>1 DEF PipeInv, TypeOK, LockInv, StatusInv, ExclusiveAccess, ConsumerHandleEof,
      ConsumerUnlocks, buffer_get_rpos, lockVars, statusVars, producerVars
  <2>6. ReadInv'
    BY <2>0, <2>1 DEF PipeInv, TypeOK, LockInv, ReadInv, ExclusiveAccess, ConsumerHandleEof,
      ConsumerUnlocks, buffer_get_rpos, lockVars, statusVars, producerVars
  <2>7. EofInv'
    BY <2>0, <2>1 DEF PipeInv, TypeOK, LockInv, StatusInv, EofInv, Prebuffering,
      buffer_get_filled_chunks, RingIsEmpty, ConsumerHandleEof, ConsumerUnlocks,
      buffer_get_rpos, lockVars, statusVars, producerVars
  <2> QED BY <2>1, <2>2, <2>3, <2>4, <2>5, <2>6, <2>7 DEF PipeInv, RingOK
<1>8. CASE ConsumerWrite
  <2>0. PipeInv /\ ConsumerWrite
    BY <1>8
  <2>1. RingOK'
    <3>0. mpc \notin {"alloc", "reset"}
      BY <2>0 DEF PipeInv, LockInv, NoThread, ConsumerWrite
    <3>1. PICK rc \in 1 .. size : BufferConsume(rc) /\ played' = played + rc
      BY <2>0 DEF ConsumerWrite
    <3>2. chunk_filled[buffer_ridx] /\ size = chunk_h[buffer_ridx] - chunk_l[buffer_ridx]
      BY <2>0 DEF PipeInv, ExclusiveAccess, ConsumerWrite
    <3>3. produced' = produced
      BY <2>0 DEF ConsumerWrite
    <3> QED BY <2>0, <3>0, <3>1, <3>2, <3>3, LiveRing, RingConsume
  <2>2. TypeOK'
    <3>1. played' \in Nat
      BY <2>0, BufferAssumption DEF PipeInv, TypeOK, ConsumerWrite
    <3> QED BY <2>0, <2>1, <3>1 DEF PipeInv, TypeOK, RingOK, ConsumerWrite, lockVars,
      statusVars, producerVars
  <2>3. LockInv'
    BY <2>0 DEF PipeInv, TypeOK, LockInv, NoThread, ConsumerWrite, BufferConsume, lockVars,
      statusVars, producerVars
  <2>4. StatusInv'
    BY <2>0, <2>1 DEF PipeInv, TypeOK, LockInv, StatusInv, Prebuffering, Chunks,
      ConsumerWrite, BufferConsume, lockVars, statusVars, producerVars
  <2>5. ExclusiveAccess'
    BY <2>0, <2>1 DEF PipeInv, TypeOK, LockInv, StatusInv, ExclusiveAccess, ConsumerWrite,
      BufferConsume, lockVars, statusVars, producerVars
  <2>6. ReadInv'
    BY <2>0, <2>1 DEF PipeInv, TypeOK, LockInv, ReadInv, ExclusiveAccess, ConsumerWrite,
      BufferConsume, lockVars, statusVars, producerVars
  <2>7. EofInv'
    <3>0. mpc \notin {"alloc", "reset"}
      BY <2>0 DEF PipeInv, LockInv, NoThread, ConsumerWrite
    <3> SUFFICES ASSUME ip_eof', ppc' # "fill", ~chunk_filled'[buffer_widx'],
                        chunk_h'[buffer_widx'] > 0
                 PROVE  FALSE
      BY <2>0 DEF PipeInv, EofInv, ConsumerWrite, producerVars
    <3>1. ~Prebuffering /\ ip_eof /\ ppc # "fill"
      BY <2>0 DEF PipeInv, LockInv, Prebuffering, ConsumerWrite, producerVars
    <3>2. PICK rc \in 1 .. size : BufferConsume(rc)
      BY <2>0 DEF ConsumerWrite
    <3>3. chunk_filled[buffer_ridx]
      BY <2>0 DEF PipeInv, ExclusiveAccess, ConsumerWrite
    <3>4. chunk_filled[buffer_widx] \/ ~(chunk_h[buffer_widx] > 0)
      BY <2>0, <3>1 DEF PipeInv, EofInv
    <3>5. CASE buffer_ridx = buffer_widx
      BY <2>0, <3>0, <3>2, <3>3, <3>5, LiveRing DEF BufferConsume
    <3>6. CASE buffer_ridx # buffer_widx
      BY <2>0, <3>0, <3>2, <3>4, <3>6, LiveRing DEF BufferConsume
    <3> QED BY <3>5, <3>6
  <2> QED BY <2>1, <2>2, <2>3, <2>4, <2>5, <2>6, <2>7 DEF PipeInv, RingOK
<1>9. CASE ConsumerWriteFails
  <2>0. PipeInv /\ ConsumerWriteFails
    BY <1>9
  <2>1. RingOK'
    <3> QED BY <2>0, RingUnchanged DEF PipeInv, TypeOK, RingOK, ConsumerWriteFails,
      ConsumerUnlocks, bufferVars, producerVars
  <2>2. TypeOK'
    BY <2>0, <2>1, BufferAssumption DEF PipeInv, TypeOK, RingOK, NoThread, Threads, chunks,
      ConsumerWriteFails, ConsumerUnlocks, bufferVars, producerVars
  <2>3. LockInv'
    BY <2>0 DEF PipeInv, TypeOK, LockInv, NoThread, ConsumerWriteFails, ConsumerUnlocks,
      bufferVars, producerVars
  <2>4. StatusInv'
    BY <2>0, <2>1 DEF PipeInv, TypeOK, LockInv, StatusInv, Prebuffering, Chunks,
      ConsumerWriteFails, ConsumerUnlocks, bufferVars, producerVars
  <2>5. ExclusiveAccess'
    BY <2>0, <2>1 DEF PipeInv, TypeOK, LockInv, StatusInv, ExclusiveAccess,
      ConsumerWriteFails, ConsumerUnlocks, bufferVars, producerVars
  <2>6. ReadInv'
    BY <2>0, <2>1 DEF PipeInv, TypeOK, LockInv, ReadInv, ExclusiveAccess, ConsumerWriteFails,
      ConsumerUnlocks, bufferVars, producerVars
  <2>7. EofInv'
    BY <2>0, <2>1 DEF PipeInv, TypeOK, LockInv, StatusInv, EofInv, Prebuffering,
      buffer_get_filled_chunks, ConsumerWriteFails, ConsumerUnlocks, bufferVars,
      producerVars
  <2> QED BY <2>1, <2>2, <2>3, <2>4, <2>5, <2>6, <2>7 DEF PipeInv, RingOK
<1> QED BY <1>1, <1>2, <1>3, <1>4, <1>5, <1>6, <1>7, <1>8, <1>9 DEF Consumer

(* A thread executing a command.                                           *)
LEMMA CommandStep ==
    ASSUME PipeInv, Command
    PROVE  PipeInv'
<1>1. CASE CommandLockConsumer
  <2>0. PipeInv /\ CommandLockConsumer
    BY <1>1
  <2>1. RingOK'
    <3> QED BY <2>0, RingUnchanged DEF PipeInv, TypeOK, RingOK, CommandLockConsumer,
      bufferVars, streamVars, statusVars, producerVars, consumerVars
  <2>2. TypeOK'
    BY <2>0, <2>1, BufferAssumption DEF PipeInv, TypeOK, RingOK, NoThread, Threads, chunks,
      CommandLockConsumer, bufferVars, streamVars, statusVars, producerVars, consumerVars
  <2>3. LockInv'
    BY <2>0 DEF PipeInv, TypeOK, LockInv, NoThread, CommandLockConsumer, bufferVars,
      streamVars, statusVars, producerVars, consumerVars
  <2>4. StatusInv'
    BY <2>0, <2>1 DEF PipeInv, TypeOK, LockInv, StatusInv, Prebuffering, Chunks,
      CommandLockConsumer, bufferVars, streamVars, statusVars, producerVars, consumerVars
  <2>5. ExclusiveAccess'
    BY <2>0, <2>1 DEF PipeInv, TypeOK, LockInv, StatusInv, ExclusiveAccess,
      CommandLockConsumer, bufferVars, streamVars, statusVars, producerVars, consumerVars
  <2>6. ReadInv'
    BY <2>0, <2>1 DEF PipeInv, TypeOK, LockInv, ReadInv, ExclusiveAccess, CommandLockConsumer,
      bufferVars, streamVars, statusVars, producerVars, consumerVars
  <2>7. EofInv'
    BY <2>0, <2>1 DEF PipeInv, TypeOK, LockInv, StatusInv, EofInv, Prebuffering,
      buffer_get_filled_chunks, CommandLockConsumer, bufferVars, streamVars,
      statusVars, producerVars, consumerVars
  <2> QED BY <2>1, <2>2, <2>3, <2>4, <2>5, <2>6, <2>7 DEF PipeInv, RingOK
<1>2. CASE CommandLockProducer
  <2>0. PipeInv /\ CommandLockProducer
    BY <1>2
  <2>1. RingOK'
    <3> QED BY <2>0, RingUnchanged DEF PipeInv, TypeOK, RingOK, CommandLockProducer,
      bufferVars, streamVars, statusVars, producerVars, consumerVars
  <2>2. TypeOK'
    BY <2>0, <2>1, BufferAssumption DEF PipeInv, TypeOK, RingOK, NoThread, Threads, chunks,
      CommandLockProducer, bufferVars, streamVars, statusVars, producerVars, consumerVars
  <2>3. LockInv'
    BY <2>0 DEF PipeInv, TypeOK, LockInv, NoThread, CommandLockProducer, bufferVars,
      streamVars, statusVars, producerVars, consumerVars
  <2>4. StatusInv'
    BY <2>0, <2>1 DEF PipeInv, TypeOK, LockInv, StatusInv, Prebuffering, Chunks,
      CommandLockProducer, bufferVars, streamVars, statusVars, producerVars, consumerVars
  <2>5. ExclusiveAccess'
    BY <2>0, <2>1 DEF PipeInv, TypeOK, LockInv, StatusInv, ExclusiveAccess,
      CommandLockProducer, bufferVars, streamVars, statusVars, producerVars, consumerVars
  <2>6. ReadInv'
    BY <2>0, <2>1 DEF PipeInv, TypeOK, LockInv, ReadInv, ExclusiveAccess, CommandLockProducer,
      bufferVars, streamVars, statusVars, producerVars, consumerVars
  <2>7. EofInv'
    BY <2>0, <2>1 DEF PipeInv, TypeOK, LockInv, StatusInv, EofInv, Prebuffering,
      buffer_get_filled_chunks, CommandLockProducer, bufferVars, streamVars,
      statusVars, producerVars, consumerVars
  <2> QED BY <2>1, <2>2, <2>3, <2>4, <2>5, <2>6, <2>7 DEF PipeInv, RingOK
<1>3. CASE CommandStop
  <2>0. PipeInv /\ CommandStop
    BY <1>3
  <2>1. RingOK' /\ RingIsEmpty'
    <3>1. BufferReset /\ produced' = produced /\ played' = produced
      BY <2>0 DEF PipeInv, TypeOK, StatusInv, CommandStop, Stop, CommandUnlocks, producerVars,
        consumerVars
    <3>2. heap # "freed" /\ produced \in Nat /\ BufferTypeOK
      BY <2>0 DEF PipeInv, TypeOK, BufferTypeOK, StatusInv, LockInv, CommandStop, Stop,
        CommandUnlocks, producerVars, consumerVars
    <3> QED BY <3>1, <3>2, RingReset
  <2>2. TypeOK'
    BY <2>0, <2>1, BufferAssumption DEF PipeInv, TypeOK, RingOK, NoThread, Threads, chunks,
      CommandStop, Stop, CommandUnlocks, producerVars, consumerVars
  <2>3. LockInv'
    BY <2>0 DEF PipeInv, TypeOK, LockInv, NoThread, CommandStop, Stop, CommandUnlocks,
      producerVars, consumerVars
  <2>4. StatusInv'
    BY <2>0, <2>1 DEF PipeInv, TypeOK, LockInv, StatusInv, Prebuffering, Chunks, RingIsEmpty,
      CommandStop, Stop, CommandUnlocks, producerVars, consumerVars
  <2>5. ExclusiveAccess'
    BY <2>0, <2>1 DEF PipeInv, TypeOK, LockInv, StatusInv, ExclusiveAccess, CommandStop, Stop,
      CommandUnlocks, producerVars, consumerVars
  <2>6. ReadInv'
    BY <2>0, <2>1 DEF PipeInv, TypeOK, LockInv, ReadInv, ExclusiveAccess, CommandStop, Stop,
      CommandUnlocks, producerVars, consumerVars
  <2>7. EofInv'
    BY <2>0, <2>1 DEF PipeInv, TypeOK, LockInv, StatusInv, EofInv, Prebuffering,
      buffer_get_filled_chunks, RingIsEmpty, CommandStop, Stop, CommandUnlocks,
      producerVars, consumerVars
  <2> QED BY <2>1, <2>2, <2>3, <2>4, <2>5, <2>6, <2>7 DEF PipeInv, RingOK
<1>4. CASE CommandNothing
  <2>0. PipeInv /\ CommandNothing
    BY <1>4
  <2>1. RingOK'
    <3> QED BY <2>0, RingUnchanged DEF PipeInv, TypeOK, RingOK, CommandNothing,
      CommandUnlocks, bufferVars, streamVars, statusVars, producerVars, consumerVars
  <2>2. TypeOK'
    BY <2>0, <2>1, BufferAssumption DEF PipeInv, TypeOK, RingOK, NoThread, Threads, chunks,
      CommandNothing, CommandUnlocks, bufferVars, streamVars, statusVars, producerVars,
      consumerVars
  <2>3. LockInv'
    BY <2>0 DEF PipeInv, TypeOK, LockInv, NoThread, CommandNothing, CommandUnlocks,
      bufferVars, streamVars, statusVars, producerVars, consumerVars
  <2>4. StatusInv'
    BY <2>0, <2>1 DEF PipeInv, TypeOK, LockInv, StatusInv, Prebuffering, Chunks,
      CommandNothing, CommandUnlocks, bufferVars, streamVars, statusVars, producerVars,
      consumerVars
  <2>5. ExclusiveAccess'
    BY <2>0, <2>1 DEF PipeInv, TypeOK, LockInv, StatusInv, ExclusiveAccess, CommandNothing,
      CommandUnlocks, bufferVars, streamVars, statusVars, producerVars, consumerVars
  <2>6. ReadInv'
    BY <2>0, <2>1 DEF PipeInv, TypeOK, LockInv, ReadInv, ExclusiveAccess, CommandNothing,
      CommandUnlocks, bufferVars, streamVars, statusVars, producerVars, consumerVars
  <2>7. EofInv'
    BY <2>0, <2>1 DEF PipeInv, TypeOK, LockInv, StatusInv, EofInv, Prebuffering,
      buffer_get_filled_chunks, CommandNothing, CommandUnlocks, bufferVars,
      streamVars, statusVars, producerVars, consumerVars
  <2> QED BY <2>1, <2>2, <2>3, <2>4, <2>5, <2>6, <2>7 DEF PipeInv, RingOK
<1>5. CASE CommandStart
  <2>0. PipeInv /\ CommandStart
    BY <1>5
  <2>1. /\ RingOK' /\ heap' = "live"
        /\ \/ ip_eof' = FALSE /\ played' = produced
           \/ UNCHANGED << bufferVars, ip_eof, played >>
    <3>0. mpc \notin {"alloc", "reset"}
      BY <2>0 DEF PipeInv, LockInv, NoThread, CommandStart
    <3>1. CASE BufferReset /\ ip_eof' = FALSE /\ played' = produced
      BY <2>0, <3>0, <3>1, LiveRing, RingReset DEF RingOK, RingIsEmpty, CommandStart
    <3>2. CASE UNCHANGED << bufferVars, ip_eof, played >>
      BY <2>0, <3>0, <3>2, LiveRing, RingUnchanged DEF CommandStart, bufferVars
    <3> QED BY <2>0, <3>1, <3>2 DEF CommandStart
  <2>2. TypeOK'
    BY <2>0, <2>1, BufferAssumption DEF PipeInv, TypeOK, RingOK, NoThread, Threads, chunks,
      CommandStart, CommandUnlocks, bufferVars, lockVars, producerVars, consumerVars
  <2>3. LockInv'
    BY <2>0 DEF PipeInv, TypeOK, LockInv, NoThread, CommandStart, CommandUnlocks, bufferVars,
      lockVars, producerVars, consumerVars
  <2>4. StatusInv'
    BY <2>0, <2>1 DEF PipeInv, TypeOK, LockInv, StatusInv, Prebuffering, Chunks, CommandStart,
      CommandUnlocks, bufferVars, lockVars, producerVars, consumerVars
  <2>5. ExclusiveAccess'
    BY <2>0, <2>1 DEF PipeInv, TypeOK, LockInv, StatusInv, ExclusiveAccess, CommandStart,
      CommandUnlocks, bufferVars, lockVars, producerVars, consumerVars
  <2>6. ReadInv'
    BY <2>0, <2>1 DEF PipeInv, TypeOK, LockInv, ReadInv, ExclusiveAccess, CommandStart,
      CommandUnlocks, bufferVars, lockVars, producerVars, consumerVars
  <2>7. EofInv'
    BY <2>0, <2>1 DEF PipeInv, TypeOK, LockInv, StatusInv, EofInv, Prebuffering,
      buffer_get_filled_chunks, CommandStart, CommandUnlocks, bufferVars,
      lockVars, producerVars, consumerVars
  <2> QED BY <2>1, <2>2, <2>3, <2>4, <2>5, <2>6, <2>7 DEF PipeInv, RingOK
<1>6. CASE CommandSeek
  <2>0. PipeInv /\ CommandSeek
    BY <1>6
  <2>1. RingOK' /\ RingIsEmpty'
    <3>1. BufferReset /\ produced' = produced /\ played' = produced
      BY <2>0 DEF PipeInv, TypeOK, StatusInv, CommandSeek, CommandUnlocks, statusVars,
        producerVars, consumerVars
    <3>2. heap # "freed" /\ produced \in Nat /\ BufferTypeOK
      BY <2>0 DEF PipeInv, TypeOK, BufferTypeOK, StatusInv, LockInv, CommandSeek,
        CommandUnlocks, statusVars, producerVars, consumerVars
    <3> QED BY <3>1, <3>2, RingReset
  <2>2. TypeOK'
    BY <2>0, <2>1, BufferAssumption DEF PipeInv, TypeOK, RingOK, NoThread, Threads, chunks,
      CommandSeek, CommandUnlocks, statusVars, producerVars, consumerVars
  <2>3. LockInv'
    BY <2>0 DEF PipeInv, TypeOK, LockInv, NoThread, CommandSeek, CommandUnlocks, statusVars,
      producerVars, consumerVars
  <2>4. StatusInv'
    BY <2>0, <2>1 DEF PipeInv, TypeOK, LockInv, StatusInv, Prebuffering, Chunks, RingIsEmpty,
      CommandSeek, CommandUnlocks, statusVars, producerVars, consumerVars
  <2>5. ExclusiveAccess'
    BY <2>0, <2>1 DEF PipeInv, TypeOK, LockInv, StatusInv, ExclusiveAccess, CommandSeek,
      CommandUnlocks, statusVars, producerVars, consumerVars
  <2>6. ReadInv'
    BY <2>0, <2>1 DEF PipeInv, TypeOK, LockInv, ReadInv, ExclusiveAccess, CommandSeek,
      CommandUnlocks, statusVars, producerVars, consumerVars
  <2>7. EofInv'
    BY <2>0, <2>1 DEF PipeInv, TypeOK, LockInv, StatusInv, EofInv, Prebuffering,
      buffer_get_filled_chunks, RingIsEmpty, CommandSeek, CommandUnlocks,
      statusVars, producerVars, consumerVars
  <2> QED BY <2>1, <2>2, <2>3, <2>4, <2>5, <2>6, <2>7 DEF PipeInv, RingOK
<1>7. CASE CommandPlayFile
  <2>0. PipeInv /\ CommandPlayFile
    BY <1>7
  <2>1. RingOK' /\ RingIsEmpty'
    <3>1. BufferReset /\ produced' = produced /\ played' = produced
      BY <2>0 DEF PipeInv, TypeOK, StatusInv, CommandPlayFile, lockVars, producerVars,
        consumerVars
    <3>2. heap # "freed" /\ produced \in Nat /\ BufferTypeOK
      BY <2>0 DEF PipeInv, TypeOK, BufferTypeOK, StatusInv, LockInv, CommandPlayFile,
        lockVars, producerVars, consumerVars
    <3> QED BY <3>1, <3>2, RingReset
  <2>2. TypeOK'
    BY <2>0, <2>1, BufferAssumption DEF PipeInv, TypeOK, RingOK, NoThread, Threads, chunks,
      CommandPlayFile, lockVars, producerVars, consumerVars
  <2>3. LockInv'
    BY <2>0 DEF PipeInv, TypeOK, LockInv, NoThread, CommandPlayFile, lockVars, producerVars,
      consumerVars
  <2>4. StatusInv'
    BY <2>0, <2>1 DEF PipeInv, TypeOK, LockInv, StatusInv, Prebuffering, Chunks, RingIsEmpty,
      CommandPlayFile, lockVars, producerVars, consumerVars
  <2>5. ExclusiveAccess'
    BY <2>0, <2>1 DEF PipeInv, TypeOK, LockInv, StatusInv, ExclusiveAccess, CommandPlayFile,
      lockVars, producerVars, consumerVars
  <2>6. ReadInv'
    BY <2>0, <2>1 DEF PipeInv, TypeOK, LockInv, ReadInv, ExclusiveAccess, CommandPlayFile,
      lockVars, producerVars, consumerVars
  <2>7. EofInv'
    BY <2>0, <2>1 DEF PipeInv, TypeOK, LockInv, StatusInv, EofInv, Prebuffering,
      buffer_get_filled_chunks, RingIsEmpty, CommandPlayFile, lockVars,
      producerVars, consumerVars
  <2> QED BY <2>1, <2>2, <2>3, <2>4, <2>5, <2>6, <2>7 DEF PipeInv, RingOK
<1>8. CASE CommandPause
  <2>0. PipeInv /\ CommandPause
    BY <1>8
  <2>1. RingOK'
    <3> QED BY <2>0, RingUnchanged DEF PipeInv, TypeOK, RingOK, CommandPause, CommandUnlocks,
      bufferVars, producerVars, consumerVars
  <2>2. TypeOK'
    BY <2>0, <2>1, BufferAssumption DEF PipeInv, TypeOK, RingOK, NoThread, Threads, chunks,
      CommandPause, CommandUnlocks, bufferVars, producerVars, consumerVars
  <2>3. LockInv'
    BY <2>0 DEF PipeInv, TypeOK, LockInv, NoThread, CommandPause, CommandUnlocks, bufferVars,
      producerVars, consumerVars
  <2>4. StatusInv'
    BY <2>0, <2>1 DEF PipeInv, TypeOK, LockInv, StatusInv, Prebuffering, Chunks, CommandPause,
      CommandUnlocks, bufferVars, producerVars, consumerVars
  <2>5. ExclusiveAccess'
    BY <2>0, <2>1 DEF PipeInv, TypeOK, LockInv, StatusInv, ExclusiveAccess, CommandPause,
      CommandUnlocks, bufferVars, producerVars, consumerVars
  <2>6. ReadInv'
    BY <2>0, <2>1 DEF PipeInv, TypeOK, LockInv, ReadInv, ExclusiveAccess, CommandPause,
      CommandUnlocks, bufferVars, producerVars, consumerVars
  <2>7. EofInv'
    BY <2>0, <2>1 DEF PipeInv, TypeOK, LockInv, StatusInv, EofInv, Prebuffering,
      buffer_get_filled_chunks, CommandPause, CommandUnlocks, bufferVars,
      producerVars, consumerVars
  <2> QED BY <2>1, <2>2, <2>3, <2>4, <2>5, <2>6, <2>7 DEF PipeInv, RingOK
<1>9. CASE CommandSetBufferChunks
  <2>0. PipeInv /\ CommandSetBufferChunks
    BY <1>9
  <2>1. RingOK' /\ RingIsEmpty'
    <3>1. BufferReset /\ produced' = produced /\ played' = produced
      BY <2>0 DEF PipeInv, TypeOK, StatusInv, CommandSetBufferChunks, Stop, lockVars,
        producerVars, consumerVars
    <3>2. heap # "freed" /\ produced \in Nat /\ BufferTypeOK
      BY <2>0 DEF PipeInv, TypeOK, BufferTypeOK, StatusInv, LockInv, CommandSetBufferChunks,
        Stop, lockVars, producerVars, consumerVars
    <3> QED BY <3>1, <3>2, RingReset
  <2>2. TypeOK'
    BY <2>0, <2>1, BufferAssumption DEF PipeInv, TypeOK, RingOK, NoThread, Threads, chunks,
      CommandSetBufferChunks, Stop, lockVars, producerVars, consumerVars
  <2>3. LockInv'
    BY <2>0 DEF PipeInv, TypeOK, LockInv, NoThread, CommandSetBufferChunks, Stop, lockVars,
      producerVars, consumerVars
  <2>4. StatusInv'
    BY <2>0, <2>1 DEF PipeInv, TypeOK, LockInv, StatusInv, Prebuffering, Chunks, RingIsEmpty,
      CommandSetBufferChunks, Stop, lockVars, producerVars, consumerVars
  <2>5. ExclusiveAccess'
    BY <2>0, <2>1 DEF PipeInv, TypeOK, LockInv, StatusInv, ExclusiveAccess,
      CommandSetBufferChunks, Stop, lockVars, producerVars, consumerVars
  <2>6. ReadInv'
    BY <2>0, <2>1 DEF PipeInv, TypeOK, LockInv, ReadInv, ExclusiveAccess,
      CommandSetBufferChunks, Stop, lockVars, producerVars, consumerVars
  <2>7. EofInv'
    BY <2>0, <2>1 DEF PipeInv, TypeOK, LockInv, StatusInv, EofInv, Prebuffering,
      buffer_get_filled_chunks, RingIsEmpty, CommandSetBufferChunks, Stop,
      lockVars, producerVars, consumerVars
  <2> QED BY <2>1, <2>2, <2>3, <2>4, <2>5, <2>6, <2>7 DEF PipeInv, RingOK
<1>10. CASE CommandFreeChunks
  <2>0. PipeInv /\ CommandFreeChunks
    BY <1>10
  <2>1. RingOK'
    BY <2>0 DEF PipeInv, TypeOK, BufferTypeOK, RingOK, RingInv, ChunkInv, StreamInv,
       CommandFreeChunks, BufferFree
  <2>2. TypeOK'
    BY <2>0, <2>1, BufferAssumption DEF PipeInv, TypeOK, RingOK, NoThread, Threads, chunks,
      CommandFreeChunks, BufferFree, lockVars, streamVars, statusVars, producerVars,
      consumerVars
  <2>3. LockInv'
    BY <2>0 DEF PipeInv, TypeOK, LockInv, NoThread, CommandFreeChunks, BufferFree, lockVars,
      streamVars, statusVars, producerVars, consumerVars
  <2>4. StatusInv'
    BY <2>0, <2>1 DEF PipeInv, TypeOK, LockInv, StatusInv, Prebuffering, Chunks,
      CommandFreeChunks, BufferFree, lockVars, streamVars, statusVars, producerVars,
      consumerVars
  <2>5. ExclusiveAccess'
    BY <2>0, <2>1 DEF PipeInv, TypeOK, LockInv, StatusInv, ExclusiveAccess, CommandFreeChunks,
      BufferFree, lockVars, streamVars, statusVars, producerVars, consumerVars
  <2>6. ReadInv'
    BY <2>0, <2>1 DEF PipeInv, TypeOK, LockInv, ReadInv, ExclusiveAccess, CommandFreeChunks,
      BufferFree, lockVars, streamVars, statusVars, producerVars, consumerVars
  <2>7. EofInv'
    BY <2>0, <2>1 DEF PipeInv, TypeOK, LockInv, StatusInv, EofInv, Prebuffering,
      buffer_get_filled_chunks, CommandFreeChunks, BufferFree, lockVars,
      streamVars, statusVars, producerVars, consumerVars
  <2> QED BY <2>1, <2>2, <2>3, <2>4, <2>5, <2>6, <2>7 DEF PipeInv, RingOK
<1>11. CASE CommandAllocChunks
  <2>0. PipeInv /\ CommandAllocChunks
    BY <1>11
  <2>1. RingOK'
    <3>1. buffer_nr_chunks \in Nat /\ CHUNK_SIZE \in Nat /\ BufferTypeOK
      BY <2>0, BufferAssumption DEF PipeInv, TypeOK, BufferTypeOK
    <3>2. BufferTypeOK' /\ heap' = "raw"
      BY <2>0, <3>1 DEF BufferTypeOK, CommandAllocChunks, BufferAlloc
    <3> QED BY <3>2 DEF RingOK, RingInv, ChunkInv, StreamInv
  <2>2. TypeOK'
    BY <2>0, <2>1, BufferAssumption DEF PipeInv, TypeOK, RingOK, NoThread, Threads, chunks,
      CommandAllocChunks, BufferAlloc, lockVars, streamVars, statusVars, producerVars,
      consumerVars
  <2>3. LockInv'
    BY <2>0 DEF PipeInv, TypeOK, LockInv, NoThread, CommandAllocChunks, BufferAlloc, lockVars,
      streamVars, statusVars, producerVars, consumerVars
  <2>4. StatusInv'
    BY <2>0, <2>1 DEF PipeInv, TypeOK, LockInv, StatusInv, Prebuffering, Chunks,
      CommandAllocChunks, BufferAlloc, lockVars, streamVars, statusVars, producerVars,
      consumerVars
  <2>5. ExclusiveAccess'
    BY <2>0, <2>1 DEF PipeInv, TypeOK, LockInv, StatusInv, ExclusiveAccess,
      CommandAllocChunks, BufferAlloc, lockVars, streamVars, statusVars, producerVars,
      consumerVars
  <2>6. ReadInv'
    BY <2>0, <2>1 DEF PipeInv, TypeOK, LockInv, ReadInv, ExclusiveAccess, CommandAllocChunks,
      BufferAlloc, lockVars, streamVars, statusVars, producerVars, consumerVars
  <2>7. EofInv'
    BY <2>0, <2>1 DEF PipeInv, TypeOK, LockInv, StatusInv, EofInv, Prebuffering,
      buffer_get_filled_chunks, CommandAllocChunks, BufferAlloc, lockVars,
      streamVars, statusVars, producerVars, consumerVars
  <2> QED BY <2>1, <2>2, <2>3, <2>4, <2>5, <2>6, <2>7 DEF PipeInv, RingOK
<1>12. CASE CommandResetChunks
  <2>0. PipeInv /\ CommandResetChunks
    BY <1>12
  <2>1. RingOK' /\ RingIsEmpty'
    <3>1. BufferReset /\ produced' = produced /\ played' = produced
      BY <2>0 DEF PipeInv, TypeOK, StatusInv, CommandResetChunks, CommandUnlocks, streamVars,
        statusVars, producerVars, consumerVars
    <3>2. heap # "freed" /\ produced \in Nat /\ BufferTypeOK
      BY <2>0 DEF PipeInv, TypeOK, BufferTypeOK, StatusInv, LockInv, CommandResetChunks,
        CommandUnlocks, streamVars, statusVars, producerVars, consumerVars
    <3> QED BY <3>1, <3>2, RingReset
  <2>2. TypeOK'
    BY <2>0, <2>1, BufferAssumption DEF PipeInv, TypeOK, RingOK, NoThread, Threads, chunks,
      CommandResetChunks, CommandUnlocks, streamVars, statusVars, producerVars, consumerVars
  <2>3. LockInv'
    BY <2>0 DEF PipeInv, TypeOK, LockInv, NoThread, CommandResetChunks, CommandUnlocks,
      streamVars, statusVars, producerVars, consumerVars
  <2>4. StatusInv'
    BY <2>0, <2>1 DEF PipeInv, TypeOK, LockInv, StatusInv, Prebuffering, Chunks, RingIsEmpty,
      CommandResetChunks, CommandUnlocks, streamVars, statusVars, producerVars, consumerVars
  <2>5. ExclusiveAccess'
    BY <2>0, <2>1 DEF PipeInv, TypeOK, LockInv, StatusInv, ExclusiveAccess,
      CommandResetChunks, CommandUnlocks, streamVars, statusVars, producerVars, consumerVars
  <2>6. ReadInv'
    BY <2>0, <2>1 DEF PipeInv, TypeOK, LockInv, ReadInv, ExclusiveAccess, CommandResetChunks,
      CommandUnlocks, streamVars, statusVars, producerVars, consumerVars
  <2>7. EofInv'
    BY <2>0, <2>1 DEF PipeInv, TypeOK, LockInv, StatusInv, EofInv, Prebuffering,
      buffer_get_filled_chunks, RingIsEmpty, CommandResetChunks, CommandUnlocks,
      streamVars, statusVars, producerVars, consumerVars
  <2> QED BY <2>1, <2>2, <2>3, <2>4, <2>5, <2>6, <2>7 DEF PipeInv, RingOK
<1> QED BY <1>1, <1>2, <1>3, <1>4, <1>5, <1>6, <1>7, <1>8, <1>9, <1>10, <1>11, <1>12 DEF
  Command

(* The prebuffering loop.                                                  *)
LEMMA PrebufferStep ==
    ASSUME PipeInv, Prebuffer
    PROVE  PipeInv'
<1>1. CASE PrebufferEnough
  <2>0. PipeInv /\ PrebufferEnough
    BY <1>1
  <2>1. RingOK'
    <3> QED BY <2>0, RingUnchanged DEF PipeInv, TypeOK, RingOK, PrebufferEnough,
      PrebufferDone, bufferVars, streamVars, statusVars, producerVars
  <2>2. TypeOK'
    BY <2>0, <2>1, BufferAssumption DEF PipeInv, TypeOK, RingOK, NoThread, Threads, chunks,
      PrebufferEnough, PrebufferDone, bufferVars, streamVars, statusVars, producerVars
  <2>3. LockInv'
    BY <2>0 DEF PipeInv, TypeOK, LockInv, NoThread, Prebuffering, PrebufferEnough,
      PrebufferDone, bufferVars, streamVars, statusVars, producerVars
  <2>4. StatusInv'
    BY <2>0, <2>1 DEF PipeInv, TypeOK, LockInv, StatusInv, Prebuffering, Chunks,
      PrebufferEnough, PrebufferDone, bufferVars, streamVars, statusVars, producerVars
  <2>5. ExclusiveAccess'
    BY <2>0, <2>1 DEF PipeInv, TypeOK, LockInv, StatusInv, ExclusiveAccess, PrebufferEnough,
      PrebufferDone, bufferVars, streamVars, statusVars, producerVars
  <2>6. ReadInv'
    BY <2>0, <2>1 DEF PipeInv, TypeOK, LockInv, ReadInv, ExclusiveAccess, PrebufferEnough,
      PrebufferDone, bufferVars, streamVars, statusVars, producerVars
  <2>7. EofInv'
    <3>1. ~(~chunk_filled[buffer_widx] /\ chunk_h[buffer_widx] > 0) \/ ~ip_eof
      <4>1. ppc # "fill" /\ ~(buffer_get_filled_chunks < PrebufferLimit)
        <5>1. ppc # "fill"
          BY <2>0 DEF PipeInv, TypeOK, LockInv, Prebuffering, PrebufferEnough
        <5>2. buffer_get_filled_chunks \in Int
          BY <2>0, LiveRing DEF PipeInv, LockInv, Prebuffering, PrebufferEnough,
            buffer_get_filled_chunks
        <5> QED BY <2>0, <5>1, <5>2, PipeAssumption DEF PrebufferEnough
      <4> QED BY <2>0, <4>1 DEF PipeInv, EofInv
    <3> QED BY <2>0, <3>1 DEF PipeInv, EofInv, PrebufferEnough, PrebufferDone, bufferVars,
      streamVars, producerVars
  <2> QED BY <2>1, <2>2, <2>3, <2>4, <2>5, <2>6, <2>7 DEF PipeInv, RingOK
<1>2. CASE PrebufferRead
  <2>0. PipeInv /\ PrebufferRead
    BY <1>2
  <2>1. RingOK'
    <3>0. mpc \notin {"alloc", "reset"}
      BY <2>0 DEF PipeInv, LockInv, NoThread, PrebufferRead, Prebuffering
    <3>1. PICK n \in 1 .. buffer_get_wpos :
            /\ StoreAt(<< buffer_widx, chunk_h[buffer_widx] >>, n, produced)
            /\ BufferFill(n) /\ produced' = produced + n
      BY <2>0 DEF PrebufferRead
    <3>2. /\ RingOK /\ heap = "live" /\ produced \in Nat /\ played \in Nat
          /\ chunk_h[buffer_widx] \in Nat /\ CHUNK_SIZE \in Nat
      BY <2>0, <3>0, LiveRing
    <3>3. /\ ~chunk_filled[buffer_widx] /\ n \in Nat
          /\ chunk_h[buffer_widx] + n <= CHUNK_SIZE
      BY <3>1, <3>2 DEF buffer_get_wpos
    <3>4. played' = played
      BY <2>0 DEF PrebufferRead
    <3>5. Stored(n)
      BY <3>1, <3>2, <3>3, StoreAtWpos
    <3> QED BY <3>1, <3>2, <3>3, <3>4, <3>5, RingFill
  <2>2. TypeOK'
    <3>1. produced' \in Nat
      BY SMTT(100), <2>0, LiveRing, WposRange DEF PipeInv, LockInv, Prebuffering, PrebufferRead
    <3>2. buffer_get_filled_chunks' \in Int
      BY <2>0, <2>1, BufferAssumption DEF RingOK, BufferTypeOK, PrebufferRead,
        buffer_get_filled_chunks
    <3> QED BY <2>0, <2>1, <3>1, <3>2 DEF PipeInv, TypeOK, RingOK, PrebufferRead,
              lockVars, statusVars, producerVars, consumerVars
  <2>3. LockInv'
    BY <2>0 DEF PipeInv, TypeOK, LockInv, NoThread, PrebufferRead, StoreAt, BufferFill,
      lockVars, statusVars, producerVars, consumerVars
  <2>4. StatusInv'
    BY <2>0, <2>1 DEF PipeInv, TypeOK, LockInv, StatusInv, Prebuffering, Chunks,
      PrebufferRead, StoreAt, BufferFill, lockVars, statusVars, producerVars, consumerVars
  <2>5. ExclusiveAccess'
    <3>9. ppc \notin {"wpos", "read", "fill"} /\ cpc # "write" /\ cpc' # "write" /\ ppc' = ppc
      BY <2>0 DEF PipeInv, TypeOK, LockInv, Prebuffering, PrebufferRead, producerVars,
        consumerVars
    <3> QED BY <3>9 DEF ExclusiveAccess
  <2>6. ReadInv'
    <3>9. ppc \notin {"wpos", "read", "fill"} /\ cpc # "write" /\ cpc' # "write" /\ ppc' = ppc
      BY <2>0 DEF PipeInv, TypeOK, LockInv, Prebuffering, PrebufferRead, producerVars,
        consumerVars
    <3> QED BY <3>9 DEF ReadInv
  <2>7. EofInv'
    <3>9. ppc \notin {"wpos", "read", "fill"} /\ cpc # "write" /\ cpc' # "write" /\ ppc' = ppc
      BY <2>0 DEF PipeInv, TypeOK, LockInv, Prebuffering, PrebufferRead, producerVars,
        consumerVars
    <3> SUFFICES ASSUME ip_eof', ~chunk_filled'[buffer_widx'], chunk_h'[buffer_widx'] > 0
                 PROVE  Prebuffering' /\ buffer_get_filled_chunks' < PrebufferLimit
      BY <3>9 DEF EofInv
    <3>1. PICK n \in 1 .. buffer_get_wpos : BufferFill(n)
      BY <2>0 DEF PrebufferRead
    <3>2. mpc \notin {"alloc", "reset"}
      BY <2>0 DEF PipeInv, LockInv, NoThread, Prebuffering, PrebufferRead
    <3>3. ~chunk_filled[buffer_widx]
      BY <2>0, <3>1, <3>2, LiveRing DEF buffer_get_wpos
    <3>4. /\ buffer_widx' = buffer_widx /\ buffer_ridx' = buffer_ridx
          /\ buffer_nr_chunks' = buffer_nr_chunks
          /\ chunk_filled'[buffer_ridx] = chunk_filled[buffer_ridx]
      BY <2>0, <3>1, <3>2, <3>3, FillOpen
    <3>5. buffer_get_filled_chunks < PrebufferLimit
      BY <2>0 DEF PrebufferRead
    <3>6. Prebuffering'
      BY <2>0 DEF Prebuffering, PrebufferRead, consumerVars
    <3> QED BY <3>4, <3>5, <3>6 DEF buffer_get_filled_chunks
  <2> QED BY <2>1, <2>2, <2>3, <2>4, <2>5, <2>6, <2>7 DEF PipeInv, RingOK
<1>3. CASE PrebufferReadEof
  <2>0. PipeInv /\ PrebufferReadEof
    BY <1>3
  <2>1. RingOK'
    <3>0. mpc \notin {"alloc", "reset"}
      BY <2>0 DEF PipeInv, LockInv, NoThread, PrebufferReadEof, Prebuffering
    <3>1. /\ BufferFill(0) /\ chunk_data' = chunk_data
          /\ produced' = produced /\ played' = played
      BY <2>0 DEF PrebufferReadEof
    <3>2. /\ RingOK /\ heap = "live" /\ produced \in Nat /\ played \in Nat
          /\ chunk_h[buffer_widx] \in 0 .. CHUNK_SIZE /\ CHUNK_SIZE \in Nat
          /\ chunk_data \in [0 .. buffer_nr_chunks - 1 -> [Bytes -> Nat]]
      BY <2>0, <3>0, LiveRing
    <3>3. ~chunk_filled[buffer_widx]
      BY <2>0 DEF buffer_get_wpos, PrebufferReadEof
    <3>4. Stored(0)
      BY <3>1, <3>2 DEF Stored, Bytes
    <3> QED BY <3>1, <3>2, <3>3, <3>4, RingFill
  <2>2. TypeOK'
    <3>2. buffer_get_filled_chunks' \in Int
      BY <2>0, <2>1, BufferAssumption DEF RingOK, BufferTypeOK, buffer_get_filled_chunks
    <3> QED BY <2>0, <2>1, <3>2 DEF PipeInv, TypeOK, RingOK, NoThread, Threads,
      PrebufferReadEof,
              PrebufferDone, statusVars, producerVars
  <2>3. LockInv'
    BY <2>0 DEF PipeInv, TypeOK, LockInv, NoThread, Prebuffering, PrebufferReadEof,
      PrebufferDone, statusVars, producerVars
  <2>4. StatusInv'
    BY <2>0, <2>1 DEF PipeInv, TypeOK, LockInv, StatusInv, Prebuffering, Chunks,
      PrebufferReadEof, PrebufferDone, BufferFill, statusVars, producerVars
  <2>5. ExclusiveAccess'
    <3>9. ppc \notin {"wpos", "read", "fill"} /\ cpc # "write" /\ cpc' # "write" /\ ppc' = ppc
      BY <2>0 DEF PipeInv, TypeOK, LockInv, Prebuffering, PrebufferReadEof, PrebufferDone,
        producerVars
    <3> QED BY <3>9 DEF ExclusiveAccess
  <2>6. ReadInv'
    BY <2>0, <2>1 DEF PipeInv, TypeOK, LockInv, ReadInv, ExclusiveAccess, PrebufferReadEof,
      PrebufferDone, BufferFill, statusVars, producerVars
  <2>7. EofInv'
    <3>9. ppc \notin {"wpos", "read", "fill"} /\ cpc # "write" /\ cpc' # "write" /\ ppc' = ppc
      BY <2>0 DEF PipeInv, TypeOK, LockInv, Prebuffering, PrebufferReadEof, PrebufferDone,
        producerVars
    <3>1. ~chunk_filled'[buffer_widx'] => ~(chunk_h'[buffer_widx'] > 0)
      BY <2>0, FillAtEof DEF PipeInv, LockInv, Prebuffering, PrebufferReadEof, buffer_get_wpos
    <3> QED BY <3>1, <3>9 DEF EofInv
  <2> QED BY <2>1, <2>2, <2>3, <2>4, <2>5, <2>6, <2>7 DEF PipeInv, RingOK
<1> QED BY <1>1, <1>2, <1>3 DEF Prebuffer

-----------------------------------------------------------------------------
(* The theorems                                                            *)

LEMMA InitPipeInv == Init => PipeInv
<1> SUFFICES ASSUME Init PROVE PipeInv
  OBVIOUS
<1> DEFINE n == buffer_nr_chunks
<1>1. /\ n \in NrChunks /\ n \in Nat \ {0, 1}
      /\ CHUNK_SIZE \in Nat /\ MIN_FREE \in Nat /\ MIN_FREE <= CHUNK_SIZE
  BY BufferAssumption DEF Init, BufferInit
<1>2. BufferTypeOK
  BY <1>1 DEF BufferTypeOK, Init, BufferInit
<1>3. TypeOK
  <2>1. 0 \in 0 .. chunks /\ 0 \in 0 .. CHUNK_SIZE
    BY <1>1 DEF chunks
  <2>2. << 0, 0 >> \in Nat \X Nat /\ 0 \in Nat
    OBVIOUS
  <2>3. /\ consumer_mutex \in {NoThread, "consumer", "command"}
        /\ producer_mutex \in Threads \cup {NoThread}
        /\ producer_status \in {"STOPPED", "PLAYING", "PAUSED"}
        /\ consumer_status \in {"STOPPED", "PLAYING", "PAUSED"}
        /\ ip_eof \in BOOLEAN
    BY DEF Init, NoThread, Threads
  <2>4. /\ ppc \in {"lock", "wpos", "read", "fill", "update"}
        /\ cpc \in {"lock", "rpos", "plock", "recheck", "write", "prebuffer"}
        /\ mpc \in {"idle", "plock", "body", "prebuffer", "free", "alloc", "reset"}
    BY DEF Init
  <2>5. /\ produced \in Nat /\ played \in Nat
        /\ p_i \in 0 .. chunks /\ nr_read \in 0 .. CHUNK_SIZE /\ size \in 0 .. CHUNK_SIZE
    BY <2>1, <2>2 DEF Init
  <2>6. wpos \in Nat \X Nat /\ rpos \in Nat \X Nat
    BY <2>2 DEF Init
  <2> QED BY <1>2, <2>3, <2>4, <2>5, <2>6 DEF TypeOK
<1>4. LockInv
  BY DEF LockInv, Init, NoThread
<1>5. StatusInv
  BY <1>1 DEF StatusInv, Prebuffering, Chunks, Init, BufferInit
<1>6. RingInv /\ ChunkInv
  BY <1>1 DEF RingInv, ChunkInv, Chunks, Init, BufferInit
<1>7. StreamInv
  <2>1. /\ \A c \in 0 .. n - 1 : First(c) = 0 /\ Following(c) = 0
        /\ \A c \in 0 .. n - 1 : ~chunk_filled[c] /\ chunk_l[c] = 0 /\ chunk_h[c] = 0
    BY <1>1 DEF First, Following, Init, BufferInit
  <2> QED BY <1>1, <2>1 DEF StreamInv, Chunks, Bytes, Init, BufferInit
<1>8. ExclusiveAccess /\ ReadInv /\ EofInv
  BY DEF ExclusiveAccess, ReadInv, EofInv, Init
<1> QED BY <1>3, <1>4, <1>5, <1>6, <1>7, <1>8 DEF PipeInv

LEMMA StutterPipeInv ==
    ASSUME PipeInv, UNCHANGED vars
    PROVE  PipeInv'
<1>1. RingOK'
  BY RingUnchanged DEF PipeInv, TypeOK, RingOK, vars, streamVars
<1>2. TypeOK' /\ LockInv'
  BY <1>1 DEF PipeInv, TypeOK, RingOK, LockInv, vars, lockVars, streamVars,
     statusVars, producerVars, consumerVars
<1>3. StatusInv' /\ ExclusiveAccess' /\ ReadInv'
  BY DEF PipeInv, StatusInv, ExclusiveAccess, ReadInv, Prebuffering, Chunks,
    vars,
     bufferVars, streamVars, statusVars, producerVars, consumerVars
<1>4. EofInv'
  BY DEF PipeInv, EofInv, Prebuffering, buffer_get_filled_chunks,
    vars,
     bufferVars, streamVars, producerVars, consumerVars
<1> QED BY <1>1, <1>2, <1>3, <1>4 DEF PipeInv, RingOK

(* The inductive invariant holds whatever the interleaving of producer_loop, *)
(* consumer_loop and the player_* commands.                                 *)
THEOREM PipeInvariant == Spec => []PipeInv
<1>1. PipeInv /\ [Next]_vars => PipeInv'
  BY ProducerStep, ConsumerStep, CommandStep, PrebufferStep, StutterPipeInv
    DEF Next
<1> QED BY InitPipeInv, <1>1, PTL DEF Spec

(* The variables keep their types; chunk offsets stay inside a chunk.      *)
THEOREM PipeTypeCorrect == Spec => []TypeOK
<1>1. PipeInv => TypeOK
  BY DEF PipeInv
<1> QED BY PipeInvariant, <1>1, PTL

(* The producer's and the consumer's status agree but for a lost device,   *)
(* and a stopped producer leaves an empty buffer.                          *)
THEOREM StatusAgree == Spec => []StatusInv
<1>1. PipeInv => StatusInv
  BY DEF PipeInv
<1> QED BY PipeInvariant, <1>1, PTL

(* buffer_get_filled_chunks may count from the two indices: the filled     *)
(* chunks are those from ridx up to widx.                                  *)
THEOREM RingShape == Spec => []RingInv
<1>1. PipeInv => RingInv
  BY DEF PipeInv
<1> QED BY PipeInvariant, <1>1, PTL

(* buffer.c: op_write and ip_read, which run without buffer_mutex, never   *)
(* work on the same chunk and never on one that moved.                     *)
THEOREM ChunksExclusive == Spec => []ExclusiveAccess
<1>1. PipeInv => ExclusiveAccess
  BY DEF PipeInv
<1> QED BY PipeInvariant, <1>1, PTL

(* Every byte op_write is given is the next one of the stream.             *)
THEOREM PlaysInOrder == Spec => []InOrder
<1>1. ASSUME PipeInv PROVE InOrder
  <2> SUFFICES ASSUME cpc = "write", NEW k \in 0 .. size - 1
               PROVE  chunk_data[rpos[1]][rpos[2] + k] = played + k
    BY DEF InOrder
  <2>1. mpc \notin {"alloc", "reset"}
    BY <1>1 DEF PipeInv, LockInv
  <2>2. /\ heap = "live" /\ rpos[1] = buffer_ridx /\ rpos[2] = chunk_l[buffer_ridx]
        /\ size = chunk_h[buffer_ridx] - chunk_l[buffer_ridx]
    BY <1>1 DEF PipeInv, ExclusiveAccess
  <2>3. /\ chunk_l[buffer_ridx] \in Nat /\ chunk_h[buffer_ridx] \in Nat
        /\ chunk_h[buffer_ridx] <= CHUNK_SIZE /\ CHUNK_SIZE \in Nat
        /\ buffer_ridx \in Chunks
    BY <1>1, <2>1, LiveRing DEF Chunks
  <2>4. /\ rpos[2] + k \in Bytes /\ chunk_l[buffer_ridx] <= rpos[2] + k
        /\ rpos[2] + k < chunk_h[buffer_ridx]
        /\ rpos[2] + k - chunk_l[buffer_ridx] = k
    BY <2>2, <2>3 DEF Bytes
  <2>5. /\ First(buffer_ridx) = played
        /\ \A b \in Bytes : chunk_l[buffer_ridx] <= b /\ b < chunk_h[buffer_ridx] =>
             chunk_data[buffer_ridx][b] = First(buffer_ridx) + (b - chunk_l[buffer_ridx])
    BY <1>1, <2>2, <2>3 DEF PipeInv, StreamInv
  <2>6. PICK b \in Bytes : /\ b = rpos[2] + k /\ b - chunk_l[buffer_ridx] = k
                           /\ chunk_l[buffer_ridx] <= b /\ b < chunk_h[buffer_ridx]
    BY <2>2, <2>3, <2>4
  <2>7. chunk_data[buffer_ridx][b] = First(buffer_ridx) + (b - chunk_l[buffer_ridx])
    BY <2>5, <2>6
  <2>8. chunk_data[buffer_ridx][b] = played + k
    <3>1. First(buffer_ridx) = played /\ b - chunk_l[buffer_ridx] = k
      BY <2>5, <2>6
    <3> QED BY <2>7, <3>1, Zenon
  <2> QED BY <2>2, <2>6, <2>8
<1> QED BY PipeInvariant, <1>1, PTL

(* When the consumer, holding both locks, sees an empty buffer and the end *)
(* of the file, everything that was read has been played.                  *)
THEOREM EofMeansDrained == Spec => []DrainedAtEof
<1>1. ASSUME PipeInv PROVE DrainedAtEof
  <2> SUFFICES ASSUME cpc = "recheck", buffer_get_rpos = 0, ip_eof
               PROVE  played = produced
    BY DEF DrainedAtEof
  <2>1. mpc \notin {"alloc", "reset"} /\ ~Prebuffering /\ ppc # "fill"
    BY <1>1 DEF PipeInv, TypeOK, LockInv, Prebuffering
  <2>2. /\ heap = "live" /\ produced \in Nat
        /\ buffer_ridx \in Chunks /\ buffer_widx \in Chunks
        /\ chunk_l[buffer_ridx] \in Nat /\ chunk_h[buffer_ridx] \in Nat
        /\ chunk_h[buffer_widx] \in Nat
        /\ buffer_ridx \in Nat /\ buffer_widx \in Nat
    BY <1>1, <2>1, LiveRing DEF Chunks
  <2>3. ~chunk_filled[buffer_ridx]
    BY <1>1, <2>2 DEF PipeInv, ChunkInv, buffer_get_rpos
  <2>4. buffer_ridx = buffer_widx
    BY <1>1, <2>2, <2>3 DEF PipeInv, RingInv
  <2>5. chunk_l[buffer_ridx] = 0 /\ chunk_h[buffer_ridx] = 0
    BY <1>1, <2>1, <2>2, <2>3, <2>4 DEF PipeInv, EofInv, ChunkInv
  <2>6. First(buffer_ridx) = produced
    BY <2>5 DEF First
  <2> QED BY <1>1, <2>2, <2>6 DEF PipeInv, StreamInv
<1> QED BY PipeInvariant, <1>1, PTL

(* buffer.c "guaranteed to be >= 1024" and input.c BUG_ON(count <= 0):     *)
(* ip_read always gets room, provided that no format makes __prebuffer     *)
(* ask for more chunks than the buffer has.                                *)
THEOREM ReadsGetRoom ==
    ASSUME \A nr \in NrChunks : PrebufferLimit <= nr
    PROVE  Spec => []ReadsHaveRoom
<1>1. ASSUME PipeInv PROVE ReadsHaveRoom
  <2>1. ASSUME mpc \notin {"alloc", "reset"}, ~chunk_filled[buffer_widx]
        PROVE  buffer_get_wpos >= MIN_FREE
    <3>1. heap = "live" /\ buffer_widx \in Chunks
      BY <1>1, <2>1, LiveRing DEF Chunks
    <3> QED BY <1>1, <2>1, <3>1 DEF PipeInv, ChunkInv, buffer_get_wpos
  <2>2. ASSUME ppc = "read" PROVE buffer_get_wpos >= MIN_FREE
    BY <1>1, <2>1, <2>2 DEF PipeInv, LockInv, ExclusiveAccess
  <2>3. ASSUME Prebuffering, buffer_get_filled_chunks < PrebufferLimit
        PROVE  buffer_get_wpos >= MIN_FREE
    <3>1. mpc \notin {"alloc", "reset"}
      BY <1>1, <2>3 DEF PipeInv, LockInv, Prebuffering
    <3>2. ~chunk_filled[buffer_widx]
      <4> SUFFICES ASSUME chunk_filled[buffer_widx] PROVE FALSE
        OBVIOUS
      <4>1. chunk_filled[buffer_ridx] /\ buffer_ridx = buffer_widx
        BY <1>1, <3>1, LiveRing, Neighbours
      <4>2. buffer_nr_chunks \in NrChunks /\ buffer_nr_chunks \in Nat /\ buffer_ridx \in Nat
        BY <1>1, BufferAssumption DEF PipeInv, TypeOK, BufferTypeOK
      <4>3. buffer_get_filled_chunks = buffer_nr_chunks
        BY <4>1, <4>2 DEF buffer_get_filled_chunks
      <4> QED BY <2>3, <4>2, <4>3, PipeAssumption
    <3> QED BY <2>1, <3>1, <3>2
  <2> QED BY <2>2, <2>3 DEF ReadsHaveRoom
<1> QED BY PipeInvariant, <1>1, PTL

-----------------------------------------------------------------------------
(* Pipe implements AudioQueue                                              *)

(* FlattenSeq, given the sequence of what it has put together so far.      *)
PutTogether(g, s, n) ==
    Len(s) = n /\ g = [i \in 1 .. n |-> IF i = 1 THEN s[i] ELSE g[i - 1] \o s[i]]

LEMMA FlattenSolution ==
    ASSUME NEW n \in Nat \ {0}, NEW s, NEW g, PutTogether(g, s, n)
    PROVE  FlattenSeq(s) = g[n]
<1>0. Len(s) = n /\ g = [i \in 1 .. n |-> IF i = 1 THEN s[i] ELSE g[i - 1] \o s[i]]
  BY Zenon DEF PutTogether
<1> DEFINE Eq(f) == f = [i \in 1 .. Len(s) |-> IF i = 1 THEN s[i] ELSE f[i - 1] \o s[i]]
           flat == CHOOSE f : Eq(f)
<1>1. FlattenSeq(s) = flat[n]
  BY <1>0, Zenon DEF FlattenSeq
<1>2. Eq(g)
  BY <1>0, Zenon
<1>3. Eq(flat)
  <2> HIDE DEF Eq
  <2> QED  BY <1>2
<1>4. flat = [i \in 1 .. n |-> IF i = 1 THEN s[i] ELSE flat[i - 1] \o s[i]]
  BY <1>0, <1>3, Zenon
<1> HIDE DEF flat
<1> DEFINE T == {m \in Nat : m + 1 <= n => flat[m + 1] = g[m + 1]}
<1>5. 0 \in T
  BY <1>0, <1>4
<1>6. ASSUME NEW m \in Nat, m \in T PROVE m + 1 \in T
  <2>0. SUFFICES ASSUME (m + 1) + 1 <= n PROVE flat[(m + 1) + 1] = g[(m + 1) + 1]
    <3> HIDE DEF T
    <3>1. m + 1 \in Nat
      OBVIOUS
    <3> QED  BY <3>1, Zenon DEF T
  <2>a. (m + 1) + 1 = m + 2 /\ m + 2 \in 1 .. n /\ m + 2 # 1 /\ (m + 2) - 1 = m + 1 /\ m + 1 <= n
    <3> HIDE DEF T
    <3> QED  BY <2>0
  <2>1. flat[m + 1] = g[m + 1]
    BY <1>6, <2>a, Zenon
  <2>2. m + 2 \in 1 .. n /\ m + 2 # 1 /\ (m + 2) - 1 = m + 1
    BY <2>a, Zenon
  <2>3. flat[m + 2] = flat[m + 1] \o s[m + 2]
    BY <1>4, <2>2
  <2>4. g[m + 2] = g[m + 1] \o s[m + 2]
    BY <1>0, <2>2
  <2> QED  BY <2>1, <2>3, <2>4, <2>a, Zenon
<1>7. Nat \subseteq T
  <2> HIDE DEF T
  <2> QED  BY <1>5, <1>6, SetInduction
<1>8. n - 1 \in T /\ (n - 1) + 1 = n
  <2> HIDE DEF T
  <2> QED  BY <1>7
<1>9. flat[n] = g[n]
  BY <1>8
<1> QED  BY <1>1, <1>9

(* The bytes of the stream from number a up to number b.                   *)
Stretch(a, b) == [j \in 1 .. b - a |-> a + j - 1]

LEMMA StretchSeq ==
    ASSUME NEW a \in Nat, NEW b \in Nat, a <= b
    PROVE  /\ Stretch(a, b) \in Seq(Nat) /\ Len(Stretch(a, b)) = b - a
           /\ \A j \in 1 .. b - a : Stretch(a, b)[j] = a + j - 1
  BY DEF Stretch

LEMMA StretchConcat ==
    ASSUME NEW a \in Nat, NEW b \in Nat, NEW c \in Nat, a <= b, b <= c
    PROVE  Stretch(a, b) \o Stretch(b, c) = Stretch(a, c)
<1>1. PICK u \in Seq(Nat) : /\ u = Stretch(a, b) /\ Len(u) = b - a
                            /\ \A j \in 1 .. b - a : u[j] = a + j - 1
  BY StretchSeq
<1>2. PICK v \in Seq(Nat) : /\ v = Stretch(b, c) /\ Len(v) = c - b
                            /\ \A j \in 1 .. c - b : v[j] = b + j - 1
  BY StretchSeq
<1>0. a <= c
  OBVIOUS
<1>3. PICK w \in Seq(Nat) : /\ w = Stretch(a, c) /\ Len(w) = c - a
                            /\ \A j \in 1 .. c - a : w[j] = a + j - 1
  BY <1>0, StretchSeq
<1>4. PICK x \in Seq(Nat) : /\ x = u \o v /\ Len(x) = Len(u) + Len(v)
                            /\ \A j \in 1 .. Len(u) + Len(v) :
                                 x[j] = IF j <= Len(u) THEN u[j] ELSE v[j - Len(u)]
  <2>1. /\ u \o v \in Seq(Nat) /\ Len(u \o v) = Len(u) + Len(v)
        /\ \A j \in 1 .. Len(u) + Len(v) :
             (u \o v)[j] = IF j <= Len(u) THEN u[j] ELSE v[j - Len(u)]
    BY ConcatProperties, Zenon
  <2> QED  BY <2>1, Zenon
<1>5. Len(u) + Len(v) = c - a
  BY <1>1, <1>2
<1>6. ASSUME NEW j \in 1 .. c - a PROVE x[j] = w[j]
  <2>1. x[j] = IF j <= Len(u) THEN u[j] ELSE v[j - Len(u)]
    BY <1>4, <1>5
  <2>2. CASE j <= b - a
    <3>1. j \in 1 .. b - a
      BY <2>2
    <3>2. u[j] = a + j - 1
      BY <1>1, <3>1, Zenon
    <3>3. w[j] = a + j - 1
      BY <1>3, Zenon
    <3>4. x[j] = u[j]
      BY <1>1, <2>1, <2>2, Zenon
    <3> QED  BY <3>2, <3>3, <3>4, Zenon
  <2>3. CASE ~(j <= b - a)
    <3>1. j - (b - a) \in 1 .. c - b
      BY <2>3
    <3>2. v[j - (b - a)] = b + (j - (b - a)) - 1
      BY <1>2, <3>1
    <3>3. x[j] = v[j - (b - a)]
      BY <1>1, <2>1, <2>3
    <3>4. w[j] = a + j - 1
      BY <1>3
    <3> QED  BY <3>2, <3>3, <3>4
  <2> QED  BY <2>2, <2>3
<1>7. x = w
  <2>1. Len(x) = Len(w) /\ \A j \in 1 .. Len(x) : x[j] = w[j]
    BY <1>3, <1>4, <1>5, <1>6
  <2> QED  BY <2>1, SeqEqual
<1> QED  BY <1>1, <1>2, <1>3, <1>4, <1>7

LEMMA StretchRest ==
    ASSUME NEW a \in Nat, NEW b \in Nat, NEW m \in Nat, a + m <= b
    PROVE  SubSeq(Stretch(a, b), m + 1, b - a) = Stretch(a + m, b)
<1>1. a <= b /\ a + m \in Nat /\ b - a \in Int /\ m + 1 \in Int
  OBVIOUS
<1>2. PICK u \in Seq(Nat) : /\ u = Stretch(a, b) /\ Len(u) = b - a
                            /\ \A j \in 1 .. b - a : u[j] = a + j - 1
  BY <1>1, StretchSeq
<1>3. PICK v \in Seq(Nat) : /\ v = Stretch(a + m, b) /\ Len(v) = b - (a + m)
                            /\ \A j \in 1 .. b - (a + m) : v[j] = (a + m) + j - 1
  BY <1>1, StretchSeq
<1>4. \A i \in m + 1 .. b - a : u[i] \in Nat
  BY <1>2
<1>5. PICK x \in Seq(Nat) : /\ x = SubSeq(u, m + 1, b - a)
                            /\ Len(x) = IF m + 1 <= b - a THEN (b - a) - (m + 1) + 1 ELSE 0
                            /\ \A i \in 1 .. (b - a) - (m + 1) + 1 : x[i] = u[m + 1 + i - 1]
  <2>1. /\ SubSeq(u, m + 1, b - a) \in Seq(Nat)
        /\ Len(SubSeq(u, m + 1, b - a)) = IF m + 1 <= b - a THEN (b - a) - (m + 1) + 1 ELSE 0
        /\ \A i \in 1 .. (b - a) - (m + 1) + 1 : SubSeq(u, m + 1, b - a)[i] = u[m + 1 + i - 1]
    <3> DEFINE lo == m + 1
               hi == b - a
    <3>1. lo \in Int /\ hi \in Int /\ \A i \in lo .. hi : u[i] \in Nat
      BY <1>1, <1>4
    <3> HIDE DEF lo, hi
    <3>2. /\ SubSeq(u, lo, hi) \in Seq(Nat)
          /\ Len(SubSeq(u, lo, hi)) = IF lo <= hi THEN hi - lo + 1 ELSE 0
          /\ \A i \in 1 .. hi - lo + 1 : SubSeq(u, lo, hi)[i] = u[lo + i - 1]
      BY <3>1, SubSeqProperties
    <3> QED  BY <3>2, Zenon DEF lo, hi
  <2> QED  BY <2>1, Zenon
<1>6. Len(x) = Len(v) /\ Len(x) = b - (a + m)
  BY <1>3, <1>5
<1>7. ASSUME NEW i \in 1 .. Len(x) PROVE x[i] = v[i]
  <2>1. i \in 1 .. (b - a) - (m + 1) + 1 /\ i \in 1 .. b - (a + m) /\ m + 1 + i - 1 \in 1 .. b - a
    BY <1>6
  <2>2. x[i] = u[m + 1 + i - 1]
    BY <1>5, <2>1
  <2>3. u[m + 1 + i - 1] = a + (m + 1 + i - 1) - 1
    BY <1>2, <2>1
  <2>4. v[i] = (a + m) + i - 1
    BY <1>3, <2>1
  <2> QED  BY <2>1, <2>2, <2>3, <2>4
<1>8. x = v
  BY <1>6, <1>7, SeqEqual
<1> QED  BY <1>2, <1>3, <1>5, <1>8, Zenon

(* Stretches of at most K bytes that follow one another make one.          *)
Follow(at, n, K) ==
    /\ at \in [0 .. n -> Nat]
    /\ \A i \in 1 .. n : at[i - 1] <= at[i] /\ at[i] <= at[i - 1] + K

LEMMA FollowBounds ==
    ASSUME NEW n \in Nat, NEW K \in Nat, NEW at, Follow(at, n, K)
    PROVE  \A i \in 0 .. n : at[0] <= at[i] /\ at[i] <= at[0] + K * i
<1> DEFINE T == {m \in Nat : m <= n => at[0] <= at[m] /\ at[m] <= at[0] + K * m}
<1> USE DEF Follow
<1>1. 0 \in T
  OBVIOUS
<1>2. ASSUME NEW m \in Nat, m \in T PROVE m + 1 \in T
  <2> SUFFICES ASSUME m + 1 <= n PROVE at[0] <= at[m + 1] /\ at[m + 1] <= at[0] + K * (m + 1)
    OBVIOUS
  <2>1. at[0] <= at[m] /\ at[m] <= at[0] + K * m
    BY <1>2
  <2>2. m + 1 \in 1 .. n /\ (m + 1) - 1 = m
    OBVIOUS
  <2>3. at[m] <= at[m + 1] /\ at[m + 1] <= at[m] + K
    BY <2>2
  <2>4. K * (m + 1) = K * m + K /\ K * m \in Nat
    OBVIOUS
  <2>5. at[0] \in Nat /\ at[m] \in Nat /\ at[m + 1] \in Nat
    BY <2>2
  <2> QED  BY <2>1, <2>3, <2>4, <2>5
<1>3. Nat \subseteq T
  <2> HIDE DEF T, Follow
  <2> QED  BY <1>1, <1>2, SetInduction
<1> QED  BY <1>3

LEMMA FlattenStretches ==
    ASSUME NEW n \in Nat \ {0}, NEW K \in Nat, NEW at, Follow(at, n, K)
    PROVE  FlattenSeq([i \in 1 .. n |-> Stretch(at[i - 1], at[i])]) = Stretch(at[0], at[n])
<1> DEFINE s == [i \in 1 .. n |-> Stretch(at[i - 1], at[i])]
           g == [i \in 1 .. n |-> Stretch(at[0], at[i])]
           h == [i \in 1 .. n |-> IF i = 1 THEN s[i] ELSE g[i - 1] \o s[i]]
<1>1. Len(s) = n
  OBVIOUS
<1>2. \A i \in 0 .. n : at[0] <= at[i] /\ at[i] \in Nat
  BY FollowBounds DEF Follow
<1>3. ASSUME NEW i \in 1 .. n PROVE h[i] = g[i]
  <2>1. CASE i = 1
    BY <2>1
  <2>2. CASE i # 1
    <3>1. i - 1 \in 1 .. n /\ i - 1 \in 0 .. n /\ i \in 0 .. n /\ 0 \in 0 .. n
      BY <2>2
    <3>2. at[i - 1] <= at[i]
      BY DEF Follow
    <3>3. Stretch(at[0], at[i - 1]) \o Stretch(at[i - 1], at[i]) = Stretch(at[0], at[i])
      BY <1>2, <3>1, <3>2, StretchConcat
    <3> QED  BY <2>2, <3>1, <3>3
  <2> QED  BY <2>1, <2>2
<1>4. g = h
  BY <1>3
<1>5. FlattenSeq(s) = g[n]
  <2>1. PutTogether(g, s, n)
    BY <1>1, <1>4, Zenon DEF PutTogether
  <2> HIDE DEF s, g
  <2> QED  BY <2>1, FlattenSolution
<1> QED  BY <1>5

-----------------------------------------------------------------------------
(* The i-th chunk from buffer_ridx on, and how the invariant orders the    *)
(* bytes over the ring.                                                    *)

Ring(i) == (buffer_ridx + i - 1) % buffer_nr_chunks

LEMMA RingWalk ==
    ASSUME NEW n \in Nat \ {0, 1}, NEW r \in 0 .. n - 1
    PROVE  /\ \A i \in 1 .. n : (r + i - 1) % n =
                 IF r + i - 1 < n THEN r + i - 1 ELSE r + i - 1 - n
           /\ \A i \in 1 .. n : (r + i - 1) % n \in 0 .. n - 1
  BY SMT

LEMMA RingNeighbours ==
    ASSUME RingOK, heap = "live"
    PROVE  /\ Ring(1) = buffer_ridx
           /\ \A i \in 1 .. buffer_nr_chunks : Ring(i) \in 0 .. buffer_nr_chunks - 1
           /\ \A i \in 2 .. buffer_nr_chunks :
                 Ring(i) = NextChunk(Ring(i - 1)) /\ Ring(i) # buffer_ridx
           /\ NextChunk(Ring(buffer_nr_chunks)) = buffer_ridx
<1> DEFINE n == buffer_nr_chunks
           r == buffer_ridx
<1>1. BufferTypeOK /\ n \in Nat \ {0, 1} /\ r \in 0 .. n - 1
  BY BufferAssumption DEF RingOK, BufferTypeOK
<1>2. \A i \in 1 .. n : /\ Ring(i) = IF r + i - 1 < n THEN r + i - 1 ELSE r + i - 1 - n
                        /\ Ring(i) \in 0 .. n - 1
  <2> HIDE DEF n, r
  <2>1. \A i \in 1 .. n : Ring(i) = (r + i - 1) % n
    BY DEF Ring, n, r
  <2> QED  BY <1>1, <2>1, RingWalk
<1>3. \A c \in 0 .. n - 1 : NextChunk(c) = IF c + 1 = n THEN 0 ELSE c + 1
  BY <1>1, NextChunkValue
<1> HIDE DEF n, r
<1>4. ASSUME NEW i \in 2 .. n PROVE Ring(i) = NextChunk(Ring(i - 1)) /\ Ring(i) # r
  <2>1. i - 1 \in 1 .. n /\ i \in 1 .. n /\ i - 1 \in Nat /\ i \in Nat
    BY <1>1
  <2>2. /\ Ring(i) = IF r + i - 1 < n THEN r + i - 1 ELSE r + i - 1 - n
        /\ Ring(i - 1) = IF r + (i - 1) - 1 < n THEN r + (i - 1) - 1 ELSE r + (i - 1) - 1 - n
        /\ Ring(i - 1) \in 0 .. n - 1
    BY <1>2, <2>1
  <2>3. NextChunk(Ring(i - 1)) = IF Ring(i - 1) + 1 = n THEN 0 ELSE Ring(i - 1) + 1
    BY <1>3, <2>2
  <2> QED  BY <1>1, <2>1, <2>2, <2>3
<1>5. Ring(1) = r
  BY <1>1, <1>2
<1>6. NextChunk(Ring(n)) = r
  <2>1. /\ Ring(n) = IF r + n - 1 < n THEN r + n - 1 ELSE r + n - 1 - n
        /\ Ring(n) \in 0 .. n - 1
    BY <1>1, <1>2
  <2>2. NextChunk(Ring(n)) = IF Ring(n) + 1 = n THEN 0 ELSE Ring(n) + 1
    BY <1>3, <2>1
  <2> QED  BY <1>1, <2>1, <2>2
<1> QED  BY <1>2, <1>4, <1>5, <1>6 DEF n, r

(* What a chunk holds is a stretch of the stream, and it follows what the  *)
(* chunk before it holds.                                                  *)
LEMMA ChunkStretch ==
    ASSUME RingOK, heap = "live", produced \in Nat, NEW c \in 0 .. buffer_nr_chunks - 1
    PROVE  /\ First(c) \in Nat /\ Following(c) \in Nat
           /\ First(c) <= Following(c) /\ Following(c) <= First(c) + CHUNK_SIZE
           /\ ChunkBytes(c) = Stretch(First(c), Following(c))
<1>1. /\ chunk_l[c] \in Nat /\ chunk_h[c] \in Nat /\ chunk_h[c] <= CHUNK_SIZE
      /\ CHUNK_SIZE \in Nat /\ chunk_data[c] \in [Bytes -> Nat] /\ chunk_l[c] <= chunk_h[c]
      /\ c \in Chunks
  <2>1. BufferTypeOK /\ buffer_nr_chunks \in Nat /\ CHUNK_SIZE \in Nat /\ MIN_FREE \in Nat
    BY BufferAssumption DEF RingOK, BufferTypeOK
  <2>2. /\ chunk_l[c] \in 0 .. CHUNK_SIZE /\ chunk_h[c] \in 0 .. CHUNK_SIZE
        /\ chunk_data[c] \in [Bytes -> Nat] /\ c \in Chunks
    BY <2>1 DEF BufferTypeOK, Chunks
  <2>3. chunk_l[c] <= chunk_h[c]
    BY <2>1, <2>2 DEF RingOK, ChunkInv
  <2> QED  BY <2>1, <2>2, <2>3
<1>2. First(c) \in Nat
  BY <1>1 DEF First, Bytes
<1>3. Following(c) = First(c) + (chunk_h[c] - chunk_l[c])
  BY DEF Following
<1>4. \A b \in Bytes : chunk_l[c] <= b /\ b < chunk_h[c] =>
         chunk_data[c][b] = First(c) + (b - chunk_l[c])
  BY <1>1 DEF RingOK, StreamInv
<1>5. /\ Following(c) \in Nat /\ First(c) <= Following(c) /\ Following(c) <= First(c) + CHUNK_SIZE
      /\ Following(c) - First(c) = chunk_h[c] - chunk_l[c]
  <2> HIDE DEF First, Following
  <2> QED  BY <1>1, <1>2, <1>3
<1>6. ASSUME NEW j \in 1 .. chunk_h[c] - chunk_l[c]
      PROVE  chunk_data[c][chunk_l[c] + j - 1] = First(c) + j - 1
  <2> DEFINE b == chunk_l[c] + j - 1
  <2>1. b \in Bytes /\ chunk_l[c] <= b /\ b < chunk_h[c] /\ b - chunk_l[c] = j - 1
    <3>1. PICK lo \in Nat : lo = chunk_l[c]
      BY <1>1
    <3>2. PICK hi \in Nat : hi = chunk_h[c] /\ hi <= CHUNK_SIZE
      BY <1>1
    <3>3. /\ lo + j - 1 \in 0 .. CHUNK_SIZE - 1 /\ lo <= lo + j - 1 /\ lo + j - 1 < hi
          /\ lo + j - 1 - lo = j - 1
      BY <1>1, <3>1, <3>2
    <3> QED  BY <3>1, <3>2, <3>3 DEF Bytes
  <2>2. chunk_data[c][b] = First(c) + (b - chunk_l[c])
    BY <1>4, <2>1
  <2> HIDE DEF b
  <2>3. chunk_data[c][b] = First(c) + j - 1
    BY <1>2, <2>1, <2>2
  <2> QED  BY <2>3 DEF b
<1>7. ChunkBytes(c) = Stretch(First(c), Following(c))
  BY <1>5, <1>6, Zenon DEF ChunkBytes, Stretch
<1> QED  BY <1>2, <1>5, <1>7

LEMMA NextFollows ==
    ASSUME RingOK, heap = "live", produced \in Nat, NEW c \in 0 .. buffer_nr_chunks - 1
    PROVE  IF NextChunk(c) = buffer_ridx THEN Following(c) = produced
                                         ELSE First(NextChunk(c)) = Following(c)
<1> DEFINE n == buffer_nr_chunks
           r == buffer_ridx
           w == buffer_widx
           d == NextChunk(c)
<1>1. /\ BufferTypeOK /\ n \in Nat \ {0, 1} /\ Chunks = 0 .. n - 1
      /\ r \in 0 .. n - 1 /\ w \in 0 .. n - 1
      /\ chunk_filled \in [0 .. n - 1 -> BOOLEAN]
  BY BufferAssumption DEF RingOK, BufferTypeOK, Chunks
<1>2. d = (IF c + 1 = n THEN 0 ELSE c + 1) /\ d \in 0 .. n - 1
  BY <1>1, NextChunkValue
<1>3. ~chunk_filled[w] => Following(w) = produced
  BY DEF RingOK, StreamInv
<1>4. \A x \in 0 .. n - 1 : ~chunk_filled[x] /\ x # w =>
         First(x) = produced /\ Following(x) = produced
  <2> TAKE x \in 0 .. n - 1
  <2>1. ~chunk_filled[x] /\ x # w => chunk_l[x] = 0 /\ chunk_h[x] = 0
    BY <1>1 DEF RingOK, ChunkInv
  <2> QED  BY <2>1 DEF First, Following
<1>5. CASE chunk_filled[c]
  <2>1. Following(c) = IF d = w /\ chunk_filled[w] THEN produced ELSE First(d)
    BY <1>1, <1>5 DEF RingOK, StreamInv
  <2>2. /\ chunk_filled[r] /\ d = r => r = w
    BY <1>1, <1>5, Neighbours
  <2>3. chunk_filled[w] => r = w
    BY <1>1, Neighbours
  <2> HIDE DEF d
  <2> QED  BY <2>1, <2>2, <2>3, Neighbours, <1>5 DEF d
<1>6. CASE ~chunk_filled[c]
  <2>1. Following(c) = produced
    BY <1>3, <1>4, <1>6
  <2>2. d # r => ~chunk_filled[d] /\ d # w
    <3>1. /\ r < w => \A x \in 0 .. n - 1 : chunk_filled[x] <=> r <= x /\ x < w
          /\ r > w => \A x \in 0 .. n - 1 : chunk_filled[x] <=> r <= x \/ x < w
          /\ r = w => \A x \in 0 .. n - 1 : chunk_filled[x] <=> chunk_filled[r]
      BY <1>1 DEF RingOK, RingInv
    <3> HIDE DEF n, r, w, d
    <3> QED  BY <1>1, <1>2, <1>6, <3>1
  <2> QED  BY <1>2, <1>4, <2>1, <2>2
<1> QED  BY <1>1, <1>5, <1>6

(* The ring holds the stream from played up to produced, and no more than  *)
(* fits into it.                                                           *)
LEMMA RingContents ==
    ASSUME RingOK, heap = "live", produced \in Nat, played \in Nat
    PROVE  /\ Contents = Stretch(played, produced)
           /\ played <= produced /\ produced <= played + CHUNK_SIZE * buffer_nr_chunks
<1> DEFINE n == buffer_nr_chunks
           at == [i \in 0 .. n |-> IF i = 0 THEN played ELSE Following(Ring(i))]
<1>1. /\ n \in Nat \ {0, 1} /\ CHUNK_SIZE \in Nat
  BY BufferAssumption DEF RingOK, BufferTypeOK
<1>2. /\ Ring(1) = buffer_ridx
      /\ \A i \in 1 .. n : Ring(i) \in 0 .. n - 1
      /\ \A i \in 2 .. n : Ring(i) = NextChunk(Ring(i - 1)) /\ Ring(i) # buffer_ridx
      /\ NextChunk(Ring(n)) = buffer_ridx
  BY RingNeighbours
<1>3. \A i \in 1 .. n : /\ First(Ring(i)) \in Nat /\ Following(Ring(i)) \in Nat
                        /\ First(Ring(i)) <= Following(Ring(i))
                        /\ Following(Ring(i)) <= First(Ring(i)) + CHUNK_SIZE
                        /\ ChunkBytes(Ring(i)) = Stretch(First(Ring(i)), Following(Ring(i)))
  BY <1>2, ChunkStretch
<1>4. First(Ring(1)) = played
  BY <1>2 DEF RingOK, StreamInv
<1>5. ASSUME NEW i \in 2 .. n PROVE First(Ring(i)) = Following(Ring(i - 1))
  <2>1. i - 1 \in 1 .. n
    BY <1>1
  <2>2. Ring(i - 1) \in 0 .. n - 1 /\ NextChunk(Ring(i - 1)) = Ring(i) /\ Ring(i) # buffer_ridx
    BY <1>2, <2>1
  <2> HIDE DEF First, Following
  <2> QED  BY <2>2, NextFollows
<1>6. Following(Ring(n)) = produced
  <2>1. Ring(n) \in 0 .. n - 1
    BY <1>1, <1>2
  <2> QED  BY <1>2, <2>1, NextFollows
<1> HIDE DEF First, Following, Ring, Stretch, ChunkBytes
<1>7. \A i \in 1 .. n : at[i - 1] = First(Ring(i)) /\ at[i] = Following(Ring(i))
  <2> TAKE i \in 1 .. n
  <2>1. CASE i = 1
    BY <1>1, <1>4, <2>1
  <2>2. CASE i # 1
    <3>1. i \in 2 .. n /\ i - 1 \in 0 .. n /\ i \in 0 .. n /\ i - 1 # 0 /\ i # 0
      BY <1>1, <2>2
    <3> QED  BY <1>5, <3>1
  <2> QED  BY <2>1, <2>2
<1>8. at[0] = played /\ at[n] = produced
  BY <1>1, <1>6
<1>9. at \in [0 .. n -> Nat]
  BY <1>1, <1>3
<1> HIDE DEF at
<1>10. Follow(at, n, CHUNK_SIZE)
  BY <1>3, <1>7, <1>9 DEF Follow
<1>11. Contents = FlattenSeq([i \in 1 .. n |-> Stretch(at[i - 1], at[i])])
  <2>1. [i \in 1 .. n |-> ChunkBytes(Ring(i))] = [i \in 1 .. n |-> Stretch(at[i - 1], at[i])]
    BY <1>3, <1>7
  <2>2. Contents = FlattenSeq([i \in 1 .. n |-> ChunkBytes(Ring(i))])
    BY Zenon DEF Contents, Ring
  <2> QED  BY <2>1, <2>2, Zenon
<1>12. Contents = Stretch(played, produced)
  BY <1>1, <1>8, <1>10, <1>11, FlattenStretches
<1>13. played <= produced /\ produced <= played + CHUNK_SIZE * n
  <2>1. n \in 0 .. n
    BY <1>1
  <2> QED  BY <1>1, <1>8, <1>10, <2>1, FollowBounds
<1> QED  BY <1>12, <1>13

-----------------------------------------------------------------------------
(* In terms of the two counters, a step of Pipe reads, plays, throws away  *)
(* or does none of these.                                                  *)

Reads == \E m \in 1 .. CHUNK_SIZE : produced' = produced + m /\ played' = played
Plays == produced' = produced /\ \E m \in Nat \ {0} : played' = played + m
Drops == produced' = produced /\ played' = produced
Rests == produced' = produced /\ played' = played

LEMMA StepsOfTheCounters ==
    ASSUME PipeInv, [Next]_vars
    PROVE  Reads \/ Plays \/ Drops \/ Rests
<1> USE DEF streamVars, statusVars
<1>0. TypeOK /\ produced \in Nat /\ played \in Nat /\ nr_read \in 0 .. CHUNK_SIZE /\ CHUNK_SIZE \in Nat
  BY BufferAssumption DEF PipeInv, TypeOK
<1>1. CASE Producer
  <2>1. CASE ProducerFill
    <3>1. produced' = produced + nr_read /\ played' = played
      BY <2>1 DEF ProducerFill
    <3> QED  BY <1>0, <3>1 DEF Reads, Rests
  <2>2. CASE ~ProducerFill
    <3>1. produced' = produced /\ played' = played
      BY <1>1, <2>2 DEF Producer, ProducerLock, ProducerGetWpos, ProducerRead, ProducerReadEof,
         ProducerReadAgain, ProducerFillUpdate
    <3> QED  BY <3>1 DEF Rests
  <2> QED  BY <2>1, <2>2
<1>2. CASE Consumer
  <2>1. CASE ConsumerWrite
    <3>1. produced' = produced /\ \E rc \in 1 .. size : played' = played + rc
      BY <2>1 DEF ConsumerWrite
    <3>2. size \in Nat
      BY <1>0 DEF TypeOK
    <3> QED  BY <3>1, <3>2 DEF Plays
  <2>2. CASE ConsumerHandleEof
    BY <2>2 DEF ConsumerHandleEof, Drops
  <2>3. CASE ~ConsumerWrite /\ ~ConsumerHandleEof
    <3>1. produced' = produced /\ played' = played
      BY <1>2, <2>3 DEF Consumer, ConsumerLock, ConsumerNoSpace, ConsumerGetRpos,
         ConsumerLockProducer, ConsumerRecheckData, ConsumerUnderrun, ConsumerWriteFails
    <3> QED  BY <3>1 DEF Rests
  <2> QED  BY <2>1, <2>2, <2>3
<1>3. CASE Command
  <2>1. produced' = produced /\ (played' = played \/ played' = produced)
    <3>1. CASE CommandStart
      BY <3>1 DEF CommandStart
    <3>2. CASE ~CommandStart
      BY <1>3, <3>2 DEF Command, CommandLockConsumer, CommandLockProducer, CommandStop,
         CommandNothing, CommandSeek, CommandPlayFile, CommandPause, CommandSetBufferChunks,
         CommandFreeChunks, CommandAllocChunks, CommandResetChunks, Stop
    <3> QED  BY <3>1, <3>2
  <2> QED  BY <2>1 DEF Drops, Rests
<1>4. CASE Prebuffer
  <2>1. CASE PrebufferRead
    <3>1. PICK m \in 1 .. buffer_get_wpos : produced' = produced + m /\ played' = played
      BY <2>1 DEF PrebufferRead
    <3>2. mpc \notin {"alloc", "reset"}
      BY <2>1 DEF PipeInv, LockInv, PrebufferRead, Prebuffering
    <3>3. buffer_get_wpos \in 0 .. CHUNK_SIZE
      BY <3>2, WposRange
    <3> QED  BY <1>0, <3>1, <3>3 DEF Reads
  <2>2. CASE ~PrebufferRead
    <3>1. produced' = produced /\ played' = played
      BY <1>4, <2>2 DEF Prebuffer, PrebufferEnough, PrebufferReadEof
    <3> QED  BY <3>1 DEF Rests
  <2> QED  BY <2>1, <2>2
<1>5. CASE UNCHANGED vars
  BY <1>5 DEF vars, Rests
<1> QED  BY <1>1, <1>2, <1>3, <1>4, <1>5 DEF Next

LEMMA CapacityNat == Max(NrChunks) \in Nat /\ CHUNK_SIZE * Max(NrChunks) \in Nat /\ CHUNK_SIZE \in Nat
<1>1. NrChunks \subseteq Nat /\ CHUNK_SIZE \in Nat
  BY BufferAssumption
<1>2. \E x \in NrChunks : \A y \in NrChunks : x >= y
  BY <1>1, RefinesAssumption
<1>3. Max(NrChunks) \in NrChunks
  BY <1>2, Zenon DEF Max
<1>4. Max(NrChunks) \in Nat
  BY <1>1, <1>3
<1> HIDE DEF Max
<1> QED  BY <1>1, <1>4

LEMMA CapacityBound ==
    ASSUME BufferTypeOK
    PROVE  /\ CHUNK_SIZE * Max(NrChunks) \in Nat
           /\ CHUNK_SIZE * buffer_nr_chunks <= CHUNK_SIZE * Max(NrChunks)
<1>1. /\ NrChunks \subseteq Nat /\ CHUNK_SIZE \in Nat /\ buffer_nr_chunks \in NrChunks
  BY BufferAssumption DEF BufferTypeOK
<1>2. \E x \in NrChunks : \A y \in NrChunks : x >= y
  BY <1>1, RefinesAssumption
<1>3. Max(NrChunks) \in NrChunks /\ \A y \in NrChunks : Max(NrChunks) >= y
  BY <1>2, Zenon DEF Max
<1>4. Max(NrChunks) \in Nat /\ buffer_nr_chunks <= Max(NrChunks) /\ buffer_nr_chunks \in Nat
  BY <1>1, <1>3
<1> HIDE DEF Max
<1> QED  BY <1>1, <1>4

(* Under the invariant the mapped queue is the stretch between the two     *)
(* counters, with the chunks allocated or not, and fits into the largest   *)
(* ring.                                                                   *)
QueueShape ==
    /\ produced \in Nat /\ played \in Nat /\ played <= produced
    /\ Contents = Stretch(played, produced)
    /\ produced <= played + CHUNK_SIZE * Max(NrChunks)

LEMMA ContentsValue == PipeInv => QueueShape
<1> SUFFICES ASSUME PipeInv PROVE QueueShape
  OBVIOUS
<1>1. /\ produced \in Nat /\ played \in Nat /\ CHUNK_SIZE \in Nat /\ buffer_nr_chunks \in Nat
      /\ RingOK /\ BufferTypeOK
  BY BufferAssumption DEF PipeInv, TypeOK, RingOK, BufferTypeOK
<1>2. /\ CHUNK_SIZE * Max(NrChunks) \in Nat
      /\ CHUNK_SIZE * buffer_nr_chunks <= CHUNK_SIZE * Max(NrChunks)
  BY <1>1, CapacityBound
<1> HIDE DEF Max
<1>3. CHUNK_SIZE * buffer_nr_chunks \in Nat
  BY <1>1
<1>4. CASE heap = "live"
  <2>1. /\ Contents = Stretch(played, produced)
        /\ played <= produced /\ produced <= played + CHUNK_SIZE * buffer_nr_chunks
    BY <1>1, <1>4, RingContents
  <2>2. produced <= played + CHUNK_SIZE * Max(NrChunks)
    BY <1>1, <1>2, <1>3, <2>1
  <2> QED  BY <1>1, <2>1, <2>2, Zenon DEF QueueShape
<1>5. CASE heap # "live"
  <2>1. played = produced
    BY <1>5 DEF PipeInv, TypeOK, BufferTypeOK, StatusInv
  <2>2. Contents = << >>
    BY <1>5 DEF Contents
  <2>3. Stretch(produced, produced) = << >>
    BY <1>1 DEF Stretch
  <2>4. produced <= produced + CHUNK_SIZE * Max(NrChunks) /\ produced <= produced
    BY <1>1, <1>2
  <2> QED  BY <1>1, <2>1, <2>2, <2>3, <2>4, Zenon DEF QueueShape
<1> QED  BY <1>4, <1>5

(* What each of them is for the queue.                                     *)
LEMMA ReadIsPut ==
    ASSUME QueueShape, QueueShape', Reads
    PROVE  Queue!Put
<1>1. PICK m \in 1 .. CHUNK_SIZE : produced' = produced + m /\ played' = played
  BY DEF Reads
<1>2. /\ produced \in Nat /\ played \in Nat /\ Contents = Stretch(played, produced)
      /\ played <= produced
  BY DEF QueueShape
<1>3. /\ Contents' = Stretch(played', produced')
      /\ produced' <= played' + CHUNK_SIZE * Max(NrChunks)
  BY Zenon DEF QueueShape
<1>4. CHUNK_SIZE * Max(NrChunks) \in Nat /\ CHUNK_SIZE \in Nat
  BY CapacityNat
<1>6. Len(Contents) = produced - played
  BY <1>2, StretchSeq
<1>7. Len(Contents) + m <= CHUNK_SIZE * Max(NrChunks)
  <2> HIDE DEF Max
  <2>1. produced + m <= played + CHUNK_SIZE * Max(NrChunks)
    BY <1>1, <1>3
  <2> QED  BY <1>2, <1>4, <1>6, <2>1
<1>8. Stretch(produced, produced + m) = [i \in 1 .. m |-> produced + i - 1]
  <2>1. (produced + m) - produced = m
    BY <1>2, <1>4
  <2> QED  BY <2>1, Zenon DEF Stretch
<1>9. Stretch(played, produced) \o Stretch(produced, produced + m) = Stretch(played, produced + m)
  <2>1. produced + m \in Nat /\ produced <= produced + m
    BY <1>2, <1>4
  <2> QED  BY <1>2, <2>1, StretchConcat
<1>10. Contents' = Contents \o [i \in 1 .. m |-> produced + i - 1]
  BY <1>1, <1>2, <1>3, <1>8, <1>9, Zenon
<1> HIDE DEF Contents, Max
<1> QED  BY <1>1, <1>7, <1>10, Zenon DEF Queue!Put

LEMMA PlayIsGet ==
    ASSUME QueueShape, QueueShape', Plays
    PROVE  Queue!Get
<1>1. PICK m \in Nat \ {0} : produced' = produced /\ played' = played + m
  BY DEF Plays
<1>2. /\ produced \in Nat /\ played \in Nat /\ Contents = Stretch(played, produced)
      /\ played <= produced
  BY DEF QueueShape
<1>3. Contents' = Stretch(played', produced') /\ played' <= produced'
  BY Zenon DEF QueueShape
<1>4. Len(Contents) = produced - played
  BY <1>2, StretchSeq
<1>5. m \in 1 .. Len(Contents) /\ played + m <= produced
  BY <1>1, <1>2, <1>3, <1>4
<1>6. SubSeq(Stretch(played, produced), m + 1, produced - played) = Stretch(played + m, produced)
  BY <1>2, <1>5, StretchRest
<1>7. Contents' = SubSeq(Contents, m + 1, Len(Contents))
  BY <1>1, <1>2, <1>3, <1>4, <1>6, Zenon
<1> HIDE DEF Contents
<1> QED  BY <1>1, <1>5, <1>7, Zenon DEF Queue!Get

LEMMA DropIsFlush ==
    ASSUME QueueShape, QueueShape', Drops
    PROVE  Queue!Flush
<1>1. produced' = produced /\ played' = produced /\ produced \in Nat
  BY DEF QueueShape, Drops
<1>2. Contents' = Stretch(played', produced')
  BY Zenon DEF QueueShape
<1>3. Stretch(produced, produced) = << >>
  BY <1>1 DEF Stretch
<1>4. Contents' = << >>
  BY <1>1, <1>2, <1>3, Zenon
<1> HIDE DEF Contents
<1> QED  BY <1>1, <1>4, Zenon DEF Queue!Flush

LEMMA RestIsNothing ==
    ASSUME QueueShape, QueueShape', Rests
    PROVE  UNCHANGED Queue!vars
<1>1. Contents' = Contents /\ produced' = produced
  BY Zenon DEF QueueShape, Rests
<1> HIDE DEF Contents
<1> QED  BY <1>1 DEF Queue!vars

(* Every behaviour of the ring buffer, its two threads and the commands is *)
(* one of the queue of bytes that AudioQueue specifies: the ring's bytes   *)
(* are only ever appended in the order they were read, taken from the      *)
(* front or thrown away together.                                          *)
THEOREM PipeImplementsQueue == Spec => ImplementsQueue
<1>1. Init => Queue!Init
  <2> SUFFICES ASSUME Init PROVE Queue!Init
    OBVIOUS
  <2>1. QueueShape /\ produced = 0 /\ played = 0
    BY InitPipeInv, ContentsValue DEF Init
  <2>2. Contents = Stretch(0, 0)
    BY <2>1, Zenon DEF QueueShape
  <2>3. Stretch(0, 0) = << >>
    BY DEF Stretch
  <2>4. Contents = << >>
    BY <2>2, <2>3, Zenon
  <2> HIDE DEF Contents
  <2> QED  BY <2>1, <2>4 DEF Queue!Init
<1>2. PipeInv /\ QueueShape /\ QueueShape' /\ [Next]_vars => [Queue!Next]_(Queue!vars)
  <2> SUFFICES ASSUME PipeInv, QueueShape, QueueShape', [Next]_vars
               PROVE  Queue!Next \/ UNCHANGED Queue!vars
    OBVIOUS
  <2>1. Reads \/ Plays \/ Drops \/ Rests
    BY StepsOfTheCounters
  <2>2. Reads => Queue!Put
    BY ReadIsPut
  <2>3. Plays => Queue!Get
    BY PlayIsGet
  <2>4. Drops => Queue!Flush
    BY DropIsFlush
  <2>5. Rests => UNCHANGED Queue!vars
    BY RestIsNothing
  <2> QED  BY <2>1, <2>2, <2>3, <2>4, <2>5, Zenon DEF Queue!Next
<1> QED  BY PipeInvariant, ContentsValue, <1>1, <1>2, PTL DEF Spec, ImplementsQueue, Queue!Spec

=============================================================================
