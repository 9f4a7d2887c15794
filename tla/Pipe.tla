-------------------------------- MODULE Pipe --------------------------------
(***************************************************************************)
(* The data path of player.c: producer_loop reads the input plugin into    *)
(* the ring buffer, consumer_loop writes the ring buffer to the output     *)
(* plugin, and a thread running a player_* command takes both locks to     *)
(* flush, refill or replace the buffer.  Of the two state machines only    *)
(* what the data path depends on is kept: "STOPPED" stands for PS_UNLOADED *)
(* too, and a command is told by what it does to the buffer.  Module       *)
(* Player has the state machines in full.                                  *)
(*                                                                         *)
(* Between two steps of one thread any other thread may run.  Code that    *)
(* runs while both locks are held is one step, except where it lets the    *)
(* producer's unlocked fill update in between (buffer_init) or loops       *)
(* (__prebuffer).                                                          *)
(***************************************************************************)
EXTENDS Buffer

CONSTANTS
    PrebufferLimit,   \* limit_chunks of __prebuffer for the format played
    StreamEnd,        \* number of bytes the input can deliver in a run
    SeekWorks         \* what ip_seek may return: TRUE success, FALSE error

ASSUME PipeAssumption ==
    /\ PrebufferLimit \in Nat \ {0}
    /\ StreamEnd \in Nat
    /\ SeekWorks \subseteq BOOLEAN

VARIABLES
    consumer_mutex,   \* thread holding the lock, or NoThread
    producer_mutex,
    producer_status,  \* "STOPPED", "PLAYING" or "PAUSED"
    consumer_status,  \* likewise
    ip_eof,           \* ip->eof
    produced,         \* bytes published by buffer_fill so far
    played,           \* next byte the sound card has to get
    ppc,              \* producer thread: where it is ...
    p_i,              \* ... its loop counter i ...
    wpos,             \* ... the pointer from buffer_get_wpos ...
    nr_read,          \* ... and what ip_read returned
    cpc,              \* consumer thread: where it is ...
    rpos,             \* ... the pointer from buffer_get_rpos ...
    size,             \* ... the bytes it may write there
    mpc               \* command thread

producerVars == << ppc, p_i, wpos, nr_read >>
consumerVars == << cpc, rpos, size >>
statusVars   == << producer_status, consumer_status >>
streamVars   == << statusVars, ip_eof, produced, played >>
lockVars     == << consumer_mutex, producer_mutex >>
vars == << bufferVars, lockVars, streamVars, producerVars, consumerVars,
           mpc >>

NoThread == "none"
Threads  == {"producer", "consumer", "command"}

(* const int chunks = 1 in producer_loop: it reads twice per lock.         *)
chunks == 1

Init ==
    /\ BufferInit
    /\ consumer_mutex = NoThread /\ producer_mutex = NoThread
    /\ producer_status = "STOPPED" /\ consumer_status = "STOPPED" /\ ip_eof = FALSE
    /\ produced = 0 /\ played = 0
    /\ ppc = "lock" /\ p_i = 0 /\ wpos = << 0, 0 >> /\ nr_read = 0
    /\ cpc = "lock" /\ rpos = << 0, 0 >> /\ size = 0
    /\ mpc = "idle"

-----------------------------------------------------------------------------
(* producer_loop                                                           *)

(* producer_unlock and the end of the round: the loop's locals are gone.   *)
ProducerUnlocks ==
    /\ producer_mutex' = NoThread
    /\ ppc' = "update"
    /\ p_i' = 0 /\ wpos' = << 0, 0 >> /\ nr_read' = 0

(* producer_lock; nothing to do unless playing and not at end of file.     *)
ProducerLock ==
    /\ ppc = "lock" /\ producer_mutex = NoThread
    /\ producer_status = "PLAYING" /\ ~ip_eof
    /\ producer_mutex' = "producer"
    /\ ppc' = "wpos" /\ p_i' = 0
    /\ UNCHANGED << bufferVars, consumer_mutex, streamVars, wpos, nr_read,
                    consumerVars, mpc >>

(* buffer_get_wpos; a full buffer ends the round.                          *)
ProducerGetWpos ==
    /\ ppc = "wpos"
    /\ IF buffer_get_wpos = 0
       THEN ProducerUnlocks
       ELSE /\ wpos' = << buffer_widx, chunk_h[buffer_widx] >>
            /\ ppc' = "read"
            /\ UNCHANGED << producer_mutex, p_i, nr_read >>
    /\ UNCHANGED << bufferVars, consumer_mutex, streamVars,
                    consumerVars, mpc >>

(* ip_read delivers data, stored at wpos without holding buffer_mutex.     *)
ProducerRead ==
    /\ ppc = "read"
    /\ \E n \in 1 .. CHUNK_SIZE - wpos[2] :
         /\ produced + n <= StreamEnd
         /\ StoreAt(wpos, n, produced)
         /\ nr_read' = n
    /\ ppc' = "fill"
    /\ UNCHANGED << buffer_nr_chunks, buffer_ridx, buffer_widx, heap, chunk_l,
                    chunk_h, chunk_filled, lockVars, streamVars, p_i, wpos,
                    consumerVars, mpc >>

(* ip_read returns 0 or an error: it sets eof, the count becomes 0.        *)
ProducerReadEof ==
    /\ ppc = "read"
    /\ ip_eof' = TRUE
    /\ nr_read' = 0
    /\ ppc' = "fill"
    /\ UNCHANGED << bufferVars, lockVars, statusVars, produced, played, p_i, wpos,
                    consumerVars, mpc >>

(* ip_read returns -1 with EAGAIN: give the lock back and sleep.           *)
ProducerReadAgain ==
    /\ ppc = "read"
    /\ ProducerUnlocks
    /\ UNCHANGED << bufferVars, consumer_mutex, streamVars,
                    consumerVars, mpc >>

(* buffer_fill(nr_read), then unlock at end of file or after the last      *)
(* round of the loop.                                                      *)
ProducerFill ==
    /\ ppc = "fill"
    /\ BufferFill(nr_read) /\ UNCHANGED chunk_data
    /\ produced' = produced + nr_read
    /\ IF nr_read = 0 \/ p_i = chunks
       THEN ProducerUnlocks
       ELSE /\ ppc' = "wpos" /\ p_i' = p_i + 1
            /\ UNCHANGED << producer_mutex, wpos, nr_read >>
    /\ UNCHANGED << consumer_mutex, statusVars, ip_eof, played,
                    consumerVars, mpc >>

(* __producer_buffer_fill_update, called after producer_unlock: it looks   *)
(* at the ring through buffer_get_filled_chunks and changes nothing here.  *)
ProducerFillUpdate ==
    /\ ppc = "update"
    /\ ppc' = "lock"
    /\ UNCHANGED << bufferVars, lockVars, streamVars, p_i, wpos, nr_read,
                    consumerVars, mpc >>

Producer ==
    \/ ProducerLock \/ ProducerGetWpos \/ ProducerRead \/ ProducerReadEof
    \/ ProducerReadAgain \/ ProducerFill \/ ProducerFillUpdate

-----------------------------------------------------------------------------
(* consumer_loop                                                           *)

(* consumer_unlock and the end of the round: the loop's locals are gone.   *)
ConsumerUnlocks ==
    /\ consumer_mutex' = NoThread
    /\ cpc' = "lock" /\ rpos' = << 0, 0 >> /\ size' = 0

(* consumer_lock; go on only if playing.                                   *)
ConsumerLock ==
    /\ cpc = "lock" /\ consumer_mutex = NoThread
    /\ consumer_status = "PLAYING"
    /\ consumer_mutex' = "consumer"
    /\ cpc' = "rpos"
    /\ UNCHANGED << bufferVars, producer_mutex, streamVars, producerVars,
                    rpos, size, mpc >>

(* The sound card is busy or has less than 4096 bytes of space.            *)
ConsumerNoSpace ==
    /\ cpc = "rpos"
    /\ ConsumerUnlocks
    /\ UNCHANGED << bufferVars, producer_mutex, streamVars, producerVars,
                    mpc >>

(* A consumer that takes an empty buffer for an underrun, always.          *)
ConsumerNeverAtEof ==
    /\ cpc = "rpos"
    /\ IF buffer_get_rpos = 0
       THEN ConsumerUnlocks
       ELSE /\ size' = buffer_get_rpos
            /\ rpos' = << buffer_ridx, chunk_l[buffer_ridx] >>
            /\ cpc' = "write"
            /\ UNCHANGED consumer_mutex
    /\ UNCHANGED << bufferVars, producer_mutex, streamVars, producerVars, mpc >>

(* buffer_get_rpos; an empty buffer must be looked at again under          *)
(* producer_mutex, because eof and the buffer may disagree without it.     *)
ConsumerGetRpos ==
    /\ cpc = "rpos"
    /\ size' = buffer_get_rpos
    /\ rpos' = << buffer_ridx, chunk_l[buffer_ridx] >>
    /\ cpc' = IF size' = 0 THEN "plock" ELSE "write"
    /\ UNCHANGED << bufferVars, lockVars, streamVars, producerVars,
                    mpc >>

ConsumerLockProducer ==
    /\ cpc = "plock" /\ producer_mutex = NoThread
    /\ producer_mutex' = "consumer"
    /\ cpc' = "recheck"
    /\ UNCHANGED << bufferVars, consumer_mutex, streamVars, producerVars,
                    rpos, size, mpc >>

(* "must recheck rpos": data after all.                                    *)
ConsumerRecheckData ==
    /\ cpc = "recheck" /\ producer_status = "PLAYING" /\ buffer_get_rpos # 0
    /\ size' = buffer_get_rpos
    /\ rpos' = << buffer_ridx, chunk_l[buffer_ridx] >>
    /\ producer_mutex' = NoThread
    /\ cpc' = "write"
    /\ UNCHANGED << bufferVars, consumer_mutex, streamVars, producerVars,
                    mpc >>

(* An underrun that leaves producer_mutex locked.                          *)
ConsumerUnderrunKeepsLock ==
    /\ cpc = "recheck"
    /\ ~(producer_status = "PLAYING" /\ (buffer_get_rpos # 0 \/ ip_eof))
    /\ ConsumerUnlocks
    /\ UNCHANGED << bufferVars, producer_mutex, streamVars, producerVars, mpc >>

(* possible underrun (not at end of file yet), or no longer playing.       *)
ConsumerUnderrun ==
    /\ cpc = "recheck"
    /\ ~(producer_status = "PLAYING" /\ (buffer_get_rpos # 0 \/ ip_eof))
    /\ producer_mutex' = NoThread
    /\ ConsumerUnlocks
    /\ UNCHANGED << bufferVars, streamVars, producerVars,
                    mpc >>

(* __consumer_handle_eof: playback stops (connection lost, no next track,  *)
(* not continuing), the track is repeated, or the next one is opened and,  *)
(* its format being playable, prebuffered.  A failing ip_seek is ignored.  *)
ConsumerHandleEof ==
    /\ cpc = "recheck" /\ producer_status = "PLAYING"
    /\ buffer_get_rpos = 0 /\ ip_eof
    /\ BufferReset
    /\ played' = produced
    /\ \/ /\ producer_status' = "STOPPED" /\ consumer_status' = "STOPPED"
          /\ ip_eof' = FALSE
          /\ producer_mutex' = NoThread /\ ConsumerUnlocks
       \/ /\ \E ok \in SeekWorks : ip_eof' = ~ok
          /\ producer_mutex' = NoThread /\ ConsumerUnlocks
          /\ UNCHANGED statusVars
       \/ /\ ip_eof' = FALSE
          /\ cpc' = "prebuffer"
          /\ UNCHANGED << statusVars, lockVars, rpos, size >>
    /\ UNCHANGED << produced, producerVars, mpc >>

(* op_write takes some of the bytes, buffer_consume drops them.            *)
ConsumerWrite ==
    /\ cpc = "write"
    /\ \E rc \in 1 .. size :
         /\ BufferConsume(rc)
         /\ played' = played + rc
    /\ cpc' = "rpos"
    /\ UNCHANGED << lockVars, statusVars, ip_eof, produced, producerVars,
                    rpos, size, mpc >>

(* op_write failed: nothing is consumed, and the device is opened again or *)
(* cannot be, in which case only the consumer stops.                       *)
ConsumerWriteFails ==
    /\ cpc = "write"
    /\ consumer_status' \in {"PLAYING", "STOPPED"}
    /\ ConsumerUnlocks
    /\ UNCHANGED << bufferVars, producer_mutex, producer_status, ip_eof,
                    produced, played, producerVars, mpc >>

Consumer ==
    \/ ConsumerLock \/ ConsumerNoSpace \/ ConsumerGetRpos
    \/ ConsumerLockProducer \/ ConsumerRecheckData \/ ConsumerUnderrun
    \/ ConsumerHandleEof \/ ConsumerWrite \/ ConsumerWriteFails

-----------------------------------------------------------------------------
(* A thread executing a player_* command: player_lock, body, player_unlock *)

CommandUnlocks ==
    /\ consumer_mutex' = NoThread /\ producer_mutex' = NoThread
    /\ mpc' = "idle"

CommandLockConsumer ==
    /\ mpc = "idle" /\ consumer_mutex = NoThread
    /\ consumer_mutex' = "command"
    /\ mpc' = "plock"
    /\ UNCHANGED << bufferVars, producer_mutex, streamVars, producerVars,
                    consumerVars >>

(* A player_lock that takes consumer_mutex only.                           *)
CommandSkipsProducerLock ==
    /\ mpc = "plock"
    /\ mpc' = "body"
    /\ UNCHANGED << bufferVars, lockVars, streamVars, producerVars, consumerVars >>

CommandLockProducer ==
    /\ mpc = "plock" /\ producer_mutex = NoThread
    /\ producer_mutex' = "command"
    /\ mpc' = "body"
    /\ UNCHANGED << bufferVars, consumer_mutex, streamVars, producerVars,
                    consumerVars >>

(* A __producer_stop without its reset_buffer.                             *)
StopKeepsBuffer ==
    /\ played' = produced
    /\ producer_status' = "STOPPED" /\ consumer_status' = "STOPPED"
    /\ ip_eof' = FALSE
    /\ UNCHANGED bufferVars

(* __producer_stop with __consumer_stop: the buffer is emptied.            *)
Stop ==
    /\ BufferReset
    /\ played' = produced
    /\ producer_status' = "STOPPED" /\ consumer_status' = "STOPPED"
    /\ ip_eof' = FALSE

(* player_stop, a file set while stopped, and every command whose file or  *)
(* audio device cannot be opened.                                          *)
CommandStop ==
    /\ mpc = "body"
    /\ Stop
    /\ CommandUnlocks
    /\ UNCHANGED << produced, producerVars, consumerVars >>

(* A command that changes nothing here (can't seek, remote stream, volume, *)
(* a new output plugin).                                                   *)
CommandNothing ==
    /\ mpc = "body"
    /\ CommandUnlocks
    /\ UNCHANGED << bufferVars, streamVars, producerVars, consumerVars >>

(* player_play, player_pause and player_seek with the consumer stopped:    *)
(* the file is opened, or rewound if only the consumer had stopped.        *)
(* player_seek does not prebuffer.                                         *)
CommandStart ==
    /\ mpc = "body" /\ consumer_status = "STOPPED"
    /\ IF producer_status = "STOPPED"
       THEN UNCHANGED << bufferVars, ip_eof, played >>
       ELSE \E ok \in SeekWorks :
              IF ok THEN BufferReset /\ ip_eof' = FALSE /\ played' = produced
                    ELSE UNCHANGED << bufferVars, ip_eof, played >>
    /\ producer_status' = "PLAYING" /\ consumer_status' = "PLAYING"
    /\ \/ CommandUnlocks
       \/ mpc' = "prebuffer" /\ UNCHANGED lockVars
    /\ UNCHANGED << produced, producerVars, consumerVars >>

(* player_seek, and player_play while playing: what is buffered is thrown  *)
(* away, reading goes on somewhere else.                                   *)
CommandSeek ==
    /\ mpc = "body" /\ consumer_status # "STOPPED"
    /\ TRUE \in SeekWorks
    /\ BufferReset
    /\ played' = produced
    /\ ip_eof' = FALSE
    /\ CommandUnlocks
    /\ UNCHANGED << statusVars, produced, producerVars, consumerVars >>

(* player_set_file and player_play_file: another file, from its start.     *)
CommandPlayFile ==
    /\ mpc = "body"
    /\ BufferReset
    /\ played' = produced
    /\ producer_status' = "PLAYING" /\ consumer_status' = "PLAYING"
    /\ ip_eof' = FALSE
    /\ mpc' = "prebuffer"
    /\ UNCHANGED << lockVars, produced, producerVars, consumerVars >>

(* player_pause, and player_play while paused: the buffer is kept.         *)
CommandPause ==
    /\ mpc = "body" /\ consumer_status # "STOPPED"
    /\ consumer_status' = IF consumer_status = "PLAYING" THEN "PAUSED" ELSE "PLAYING"
    /\ producer_status' = consumer_status'
    /\ CommandUnlocks
    /\ UNCHANGED << bufferVars, ip_eof, produced, played, producerVars,
                    consumerVars >>

(* player_set_buffer_chunks: stop, then buffer_init on the new number of   *)
(* chunks.  buffer_init does not hold buffer_mutex before its last call.   *)
CommandSetBufferChunks ==
    /\ mpc = "body"
    /\ Stop
    /\ mpc' = "free"
    /\ UNCHANGED << produced, lockVars, producerVars, consumerVars >>

CommandFreeChunks ==
    /\ mpc = "free"
    /\ \E nr \in NrChunks : BufferFree(nr)
    /\ mpc' = "alloc"
    /\ UNCHANGED << lockVars, streamVars, producerVars, consumerVars >>

CommandAllocChunks ==
    /\ mpc = "alloc"
    /\ BufferAlloc
    /\ mpc' = "reset"
    /\ UNCHANGED << lockVars, streamVars, producerVars, consumerVars >>

(* The final buffer_reset.                                                 *)
CommandResetChunks ==
    /\ mpc = "reset"
    /\ BufferReset
    /\ CommandUnlocks
    /\ UNCHANGED << streamVars, producerVars, consumerVars >>

Command ==
    \/ CommandLockConsumer \/ CommandLockProducer \/ CommandStop
    \/ CommandNothing \/ CommandStart \/ CommandSeek \/ CommandPlayFile
    \/ CommandPause \/ CommandSetBufferChunks
    \/ CommandFreeChunks \/ CommandAllocChunks \/ CommandResetChunks

-----------------------------------------------------------------------------
(* __prebuffer, run with both locks held by a command or by the consumer   *)
(* when it moves on to the next track.                                     *)

PrebufferDone ==
    /\ consumer_mutex' = NoThread /\ producer_mutex' = NoThread
    /\ mpc' = IF mpc = "prebuffer" THEN "idle" ELSE mpc
    /\ cpc' = IF cpc = "prebuffer" THEN "lock" ELSE cpc

Prebuffering == mpc = "prebuffer" \/ cpc = "prebuffer"

(* Enough is buffered.                                                     *)
PrebufferEnough ==
    /\ Prebuffering /\ buffer_get_filled_chunks >= PrebufferLimit
    /\ PrebufferDone
    /\ UNCHANGED << bufferVars, streamVars, producerVars, rpos, size >>

(* ip_read, BUG_ON(count <= 0), delivers data; EAGAIN is tried again.      *)
PrebufferRead ==
    /\ Prebuffering /\ buffer_get_filled_chunks < PrebufferLimit
    /\ \E n \in 1 .. buffer_get_wpos :
         /\ produced + n <= StreamEnd
         /\ StoreAt(<< buffer_widx, chunk_h[buffer_widx] >>, n, produced)
         /\ BufferFill(n)
         /\ produced' = produced + n
    /\ UNCHANGED << lockVars, statusVars, ip_eof, played, producerVars,
                    consumerVars, mpc >>

(* End of file or a read error: ip_read sets eof.                          *)
PrebufferReadEof ==
    /\ Prebuffering /\ buffer_get_filled_chunks < PrebufferLimit
    /\ buffer_get_wpos > 0
    /\ ip_eof' = TRUE
    /\ BufferFill(0) /\ UNCHANGED chunk_data
    /\ PrebufferDone
    /\ UNCHANGED << statusVars, produced, played, producerVars, rpos, size >>

Prebuffer == PrebufferEnough \/ PrebufferRead \/ PrebufferReadEof

Next == Producer \/ Consumer \/ Command \/ Prebuffer

Spec == Init /\ [][Next]_vars

(* Threads are scheduled, a mutex that is released again and again (every  *)
(* loop sleeps after unlocking) is eventually obtained, the sound card     *)
(* drains and the input either delivers or ends.                           *)
Fairness ==
    /\ SF_vars(ProducerLock) /\ WF_vars(ProducerGetWpos)
    /\ WF_vars(ProducerRead \/ ProducerReadEof \/ ProducerReadAgain)
    /\ WF_vars(ProducerFill) /\ WF_vars(ProducerFillUpdate)
    /\ SF_vars(ConsumerLock) /\ SF_vars(ConsumerGetRpos)
    /\ SF_vars(ConsumerLockProducer) /\ SF_vars(ConsumerWrite)
    /\ WF_vars(ConsumerRecheckData \/ ConsumerUnderrun \/ ConsumerHandleEof)
    /\ SF_vars(CommandLockProducer)
    /\ WF_vars(mpc = "body" /\ Command)
    /\ WF_vars(CommandFreeChunks \/ CommandAllocChunks \/ CommandResetChunks)
    /\ WF_vars(Prebuffer)

FairSpec == Spec /\ Fairness

-----------------------------------------------------------------------------
(* Properties                                                              *)

TypeOK ==
    /\ BufferTypeOK
    /\ consumer_mutex \in {NoThread, "consumer", "command"}
    /\ producer_mutex \in Threads \cup {NoThread}
    /\ producer_status \in {"STOPPED", "PLAYING", "PAUSED"}
    /\ consumer_status \in {"STOPPED", "PLAYING", "PAUSED"}
    /\ ip_eof \in BOOLEAN
    /\ produced \in Nat /\ played \in Nat
    /\ ppc \in {"lock", "wpos", "read", "fill", "update"}
    /\ p_i \in 0 .. chunks
    /\ wpos \in Nat \X Nat /\ nr_read \in 0 .. CHUNK_SIZE
    /\ cpc \in {"lock", "rpos", "plock", "recheck", "write", "prebuffer"}
    /\ rpos \in Nat \X Nat /\ size \in 0 .. CHUNK_SIZE
    /\ mpc \in {"idle", "plock", "body", "prebuffer", "free", "alloc", "reset"}

(* The mutexes are held where the code says, and only there.               *)
LockInv ==
    /\ consumer_mutex = "consumer" <=> cpc # "lock"
    /\ consumer_mutex = "command" <=> mpc # "idle"
    /\ producer_mutex = "producer" <=> ppc \in {"wpos", "read", "fill"}
    /\ producer_mutex = "consumer" <=> cpc \in {"recheck", "prebuffer"}
    /\ producer_mutex = "command" <=> mpc \notin {"idle", "plock"}

(* player.c "PS_PLAYING, CS_PLAYING": the two state machines agree, except *)
(* that the producer may still be playing into the buffer when the audio   *)
(* device was lost; each loop works only in its playing state, and a       *)
(* stopped producer leaves an empty buffer behind.                         *)
StatusInv ==
    /\ consumer_status # "STOPPED" => producer_status = consumer_status
    /\ producer_status = "PAUSED" => consumer_status = "PAUSED"
    /\ cpc # "lock" => consumer_status = "PLAYING"
    /\ ppc \in {"wpos", "read", "fill"} => producer_status = "PLAYING"
    /\ Prebuffering => producer_status = "PLAYING"
    /\ heap = "freed" <=> mpc = "alloc"
    /\ heap = "raw" <=> mpc = "reset"
    /\ mpc \in {"free", "alloc", "reset"} => producer_status = "STOPPED"
    /\ producer_status = "STOPPED" =>
         /\ buffer_ridx = 0 /\ buffer_widx = 0
         /\ played = produced /\ ~ip_eof
         /\ heap = "live" =>
              \A c \in Chunks : ~chunk_filled[c] /\ chunk_l[c] = 0 /\ chunk_h[c] = 0

(* buffer.c: the filled chunks are exactly those from ridx up to widx,     *)
(* around the end of the ring; buffer_get_filled_chunks relies on it when  *)
(* it counts from the indices alone.                                       *)
RingInv ==
    heap = "live" =>
      \A c \in Chunks :
        /\ buffer_ridx < buffer_widx =>
             (chunk_filled[c] <=> buffer_ridx <= c /\ c < buffer_widx)
        /\ buffer_ridx > buffer_widx =>
             (chunk_filled[c] <=> buffer_ridx <= c \/ c < buffer_widx)
        /\ buffer_ridx = buffer_widx =>
             (chunk_filled[c] <=> chunk_filled[buffer_ridx])

(* buffer.c: a filled chunk has bytes to consume, one that is not has room *)
(* for MIN_FREE bytes and nothing consumed, and only the one at widx may   *)
(* hold a beginning.                                                       *)
ChunkInv ==
    heap = "live" =>
      \A c \in Chunks :
        /\ chunk_filled[c] => chunk_l[c] < chunk_h[c]
        /\ ~chunk_filled[c] => chunk_l[c] = 0 /\ CHUNK_SIZE - chunk_h[c] >= MIN_FREE
        /\ ~chunk_filled[c] /\ c # buffer_widx => chunk_h[c] = 0

(* buffer.c:6 "chunk can be accessed by either consumer OR producer, not   *)
(* both at same time": while op_write reads the chunk behind rpos and      *)
(* ip_read or buffer_fill works on the one behind wpos, they differ, and   *)
(* both pointers are still the ones the ring would hand out.               *)
ExclusiveAccess ==
    /\ cpc = "write" =>
         /\ heap = "live" /\ chunk_filled[buffer_ridx]
         /\ rpos = << buffer_ridx, chunk_l[buffer_ridx] >>
         /\ size = chunk_h[buffer_ridx] - chunk_l[buffer_ridx]
    /\ ppc \in {"read", "fill"} =>
         /\ heap = "live" /\ ~chunk_filled[buffer_widx]
         /\ wpos = << buffer_widx, chunk_h[buffer_widx] >>

(* Number of the first byte left in a chunk, and of the byte after its     *)
(* last: the next one to come if there is none.                            *)
First(c) == IF chunk_l[c] < chunk_h[c] THEN chunk_data[c][chunk_l[c]] ELSE produced
Following(c) == First(c) + (chunk_h[c] - chunk_l[c])

(* The chunks hold, one after the other from ridx, the bytes from played   *)
(* up to the last one the input delivered.                                 *)
StreamInv ==
    heap = "live" =>
      /\ First(buffer_ridx) = played
      /\ ~chunk_filled[buffer_widx] => Following(buffer_widx) = produced
      /\ \A c \in Chunks :
           /\ \A b \in Bytes : chunk_l[c] <= b /\ b < chunk_h[c] =>
                chunk_data[c][b] = First(c) + (b - chunk_l[c])
           /\ chunk_filled[c] =>
                Following(c) =
                  IF NextChunk(c) = buffer_widx /\ chunk_filled[buffer_widx]
                  THEN produced ELSE First(NextChunk(c))

(* The bytes ip_read has stored and buffer_fill has yet to publish.        *)
ReadInv ==
    ppc = "fill" =>
      /\ wpos[2] + nr_read <= CHUNK_SIZE
      /\ \A b \in Bytes : wpos[2] <= b /\ b < wpos[2] + nr_read =>
           chunk_data[wpos[1]][b] = produced + (b - wpos[2])

(* Once the end of the file was seen, nothing is left in a chunk that was  *)
(* not handed to the consumer; __prebuffer, which may read on when the     *)
(* file could not be rewound, stops only when it has closed a chunk.       *)
EofInv ==
    ip_eof =>
      /\ ppc \notin {"wpos", "read"}
      /\ ppc = "fill" => nr_read = 0
      /\ ppc # "fill" /\ ~chunk_filled[buffer_widx] /\ chunk_h[buffer_widx] > 0 =>
           Prebuffering /\ buffer_get_filled_chunks < PrebufferLimit

(* The sound card gets the bytes the input delivered since the last flush: *)
(* none lost, repeated or reordered, none from before a seek, stop or      *)
(* change of track.                                                        *)
InOrder ==
    cpc = "write" =>
      \A k \in 0 .. size - 1 : chunk_data[rpos[1]][rpos[2] + k] = played + k

(* player.c "OK. now it's safe to check if we are at EOF": the consumer    *)
(* leaves a track only when everything read from it was played.            *)
DrainedAtEof ==
    cpc = "recheck" /\ buffer_get_rpos = 0 /\ ip_eof => played = produced

(* buffer.c: "If the return value is non-zero it is guaranteed to be       *)
(* >= 1024": what ip_read is given, in producer_loop and __prebuffer, is   *)
(* at least MIN_FREE bytes, and __prebuffer never calls it with none.      *)
ReadsHaveRoom ==
    /\ ppc = "read" => buffer_get_wpos >= MIN_FREE
    /\ Prebuffering /\ buffer_get_filled_chunks < PrebufferLimit =>
         buffer_get_wpos >= MIN_FREE

(* The inductive invariant of the safety proof in module PipeProofs.       *)
RingOK == BufferTypeOK /\ RingInv /\ ChunkInv /\ StreamInv
PipeInv ==
    /\ TypeOK /\ LockInv /\ StatusInv
    /\ RingInv /\ ChunkInv /\ StreamInv
    /\ ExclusiveAccess /\ ReadInv /\ EofInv

(* player.c "consumer handles EOF": when the last byte of a track has been *)
(* read while playing, the rest is played and the consumer gets to leave   *)
(* the track or to repeat it, or playback is interrupted; it cannot get    *)
(* stuck on a chunk.  (Repeating fails when ip_seek does.)                 *)
EofHandled ==
    (ip_eof /\ consumer_status = "PLAYING")
      ~> (~ip_eof \/ consumer_status # "PLAYING" \/ (cpc = "recheck" /\ buffer_get_rpos = 0))

=============================================================================
