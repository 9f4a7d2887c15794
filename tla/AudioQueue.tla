----------------------------- MODULE AudioQueue -----------------------------
(***************************************************************************)
(* What the data path of player.c promises the listener: a queue of bytes  *)
(* between the input and the sound card.  The input puts the bytes it      *)
(* reads at one end, numbered in the order they were read; the sound card  *)
(* takes them from the other; a command may throw away what is queued but  *)
(* can neither change, repeat nor reorder it.                              *)
(***************************************************************************)
EXTENDS Integers, Sequences

CONSTANTS
    Capacity,    \* the queue never holds more bytes than this
    MaxPut       \* nor does a read deliver more than this at once

VARIABLES
    queue,       \* the bytes that wait to be played
    next         \* number of the next byte to be read

vars == << queue, next >>

Init == queue = << >> /\ next = 0

Put ==
    \E n \in 1 .. MaxPut :
      /\ Len(queue) + n <= Capacity
      /\ queue' = queue \o [i \in 1 .. n |-> next + i - 1]
      /\ next' = next + n

Get ==
    /\ \E n \in 1 .. Len(queue) : queue' = SubSeq(queue, n + 1, Len(queue))
    /\ UNCHANGED next

Flush == queue' = << >> /\ UNCHANGED next

Next == Put \/ Get \/ Flush

Spec == Init /\ [][Next]_vars

=============================================================================
