----------------------------- MODULE FifoQueue -----------------------------
(***************************************************************************)
(* What a communication pipe promises to the two threads that share it:    *)
(* a bounded first-in first-out queue of words.  `out` is the word the     *)
(* last read handed to its caller.                                         *)
(***************************************************************************)
EXTENDS Integers, Sequences

CONSTANTS Words,     \* what can be written
          Capacity   \* how many unread words the queue can hold

VARIABLES offered,   \* {d} while a write of d has not taken effect, else {}
          q, out

vars == <<offered, q, out>>

Init == offered = {} /\ q = <<>> /\ out \in Words

(* A thread calls write with d ...                                         *)
Offer(d) ==
  /\ offered = {}
  /\ offered' = {d}
  /\ UNCHANGED <<q, out>>

(* ... and its word goes to the end of the queue, once.                    *)
Put ==
  /\ Len(q) < Capacity
  /\ \E d \in offered : q' = Append(q, d)
  /\ offered' = {}
  /\ UNCHANGED out

Get ==
  /\ q # <<>>
  /\ out' = Head(q)
  /\ q' = Tail(q)
  /\ UNCHANGED offered

Next == Put \/ Get \/ \E d \in Words : Offer(d)

Spec == Init /\ [][Next]_vars
============================================================================
