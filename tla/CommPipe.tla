------------------------------ MODULE CommPipe ------------------------------
(***************************************************************************)
(* The smp_comm_pipe of include/commpipe.h: the ring buffer over which the *)
(* emulation thread and the worker threads of the emulated devices hand    *)
(* each other work.                                                        *)
(*                                                                         *)
(* Every access to a field that the other side can see is a step of its    *)
(* own.  The writer's fast path (taken when it sees reader_waiting) runs   *)
(* without the lock, and neither a writer woken on writer_wait nor a       *)
(* reader woken on reader_wait tests the pipe again.                       *)
(*                                                                         *)
(* `rdp`, `wrp` are slots of the buffer; a word of Flush is one its        *)
(* caller writes with no_buffer = 1.                                       *)
(***************************************************************************)
EXTENDS Integers, Sequences

CONSTANTS
  Writers,     \* threads that call write_comm_pipe_*
  Words,       \* the values written (an int, a 32-bit word or a pointer)
  Flush,       \* the words written with no_buffer = 1
  Size,        \* p->size
  Chunks,      \* p->chunks
  Serialised   \* TRUE when the callers never let two writes overlap

(* Every init_comm_pipe call of the tree has 1 <= chunks < size.           *)
ASSUME PipeAssumption ==
  /\ Size \in Nat \ {0, 1}
  /\ Chunks \in 1 .. (Size - 1)
  /\ Flush \subseteq Words
  /\ Words # {}
  /\ Serialised \in BOOLEAN

VARIABLES
  lock, reader_wait, writer_wait,  \* the three counting semaphores
  data, rdp, wrp,
  writer_waiting, reader_waiting,
  w,    \* per writer: where its call is, and the call's local variables
  rpc,  \* where the reader's call is
  got   \* the word the reader's last call returned

pipe == <<data, rdp, wrp, writer_waiting, reader_waiting>>
vars == <<lock, reader_wait, writer_wait, pipe, w, rpc, got>>

Slots     == 0 .. (Size - 1)
WriterPCs == {"idle", "lock", "check", "await", "relock",
              "store", "advance", "wake", "unlock"}
ReaderPCs == {"idle", "check", "release", "await", "relock", "take", "unlock"}
Calls     == [pc: WriterPCs, path: {"fast", "locked"}, nxwrp: Slots, word: Words]

(* Fault: the index is not wrapped.                                        *)
NextSlotUnwrapped(i) == i + 1

NextSlot(i) == (i + 1) % Size

(* How many words are unread, as maybe_wake_reader counts them.            *)
Count == (wrp - rdp + Size) % Size

(* The unread words, oldest first.                                         *)
Unread == [i \in 1 .. Count |-> data[(rdp + i - 1) % Size]]

TypeOK ==
  /\ lock \in Nat /\ reader_wait \in Nat /\ writer_wait \in Nat
  /\ data \in [Slots -> Words]
  /\ rdp \in Slots /\ wrp \in Slots
  /\ writer_waiting \in {0, 1} /\ reader_waiting \in {0, 1}
  /\ w \in [Writers -> Calls]
  /\ rpc \in ReaderPCs
  /\ got \in Words

(* init_comm_pipe.  The buffer comes from malloc: any contents.            *)
Init ==
  /\ lock = 1 /\ reader_wait = 0 /\ writer_wait = 0
  /\ data \in [Slots -> Words]
  /\ rdp = 0 /\ wrp = 0
  /\ writer_waiting = 0 /\ reader_waiting = 0
  /\ \E d \in Words :
       /\ w = [t \in Writers |->
                [pc |-> "idle", path |-> "locked", nxwrp |-> 0, word |-> d]]
       /\ got = d
  /\ rpc = "idle"

----------------------------------------------------------------------------
(* write_comm_pipe_pt                                                      *)

Goto(t, pc) == w' = [w EXCEPT ![t].pc = pc]

Active(t) == w[t].pc # "idle"

(* The call computes nxwrp and looks at reader_waiting, both unlocked.     *)
Write(t, d) ==
  /\ ~Active(t)
  /\ Serialised => \A u \in Writers : ~Active(u)
  /\ w' = [w EXCEPT ![t] = [pc     |-> IF reader_waiting = 1 THEN "store" ELSE "lock",
                            path   |-> IF reader_waiting = 1 THEN "fast" ELSE "locked",
                            nxwrp  |-> NextSlot(wrp),
                            word   |-> d]]
  /\ UNCHANGED <<lock, reader_wait, writer_wait, pipe, rpc, got>>

WriterLock(t) ==
  /\ w[t].pc = "lock"
  /\ lock > 0
  /\ lock' = lock - 1
  /\ Goto(t, "check")
  /\ UNCHANGED <<reader_wait, writer_wait, pipe, rpc, got>>

(* Fault: the slow path does not look for room.                            *)
HasRoomUntested(t) ==
  /\ w[t].pc = "check"
  /\ Goto(t, "store")
  /\ UNCHANGED <<lock, reader_wait, writer_wait, pipe, rpc, got>>

HasRoom(t) ==
  /\ w[t].pc = "check"
  /\ w[t].nxwrp # rdp
  /\ Goto(t, "store")
  /\ UNCHANGED <<lock, reader_wait, writer_wait, pipe, rpc, got>>

(* Fault: the writer polls a full pipe without letting go of the lock.     *)
PipeFullPolled(t) ==
  /\ w[t].pc = "check"
  /\ w[t].nxwrp = rdp
  /\ UNCHANGED vars

(* Pipe full: the writer announces itself and lets go of the lock ...      *)
PipeFull(t) ==
  /\ w[t].pc = "check"
  /\ w[t].nxwrp = rdp
  /\ writer_waiting' = 1
  /\ lock' = lock + 1
  /\ Goto(t, "await")
  /\ UNCHANGED <<reader_wait, writer_wait, data, rdp, wrp, reader_waiting, rpc, got>>

(* ... and goes to sleep, possibly after the reader has posted.            *)
WriterWoken(t) ==
  /\ w[t].pc = "await"
  /\ writer_wait > 0
  /\ writer_wait' = writer_wait - 1
  /\ Goto(t, "relock")
  /\ UNCHANGED <<lock, reader_wait, pipe, rpc, got>>

WriterRelock(t) ==
  /\ w[t].pc = "relock"
  /\ lock > 0
  /\ lock' = lock - 1
  /\ Goto(t, "store")
  /\ UNCHANGED <<reader_wait, writer_wait, pipe, rpc, got>>

(* Fault: the word goes to the slot after the one that is published.       *)
StoreAhead(t) ==
  /\ w[t].pc = "store"
  /\ data' = [data EXCEPT ![w[t].nxwrp] = w[t].word]
  /\ Goto(t, "advance")
  /\ UNCHANGED <<lock, reader_wait, writer_wait, rdp, wrp,
                 writer_waiting, reader_waiting, rpc, got>>

Store(t) ==
  /\ w[t].pc = "store"
  /\ data' = [data EXCEPT ![wrp] = w[t].word]
  /\ Goto(t, "advance")
  /\ UNCHANGED <<lock, reader_wait, writer_wait, rdp, wrp,
                 writer_waiting, reader_waiting, rpc, got>>

Advance(t) ==
  /\ w[t].pc = "advance"
  /\ wrp' = w[t].nxwrp
  /\ Goto(t, "wake")
  /\ UNCHANGED <<lock, reader_wait, writer_wait, data, rdp,
                 writer_waiting, reader_waiting, rpc, got>>

(* Fault: the reader is woken one word too late.                           *)
WakeDueLate(t) == reader_waiting = 1 /\ (w[t].word \in Flush \/ Count > Chunks)

(* Fault: no_buffer is ignored.                                            *)
WakeDueBuffered(t) == reader_waiting = 1 /\ Count >= Chunks

WakeDue(t) == reader_waiting = 1 /\ (w[t].word \in Flush \/ Count >= Chunks)

(* Fault: the post leaves reader_waiting set.                              *)
MaybeWakeReaderAgain(t) ==
  /\ w[t].pc = "wake"
  /\ reader_wait' = IF WakeDue(t) THEN reader_wait + 1 ELSE reader_wait
  /\ Goto(t, IF w[t].path = "locked" THEN "unlock" ELSE "idle")
  /\ UNCHANGED <<lock, writer_wait, pipe, rpc, got>>

(* maybe_wake_reader, with and without the lock.                           *)
MaybeWakeReader(t) ==
  /\ w[t].pc = "wake"
  /\ IF WakeDue(t)
     THEN reader_waiting' = 0 /\ reader_wait' = reader_wait + 1
     ELSE UNCHANGED <<reader_waiting, reader_wait>>
  /\ Goto(t, IF w[t].path = "locked" THEN "unlock" ELSE "idle")
  /\ UNCHANGED <<lock, writer_wait, data, rdp, wrp, writer_waiting, rpc, got>>

WriterUnlock(t) ==
  /\ w[t].pc = "unlock"
  /\ lock' = lock + 1
  /\ Goto(t, "idle")
  /\ UNCHANGED <<reader_wait, writer_wait, pipe, rpc, got>>

WriterStep(t) ==
  \/ WriterLock(t) \/ HasRoom(t) \/ PipeFull(t) \/ WriterWoken(t)
  \/ WriterRelock(t) \/ Store(t) \/ Advance(t) \/ MaybeWakeReader(t)
  \/ WriterUnlock(t)

----------------------------------------------------------------------------
(* read_comm_pipe_pt_blocking                                              *)

Read ==
  /\ rpc = "idle"
  /\ lock > 0
  /\ lock' = lock - 1
  /\ rpc' = "check"
  /\ UNCHANGED <<reader_wait, writer_wait, pipe, w, got>>

HasWord ==
  /\ rpc = "check"
  /\ rdp # wrp
  /\ rpc' = "take"
  /\ UNCHANGED <<lock, reader_wait, writer_wait, pipe, w, got>>

(* From this step on a writer may use its fast path, lock or no lock.      *)
PipeEmpty ==
  /\ rpc = "check"
  /\ rdp = wrp
  /\ reader_waiting' = 1
  /\ rpc' = "release"
  /\ UNCHANGED <<lock, reader_wait, writer_wait, data, rdp, wrp,
                 writer_waiting, w, got>>

ReaderRelease ==
  /\ rpc = "release"
  /\ lock' = lock + 1
  /\ rpc' = "await"
  /\ UNCHANGED <<reader_wait, writer_wait, pipe, w, got>>

ReaderWoken ==
  /\ rpc = "await"
  /\ reader_wait > 0
  /\ reader_wait' = reader_wait - 1
  /\ rpc' = "relock"
  /\ UNCHANGED <<lock, writer_wait, pipe, w, got>>

ReaderRelock ==
  /\ rpc = "relock"
  /\ lock > 0
  /\ lock' = lock - 1
  /\ rpc' = "take"
  /\ UNCHANGED <<reader_wait, writer_wait, pipe, w, got>>

Take ==
  /\ rpc = "take"
  /\ got' = data[rdp]
  /\ rdp' = NextSlot(rdp)
  /\ IF writer_waiting = 1
     THEN writer_waiting' = 0 /\ writer_wait' = writer_wait + 1
     ELSE UNCHANGED <<writer_waiting, writer_wait>>
  /\ rpc' = "unlock"
  /\ UNCHANGED <<lock, reader_wait, data, wrp, reader_waiting, w>>

ReaderUnlock ==
  /\ rpc = "unlock"
  /\ lock' = lock + 1
  /\ rpc' = "idle"
  /\ UNCHANGED <<reader_wait, writer_wait, pipe, w, got>>

ReaderStep ==
  \/ HasWord \/ PipeEmpty \/ ReaderRelease \/ ReaderWoken \/ ReaderRelock
  \/ Take \/ ReaderUnlock

----------------------------------------------------------------------------
Next ==
  \/ Read
  \/ ReaderStep
  \/ \E t \in Writers : WriterStep(t)
  \/ \E t \in Writers, d \in Words : Write(t, d)

Spec == Init /\ [][Next]_vars

(* The reader is a worker's `for (;;)` around a blocking read, and no      *)
(* thread stops inside a call.  Nobody is obliged to write, and the        *)
(* semaphores need not be fair: with one write at a time each side can     *)
(* keep the lock from the other only until the pipe is empty or full.      *)
Fairness ==
  /\ WF_vars(Read) /\ WF_vars(ReaderStep)
  /\ \A t \in Writers : WF_vars(WriterStep(t))

FairSpec == Spec /\ Fairness

----------------------------------------------------------------------------
(* Properties                                                              *)

(* The slot a writer is about to fill, and the one it advances to, hold no *)
(* unread word: the unlocked fast path and the writer woken from a full    *)
(* pipe, which do not test for room, have it all the same.                 *)
NoOverrun ==
  \A t \in Writers :
    w[t].pc \in {"store", "advance"} => w[t].nxwrp # rdp /\ w[t].nxwrp = NextSlot(wrp)

(* A reader never takes a slot no writer has filled, although it does not  *)
(* look at the pipe again after it was woken.                              *)
NoUnderrun == rpc = "take" => rdp # wrp

(* A reader that is asleep without a post on its way has missed nothing:   *)
(* no word of a finished no_buffer write, and fewer than `chunks` words in *)
(* all, lie in the pipe.                                                   *)
NoLostWakeup ==
  (reader_waiting = 1 /\ \A t \in Writers : w[t].pc # "wake")
    => /\ Count < Chunks
       /\ \A i \in DOMAIN Unread : Unread[i] \notin Flush

(* Why it works, for writes that do not overlap: an inductive invariant.   *)
(* At most one call is under way on the writing side; the lock is held by  *)
(* one side at a time, and the fast path runs only while the reader is     *)
(* asleep; whoever is asleep either has announced it, and then the pipe is *)
(* still full (nearly empty) and no post is due, or has a post waiting,    *)
(* and then there is room (a word) that nobody else can take away.         *)
OneWrite == \A t, u \in Writers : Active(t) /\ Active(u) => t = u

ReaderHolds    == rpc \in {"check", "release", "take", "unlock"}
WriterHolds(t) == /\ w[t].path = "locked"
                  /\ w[t].pc \in {"check", "store", "advance", "wake", "unlock"}

Mutex ==
  /\ lock \in {0, 1}
  /\ lock = 1 => ~ReaderHolds
  /\ \A t \in Writers : WriterHolds(t) => lock = 0 /\ ~ReaderHolds

WriterState ==
  \A t \in Writers :
    /\ w[t].pc \in WriterPCs \ {"idle", "wake", "unlock"} => w[t].nxwrp = NextSlot(wrp)
    /\ w[t].pc \in {"relock", "store", "advance"} => w[t].nxwrp # rdp
    /\ Active(t) /\ w[t].path = "fast" =>
         w[t].pc \in {"store", "advance", "wake"} /\ reader_waiting = 1
    /\ w[t].pc = "await" =>
         IF writer_waiting = 1 THEN writer_wait = 0 /\ w[t].nxwrp = rdp
                               ELSE writer_wait = 1 /\ w[t].nxwrp # rdp
    /\ w[t].pc = "advance" => data[wrp] = w[t].word
    /\ w[t].pc = "wake" /\ reader_waiting = 1 => rdp # wrp

NobodyAwaits ==
  (\A t \in Writers : w[t].pc # "await") => writer_waiting = 0 /\ writer_wait = 0

ReaderState ==
  /\ reader_waiting = 1 => /\ rpc \in {"release", "await"}
                           /\ reader_wait = 0
                           /\ Count <= Chunks
                           /\ (\A t \in Writers : w[t].pc # "wake") => Count < Chunks
  /\ reader_waiting = 0 => IF rpc \in {"release", "await"}
                           THEN reader_wait = 1 /\ rdp # wrp
                           ELSE reader_wait = 0
  /\ rpc \in {"relock", "take"} => rdp # wrp

PipeInv == OneWrite /\ Mutex /\ WriterState /\ NobodyAwaits /\ ReaderState

(* The words of the writes under way that are not yet published.           *)
Offered == {w[t].word : t \in {u \in Writers :
                                 w[u].pc \in WriterPCs \ {"idle", "wake", "unlock"}}}

(* The two sides together are a bounded FIFO of Size - 1 words: the word   *)
(* of every write enters it once, before the word of the next write, and   *)
(* is read unchanged and in order.                                         *)
Fifo == INSTANCE FifoQueue
          WITH offered <- Offered, q <- Unread, out <- got, Capacity <- Size - 1
ImplementsFifo == Fifo!Spec

(* A write, blocked by a full pipe or not, returns.                        *)
WriteReturns == \A t \in Writers : Active(t) ~> ~Active(t)

(* A sleeping reader gets up once a no_buffer word lies in the pipe.       *)
ReadReturns ==
  (rpc = "await" /\ \E i \in DOMAIN Unread : Unread[i] \in Flush) ~> (rpc = "take")
============================================================================
