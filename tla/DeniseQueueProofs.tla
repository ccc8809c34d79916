------------------------- MODULE DeniseQueueProofs --------------------------
(* Proofs about DeniseQueue, for rings of any size: while no reset was     *)
(* torn, what the Denise thread carries out is an entry that was queued,   *)
(* draws with the picture locked, and names a line that is not overwritten;*)
(* and entries and register writes are carried out in order.               *)
EXTENDS DeniseQueue, SequenceTheorems, TLAPS

Indices == 0 .. (Wrap - 1)
Calling == cpc \in {"room", "publish", "post"}

----------------------------------------------------------------------------
(* The indices                                                             *)

(* What the arithmetic of the indices comes to.                            *)
LEMMA IndexTypes ==
  /\ Chunks \in Nat /\ Chunks >= 2 /\ Wrap = 2 * Chunks /\ Wrap \in Nat
  /\ \A i \in Indices : Inc(i) \in Indices /\ Slot(i) \in 0 .. (Chunks - 1)
  /\ \A i, j \in Indices : Ahead(i, j) \in Indices
BY DeniseAssumption DEF Indices, Wrap, Inc, Slot, Ahead

(* An index that was put Chunks - 1 or less ahead has a slot of its own.   *)
LEMMA SlotsDiffer ==
  ASSUME NEW i \in Indices, NEW j \in Indices, i # j, Ahead(i, j) < Chunks
  PROVE  Slot(i) # Slot(j)
BY IndexTypes DEF Indices, Slot, Ahead

(* The writer's index goes away from an index between the reader's and it. *)
LEMMA WriterAhead ==
  ASSUME NEW w \in Indices, NEW r \in Indices, NEW j \in Indices,
         Ahead(w, r) < Chunks, Slot(Inc(w)) # Slot(r)
  PROVE  /\ Ahead(w, r) < Chunks - 1
         /\ Ahead(Inc(w), r) = Ahead(w, r) + 1
         /\ Ahead(j, r) < Ahead(w, r) => Ahead(Inc(w), j) = Ahead(w, j) + 1
BY IndexTypes DEF Indices, Slot, Ahead, Inc

(* The reader's index goes on to the writer's.                             *)
LEMMA ReaderAhead ==
  ASSUME NEW w \in Indices, NEW r \in Indices, NEW j \in Indices, w # r
  PROVE  /\ Ahead(w, Inc(r)) = Ahead(w, r) - 1
         /\ Ahead(r, r) < Ahead(w, r)
         /\ Ahead(j, Inc(r)) < Ahead(w, Inc(r)) => Ahead(j, r) < Ahead(w, r) /\ j # r
BY IndexTypes DEF Indices, Ahead, Inc

(* An index in front of the writer's.                                      *)
LEMMA BehindWriter ==
  ASSUME NEW w \in Indices, NEW r \in Indices, NEW j \in Indices,
         Ahead(j, r) < Ahead(w, r), Ahead(w, r) < Chunks
  PROVE  j # w /\ Ahead(w, j) < Chunks /\ Ahead(j, r) < Chunks
BY IndexTypes DEF Indices, Ahead

(* Only the index that was the writer's is new.                            *)
LEMMA NewIndex ==
  ASSUME NEW w \in Indices, NEW r \in Indices, NEW j \in Indices,
         Ahead(w, r) < Chunks - 1, Ahead(j, r) < Ahead(Inc(w), r)
  PROVE  /\ j = w \/ Ahead(j, r) < Ahead(w, r)
         /\ Ahead(Inc(w), w) = 1 /\ Ahead(Inc(w), r) = Ahead(w, r) + 1
         /\ Ahead(j, r) < Ahead(w, r) => Ahead(Inc(w), j) = Ahead(w, j) + 1
BY IndexTypes DEF Indices, Ahead, Inc

----------------------------------------------------------------------------
(* Types                                                                   *)

(* An item is about the line that is being described, which it may end.    *)
TypeInv ==
  /\ TypeOK
  /\ Calling => /\ item \in Entries /\ item.line = line
                /\ EndsLine(item) => line < MaxLines

LEMMA TypeInit == Init => TypeInv
<1> SUFFICES ASSUME Init PROVE TypeInv
  OBVIOUS
<1>1. fast \in Seq([line: 0 .. MaxLines, n: 1 .. MaxWrites]) /\ Len(fast) < FastSize
  BY DeniseAssumption DEF Init
<1>2. /\ {rga_queue_read, rga_queue_write} \subseteq 0 .. (Wrap - 1)
      /\ read_sem \in 0 .. SemMax /\ write_sem \in 0 .. SemMax
      /\ line \in 0 .. MaxLines /\ written \in 0 .. MaxWrites
  BY IndexTypes, DeniseAssumption DEF Init, Indices
<1>3. /\ thread_debug_lock \in BOOLEAN /\ quit_program \in BOOLEAN
      /\ rga_queue \in [0 .. (Chunks - 1) -> Entries \cup {Stale}]
      /\ item \in Entries \cup {Stale} /\ ~Calling
      /\ cpc = "run" /\ after = "run" /\ dpc = "look" /\ spoilt = {}
  BY DEF Init, Calling
<1> QED BY <1>1, <1>2, <1>3 DEF TypeInv, TypeOK

LEMMA TypeNext ==
  ASSUME TypeInv, [Next]_vars PROVE TypeInv'
<1> USE DEF TypeInv, TypeOK, Calling, ring, cpu
<1>1. ASSUME NEW type \in Types, NEW final \in BOOLEAN, Queue(type, final) PROVE TypeInv'
  <2>1. CASE Refuses(type)
    BY <1>1, <2>1, DeniseAssumption DEF Queue
  <2>2. CASE ~Refuses(type)
    <3>1. item' = [type |-> type, final |-> final, line |-> line, n |-> 0]
      BY <1>1, <2>2 DEF Queue, QueueEntry
    <3>2. /\ cpc' = "room"
          /\ EndsLine([type |-> type, final |-> final]) => line < MaxLines
          /\ UNCHANGED <<ring, thread_debug_lock, quit_program, line, written, after, fast,
                         dpc, spoilt>>
      BY <1>1, <2>2 DEF Queue, QueueEntry
    <3>3. item' \in Entries /\ item'.line = line /\ (EndsLine(item') => line < MaxLines)
      BY <3>1, <3>2, DeniseAssumption DEF Entries, EndsLine
    <3> QED BY <3>2, <3>3
  <2> QED BY <2>1, <2>2
<1>2. ASSUME NEW then \in {"run", "unlock", "reset"}, Flush(then) PROVE TypeInv'
  BY <1>2 DEF Flush
<1>3. CASE WriteRegister
  <2>1. written' = written + 1 /\ written' \in 1 .. MaxWrites /\ 6 \in Types
    BY <1>3, DeniseAssumption DEF WriteRegister
  <2>2. CASE FastRoom
    <3>1. fast' = Append(fast, [line |-> line, n |-> written'])
      BY <1>3, <2>2 DEF WriteRegister
    <3>2. /\ fast' \in Seq([line: 0 .. MaxLines, n: 1 .. MaxWrites])
          /\ Len(fast') < FastSize
      BY <2>1, <2>2, <3>1, DeniseAssumption DEF FastRoom
    <3>3. UNCHANGED <<ring, thread_debug_lock, quit_program, line, after, dpc, item, cpc, spoilt>>
      BY <1>3, <2>2 DEF WriteRegister
    <3> QED BY <2>1, <3>2, <3>3
  <2>3. CASE ~FastRoom
    <3>1. item' = [type |-> 6, final |-> TRUE, line |-> line, n |-> written'] /\ cpc' = "room"
      BY <1>3, <2>3 DEF WriteRegister, QueueEntry
    <3>2. item' \in Entries /\ item'.line = line /\ ~EndsLine(item')
      BY <2>1, <3>1 DEF Entries, EndsLine
    <3>3. UNCHANGED <<ring, thread_debug_lock, quit_program, line, after, dpc, fast>>
      BY <1>3, <2>3 DEF WriteRegister
    <3>4. spoilt' \subseteq {"torn", "overtaken"}
      BY <1>3, <2>3 DEF WriteRegister
    <3> QED BY <2>1, <3>1, <3>2, <3>3, <3>4
  <2> QED BY <2>2, <2>3
<1>4. CASE StartDraw \/ Quit
  BY <1>4 DEF StartDraw, Quit
<1>5. CASE NoRoom \/ FlushWaits
  <2>1. read_sem' \in {read_sem} \cup {s \in Waited(read_sem) : read_sem > 0}
    BY <1>5 DEF NoRoom, FlushWaits, AwaitReader
  <2>2. read_sem' \in 0 .. SemMax
    BY <2>1, DeniseAssumption DEF Waited
  <2>3. UNCHANGED <<rga_queue_read, rga_queue_write, rga_queue, write_sem, cpu, fast, dpc,
                    spoilt>>
    BY <1>5 DEF NoRoom, FlushWaits, AwaitReader
  <2> QED BY <2>2, <2>3
<1>6. CASE FillSlot
  BY <1>6, IndexTypes DEF FillSlot, Indices
<1>7. CASE Publish
  BY <1>7, IndexTypes DEF Publish, Indices
<1>8. CASE Post
  BY <1>8, DeniseAssumption DEF Post, Posted
<1>9. CASE Flushed
  BY <1>9 DEF Flushed
<1>10. CASE ResetRead
  <2>1. fast' \in Seq([line: 0 .. MaxLines, n: 1 .. MaxWrites]) /\ Len(fast') < FastSize
    BY <1>10, DeniseAssumption DEF ResetRead
  <2>2. /\ rga_queue_read' = 0 /\ line' = 0 /\ cpc' = "reset2"
        /\ UNCHANGED <<rga_queue_write, rga_queue, read_sem, write_sem, thread_debug_lock,
                       quit_program, written, item, after, dpc, spoilt>>
    BY <1>10 DEF ResetRead
  <2>3. 0 \in 0 .. (Wrap - 1) /\ 0 \in 0 .. MaxLines
    BY IndexTypes, DeniseAssumption
  <2> QED BY <2>1, <2>2, <2>3
<1>11. CASE ResetWrite
  BY <1>11, IndexTypes DEF ResetWrite
<1>12. CASE Take \/ Empty
  BY <1>12 DEF Take, Empty
<1>13. CASE Wake
  BY <1>13, DeniseAssumption DEF Wake, Waited
<1>14. CASE FlushFastRga
  <2>1. fast # <<>> /\ fast' = Tail(fast)
    BY <1>14 DEF FlushFastRga, Extractable
  <2>2. fast' \in Seq([line: 0 .. MaxLines, n: 1 .. MaxWrites]) /\ Len(fast') < FastSize
    BY <2>1, DeniseAssumption
  <2> QED BY <1>14, <2>2 DEF FlushFastRga
<1>15. CASE Draw
  BY <1>15, IndexTypes DEF Draw, Indices
<1>16. CASE Advance
  BY <1>16, IndexTypes DEF Advance, Indices
<1>17. CASE PostRead
  BY <1>17, DeniseAssumption DEF PostRead, Posted
<1>18. CASE UNCHANGED vars
  BY <1>18 DEF vars
<1> QED BY <1>1, <1>2, <1>3, <1>4, <1>5, <1>6, <1>7, <1>8, <1>9, <1>10, <1>11, <1>12, <1>13,
           <1>14, <1>15, <1>16, <1>17, <1>18 DEF Next, CpuStep, DeniseThread

(* The indices, counts and rings of the queue keep their ranges: both      *)
(* semaphores, whose posts outnumber the waits, included.                  *)
THEOREM TypeCorrect == Spec => []TypeOK
<1>1. Spec => []TypeInv
  BY TypeInit, TypeNext, PTL DEF Spec
<1>2. TypeInv => TypeOK
  BY DEF TypeInv
<1> QED BY <1>1, <1>2, PTL

----------------------------------------------------------------------------
(* The ring                                                                *)

Ending == IF cpc = "post" /\ EndsLine(item) THEN 1 ELSE 0

(* What is known of an entry e at index j that waits to be drawn: while    *)
(* the picture is locked every line that was described since has put an    *)
(* entry of its own behind it.                                             *)
EntryOK(e, j) ==
  /\ e \in Entries
  /\ e.type \in NeedsLock =>
       /\ thread_debug_lock
       /\ ~quit_program => line - e.line + Ending <= Ahead(rga_queue_write, j)

Queued(j) ==
  /\ cpc # "reset2" /\ Ahead(j, rga_queue_read) < Ahead(rga_queue_write, rga_queue_read)
  /\ dpc = "advance" => j # rga_queue_read

QueuedOK == \A j \in Indices : Queued(j) => EntryOK(rga_queue[Slot(j)], j)

(* The indices, against where the two threads are.                         *)
IndexInv ==
  /\ cpc # "reset2" => Ahead(rga_queue_write, rga_queue_read) < Chunks
  /\ cpc = "publish" => /\ Ahead(rga_queue_write, rga_queue_read) < Chunks - 1
                        /\ rga_queue[Slot(rga_queue_write)] = item
  /\ dpc \in {"draw", "advance"} =>
       rga_queue_read # rga_queue_write /\ cpc \notin {"reset", "reset2"}
  /\ cpc = "reset" => rga_queue_read = rga_queue_write
  /\ cpc = "reset2" => rga_queue_read = 0
  /\ Calling /\ item.type \in NeedsLock => thread_debug_lock

RingInv == TypeInv /\ (Torn \/ (IndexInv /\ QueuedOK))

LEMMA RingTypes ==
  ASSUME TypeInv
  PROVE  /\ rga_queue_read \in Indices /\ rga_queue_write \in Indices
         /\ rga_queue \in [0 .. (Chunks - 1) -> Entries \cup {Stale}]
         /\ line \in Nat /\ thread_debug_lock \in BOOLEAN /\ quit_program \in BOOLEAN
         /\ Ending \in {0, 1}
BY DeniseAssumption DEF TypeInv, TypeOK, Indices, Ending

LEMMA EntryFields ==
  /\ Stale \notin Entries
  /\ \A e \in Entries : e.type \in Types /\ e.line \in Nat
BY DeniseAssumption DEF Entries, Stale

(* A step that leaves the ring alone, and does not let the emulation       *)
(* thread go further ahead of what is queued.                              *)
LEMMA QueuedKept ==
  ASSUME TypeInv, TypeInv', QueuedOK,
         UNCHANGED <<rga_queue_read, rga_queue_write, rga_queue>>, cpc # "reset2",
         dpc = "advance" => dpc' = "advance",
         thread_debug_lock => thread_debug_lock', quit_program => quit_program',
         line' + Ending' <= line + Ending
  PROVE  QueuedOK'
<1> SUFFICES ASSUME NEW j \in Indices, Queued(j)' PROVE EntryOK(rga_queue[Slot(j)], j)'
  BY DEF QueuedOK
<1>1. Queued(j)
  BY DEF Queued
<1>2. EntryOK(rga_queue[Slot(j)], j)
  BY <1>1 DEF QueuedOK
<1>3. PICK e : e = rga_queue[Slot(j)]
  OBVIOUS
<1>4. /\ e = rga_queue'[Slot(j)] /\ EntryOK(e, j) /\ e \in Entries /\ e.line \in Nat
      /\ Ahead(rga_queue_write, j)' = Ahead(rga_queue_write, j)
  BY <1>2, <1>3, EntryFields DEF EntryOK
<1>5. /\ line \in Int /\ line' \in Int /\ Ending \in Int /\ Ending' \in Int
  BY RingTypes, DeniseAssumption DEF TypeInv, TypeOK, Ending
<1>6. Ahead(rga_queue_write, j) \in Int
  BY RingTypes, IndexTypes DEF Indices
<1>7. line - e.line + Ending <= Ahead(rga_queue_write, j)
      => line' - e.line + Ending' <= Ahead(rga_queue_write, j)
  <2>1. PICK a \in Int, b \in Int, l \in Int, ll \in Int, d \in Int, dd \in Int :
          /\ a = e.line /\ b = Ahead(rga_queue_write, j)
          /\ l = line /\ ll = line' /\ d = Ending /\ dd = Ending'
    BY <1>4, <1>5, <1>6
  <2>2. ll + dd <= l + d
    BY <2>1
  <2>3. l - a + d <= b => ll - a + dd <= b
    BY <2>2
  <2> QED BY <2>1, <2>3
<1> QED BY <1>4, <1>7 DEF EntryOK

(* Nothing is queued when the indices are equal.                           *)
LEMMA NoneQueued ==
  ASSUME TypeInv', rga_queue_read' = rga_queue_write' PROVE QueuedOK'
<1>0. rga_queue_read' \in Indices /\ Indices \subseteq Nat
  BY IndexTypes DEF Indices, TypeInv, TypeOK
<1>1. \A i \in Indices : Ahead(i, rga_queue_read') \in Nat
  BY <1>0, IndexTypes
<1>2. \A i \in Nat : Ahead(i, i) = 0
  BY DEF Ahead
<1> QED BY <1>0, <1>1, <1>2 DEF QueuedOK, Queued

(* Nothing makes the queue whole again.                                    *)
LEMMA TornForever == ASSUME [Next]_vars, Torn PROVE Torn'
BY DEF Next, CpuStep, DeniseThread, vars, ring, cpu, Torn, Queue, Flush, WriteRegister, StartDraw,
   Quit, NoRoom, AwaitReader, FillSlot, Publish, Post, FlushWaits, Flushed, ResetRead, ResetWrite,
   Take, Empty, Wake, FlushFastRga, Draw, Advance, PostRead

LEMMA RingInit == Init => RingInv
<1> SUFFICES ASSUME Init PROVE RingInv
  OBVIOUS
<1>1. TypeInv
  BY TypeInit
<1>2. Ahead(0, 0) = 0 /\ \A j \in Indices : Ahead(j, 0) \in Nat
  BY IndexTypes DEF Indices, Ahead
<1>3. IndexInv
  BY <1>2, IndexTypes DEF Init, IndexInv, Calling
<1>4. QueuedOK
  BY <1>2 DEF Init, QueuedOK, Queued
<1> QED BY <1>1, <1>3, <1>4 DEF RingInv

(* The emulation thread between two calls.                                 *)
LEMMA RingBetween ==
  ASSUME TypeInv, TypeInv', IndexInv, QueuedOK,
         \/ \E type \in Types, final \in BOOLEAN : Queue(type, final)
         \/ \E then \in {"run", "unlock", "reset"} : Flush(then)
         \/ WriteRegister \/ StartDraw \/ Quit
  PROVE  IndexInv' /\ QueuedOK'
<1> USE DEF ring
<1>t. /\ cpc = "run" /\ Ending = 0 /\ line \in Int
      /\ UNCHANGED <<rga_queue_read, rga_queue_write, rga_queue, dpc>>
  <2>1. cpc = "run" /\ UNCHANGED <<rga_queue_read, rga_queue_write, rga_queue, dpc>>
    BY DEF Queue, Flush, WriteRegister, StartDraw, Quit
  <2> QED BY <2>1, RingTypes DEF Ending
<1>1. ASSUME NEW type \in Types, NEW final \in BOOLEAN, Queue(type, final)
      PROVE  IndexInv' /\ QueuedOK'
  <2>1. CASE Refuses(type)
    <3>1. cpc' = cpc /\ item' = item /\ UNCHANGED <<thread_debug_lock, quit_program>>
      BY <1>1, <2>1 DEF Queue
    <3>2. IndexInv'
      BY <1>t, <3>1 DEF IndexInv, Calling
    <3>3. ASSUME NEW j \in Indices, Queued(j)' PROVE EntryOK(rga_queue[Slot(j)], j)'
      <4>1. EntryOK(rga_queue[Slot(j)], j)
        BY <1>t, <3>1, <3>3 DEF QueuedOK, Queued
      <4>2. thread_debug_lock => quit_program
        BY <2>1 DEF Refuses
      <4> QED BY <1>t, <3>1, <4>1, <4>2 DEF EntryOK
    <3> QED BY <3>2, <3>3 DEF QueuedOK
  <2>2. CASE ~Refuses(type)
    <3>1. /\ cpc' = "room" /\ item'.type = type
          /\ UNCHANGED <<thread_debug_lock, quit_program, line>>
      BY <1>1, <2>2 DEF Queue, QueueEntry
    <3>2. IndexInv'
      BY <1>t, <2>2, <3>1 DEF IndexInv, Calling, Refuses
    <3> QED BY <1>t, <3>1, <3>2, QueuedKept DEF Ending
  <2> QED BY <2>1, <2>2
<1>2. ASSUME NEW then \in {"run", "unlock", "reset"}, Flush(then) PROVE IndexInv' /\ QueuedOK'
  <2>1. cpc' = "flush" /\ UNCHANGED <<thread_debug_lock, quit_program, line>>
    BY <1>2 DEF Flush
  <2> QED BY <1>t, <2>1, QueuedKept DEF IndexInv, Calling, Ending
<1>3. CASE WriteRegister
  <2>1. UNCHANGED <<thread_debug_lock, quit_program, line>>
    BY <1>3 DEF WriteRegister
  <2>2. (cpc' = "run" /\ item' = item) \/ (cpc' = "room" /\ item'.type = 6)
    BY <1>t, <1>3 DEF WriteRegister, QueueEntry
  <2> QED BY <1>t, <2>1, <2>2, QueuedKept DEF IndexInv, Calling, Ending, NeedsLock
<1>4. CASE StartDraw \/ Quit
  <2>1. /\ cpc' = "run" /\ item' = item /\ line' = line
        /\ (thread_debug_lock => thread_debug_lock') /\ (quit_program => quit_program')
    BY <1>t, <1>4 DEF StartDraw, Quit
  <2>2. IndexInv'
    BY <1>t, <2>1 DEF IndexInv, Calling
  <2>3. cpc # "reset2" /\ Ending' = 0 /\ line' + Ending' <= line + Ending
    BY <1>t, <2>1 DEF Ending
  <2> QED BY <1>t, <2>1, <2>2, <2>3, QueuedKept
<1> QED BY <1>1, <1>2, <1>3, <1>4

(* The emulation thread in a call or in the reset.                         *)
LEMMA RingCpu ==
  ASSUME TypeInv, TypeInv', IndexInv, QueuedOK, CpuStep PROVE IndexInv' /\ QueuedOK'
<1> USE DEF ring, cpu
<1>t. /\ rga_queue_read \in Indices /\ rga_queue_write \in Indices
      /\ line \in Int /\ Ending \in {0, 1}
  BY RingTypes
<1>1. CASE NoRoom \/ FlushWaits
  <2>1. /\ UNCHANGED <<rga_queue_read, rga_queue_write, rga_queue, dpc, cpu>>
        /\ cpc \in {"room", "flush"}
    BY <1>1 DEF NoRoom, FlushWaits, AwaitReader
  <2> QED BY <1>t, <2>1, QueuedKept DEF IndexInv, Calling, Ending
<1>2. CASE FillSlot
  <2>1. /\ cpc = "room" /\ cpc' = "publish"
        /\ Slot(Inc(rga_queue_write)) # Slot(rga_queue_read)
        /\ rga_queue' = [rga_queue EXCEPT ![Slot(rga_queue_write)] = item]
        /\ UNCHANGED <<rga_queue_read, rga_queue_write, thread_debug_lock, quit_program, line,
                       item, dpc>>
    BY <1>2 DEF FillSlot, Room
  <2>2. Ahead(rga_queue_write, rga_queue_read) < Chunks
    BY <2>1 DEF IndexInv
  <2>3. IndexInv'
    <3>1. Ahead(rga_queue_write, rga_queue_read) < Chunks - 1
      BY <1>t, <2>1, <2>2, WriterAhead
    <3>2. rga_queue'[Slot(rga_queue_write)] = item
      BY <1>t, <2>1, RingTypes, IndexTypes
    <3> QED BY <2>1, <2>2, <3>1, <3>2 DEF IndexInv, Calling
  <2>4. ASSUME NEW j \in Indices, Queued(j)' PROVE EntryOK(rga_queue[Slot(j)], j)'
    <3>1. Queued(j)
      BY <2>1, <2>4 DEF Queued
    <3>2. Slot(rga_queue_write) # Slot(j)
      BY <1>t, <2>2, <3>1, BehindWriter, SlotsDiffer DEF Queued
    <3>3. rga_queue'[Slot(j)] = rga_queue[Slot(j)]
      BY <2>1, <3>2, RingTypes, IndexTypes
    <3> QED BY <2>1, <3>1, <3>3 DEF QueuedOK, EntryOK, Ending
  <2> QED BY <2>3, <2>4 DEF QueuedOK
<1>3. CASE Publish
  <2>1. /\ cpc = "publish" /\ cpc' = "post"
        /\ rga_queue_write' = Inc(rga_queue_write)
        /\ UNCHANGED <<rga_queue_read, rga_queue, thread_debug_lock, quit_program, line, item,
                       dpc>>
    BY <1>3 DEF Publish
  <2>2. /\ Ahead(rga_queue_write, rga_queue_read) < Chunks - 1
        /\ rga_queue[Slot(rga_queue_write)] = item
    BY <2>1 DEF IndexInv
  <2>3. Ahead(rga_queue_write', rga_queue_read) = Ahead(rga_queue_write, rga_queue_read) + 1
    BY <1>t, <2>1, <2>2, IndexTypes DEF Ahead, Inc, Indices
  <2>4. IndexInv'
    <3>1. rga_queue_write' # rga_queue_read
      BY <1>t, <2>3, IndexTypes DEF Ahead, Indices
    <3>2. Ahead(rga_queue_write', rga_queue_read) < Chunks
      BY <1>t, <2>2, <2>3, IndexTypes DEF Indices
    <3> QED BY <2>1, <3>1, <3>2 DEF IndexInv, Calling
  <2>5. ASSUME NEW j \in Indices, Queued(j)' PROVE EntryOK(rga_queue[Slot(j)], j)'
    <3>1. Ahead(j, rga_queue_read) < Ahead(Inc(rga_queue_write), rga_queue_read)
      BY <2>1, <2>5 DEF Queued
    <3>2. CASE j = rga_queue_write
      <4>1. rga_queue'[Slot(j)] = item /\ Ahead(rga_queue_write', j) = 1
        BY <1>t, <2>1, <2>2, <3>1, <3>2, NewIndex
      <4>2. item \in Entries /\ item.line = line
            /\ (item.type \in NeedsLock => thread_debug_lock)
        BY <2>1 DEF TypeInv, IndexInv, Calling
      <4>3. line - line + Ending' <= 1
        BY <1>t DEF Ending
      <4> QED BY <2>1, <4>1, <4>2, <4>3 DEF EntryOK
    <3>3. CASE j # rga_queue_write
      <4>1. Queued(j) /\ Ahead(rga_queue_write', j) = Ahead(rga_queue_write, j) + 1
        BY <1>t, <2>1, <2>2, <2>5, <3>1, <3>3, NewIndex DEF Queued
      <4>2. PICK e : e = rga_queue[Slot(j)]
        OBVIOUS
      <4>3. EntryOK(e, j) /\ e = rga_queue'[Slot(j)] /\ e.line \in Nat
        BY <2>1, <4>1, <4>2, EntryFields DEF QueuedOK, EntryOK
      <4>4. Ahead(rga_queue_write, j) \in Int /\ Ending = 0 /\ Ending' \in {0, 1}
        BY <1>t, <2>1, IndexTypes DEF Indices, Ending
      <4>5. line - e.line + Ending <= Ahead(rga_queue_write, j)
            => line - e.line + Ending' <= Ahead(rga_queue_write, j) + 1
        BY <1>t, <4>3, <4>4
      <4> QED BY <2>1, <4>1, <4>3, <4>5 DEF EntryOK
    <3> QED BY <3>2, <3>3
  <2> QED BY <2>4, <2>5 DEF QueuedOK
<1>4. CASE Post
  <2>1. /\ cpc = "post" /\ cpc' = "run" /\ line' = line + Ending
        /\ UNCHANGED <<rga_queue_read, rga_queue_write, rga_queue, thread_debug_lock,
                       quit_program, dpc>>
    BY <1>t, <1>4 DEF Post, Ending
  <2> QED BY <1>t, <2>1, QueuedKept DEF IndexInv, Calling, Ending
<1>5. CASE Flushed
  <2>1. /\ rga_queue_read' = rga_queue_write' /\ cpc' \in {"run", "reset"}
        /\ UNCHANGED <<rga_queue_read, rga_queue_write, dpc>> /\ cpc = "flush"
    BY <1>5 DEF Flushed
  <2>2. IndexInv'
    BY <2>1 DEF IndexInv, Calling
  <2> QED BY <2>1, <2>2, NoneQueued
<1>6. CASE ResetRead
  <2>1. cpc = "reset" /\ cpc' = "reset2" /\ rga_queue_read' = 0 /\ dpc' = dpc
    BY <1>6 DEF ResetRead
  <2> QED BY <2>1 DEF IndexInv, Calling, QueuedOK, Queued
<1>7. CASE ResetWrite
  <2>1. /\ cpc = "reset2" /\ cpc' = "run" /\ rga_queue_write' = 0
        /\ rga_queue_read' = 0 /\ dpc' = dpc
    BY <1>7 DEF ResetWrite, IndexInv
  <2>2. Ahead(0, 0) < Chunks
    BY IndexTypes DEF Ahead
  <2> QED BY <2>1, <2>2, NoneQueued DEF IndexInv, Calling
<1> QED BY <1>1, <1>2, <1>3, <1>4, <1>5, <1>6, <1>7 DEF CpuStep

(* The Denise thread.                                                      *)
LEMMA RingDenise ==
  ASSUME TypeInv, TypeInv', IndexInv, QueuedOK, DeniseThread
  PROVE  Torn' \/ (IndexInv' /\ QueuedOK')
<1> USE DEF ring, cpu
<1>t. /\ rga_queue_read \in Indices /\ rga_queue_write \in Indices
      /\ line \in Int /\ Ending \in {0, 1}
  BY RingTypes
<1>1. CASE Take
  <2>1. CASE cpc = "reset2"
    BY <1>1, <2>1 DEF Take, Torn
  <2>2. CASE cpc # "reset2"
    <3>1. /\ UNCHANGED <<rga_queue_read, rga_queue_write, rga_queue, cpu>>
          /\ rga_queue_read # rga_queue_write /\ dpc = "look" /\ dpc' = "draw"
      BY <1>1 DEF Take
    <3> QED BY <1>t, <2>2, <3>1, QueuedKept DEF IndexInv, Calling, Ending
  <2> QED BY <2>1, <2>2
<1>2. CASE Empty \/ Wake \/ FlushFastRga \/ PostRead
  <2>1. /\ UNCHANGED <<rga_queue_read, rga_queue_write, rga_queue, cpu>>
        /\ dpc # "advance" /\ (dpc' = dpc \/ dpc' \in {"look", "wait"})
    BY <1>2 DEF Empty, Wake, FlushFastRga, PostRead
  <2>2. IndexInv'
    BY <2>1 DEF IndexInv, Calling
  <2>3. CASE cpc = "reset2"
    BY <2>1, <2>2, <2>3 DEF QueuedOK, Queued
  <2>4. CASE cpc # "reset2"
    BY <1>t, <2>1, <2>2, <2>4, QueuedKept DEF Ending
  <2> QED BY <2>3, <2>4
<1>3. CASE Draw
  <2>1. /\ dpc = "draw" /\ dpc' = "advance"
        /\ rga_queue' = [rga_queue EXCEPT ![Slot(rga_queue_read)] = Stale]
        /\ UNCHANGED <<rga_queue_read, rga_queue_write, cpu>>
    BY <1>3 DEF Draw
  <2>2. /\ rga_queue_read # rga_queue_write /\ cpc \notin {"reset", "reset2"}
        /\ Ahead(rga_queue_write, rga_queue_read) < Chunks
    BY <2>1 DEF IndexInv
  <2>3. \A j \in Indices : Slot(j) # Slot(rga_queue_read) =>
                            rga_queue'[Slot(j)] = rga_queue[Slot(j)]
    BY <2>1, RingTypes, IndexTypes
  <2>4. IndexInv'
    <3>1. rga_queue'[Slot(rga_queue_write)] = rga_queue[Slot(rga_queue_write)]
      BY <1>t, <2>2, <2>3, SlotsDiffer
    <3> QED BY <2>1, <2>2, <3>1 DEF IndexInv, Calling
  <2>5. ASSUME NEW j \in Indices, Queued(j)' PROVE EntryOK(rga_queue[Slot(j)], j)'
    <3>1. Queued(j) /\ j # rga_queue_read
      BY <2>1, <2>5 DEF Queued
    <3>2. Ahead(j, rga_queue_read) < Chunks
      BY <1>t, <2>2, <3>1, BehindWriter DEF Queued
    <3>3. rga_queue'[Slot(j)] = rga_queue[Slot(j)]
      BY <1>t, <2>3, <3>1, <3>2, SlotsDiffer
    <3> QED BY <2>1, <3>1, <3>3 DEF QueuedOK, EntryOK, Ending
  <2> QED BY <2>4, <2>5 DEF QueuedOK
<1>4. CASE Advance
  <2>1. /\ dpc = "advance" /\ dpc' = "post" /\ rga_queue_read' = Inc(rga_queue_read)
        /\ UNCHANGED <<rga_queue_write, rga_queue, cpu>>
    BY <1>4 DEF Advance
  <2>2. /\ rga_queue_read # rga_queue_write /\ cpc \notin {"reset", "reset2"}
    BY <2>1 DEF IndexInv
  <2>3. Ahead(rga_queue_write, rga_queue_read')
          = Ahead(rga_queue_write, rga_queue_read) - 1
    BY <1>t, <2>1, <2>2, ReaderAhead
  <2>4. Ahead(rga_queue_write, rga_queue_read) \in Int /\ Chunks \in Int
    BY <1>t, IndexTypes DEF Indices
  <2>5. IndexInv'
    BY <2>1, <2>2, <2>3, <2>4 DEF IndexInv, Calling
  <2>6. ASSUME NEW j \in Indices, Queued(j)' PROVE EntryOK(rga_queue[Slot(j)], j)'
    <3>1. Queued(j)
      BY <1>t, <2>1, <2>2, <2>6, ReaderAhead DEF Queued
    <3> QED BY <2>1, <3>1 DEF QueuedOK, EntryOK, Ending
  <2> QED BY <2>5, <2>6 DEF QueuedOK
<1> QED BY <1>1, <1>2, <1>3, <1>4 DEF DeniseThread

LEMMA RingNext == ASSUME RingInv, [Next]_vars PROVE RingInv'
<1>1. TypeInv /\ TypeInv'
  BY TypeNext DEF RingInv
<1>2. CASE Torn
  BY <1>1, <1>2, TornForever DEF RingInv
<1>3. CASE ~Torn
  <2>1. IndexInv /\ QueuedOK
    BY <1>3 DEF RingInv
  <2>2. CASE UNCHANGED vars
    BY <1>1, <2>1, <2>2 DEF vars, ring, cpu, RingInv, IndexInv, Calling, QueuedOK, Queued, EntryOK,
       Ending
  <2>3. CASE Next
    BY <1>1, <2>1, <2>3, RingBetween, RingCpu, RingDenise DEF Next, RingInv
  <2> QED BY <2>2, <2>3
<1> QED BY <1>2, <1>3

(* The Denise thread carries out what was queued, never what it has done   *)
(* already, and what draws only while the picture is locked, although the  *)
(* emulation thread locks and unlocks it without asking the thread.        *)
THEOREM AlwaysDrawnLocked == Spec => []DrawnLocked
<1>1. Spec => []RingInv
  BY RingInit, RingNext, PTL DEF Spec
<1>2. RingInv => DrawnLocked
  <2> SUFFICES ASSUME RingInv, ~Torn, dpc = "draw"
               PROVE  Current # Stale /\ (Current.type \in NeedsLock => thread_debug_lock)
    BY DEF DrawnLocked
  <2>1. /\ rga_queue_read \in Indices /\ rga_queue_write \in Indices
        /\ rga_queue_read # rga_queue_write /\ cpc # "reset2"
    BY RingTypes DEF RingInv, IndexInv
  <2>2. Queued(rga_queue_read)
    BY <2>1, ReaderAhead DEF Queued
  <2>3. EntryOK(Current, rga_queue_read)
    BY <2>1, <2>2 DEF RingInv, QueuedOK, Current
  <2> QED BY <2>3, EntryFields DEF EntryOK
<1> QED BY <1>1, <1>2, PTL

(* What is pending is queued.                                              *)
LEMMA PendingQueued ==
  ASSUME RingInv, ~Torn, NEW i \in DOMAIN Pending
  PROVE  \E j \in Indices : Queued(j) /\ Pending[i] = rga_queue[Slot(j)]
<1> DEFINE r == rga_queue_read
           w == rga_queue_write
           first == IF dpc = "advance" THEN Inc(r) ELSE r
           j == Beyond(first, i - 1)
<1>1. cpc # "reset2" /\ i \in 1 .. Ahead(w, first) /\ Pending[i] = rga_queue[Slot(j)]
  BY DEF Pending
<1>2. r \in Indices /\ w \in Indices /\ first \in Indices
  BY RingTypes, IndexTypes DEF RingInv
<1>3. j \in Indices /\ Ahead(j, first) < Ahead(w, first)
  BY <1>1, <1>2, IndexTypes DEF Indices, Beyond, Ahead
<1>4. dpc = "advance" => r # w
  BY DEF RingInv, IndexInv
<1>5. Queued(j)
  BY <1>1, <1>2, <1>3, <1>4, ReaderAhead DEF Queued
<1> QED BY <1>1, <1>3, <1>5

(* The emulation thread never writes the slots of rga_denise that a queued *)
(* line names: each line described since has an entry behind it, so room   *)
(* in the queue (waitqueue_nolock) is room in that ring, too.              *)
THEOREM NeverLapped == Spec => []NotLapped
<1>1. Spec => []RingInv
  BY RingInit, RingNext, PTL DEF Spec
<1>2. RingInv => NotLapped
  <2> SUFFICES ASSUME RingInv, ~Torn, ~quit_program,
                      NEW i \in DOMAIN Pending, Pending[i].type \in NeedsLock
               PROVE  line - Pending[i].line < Chunks
    BY DEF NotLapped
  <2>1. PICK j \in Indices : Queued(j) /\ Pending[i] = rga_queue[Slot(j)]
    BY PendingQueued
  <2>2. PICK e : e = Pending[i]
    OBVIOUS
  <2>3. EntryOK(e, j) /\ e.line \in Nat
    BY <2>1, <2>2, EntryFields DEF RingInv, QueuedOK, EntryOK
  <2>4. /\ rga_queue_read \in Indices /\ rga_queue_write \in Indices
        /\ line \in Nat /\ Ending \in {0, 1}
    BY RingTypes DEF RingInv
  <2>5. Ahead(rga_queue_write, j) < Chunks
    BY <2>1, <2>4, BehindWriter DEF RingInv, IndexInv, Queued
  <2>6. line - e.line + Ending <= Ahead(rga_queue_write, j)
    BY <2>2, <2>3 DEF EntryOK
  <2>7. Ahead(rga_queue_write, j) \in Int /\ Chunks \in Int
    BY <2>4, IndexTypes DEF Indices
  <2> QED BY <2>2, <2>3, <2>4, <2>5, <2>6, <2>7
<1> QED BY <1>1, <1>2, PTL

----------------------------------------------------------------------------
(* The order                                                               *)

(* n entries of a ring q from index f on.                                  *)
Window(q, f, n) == [i \in 1 .. n |-> q[Slot(Beyond(f, i - 1))]]

First == IF dpc = "advance" THEN Inc(rga_queue_read) ELSE rga_queue_read

Slots == [0 .. (Chunks - 1) -> Entries \cup {Stale}]

LEMMA BeyondIndices ==
  ASSUME NEW f \in Indices, NEW k \in 0 .. (Wrap - 1)
  PROVE  Beyond(f, k) \in Indices /\ Ahead(Beyond(f, k), f) = k
BY IndexTypes DEF Indices, Beyond, Ahead

LEMMA BeyondAhead ==
  ASSUME NEW f \in Indices, NEW w \in Indices
  PROVE  Beyond(f, Ahead(w, f)) = w
BY IndexTypes DEF Indices, Beyond, Ahead

LEMMA BeyondInc ==
  ASSUME NEW f \in Indices, NEW k \in 0 .. (Wrap - 2)
  PROVE  Beyond(Inc(f), k) = Beyond(f, k + 1)
BY IndexTypes DEF Indices, Beyond, Inc

LEMMA WindowSeq ==
  ASSUME NEW q \in Slots, NEW f \in Indices, NEW n \in Indices
  PROVE  /\ Window(q, f, n) \in Seq(Entries \cup {Stale})
         /\ Len(Window(q, f, n)) = n
         /\ \A i \in 1 .. n : Window(q, f, n)[i] = q[Slot(Beyond(f, i - 1))]
<1>1. n \in Nat
  BY IndexTypes DEF Indices
<1>2. ASSUME NEW i \in 1 .. n PROVE q[Slot(Beyond(f, i - 1))] \in Entries \cup {Stale}
  <2>1. i - 1 \in 0 .. (Wrap - 1)
    BY <1>1, IndexTypes DEF Indices
  <2>2. Slot(Beyond(f, i - 1)) \in 0 .. (Chunks - 1)
    BY <2>1, BeyondIndices, IndexTypes
  <2> QED BY <2>2 DEF Slots
<1> QED BY <1>1, <1>2 DEF Window

(* An entry behind the last ...                                            *)
LEMMA WindowGrows ==
  ASSUME NEW q \in Slots, NEW f \in Indices, NEW n \in Indices, n + 1 \in Indices
  PROVE  Window(q, f, n + 1) = Append(Window(q, f, n), q[Slot(Beyond(f, n))])
<1> DEFINE s == Window(q, f, n)
           t == Window(q, f, n + 1)
           x == q[Slot(Beyond(f, n))]
<1>0. n \in Nat
  BY IndexTypes DEF Indices
<1>1. /\ s \in Seq(Entries \cup {Stale}) /\ Len(s) = n
      /\ \A i \in 1 .. n : s[i] = q[Slot(Beyond(f, i - 1))]
  BY WindowSeq
<1>2. /\ t \in Seq(Entries \cup {Stale}) /\ Len(t) = n + 1
      /\ \A i \in 1 .. (n + 1) : t[i] = q[Slot(Beyond(f, i - 1))]
  BY WindowSeq
<1>3. t[n + 1] = x
  <2>1. n + 1 \in 1 .. (n + 1) /\ (n + 1) - 1 = n
    BY <1>0
  <2> QED BY <1>2, <2>1
<1>4. \A i \in 1 .. n : t[i] = s[i]
  BY <1>0, <1>1, <1>2
<1>5. x \in Entries \cup {Stale}
  <2>1. t[n + 1] \in Entries \cup {Stale}
    BY <1>0, <1>2, ElementOfSeq
  <2> QED BY <1>3, <2>1
<1> HIDE DEF s, t, x
<1>6. /\ Append(s, x) \in Seq(Entries \cup {Stale}) /\ Len(Append(s, x)) = n + 1
      /\ \A i \in 1 .. n : Append(s, x)[i] = s[i]
      /\ Append(s, x)[n + 1] = x
  BY <1>1, <1>5, AppendProperties
<1>7. \A i \in 1 .. (n + 1) : t[i] = Append(s, x)[i]
  <2> SUFFICES ASSUME NEW i \in 1 .. (n + 1) PROVE t[i] = Append(s, x)[i]
    OBVIOUS
  <2>1. i \in 1 .. n \/ i = n + 1
    BY <1>0
  <2> QED BY <1>3, <1>4, <1>6, <2>1
<1>8. t = Append(s, x)
  BY <1>2, <1>6, <1>7, SeqEqual
<1> QED BY <1>8 DEF s, t, x

(* ... and without the first.                                              *)
LEMMA WindowShrinks ==
  ASSUME NEW q \in Slots, NEW f \in Indices, NEW n \in Indices, n > 0
  PROVE  Window(q, Inc(f), n - 1) = Tail(Window(q, f, n))
<1> DEFINE s == Window(q, f, n)
           t == Window(q, Inc(f), n - 1)
<1>0. n \in Nat /\ n - 1 \in Indices /\ Inc(f) \in Indices /\ n <= Wrap - 1 /\ Wrap \in Nat
  BY IndexTypes DEF Indices
<1>1. /\ s \in Seq(Entries \cup {Stale}) /\ Len(s) = n
      /\ \A i \in 1 .. n : s[i] = q[Slot(Beyond(f, i - 1))]
  BY WindowSeq
<1>2. /\ t \in Seq(Entries \cup {Stale}) /\ Len(t) = n - 1
      /\ \A i \in 1 .. (n - 1) : t[i] = q[Slot(Beyond(Inc(f), i - 1))]
  BY <1>0, WindowSeq
<1>3. ASSUME NEW i \in 1 .. (n - 1) PROVE t[i] = s[i + 1]
  <2>1. i - 1 \in 0 .. (Wrap - 2) /\ i + 1 \in 1 .. n /\ (i + 1) - 1 = (i - 1) + 1
    BY <1>0
  <2>2. Beyond(Inc(f), i - 1) = Beyond(f, (i + 1) - 1)
    BY <2>1, BeyondInc
  <2> QED BY <1>1, <1>2, <2>1, <2>2
<1> HIDE DEF s, t
<1>4. /\ Tail(s) \in Seq(Entries \cup {Stale}) /\ Len(Tail(s)) = n - 1
      /\ \A i \in 1 .. (n - 1) : Tail(s)[i] = s[i + 1]
  BY <1>0, <1>1
<1>5. t = Tail(s)
  BY <1>2, <1>3, <1>4, SeqEqual
<1> QED BY <1>5 DEF s, t

LEMMA PendingWindow ==
  /\ Pending = IF cpc = "reset2" THEN <<>>
               ELSE Window(rga_queue, First, Ahead(rga_queue_write, First))
  /\ Pending' = IF cpc' = "reset2" THEN <<>>
                ELSE Window(rga_queue', First', Ahead(rga_queue_write', First'))
BY DEF Pending, Window, First

LEMMA WindowSame ==
  ASSUME NEW q, NEW qq, NEW f, NEW n,
         \A i \in 1 .. n : qq[Slot(Beyond(f, i - 1))] = q[Slot(Beyond(f, i - 1))]
  PROVE  Window(qq, f, n) = Window(q, f, n)
BY DEF Window

LEMMA WindowEmpty == \A q, f : Window(q, f, 0) = <<>>
BY DEF Window

(* What is known of the window in a state that no reset has torn.          *)
LEMMA FirstTypes ==
  ASSUME TypeInv, IndexInv, cpc # "reset2"
  PROVE  /\ rga_queue_read \in Indices /\ rga_queue_write \in Indices
         /\ First \in Indices /\ rga_queue \in Slots
         /\ Ahead(rga_queue_write, First) \in Nat
         /\ Ahead(rga_queue_write, First) <= Ahead(rga_queue_write, rga_queue_read)
         /\ Ahead(rga_queue_write, rga_queue_read) < Chunks
<1>1. /\ rga_queue_read \in Indices /\ rga_queue_write \in Indices
      /\ First \in Indices /\ rga_queue \in Slots
      /\ Ahead(rga_queue_write, rga_queue_read) < Chunks
  BY RingTypes, IndexTypes DEF First, Slots, IndexInv
<1>2. /\ Ahead(rga_queue_write, First) \in Nat
      /\ Ahead(rga_queue_write, rga_queue_read) \in Nat
  <2>1. Indices \subseteq Nat
    BY IndexTypes DEF Indices
  <2> QED BY <1>1, <2>1, IndexTypes
<1>3. CASE dpc = "advance"
  <2>1. rga_queue_read # rga_queue_write /\ First = Inc(rga_queue_read)
    BY <1>3 DEF IndexInv, First
  <2>2. Ahead(rga_queue_write, First) = Ahead(rga_queue_write, rga_queue_read) - 1
    BY <1>1, <2>1, ReaderAhead
  <2> QED BY <1>1, <1>2, <2>2
<1>4. CASE dpc # "advance"
  BY <1>1, <1>2, <1>4 DEF First
<1> QED BY <1>3, <1>4

(* The slot behind what is pending is another than any of them, and so is  *)
(* the one in front of it.                                                 *)
LEMMA WindowApart ==
  ASSUME NEW f \in Indices, NEW w \in Indices, NEW i \in 1 .. Ahead(w, f), Ahead(w, f) < Chunks
  PROVE  /\ Slot(Beyond(f, i - 1)) # Slot(w)
         /\ i > 1 => Slot(Beyond(f, i - 1)) # Slot(f)
<1> DEFINE j == Beyond(f, i - 1)
<1>1. Ahead(w, f) \in 0 .. (Wrap - 1) /\ i - 1 \in 0 .. (Wrap - 1) /\ i \in Int
  BY IndexTypes DEF Indices
<1>2. j \in Indices /\ Ahead(j, f) = i - 1
  BY <1>1, BeyondIndices
<1>3. Ahead(j, f) < Ahead(w, f)
  BY <1>1, <1>2
<1>4. j # w /\ Ahead(w, j) < Chunks /\ Ahead(j, f) < Chunks
  BY <1>2, <1>3, BehindWriter
<1>5. Slot(w) # Slot(j)
  BY <1>2, <1>4, SlotsDiffer
<1>6. ASSUME i > 1 PROVE Slot(j) # Slot(f)
  <2>1. j # f
    BY <1>1, <1>2, <1>6, IndexTypes DEF Indices, Ahead
  <2> QED BY <1>2, <1>4, <2>1, SlotsDiffer
<1> QED BY <1>5, <1>6

(* A step that leaves the ring, and how far both threads are in it, alone. *)
LEMMA PendingKept ==
  ASSUME UNCHANGED <<rga_queue_read, rga_queue_write, rga_queue>>,
         cpc # "reset2", cpc' # "reset2", dpc' = "advance" <=> dpc = "advance"
  PROVE  Pending' = Pending
BY DEF Pending

(* What one step does to what is pending.                                  *)
Order ==
  Pending' = IF cpc = "publish" /\ cpc' = "post" THEN Append(Pending, item)
             ELSE IF dpc = "draw" /\ dpc' = "advance" THEN Tail(Pending) ELSE Pending

LEMMA OrderFill ==
  ASSUME TypeInv, TypeInv', IndexInv, FillSlot PROVE Order
<1> DEFINE w == rga_queue_write
<1>1. /\ cpc = "room" /\ cpc' = "publish"
      /\ rga_queue' = [rga_queue EXCEPT ![Slot(w)] = item]
      /\ UNCHANGED <<rga_queue_read, rga_queue_write, dpc>>
  BY DEF FillSlot
<1>2. /\ w \in Indices /\ First \in Indices /\ First' = First /\ rga_queue \in Slots
      /\ Ahead(w, First) < Chunks /\ Ahead(w, First) \in Nat
  <2>1. cpc # "reset2" /\ Chunks \in Nat
    BY <1>1, IndexTypes
  <2>2. First' = First
    BY <1>1 DEF First
  <2>3. Ahead(w, First) < Chunks
    BY <2>1, FirstTypes, IndexTypes DEF Indices
  <2> QED BY <2>1, <2>2, <2>3, FirstTypes
<1>3. ASSUME NEW i \in 1 .. Ahead(w, First)
      PROVE  rga_queue'[Slot(Beyond(First, i - 1))] = rga_queue[Slot(Beyond(First, i - 1))]
  <2>1. Slot(Beyond(First, i - 1)) # Slot(w)
    BY <1>2, WindowApart
  <2> QED BY <1>1, <1>2, <2>1 DEF Slots
<1>4. Window(rga_queue', First, Ahead(w, First)) = Window(rga_queue, First, Ahead(w, First))
  BY <1>3, WindowSame
<1>5. Pending = Window(rga_queue, First, Ahead(w, First))
  BY <1>1, PendingWindow
<1>6. Pending' = Window(rga_queue', First, Ahead(w, First))
  <2>1. Pending' = Window(rga_queue', First', Ahead(rga_queue_write', First'))
    BY <1>1, PendingWindow
  <2> QED BY <1>1, <1>2, <2>1
<1> QED BY <1>1, <1>4, <1>5, <1>6 DEF Order

LEMMA OrderPublish ==
  ASSUME TypeInv, TypeInv', IndexInv, IndexInv', Publish PROVE Order
<1> DEFINE w == rga_queue_write
           n == Ahead(w, First)
<1>1. /\ cpc = "publish" /\ cpc' = "post" /\ rga_queue_write' = Inc(w)
      /\ UNCHANGED <<rga_queue_read, rga_queue, dpc>>
  BY DEF Publish
<1>2. /\ w \in Indices /\ First \in Indices /\ First' = First /\ rga_queue \in Slots
      /\ n \in Nat /\ n <= Ahead(w, rga_queue_read) /\ rga_queue_read \in Indices
  <2>1. First' = First
    BY <1>1 DEF First
  <2> QED BY <1>1, <2>1, FirstTypes
<1>3. n < Chunks - 1 /\ rga_queue[Slot(w)] = item
  <2>1. Ahead(w, rga_queue_read) < Chunks - 1 /\ rga_queue[Slot(w)] = item
    BY <1>1 DEF IndexInv
  <2>2. Ahead(w, rga_queue_read) \in Int
    BY <1>2, IndexTypes DEF Indices
  <2> QED BY <1>2, <2>1, <2>2, IndexTypes
<1>4. Ahead(Inc(w), First) = n + 1 /\ n \in Indices /\ n + 1 \in Indices
  BY <1>2, <1>3, IndexTypes DEF Indices, Ahead, Inc
<1>5. Window(rga_queue, First, n + 1)
        = Append(Window(rga_queue, First, n), rga_queue[Slot(Beyond(First, n))])
  BY <1>2, <1>4, WindowGrows
<1>6. rga_queue[Slot(Beyond(First, n))] = item
  BY <1>2, <1>3, BeyondAhead
<1>7. Pending = Window(rga_queue, First, n)
  BY <1>1, PendingWindow
<1>8. Pending' = Window(rga_queue, First, n + 1)
  <2>1. Pending' = Window(rga_queue', First', Ahead(rga_queue_write', First'))
    BY <1>1, PendingWindow
  <2> QED BY <1>1, <1>2, <1>4, <2>1
<1> QED BY <1>1, <1>5, <1>6, <1>7, <1>8 DEF Order

LEMMA OrderDraw ==
  ASSUME TypeInv, TypeInv', IndexInv, Draw PROVE Order
<1> DEFINE w == rga_queue_write
           r == rga_queue_read
           n == Ahead(w, r)
<1>1. /\ dpc = "draw" /\ dpc' = "advance" /\ First = r /\ First' = Inc(r)
      /\ rga_queue' = [rga_queue EXCEPT ![Slot(r)] = Stale]
      /\ UNCHANGED <<rga_queue_read, rga_queue_write, cpc>>
  BY DEF Draw, First, cpu
<1>2. r # w /\ cpc # "reset2"
  BY <1>1 DEF IndexInv
<1>3. r \in Indices /\ w \in Indices /\ rga_queue \in Slots /\ n < Chunks /\ n \in Nat
  BY <1>1, <1>2, FirstTypes
<1>4. n \in Indices /\ n > 0 /\ Ahead(w, Inc(r)) = n - 1 /\ Inc(r) \in Indices
  <2>1. n \in Indices /\ Inc(r) \in Indices
    BY <1>3, IndexTypes
  <2>2. n > 0
    BY <1>2, <1>3, IndexTypes DEF Indices, Ahead
  <2>3. Ahead(w, Inc(r)) = n - 1
    BY <1>2, <1>3, ReaderAhead
  <2> QED BY <2>1, <2>2, <2>3
<1>5. Window(rga_queue, Inc(r), n - 1) = Tail(Window(rga_queue, r, n))
  BY <1>3, <1>4, WindowShrinks
<1>6. ASSUME NEW i \in 1 .. (n - 1)
      PROVE  rga_queue'[Slot(Beyond(Inc(r), i - 1))] = rga_queue[Slot(Beyond(Inc(r), i - 1))]
  <2>1. /\ i + 1 \in 1 .. n /\ i + 1 > 1 /\ (i + 1) - 1 = (i - 1) + 1
        /\ i - 1 \in 0 .. (Wrap - 2)
    BY <1>3, <1>4, IndexTypes DEF Indices
  <2>2. Beyond(Inc(r), i - 1) = Beyond(r, (i + 1) - 1)
    BY <1>3, <2>1, BeyondInc
  <2>3. Slot(Beyond(r, (i + 1) - 1)) # Slot(r)
    BY <1>3, <2>1, WindowApart
  <2> QED BY <1>1, <1>3, <2>2, <2>3 DEF Slots
<1>7. Window(rga_queue', Inc(r), n - 1) = Window(rga_queue, Inc(r), n - 1)
  BY <1>6, WindowSame
<1>8. Pending = Window(rga_queue, r, n)
  BY <1>1, <1>2, PendingWindow
<1>9. Pending' = Window(rga_queue', Inc(r), n - 1)
  <2>1. Pending' = Window(rga_queue', First', Ahead(rga_queue_write', First'))
    BY <1>1, <1>2, PendingWindow
  <2> QED BY <1>1, <1>4, <2>1
<1> QED BY <1>1, <1>5, <1>7, <1>8, <1>9 DEF Order

(* Both stores of the reset find the queue empty and leave it so.          *)
LEMMA OrderReset ==
  ASSUME TypeInv, TypeInv', IndexInv, ResetRead \/ ResetWrite PROVE Order
<1>1. CASE ResetRead
  <2>1. /\ cpc = "reset" /\ cpc' = "reset2" /\ dpc' = dpc
        /\ rga_queue_read = rga_queue_write /\ dpc \notin {"draw", "advance"}
    BY <1>1 DEF ResetRead, IndexInv
  <2>2. First = rga_queue_write /\ Ahead(rga_queue_write, First) = 0
    BY <2>1, RingTypes DEF First, Ahead, Indices
  <2>3. Pending = <<>>
    BY <2>1, <2>2, PendingWindow, WindowEmpty
  <2>4. Pending' = <<>>
    BY <2>1, PendingWindow
  <2> QED BY <2>1, <2>3, <2>4 DEF Order
<1>2. CASE ResetWrite
  <2>1. /\ cpc = "reset2" /\ cpc' = "run" /\ dpc' = dpc
        /\ rga_queue_read' = 0 /\ rga_queue_write' = 0 /\ dpc \notin {"draw", "advance"}
    BY <1>2 DEF ResetWrite, IndexInv
  <2>2. First' = 0 /\ Ahead(0, 0) = 0
    BY <2>1 DEF First, Ahead
  <2>3. Pending = <<>>
    BY <2>1, PendingWindow
  <2>4. Pending' = <<>>
    <3>1. Pending' = Window(rga_queue', First', Ahead(rga_queue_write', First'))
      BY <2>1, PendingWindow
    <3> QED BY <2>1, <2>2, <3>1, WindowEmpty
  <2> QED BY <2>1, <2>3, <2>4 DEF Order
<1> QED BY <1>1, <1>2

LEMMA OrderAdvance ==
  ASSUME TypeInv, TypeInv', IndexInv, Advance PROVE Order
<1>1. /\ dpc = "advance" /\ dpc' = "post" /\ rga_queue_read' = Inc(rga_queue_read)
      /\ UNCHANGED <<rga_queue_write, rga_queue, cpc>>
  BY DEF Advance, cpu
<1>2. First' = First
  BY <1>1 DEF First
<1>3. Pending = IF cpc = "reset2" THEN <<>>
                ELSE Window(rga_queue, First, Ahead(rga_queue_write, First))
  BY PendingWindow
<1>4. Pending' = IF cpc' = "reset2" THEN <<>>
                 ELSE Window(rga_queue', First', Ahead(rga_queue_write', First'))
  BY PendingWindow
<1>5. Pending' = Pending
  BY <1>1, <1>2, <1>3, <1>4
<1> QED BY <1>1, <1>5 DEF Order

LEMMA OrderNext ==
  ASSUME TypeInv, TypeInv', IndexInv, IndexInv', Next, ~Torn' PROVE Order
<1> USE DEF ring, cpu
<1>1. ASSUME NEW type \in Types, NEW final \in BOOLEAN, Queue(type, final) PROVE Order
  <2>1. /\ cpc = "run" /\ cpc' \in {"run", "room"} /\ dpc' = dpc
        /\ UNCHANGED <<rga_queue_read, rga_queue_write, rga_queue>>
    BY <1>1 DEF Queue, QueueEntry
  <2> QED BY <2>1, PendingKept DEF Order
<1>2. ASSUME NEW then \in {"run", "unlock", "reset"}, Flush(then) PROVE Order
  <2>1. /\ cpc = "run" /\ cpc' = "flush" /\ dpc' = dpc
        /\ UNCHANGED <<rga_queue_read, rga_queue_write, rga_queue>>
    BY <1>2 DEF Flush
  <2> QED BY <2>1, PendingKept DEF Order
<1>3. CASE WriteRegister \/ StartDraw \/ Quit
  <2>1. /\ cpc = "run" /\ cpc' \in {"run", "room"} /\ dpc' = dpc
        /\ UNCHANGED <<rga_queue_read, rga_queue_write, rga_queue>>
    BY <1>3 DEF WriteRegister, QueueEntry, StartDraw, Quit
  <2> QED BY <2>1, PendingKept DEF Order
<1>4. CASE NoRoom \/ FlushWaits
  <2>1. /\ cpc \in {"room", "flush"} /\ cpc' = cpc /\ dpc' = dpc
        /\ UNCHANGED <<rga_queue_read, rga_queue_write, rga_queue>>
    BY <1>4 DEF NoRoom, FlushWaits, AwaitReader
  <2> QED BY <2>1, PendingKept DEF Order
<1>5. CASE Post \/ Flushed
  <2>1. /\ cpc \in {"post", "flush"} /\ cpc' \in {"run", "reset"} /\ dpc' = dpc
        /\ UNCHANGED <<rga_queue_read, rga_queue_write, rga_queue>>
    BY <1>5 DEF Post, Flushed
  <2> QED BY <2>1, PendingKept DEF Order
<1>6. CASE Take \/ Empty \/ Wake \/ FlushFastRga \/ PostRead
  <2>1. /\ cpc' = cpc /\ dpc # "advance" /\ dpc' # "advance"
        /\ UNCHANGED <<rga_queue_read, rga_queue_write, rga_queue>>
    BY <1>6 DEF Take, Empty, Wake, FlushFastRga, PostRead
  <2>2. CASE cpc = "reset2"
    BY <2>1, <2>2, PendingWindow DEF Order
  <2>3. CASE cpc # "reset2"
    BY <2>1, <2>3, PendingKept DEF Order
  <2> QED BY <2>2, <2>3
<1> QED BY <1>1, <1>2, <1>3, <1>4, <1>5, <1>6, OrderFill, OrderPublish, OrderDraw, OrderReset,
           OrderAdvance DEF Next, CpuStep, DeniseThread

(* Nothing is lost, repeated, changed or overtaken in the ring: what is    *)
(* pending gets a new last entry when one is published, loses its first    *)
(* when that is carried out, and is otherwise left alone, although the     *)
(* slots are reused and each side moves its index without a lock.          *)
THEOREM CarriedOutInOrder == Spec => InOrder
<1> DEFINE Step == \/ Torn'
                   \/ Pending' = IF cpc = "publish" /\ cpc' = "post"
                                 THEN Append(Pending, item)
                                 ELSE IF dpc = "draw" /\ dpc' = "advance"
                                      THEN Tail(Pending) ELSE Pending
<1>1. RingInv /\ [Next]_vars => [Step]_vars
  <2> SUFFICES ASSUME RingInv, [Next]_vars, ~Torn', ~UNCHANGED vars PROVE Order
    BY DEF Order
  <2>1. ~Torn /\ Next
    BY TornForever
  <2>2. RingInv'
    BY RingNext
  <2>3. TypeInv /\ TypeInv' /\ IndexInv /\ IndexInv'
    BY <2>1, <2>2 DEF RingInv
  <2> QED BY <2>1, <2>3, OrderNext
<1>2. Spec => []RingInv
  BY RingInit, RingNext, PTL DEF Spec
<1>3. Spec => [][Step]_vars
  BY <1>1, <1>2, PTL DEF Spec
<1> QED BY <1>3 DEF InOrder

----------------------------------------------------------------------------
(* The register writes, which take two rings                               *)

FastWrites == [line: 0 .. MaxLines, n: 1 .. MaxWrites]
AnyEntries == Entries \cup {Stale}

(* A ring of fast writes f, all made until write w in line l, in order.    *)
FastOK(f, l, w) ==
  \A i \in 1 .. Len(f) :
    /\ f[i].n \in 1 .. w /\ f[i].line \in 0 .. l
    /\ \A j \in 1 .. Len(f) : i < j => f[i].n < f[j].n /\ f[i].line <= f[j].line

(* Queued entries p, of which those that are writes have numbers.          *)
PendOK(p, l, w) ==
  \A i \in 1 .. Len(p) :
    /\ p[i].n \in 0 .. w /\ p[i].line \in 0 .. l
    /\ p[i].n # 0 => p[i].type = 6
    /\ \A j \in 1 .. Len(p) :
         i < j => p[i].line <= p[j].line /\ (p[j].n # 0 => p[i].n < p[j].n)

(* The line tells which of a fast and a queued write is the older one: the *)
(* thread, which compares the lines, keeps their order.                    *)
Told(f, e) ==
  e.n # 0 => \A i \in 1 .. Len(f) :
               \/ f[i].n < e.n /\ f[i].line < e.line
               \/ f[i].n > e.n /\ f[i].line >= e.line

AllTold(f, p) == \A i \in 1 .. Len(p) : Told(f, p[i])

(* A write e is younger than all in f.                                     *)
Follows(f, e) == \A i \in 1 .. Len(f) : f[i].n < e.n /\ f[i].line < e.line

WritesInv ==
  /\ FastOK(fast, line, written) /\ PendOK(Pending, line, written) /\ AllTold(fast, Pending)
  /\ item.n \in 0 .. written
  /\ item.n # 0 => Calling /\ item.type = 6
  /\ item.n # 0 /\ cpc \in {"room", "publish"} =>
       Follows(fast, item) /\ \A i \in 1 .. Len(Pending) : Pending[i].n < item.n
  /\ item.n # 0 /\ cpc = "post" =>
       \/ Pending # <<>> /\ Pending[Len(Pending)] = item /\ Follows(fast, item)
       \/ Pending = <<>> /\ fast = <<>>
  /\ cpc = "reset2" => fast = <<>>

LEMMA LaterOK ==
  ASSUME NEW f, NEW p, NEW l \in Nat, NEW w \in Nat, NEW ll \in Nat, NEW ww \in Nat,
         l <= ll, w <= ww
  PROVE  /\ FastOK(f, l, w) => FastOK(f, ll, ww)
         /\ PendOK(p, l, w) => PendOK(p, ll, ww)
BY DEF FastOK, PendOK

LEMMA FastGrows ==
  ASSUME NEW f \in Seq(FastWrites), NEW l \in Nat, NEW w \in Nat, FastOK(f, l, w),
         NEW x \in FastWrites, x.n = w + 1, x.line = l
  PROVE  FastOK(Append(f, x), l, w + 1)
<1>1. /\ Len(Append(f, x)) = Len(f) + 1 /\ Len(f) \in Nat
      /\ \A i \in 1 .. Len(f) : Append(f, x)[i] = f[i]
      /\ Append(f, x)[Len(f) + 1] = x
  OBVIOUS
<1>2. PICK t : t = Append(f, x)
  OBVIOUS
<1>3. ASSUME NEW i \in 1 .. Len(t)
      PROVE  /\ t[i].n \in 1 .. (w + 1) /\ t[i].line \in 0 .. l
             /\ \A j \in 1 .. Len(t) : i < j => t[i].n < t[j].n /\ t[i].line <= t[j].line
  <2>1. i = Len(f) + 1 \/ i \in 1 .. Len(f)
    BY <1>1, <1>2
  <2>2. CASE i = Len(f) + 1
    BY <1>1, <1>2, <2>2
  <2>3. CASE i \in 1 .. Len(f)
    <3>1. t[i] = f[i] /\ f[i].n \in 1 .. w /\ f[i].line \in 0 .. l
      BY <1>1, <1>2, <2>3 DEF FastOK
    <3>2. ASSUME NEW j \in 1 .. Len(t), i < j PROVE t[i].n < t[j].n /\ t[i].line <= t[j].line
      <4>1. j = Len(f) + 1 \/ j \in 1 .. Len(f)
        BY <1>1, <1>2
      <4>2. CASE j = Len(f) + 1
        BY <1>1, <1>2, <3>1, <4>2
      <4>3. CASE j \in 1 .. Len(f)
        BY <1>1, <1>2, <2>3, <3>2, <4>3 DEF FastOK
      <4> QED BY <4>1, <4>2, <4>3
    <3> QED BY <3>1, <3>2
  <2> QED BY <2>1, <2>2, <2>3
<1> QED BY <1>2, <1>3 DEF FastOK

LEMMA PendGrows ==
  ASSUME NEW p \in Seq(AnyEntries), NEW l \in Nat, NEW w \in Nat, PendOK(p, l, w),
         NEW e \in AnyEntries, e.n \in 0 .. w, e.line = l, e.n # 0 => e.type = 6,
         e.n # 0 => \A i \in 1 .. Len(p) : p[i].n < e.n
  PROVE  PendOK(Append(p, e), l, w)
<1>1. /\ Len(Append(p, e)) = Len(p) + 1 /\ Len(p) \in Nat
      /\ \A i \in 1 .. Len(p) : Append(p, e)[i] = p[i]
      /\ Append(p, e)[Len(p) + 1] = e
  OBVIOUS
<1>2. PICK t : t = Append(p, e)
  OBVIOUS
<1>3. ASSUME NEW i \in 1 .. Len(t)
      PROVE  /\ t[i].n \in 0 .. w /\ t[i].line \in 0 .. l
             /\ t[i].n # 0 => t[i].type = 6
             /\ \A j \in 1 .. Len(t) :
                  i < j => t[i].line <= t[j].line /\ (t[j].n # 0 => t[i].n < t[j].n)
  <2>1. i = Len(p) + 1 \/ i \in 1 .. Len(p)
    BY <1>1, <1>2
  <2>2. CASE i = Len(p) + 1
    BY <1>1, <1>2, <2>2
  <2>3. CASE i \in 1 .. Len(p)
    <3>1. /\ t[i] = p[i] /\ p[i].n \in 0 .. w /\ p[i].line \in 0 .. l
          /\ p[i].n # 0 => p[i].type = 6
      BY <1>1, <1>2, <2>3 DEF PendOK
    <3>2. ASSUME NEW j \in 1 .. Len(t), i < j
          PROVE  t[i].line <= t[j].line /\ (t[j].n # 0 => t[i].n < t[j].n)
      <4>1. j = Len(p) + 1 \/ j \in 1 .. Len(p)
        BY <1>1, <1>2
      <4>2. CASE j = Len(p) + 1
        BY <1>1, <1>2, <2>3, <3>1, <4>2
      <4>3. CASE j \in 1 .. Len(p)
        BY <1>1, <1>2, <2>3, <3>2, <4>3 DEF PendOK
      <4> QED BY <4>1, <4>2, <4>3
    <3> QED BY <3>1, <3>2
  <2> QED BY <2>1, <2>2, <2>3
<1> QED BY <1>2, <1>3 DEF PendOK

LEMMA OKShrinks ==
  ASSUME NEW f, f \in Seq(FastWrites) \/ f \in Seq(AnyEntries), f # <<>>,
         NEW l, NEW w
  PROVE  /\ FastOK(f, l, w) => FastOK(Tail(f), l, w)
         /\ PendOK(f, l, w) => PendOK(Tail(f), l, w)
<1>1. /\ Len(f) \in Nat /\ Len(Tail(f)) = Len(f) - 1
      /\ \A i \in 1 .. (Len(f) - 1) : Tail(f)[i] = f[i + 1]
  OBVIOUS
<1>2. PICK t : t = Tail(f)
  OBVIOUS
<1>3. \A i \in 1 .. Len(t) : i + 1 \in 1 .. Len(f) /\ t[i] = f[i + 1]
  BY <1>1, <1>2
<1>4. \A i, j \in 1 .. Len(t) : i < j => i + 1 < j + 1
  BY <1>1, <1>2
<1>5. FastOK(f, l, w) => FastOK(t, l, w)
  BY <1>3, <1>4 DEF FastOK
<1>6. PendOK(f, l, w) => PendOK(t, l, w)
  BY <1>3, <1>4 DEF PendOK
<1> QED BY <1>2, <1>5, <1>6

LEMMA ToldShrinks ==
  ASSUME NEW f \in Seq(FastWrites), NEW p \in Seq(AnyEntries), AllTold(f, p)
  PROVE  /\ f # <<>> => AllTold(Tail(f), p)
         /\ p # <<>> => AllTold(f, Tail(p))
<1>1. ASSUME f # <<>> PROVE AllTold(Tail(f), p)
  <2>1. /\ Len(f) \in Nat /\ Len(Tail(f)) = Len(f) - 1
        /\ \A i \in 1 .. (Len(f) - 1) : Tail(f)[i] = f[i + 1]
    BY <1>1
  <2>2. \A i \in 1 .. Len(Tail(f)) : i + 1 \in 1 .. Len(f) /\ Tail(f)[i] = f[i + 1]
    BY <2>1
  <2>3. PICK t : t = Tail(f)
    OBVIOUS
  <2>4. AllTold(t, p)
    BY <2>2, <2>3 DEF AllTold, Told
  <2> QED BY <2>3, <2>4
<1>2. ASSUME p # <<>> PROVE AllTold(f, Tail(p))
  <2>1. /\ Len(p) \in Nat /\ Len(Tail(p)) = Len(p) - 1
        /\ \A i \in 1 .. (Len(p) - 1) : Tail(p)[i] = p[i + 1]
    BY <1>2
  <2>2. \A i \in 1 .. Len(Tail(p)) : i + 1 \in 1 .. Len(p) /\ Tail(p)[i] = p[i + 1]
    BY <2>1
  <2>3. PICK t : t = Tail(p)
    OBVIOUS
  <2>4. AllTold(f, t)
    BY <2>2, <2>3 DEF AllTold
  <2> QED BY <2>3, <2>4
<1> QED BY <1>1, <1>2

(* The window, as a sequence, and its first entry while that is drawn.     *)
LEMMA PendingSeq ==
  ASSUME TypeInv, IndexInv
  PROVE  /\ Pending \in Seq(AnyEntries)
         /\ dpc = "draw" => Pending # <<>> /\ Pending[1] = Current
<1>1. CASE cpc = "reset2"
  <2>1. Pending = <<>> /\ dpc # "draw"
    BY <1>1, PendingWindow DEF IndexInv
  <2> QED BY <2>1
<1>2. CASE cpc # "reset2"
  <2> DEFINE n == Ahead(rga_queue_write, First)
  <2>1. /\ First \in Indices /\ rga_queue \in Slots /\ n \in Indices
        /\ rga_queue_write \in Indices /\ rga_queue_read \in Indices /\ n \in Nat
    BY <1>2, FirstTypes, IndexTypes
  <2>2. Pending = Window(rga_queue, First, n)
    BY <1>2, PendingWindow
  <2>3. /\ Pending \in Seq(AnyEntries) /\ Len(Pending) = n
        /\ \A i \in 1 .. n : Pending[i] = rga_queue[Slot(Beyond(First, i - 1))]
    BY <2>1, <2>2, WindowSeq DEF AnyEntries
  <2>4. ASSUME dpc = "draw" PROVE Pending # <<>> /\ Pending[1] = Current
    <3>1. First = rga_queue_read /\ rga_queue_read # rga_queue_write
      BY <2>4 DEF First, IndexInv
    <3>2. n # 0 /\ Beyond(First, 1 - 1) = rga_queue_read
      BY <2>1, <3>1, IndexTypes DEF Ahead, Beyond, Indices
    <3>3. 1 \in 1 .. n
      BY <2>1, <3>2
    <3> QED BY <2>3, <3>2, <3>3 DEF Current
  <2> QED BY <2>3, <2>4
<1> QED BY <1>1, <1>2

(* The numbers in the two rings and with the emulation thread.             *)
Numbered(n, f, p, e) ==
  n # 0 /\ \/ \E i \in 1 .. Len(f) : n = f[i].n
           \/ \E i \in 1 .. Len(p) : n = p[i].n
           \/ n = e.n

LEMMA NumberedIs ==
  ASSUME NEW f \in Seq(FastWrites), NEW p \in Seq(AnyEntries), NEW e, NEW n
  PROVE  n \in {x.n : x \in ToSet(f) \cup ToSet(p) \cup {e}} \ {0} <=> Numbered(n, f, p, e)
<1>1. /\ ToSet(f) = {f[i] : i \in 1 .. Len(f)}
      /\ ToSet(p) = {p[i] : i \in 1 .. Len(p)}
  BY DEF ToSet
<1> QED BY <1>1 DEF Numbered

LEMMA OutstandingIs ==
  ASSUME fast \in Seq(FastWrites), Pending \in Seq(AnyEntries),
         fast' \in Seq(FastWrites), Pending' \in Seq(AnyEntries), NEW n
  PROVE  /\ n \in Outstanding <=> Numbered(n, fast, Pending, item)
         /\ n \in Outstanding' <=> Numbered(n, fast', Pending', item')
BY NumberedIs DEF Outstanding

LEMMA ItemTypes ==
  ASSUME TypeInv
  PROVE  /\ item \in AnyEntries /\ item.n \in Nat /\ line \in Nat /\ written \in Nat
         /\ fast \in Seq(FastWrites)
BY DeniseAssumption DEF TypeInv, TypeOK, AnyEntries, Entries, Stale, FastWrites

(* What the steps but those below leave as it was.                         *)
LEMMA WritesKept ==
  ASSUME TypeInv, TypeInv', WritesInv, UNCHANGED <<fast, item, written>>,
         Pending' = Pending, line <= line',
         \/ cpc' = cpc
         \/ cpc = "room" /\ cpc' = "publish"
         \/ item.n = 0 /\ cpc' # "reset2"
  PROVE  WritesInv' /\ OldestFirst
<1>1. WritesInv'
  <2>1. /\ line \in Nat /\ line' \in Nat /\ written \in Nat /\ written <= written
    BY ItemTypes, DeniseAssumption DEF TypeInv, TypeOK
  <2>2. FastOK(fast, line', written) /\ PendOK(Pending, line', written)
    BY <2>1, LaterOK DEF WritesInv
  <2>3. CASE cpc' = cpc
    BY <2>2, <2>3 DEF WritesInv, Calling
  <2>4. CASE cpc = "room" /\ cpc' = "publish"
    BY <2>2, <2>4 DEF WritesInv, Calling
  <2>5. CASE item.n = 0 /\ cpc' # "reset2"
    BY <2>2, <2>5 DEF WritesInv
  <2> QED BY <2>3, <2>4, <2>5
<1>2. Outstanding' = Outstanding
  BY DEF Outstanding
<1> QED BY <1>1, <1>2 DEF OldestFirst

(* The emulation thread queues a line, or what is not a register write.    *)
LEMMA WritesQueue ==
  ASSUME TypeInv, TypeInv', WritesInv, cpc = "run", cpc' = "room", item'.n = 0,
         UNCHANGED <<fast, line, written>>, Pending' = Pending
  PROVE  WritesInv' /\ OldestFirst
<1>1. item.n = 0
  BY DEF WritesInv, Calling
<1>2. WritesInv'
  BY ItemTypes DEF WritesInv, Calling
<1>3. Outstanding' = Outstanding
  BY <1>1 DEF Outstanding
<1> QED BY <1>2, <1>3 DEF OldestFirst

(* A step that takes no number away.                                       *)
LEMMA NoneTaken ==
  ASSUME fast \in Seq(FastWrites), Pending \in Seq(AnyEntries),
         fast' \in Seq(FastWrites), Pending' \in Seq(AnyEntries),
         \A i \in 1 .. Len(fast) : \E j \in 1 .. Len(fast') : fast[i].n = fast'[j].n,
         \A i \in 1 .. Len(Pending) :
           \E j \in 1 .. Len(Pending') : Pending[i].n = Pending'[j].n,
         item.n \in {0, item'.n}
  PROVE  OldestFirst
<1> SUFFICES ASSUME NEW n \in Outstanding PROVE n \in Outstanding'
  BY DEF OldestFirst
<1>1. Numbered(n, fast, Pending, item)
  BY OutstandingIs
<1>2. Numbered(n, fast', Pending', item')
  BY <1>1 DEF Numbered
<1> QED BY <1>2, OutstandingIs

(* The CPU writes a register: into the ring of its own, or by the queue.   *)
LEMMA WritesFast ==
  ASSUME TypeInv, TypeInv', IndexInv, WritesInv, WriteRegister, FastRoom, Pending' = Pending
  PROVE  WritesInv' /\ OldestFirst
<1> DEFINE x == [line |-> line, n |-> written']
<1>1. /\ cpc = "run" /\ cpc' = "run" /\ written' = written + 1 /\ written < MaxWrites
      /\ fast' = Append(fast, x) /\ UNCHANGED <<line, item>> /\ item.n = 0
  BY DEF WriteRegister, WritesInv, Calling
<1>2. /\ fast \in Seq(FastWrites) /\ Pending \in Seq(AnyEntries)
      /\ line \in Nat /\ written \in Nat /\ x \in FastWrites
  BY <1>1, ItemTypes, PendingSeq, DeniseAssumption DEF TypeInv, TypeOK, FastWrites
<1>3. /\ Len(fast') = Len(fast) + 1 /\ Len(fast) \in Nat /\ fast' \in Seq(FastWrites)
      /\ \A i \in 1 .. Len(fast) : fast'[i] = fast[i]
      /\ fast'[Len(fast) + 1] = x
  BY <1>1, <1>2
<1>4. FastOK(fast', line, written')
  BY <1>1, <1>2, FastGrows DEF WritesInv
<1>5. PendOK(Pending, line, written')
  <2>1. written <= written' /\ line <= line /\ written' \in Nat
    BY <1>1, <1>2
  <2> QED BY <1>2, <2>1, LaterOK DEF WritesInv
<1>6. AllTold(fast', Pending)
  <2> SUFFICES ASSUME NEW k \in 1 .. Len(Pending), Pending[k].n # 0,
                      NEW i \in 1 .. Len(fast')
               PROVE  \/ fast'[i].n < Pending[k].n /\ fast'[i].line < Pending[k].line
                      \/ fast'[i].n > Pending[k].n /\ fast'[i].line >= Pending[k].line
    BY DEF AllTold, Told
  <2>1. Pending[k].n \in 0 .. written /\ Pending[k].line \in 0 .. line
    BY DEF WritesInv, PendOK
  <2>2. CASE i = Len(fast) + 1
    BY <1>1, <1>2, <1>3, <2>1, <2>2
  <2>3. CASE i \in 1 .. Len(fast)
    BY <1>3, <2>3 DEF WritesInv, AllTold, Told
  <2>4. i = Len(fast) + 1 \/ i \in 1 .. Len(fast)
    BY <1>3
  <2> QED BY <2>2, <2>3, <2>4
<1>7. WritesInv'
  <2>1. item'.n = 0 /\ 0 \in 0 .. written'
    BY <1>1, <1>2
  <2>2. cpc' # "reset2"
    BY <1>1
  <2>3. FastOK(fast', line', written') /\ PendOK(Pending', line', written')
        /\ AllTold(fast', Pending')
    BY <1>1, <1>4, <1>5, <1>6
  <2> QED BY <2>1, <2>2, <2>3 DEF WritesInv
<1>8. OldestFirst
  <2>1. \A i \in 1 .. Len(fast) : \E j \in 1 .. Len(fast') : fast[i].n = fast'[j].n
    <3>1. \A i \in 1 .. Len(fast) : i \in 1 .. Len(fast')
      BY <1>3
    <3> QED BY <1>3, <3>1
  <2> QED BY <1>1, <1>2, <1>3, <2>1, NoneTaken
<1> QED BY <1>7, <1>8

LEMMA WritesSlow ==
  ASSUME TypeInv, TypeInv', IndexInv, WritesInv, WriteRegister, ~FastRoom, Pending' = Pending,
         spoilt' = {}
  PROVE  WritesInv' /\ OldestFirst
<1>1. /\ cpc = "run" /\ cpc' = "room" /\ written' = written + 1
      /\ item' = [type |-> 6, final |-> TRUE, line |-> line, n |-> written']
      /\ UNCHANGED <<line, fast>> /\ item.n = 0
  BY DEF WriteRegister, QueueEntry, WritesInv, Calling
<1>2. /\ fast \in Seq(FastWrites) /\ Pending \in Seq(AnyEntries)
      /\ line \in Nat /\ written \in Nat
      /\ written <= written' /\ line <= line /\ written' \in Nat
  BY <1>1, ItemTypes, PendingSeq
<1>3. \A i \in 1 .. Len(fast) : fast[i].line # line
  <2>1. ToSet(fast) = {fast[i] : i \in 1 .. Len(fast)}
    BY <1>2 DEF ToSet
  <2>2. ~ \E w \in ToSet(fast) : w.line = line
    BY DEF WriteRegister
  <2> QED BY <2>1, <2>2
<1>4. ASSUME NEW i \in 1 .. Len(fast) PROVE fast[i].n < written' /\ fast[i].line < line
  <2>1. fast[i].n \in 1 .. written /\ fast[i].line \in 0 .. line /\ fast[i].line # line
    BY <1>3 DEF WritesInv, FastOK
  <2> QED BY <1>1, <1>2, <2>1
<1>5. \A i \in 1 .. Len(Pending) : Pending[i].n < written'
  BY <1>1, <1>2 DEF WritesInv, PendOK
<1>6. FastOK(fast, line, written') /\ PendOK(Pending, line, written')
  BY <1>2, LaterOK DEF WritesInv
<1>7. WritesInv'
  <2>1. /\ item'.n = written' /\ item'.line = line /\ item'.type = 6 /\ cpc' = "room"
        /\ written' \in 0 .. written'
    BY <1>1, <1>2
  <2>2. Follows(fast', item')
    BY <1>1, <1>4, <2>1 DEF Follows
  <2>3. \A i \in 1 .. Len(Pending') : Pending'[i].n < item'.n
    BY <1>5, <2>1
  <2>4. FastOK(fast', line', written') /\ PendOK(Pending', line', written')
        /\ AllTold(fast', Pending')
    BY <1>1, <1>6 DEF WritesInv
  <2> QED BY <2>1, <2>2, <2>3, <2>4 DEF WritesInv, Calling
<1>8. OldestFirst
  BY <1>1, <1>2, NoneTaken
<1> QED BY <1>7, <1>8

(* The entry is published ...                                              *)
LEMMA WritesPublish ==
  ASSUME TypeInv, TypeInv', IndexInv, WritesInv, Publish, Pending' = Append(Pending, item)
  PROVE  WritesInv' /\ OldestFirst
<1>1. /\ cpc = "publish" /\ cpc' = "post" /\ UNCHANGED <<line, fast, written, item>>
  BY DEF Publish
<1>2. /\ fast \in Seq(FastWrites) /\ Pending \in Seq(AnyEntries) /\ item \in AnyEntries
      /\ line \in Nat /\ written \in Nat /\ item.line = line /\ item.n \in 0 .. written
      /\ item.n # 0 => item.type = 6
  BY <1>1, ItemTypes, PendingSeq DEF TypeInv, Calling, WritesInv
<1>3. /\ Len(Pending') = Len(Pending) + 1 /\ Len(Pending) \in Nat
      /\ Pending' \in Seq(AnyEntries) /\ Pending' # <<>>
      /\ \A i \in 1 .. Len(Pending) : Pending'[i] = Pending[i]
      /\ Pending'[Len(Pending) + 1] = item
  BY <1>2, AppendProperties
<1>4. item.n # 0 => Follows(fast, item) /\ \A i \in 1 .. Len(Pending) : Pending[i].n < item.n
  BY <1>1 DEF WritesInv
<1>5. PendOK(Pending', line, written)
  BY <1>2, <1>4, PendGrows DEF WritesInv
<1>6. AllTold(fast, Pending')
  <2> SUFFICES ASSUME NEW k \in 1 .. Len(Pending') PROVE Told(fast, Pending'[k])
    BY DEF AllTold
  <2>1. k = Len(Pending) + 1 \/ k \in 1 .. Len(Pending)
    BY <1>3
  <2>2. CASE k = Len(Pending) + 1
    <3>1. Pending'[k] = item /\ Told(fast, item)
      BY <1>3, <1>4, <2>2 DEF Told, Follows
    <3> QED BY <3>1
  <2>3. CASE k \in 1 .. Len(Pending)
    <3>1. Pending'[k] = Pending[k] /\ Told(fast, Pending[k])
      BY <1>3, <2>3 DEF WritesInv, AllTold
    <3> QED BY <3>1
  <2> QED BY <2>1, <2>2, <2>3
<1>7. WritesInv'
  <2>1. Pending'[Len(Pending')] = item
    BY <1>3
  <2>2. FastOK(fast', line', written') /\ PendOK(Pending', line', written')
        /\ AllTold(fast', Pending')
    BY <1>1, <1>5, <1>6 DEF WritesInv
  <2>3. item'.n \in 0 .. written' /\ (item'.n # 0 => item'.type = 6 /\ Follows(fast', item'))
    BY <1>1, <1>2, <1>4
  <2> QED BY <1>1, <1>3, <2>1, <2>2, <2>3 DEF WritesInv, Calling
<1>8. OldestFirst
  <2>1. \A i \in 1 .. Len(Pending) :
          \E j \in 1 .. Len(Pending') : Pending[i].n = Pending'[j].n
    <3>1. \A i \in 1 .. Len(Pending) : i \in 1 .. Len(Pending')
      BY <1>3
    <3> QED BY <1>3, <3>1
  <2> QED BY <1>1, <1>2, <1>3, <2>1, NoneTaken
<1> QED BY <1>7, <1>8

(* ... and the emulation thread returns from the call, perhaps after the   *)
(* entry was carried out.                                                  *)
LEMMA WritesPost ==
  ASSUME TypeInv, TypeInv', IndexInv, WritesInv, Post, Pending' = Pending
  PROVE  WritesInv' /\ OldestFirst
<1>1. /\ cpc = "post" /\ cpc' = "run" /\ UNCHANGED <<fast, written>> /\ item' = Stale
      /\ line' \in {line, line + 1}
  BY DEF Post
<1>2. /\ fast \in Seq(FastWrites) /\ Pending \in Seq(AnyEntries)
      /\ line \in Nat /\ written \in Nat /\ line <= line' /\ line' \in Nat
      /\ written <= written /\ item'.n = 0
  BY <1>1, ItemTypes, PendingSeq DEF Stale
<1>3. WritesInv'
  <2>1. FastOK(fast, line', written) /\ PendOK(Pending, line', written)
    BY <1>2, LaterOK DEF WritesInv
  <2>2. 0 \in 0 .. written
    BY <1>2
  <2> QED BY <1>1, <1>2, <2>1, <2>2 DEF WritesInv
<1>4. ASSUME NEW n \in Outstanding, n \notin Outstanding', NEW k \in Outstanding PROVE n <= k
  <2>1. Numbered(n, fast, Pending, item) /\ Numbered(k, fast, Pending, item)
        /\ ~Numbered(n, fast, Pending, item')
    BY <1>1, <1>2, <1>4, OutstandingIs
  <2>2. n = item.n /\ n # 0
    BY <2>1 DEF Numbered
  <2>3. CASE Pending # <<>> /\ Pending[Len(Pending)] = item
    <3>1. Len(Pending) \in 1 .. Len(Pending)
      BY <1>2, <2>3
    <3> QED BY <2>1, <2>2, <2>3, <3>1 DEF Numbered
  <2>4. CASE Pending = <<>> /\ fast = <<>>
    <3>1. k = item.n
      BY <2>1, <2>4 DEF Numbered
    <3> QED BY <2>2, <3>1, ItemTypes
  <2> QED BY <1>1, <2>2, <2>3, <2>4 DEF WritesInv
<1> QED BY <1>3, <1>4 DEF OldestFirst

(* The reset has flushed the queue; it forgets the fast writes.            *)
LEMMA WritesReset ==
  ASSUME TypeInv, TypeInv', IndexInv, WritesInv, ResetRead PROVE WritesInv'
<1>1. /\ cpc = "reset" /\ cpc' = "reset2" /\ line' = 0 /\ fast' = <<>>
      /\ UNCHANGED <<item, written>> /\ item.n = 0
  BY DEF ResetRead, WritesInv, Calling
<1>2. Pending' = <<>>
  BY <1>1, PendingWindow
<1>3. Len(fast') = 0 /\ Len(Pending') = 0
  BY <1>1, <1>2
<1>4. FastOK(fast', line', written') /\ PendOK(Pending', line', written')
      /\ AllTold(fast', Pending')
  BY <1>3 DEF FastOK, PendOK, AllTold
<1> QED BY <1>1, <1>4 DEF WritesInv

(* The oldest fast write is carried out, before an entry of a later line.  *)
LEMMA WritesFlush ==
  ASSUME TypeInv, TypeInv', IndexInv, WritesInv, FlushFastRga, Pending' = Pending
  PROVE  WritesInv' /\ OldestFirst
<1>1. /\ dpc = "draw" /\ fast # <<>> /\ fast' = Tail(fast) /\ Current.line > Head(fast).line
      /\ UNCHANGED <<line, written, item, cpc>>
  BY DEF FlushFastRga, Extractable, cpu
<1>2. /\ fast \in Seq(FastWrites) /\ Pending \in Seq(AnyEntries)
      /\ line \in Nat /\ written \in Nat
      /\ Pending # <<>> /\ Pending[1] = Current
  BY <1>1, ItemTypes, PendingSeq
<1>3. /\ Len(fast) \in Nat \ {0} /\ Len(fast') = Len(fast) - 1 /\ Head(fast) = fast[1]
      /\ \A i \in 1 .. (Len(fast) - 1) : fast'[i] = fast[i + 1]
      /\ fast' \in Seq(FastWrites) /\ Len(Pending) \in Nat \ {0}
  BY <1>1, <1>2
<1>4. /\ FastOK(fast', line, written) /\ PendOK(Pending, line, written)
      /\ AllTold(fast', Pending)
  BY <1>1, <1>2, OKShrinks, ToldShrinks DEF WritesInv
<1>5. Follows(fast, item) => Follows(fast', item)
  <2>1. \A i \in 1 .. Len(fast') : i + 1 \in 1 .. Len(fast) /\ fast'[i] = fast[i + 1]
    BY <1>3
  <2> QED BY <2>1 DEF Follows
<1>6. WritesInv'
  <2>1. Calling' <=> Calling
    BY <1>1 DEF Calling
  <2>2. /\ FastOK(fast', line', written') /\ PendOK(Pending', line', written')
        /\ AllTold(fast', Pending')
    BY <1>1, <1>4
  <2>3. item.n # 0 /\ cpc = "post" =>
          Pending # <<>> /\ Pending[Len(Pending)] = item /\ Follows(fast, item)
    BY <1>1 DEF WritesInv
  <2>4. cpc # "reset2"
    BY <1>1 DEF IndexInv
  <2> QED BY <1>1, <1>5, <2>1, <2>2, <2>3, <2>4 DEF WritesInv
<1>7. ASSUME NEW n \in Outstanding, n \notin Outstanding', NEW k \in Outstanding PROVE n <= k
  <2>1. Numbered(n, fast, Pending, item) /\ Numbered(k, fast, Pending, item)
        /\ ~Numbered(n, fast', Pending, item)
    BY <1>1, <1>2, <1>3, <1>7, OutstandingIs
  <2>2. n = fast[1].n
    <3>1. PICK i \in 1 .. Len(fast) : n = fast[i].n
      BY <2>1 DEF Numbered
    <3>2. CASE i = 1
      BY <3>1, <3>2
    <3>3. CASE i # 1
      <4>1. i - 1 \in 1 .. Len(fast') /\ fast'[i - 1] = fast[(i - 1) + 1] /\ (i - 1) + 1 = i
        BY <1>3, <3>1, <3>3
      <4>2. fast'[i - 1].n = n
        BY <3>1, <4>1
      <4> QED BY <2>1, <4>1, <4>2 DEF Numbered
    <3> QED BY <3>2, <3>3
  <2>3. 1 \in 1 .. Len(fast) /\ 1 \in 1 .. Len(Pending)
    BY <1>3
  <2>4. n \in 1 .. written /\ fast[1].line \in 0 .. line
    BY <2>2, <2>3 DEF WritesInv, FastOK
  <2>5. ASSUME NEW i \in 1 .. Len(fast) PROVE n <= fast[i].n
    <3>1. i = 1 \/ 1 < i
      BY <1>3
    <3>2. 1 < i => fast[1].n < fast[i].n
      BY <2>3 DEF WritesInv, FastOK
    <3>3. fast[i].n \in 1 .. written
      BY DEF WritesInv, FastOK
    <3> QED BY <2>2, <2>4, <3>1, <3>2, <3>3
  <2>6. ASSUME NEW i \in 1 .. Len(Pending), Pending[i].n # 0 PROVE n <= Pending[i].n
    <3>1. Pending[i].line >= Pending[1].line
      <4>1. i = 1 \/ 1 < i
        BY <1>3
      <4>2. 1 < i => Pending[1].line <= Pending[i].line
        BY <2>3 DEF WritesInv, PendOK
      <4>3. Pending[i].line \in 0 .. line /\ Pending[1].line \in 0 .. line
        BY <2>3 DEF WritesInv, PendOK
      <4> QED BY <4>1, <4>2, <4>3
    <3>2. \/ fast[1].n < Pending[i].n /\ fast[1].line < Pending[i].line
          \/ fast[1].n > Pending[i].n /\ fast[1].line >= Pending[i].line
      BY <2>3, <2>6 DEF WritesInv, AllTold, Told
    <3>3. Pending[1].line > fast[1].line
      BY <1>1, <1>2, <1>3
    <3>4. /\ Pending[i].line \in 0 .. line /\ Pending[1].line \in 0 .. line
          /\ Pending[i].n \in 0 .. written
      BY <2>3 DEF WritesInv, PendOK
    <3> QED BY <2>2, <2>4, <3>1, <3>2, <3>3, <3>4
  <2>7. ASSUME item.n # 0 PROVE n <= item.n
    <3>1. cpc # "post" => Follows(fast, item)
      BY <2>7 DEF WritesInv, Calling
    <3>2. cpc = "post" => Follows(fast, item)
      BY <1>1, <2>7 DEF WritesInv
    <3>3. fast[1].n < item.n
      BY <2>3, <3>1, <3>2 DEF Follows
    <3> QED BY <2>2, <2>4, <3>3, ItemTypes
  <2> QED BY <2>1, <2>5, <2>6, <2>7 DEF Numbered
<1> QED BY <1>6, <1>7 DEF OldestFirst

(* The first entry is carried out: of a register write, all older fast     *)
(* writes were before.                                                     *)
LEMMA WritesDraw ==
  ASSUME TypeInv, TypeInv', IndexInv, WritesInv, Draw, Pending' = Tail(Pending)
  PROVE  WritesInv' /\ OldestFirst
<1>1. /\ dpc = "draw" /\ Current.type = 6 => ~Extractable
      /\ UNCHANGED <<line, written, item, cpc, fast>>
  BY DEF Draw, cpu
<1>2. /\ fast \in Seq(FastWrites) /\ Pending \in Seq(AnyEntries)
      /\ line \in Nat /\ written \in Nat /\ dpc = "draw"
      /\ Pending # <<>> /\ Pending[1] = Current
  BY ItemTypes, PendingSeq DEF Draw
<1>3. /\ Len(Pending) \in Nat \ {0} /\ Len(Pending') = Len(Pending) - 1
      /\ \A i \in 1 .. (Len(Pending) - 1) : Pending'[i] = Pending[i + 1]
      /\ Pending' \in Seq(AnyEntries) /\ Len(fast) \in Nat
  BY <1>2
<1>4. /\ FastOK(fast, line, written) /\ PendOK(Pending', line, written)
      /\ AllTold(fast, Pending')
  BY <1>2, OKShrinks, ToldShrinks DEF WritesInv
<1>5. ASSUME Pending[1].n # 0 PROVE \A i \in 1 .. Len(fast) : fast[i].n > Pending[1].n
  <2> SUFFICES ASSUME NEW i \in 1 .. Len(fast) PROVE fast[i].n > Pending[1].n
    OBVIOUS
  <2>1. 1 \in 1 .. Len(fast) /\ 1 \in 1 .. Len(Pending) /\ fast # <<>> /\ Head(fast) = fast[1]
    BY <1>2, <1>3
  <2>2. Current.type = 6 /\ Pending[1].line \in 0 .. line
    BY <1>2, <1>5, <2>1 DEF WritesInv, PendOK
  <2>3. ~(Pending[1].line > fast[1].line)
    BY <1>1, <1>2, <2>1, <2>2 DEF Extractable
  <2>4. fast[1].line \in 0 .. line /\ fast[i].line \in 0 .. line
    BY <2>1 DEF WritesInv, FastOK
  <2>5. fast[1].line <= fast[i].line
    <3>1. 1 < i => fast[1].line <= fast[i].line
      BY <2>1 DEF WritesInv, FastOK
    <3>2. i = 1 \/ 1 < i
      BY <1>3
    <3> QED BY <2>4, <3>1, <3>2
  <2>6. \/ fast[i].n < Pending[1].n /\ fast[i].line < Pending[1].line
        \/ fast[i].n > Pending[1].n /\ fast[i].line >= Pending[1].line
    BY <1>5, <2>1 DEF WritesInv, AllTold, Told
  <2> QED BY <2>2, <2>3, <2>4, <2>5, <2>6
<1>6. ASSUME cpc = "post", item.n # 0
      PROVE  \/ Pending' # <<>> /\ Pending'[Len(Pending')] = item /\ Follows(fast, item)
             \/ Pending' = <<>> /\ fast = <<>>
  <2>1. Pending[Len(Pending)] = item /\ Follows(fast, item)
    BY <1>2, <1>6 DEF WritesInv
  <2>2. CASE Len(Pending) = 1
    <3>1. Pending' = <<>> /\ Pending[1] = item
      BY <1>2, <1>3, <2>1, <2>2
    <3>2. \A i \in 1 .. Len(fast) : fast[i].n > item.n /\ fast[i].n < item.n
      BY <1>5, <1>6, <2>1, <3>1 DEF Follows
    <3>3. \A i \in 1 .. Len(fast) : fast[i].n \in Nat
      BY <1>2, DeniseAssumption DEF WritesInv, FastOK
    <3>4. Len(fast) = 0
      <4>1. ASSUME Len(fast) # 0 PROVE FALSE
        <5>1. 1 \in 1 .. Len(fast)
          BY <1>3, <4>1
        <5> QED BY <3>2, <3>3, <5>1, ItemTypes
      <4> QED BY <4>1
    <3> QED BY <1>2, <3>1, <3>4
  <2>3. CASE Len(Pending) # 1
    <3>0. PICK m \in Nat \ {0} : m = Len(Pending) /\ Len(Pending') = m - 1 /\ m # 1
      BY <1>3, <2>3
    <3>1. /\ Len(Pending') \in 1 .. (Len(Pending) - 1) /\ Pending' # <<>>
          /\ Len(Pending') + 1 = Len(Pending)
      <4>1. m - 1 \in 1 .. (m - 1) /\ (m - 1) + 1 = m /\ m - 1 # 0
        BY <3>0
      <4>2. Pending' # <<>>
        BY <3>0, <4>1
      <4> QED BY <3>0, <4>1, <4>2
    <3>2. Pending'[Len(Pending')] = Pending[Len(Pending') + 1]
      BY <1>3, <3>1
    <3> QED BY <2>1, <3>1, <3>2
  <2> QED BY <2>2, <2>3
<1>7. ASSUME cpc \in {"room", "publish"}, item.n # 0
      PROVE  Follows(fast, item) /\ \A i \in 1 .. Len(Pending') : Pending'[i].n < item.n
  <2>1. \A i \in 1 .. Len(Pending') : i + 1 \in 1 .. Len(Pending) /\ Pending'[i] = Pending[i + 1]
    BY <1>3
  <2> QED BY <1>7, <2>1 DEF WritesInv
<1>8. WritesInv'
  <2>1. Calling' <=> Calling
    BY <1>1 DEF Calling
  <2>2. cpc # "reset2"
    BY <1>2 DEF IndexInv
  <2> QED BY <1>1, <1>4, <1>6, <1>7, <2>1, <2>2 DEF WritesInv
<1>9. ASSUME NEW n \in Outstanding, n \notin Outstanding', NEW k \in Outstanding PROVE n <= k
  <2>1. Numbered(n, fast, Pending, item) /\ Numbered(k, fast, Pending, item)
        /\ ~Numbered(n, fast, Pending', item)
    BY <1>1, <1>2, <1>3, <1>9, OutstandingIs
  <2>2. n = Pending[1].n /\ n # 0
    <3>1. PICK i \in 1 .. Len(Pending) : n = Pending[i].n
      BY <2>1 DEF Numbered
    <3>2. CASE i = 1
      BY <2>1, <3>1, <3>2 DEF Numbered
    <3>3. CASE i # 1
      <4>1. i - 1 \in 1 .. Len(Pending') /\ Pending'[i - 1] = Pending[(i - 1) + 1]
            /\ (i - 1) + 1 = i
        BY <1>3, <3>1, <3>3
      <4>2. Pending'[i - 1].n = n
        BY <3>1, <4>1
      <4> QED BY <2>1, <4>1, <4>2 DEF Numbered
    <3> QED BY <3>2, <3>3
  <2>3. 1 \in 1 .. Len(Pending)
    BY <1>3
  <2>4. n \in 0 .. written
    BY <2>2, <2>3 DEF WritesInv, PendOK
  <2>5. ASSUME NEW i \in 1 .. Len(fast) PROVE n <= fast[i].n
    <3>1. fast[i].n > n
      BY <1>5, <2>2
    <3>2. fast[i].n \in 1 .. written
      BY DEF WritesInv, FastOK
    <3> QED BY <2>4, <3>1, <3>2
  <2>6. ASSUME NEW i \in 1 .. Len(Pending), Pending[i].n # 0 PROVE n <= Pending[i].n
    <3>1. i = 1 \/ 1 < i
      BY <1>3
    <3>2. 1 < i => Pending[1].n < Pending[i].n
      BY <2>3, <2>6 DEF WritesInv, PendOK
    <3>3. Pending[i].n \in 0 .. written
      BY DEF WritesInv, PendOK
    <3> QED BY <2>2, <2>4, <3>1, <3>2, <3>3
  <2>7. ASSUME item.n # 0 PROVE n <= item.n
    <3>1. CASE cpc = "post"
      <4>1. Pending[Len(Pending)] = item /\ Len(Pending) \in 1 .. Len(Pending)
        BY <1>2, <1>3, <2>7, <3>1 DEF WritesInv
      <4> QED BY <2>6, <2>7, <4>1
    <3>2. CASE cpc # "post"
      <4>1. Pending[1].n < item.n
        BY <2>3, <2>7, <3>2 DEF WritesInv, Calling
      <4> QED BY <2>2, <2>4, <4>1, ItemTypes
    <3> QED BY <3>1, <3>2
  <2> QED BY <2>1, <2>5, <2>6, <2>7 DEF Numbered
<1> QED BY <1>8, <1>9 DEF OldestFirst

LEMMA SpoiltForever == ASSUME [Next]_vars, spoilt' = {} PROVE spoilt = {}
BY DEF Next, CpuStep, DeniseThread, vars, ring, cpu, Queue, Flush, WriteRegister, StartDraw,
   Quit, NoRoom, AwaitReader, FillSlot, Publish, Post, FlushWaits, Flushed, ResetRead, ResetWrite,
   Take, Empty, Wake, FlushFastRga, Draw, Advance, PostRead

LEMMA WritesInit == Init => WritesInv
<1> SUFFICES ASSUME Init PROVE WritesInv
  OBVIOUS
<1>1. /\ fast = <<>> /\ item.n = 0 /\ written = 0 /\ cpc = "run" /\ dpc = "look"
      /\ rga_queue_read = 0 /\ rga_queue_write = 0
  BY DEF Init, Stale
<1>2. Pending = <<>>
  <2>1. First = 0 /\ Ahead(0, 0) = 0
    BY <1>1 DEF First, Ahead
  <2> QED BY <1>1, <2>1, PendingWindow, WindowEmpty
<1>3. Len(fast) = 0 /\ Len(Pending) = 0
  BY <1>1, <1>2
<1> QED BY <1>1, <1>3 DEF WritesInv, FastOK, PendOK, AllTold

LEMMA WritesNext ==
  ASSUME TypeInv, TypeInv', IndexInv, IndexInv', Next, spoilt' = {}, WritesInv
  PROVE  WritesInv' /\ (cpc = "reset" \/ OldestFirst)
<1>0. Order
  BY OrderNext DEF Torn
<1> USE DEF ring, cpu
<1>t. line \in Nat
  BY ItemTypes
<1>1. ASSUME NEW type \in Types, NEW final \in BOOLEAN, Queue(type, final)
      PROVE  WritesInv' /\ OldestFirst
  <2>1. /\ cpc = "run" /\ cpc' \in {"run", "room"} /\ line' \in {line, line + 1}
        /\ UNCHANGED <<dpc, fast, written>>
        /\ \/ cpc' = "run" /\ item' = item
           \/ cpc' = "room" /\ line' = line /\ item'.n = 0
    BY <1>1 DEF Queue, QueueEntry
  <2>2. Pending' = Pending /\ line <= line'
    BY <1>0, <1>t, <2>1 DEF Order
  <2> QED BY <2>1, <2>2, WritesKept, WritesQueue
<1>2. ASSUME NEW then \in {"run", "unlock", "reset"}, Flush(then) PROVE WritesInv' /\ OldestFirst
  <2>1. /\ cpc = "run" /\ cpc' = "flush" /\ UNCHANGED <<dpc, fast, written, line, item>>
    BY <1>2 DEF Flush
  <2>2. Pending' = Pending /\ line <= line' /\ item.n = 0
    BY <1>0, <1>t, <2>1 DEF Order, WritesInv, Calling
  <2> QED BY <2>1, <2>2, WritesKept
<1>3. CASE WriteRegister
  <2>1. cpc = "run" /\ UNCHANGED dpc
    BY <1>3 DEF WriteRegister
  <2>2. Pending' = Pending
    BY <1>0, <2>1 DEF Order
  <2> QED BY <1>3, <2>2, WritesFast, WritesSlow
<1>4. CASE StartDraw \/ Quit \/ NoRoom \/ FlushWaits
  <2>1. cpc' = cpc /\ UNCHANGED <<dpc, fast, written, line, item>>
    BY <1>4 DEF StartDraw, Quit, NoRoom, FlushWaits, AwaitReader
  <2>2. Pending' = Pending /\ line <= line'
    <3>1. ~(cpc = "publish" /\ cpc' = "post")
      BY <2>1
    <3> QED BY <1>0, <1>t, <2>1, <3>1 DEF Order
  <2> QED BY <2>1, <2>2, WritesKept
<1>5. CASE FillSlot
  <2>1. cpc = "room" /\ cpc' = "publish" /\ UNCHANGED <<dpc, fast, written, line, item>>
    BY <1>5 DEF FillSlot
  <2>2. Pending' = Pending /\ line <= line'
    BY <1>0, <1>t, <2>1 DEF Order
  <2> QED BY <2>1, <2>2, WritesKept
<1>6. CASE Flushed \/ ResetWrite
  <2>1. /\ cpc \in {"flush", "reset2"} /\ cpc' \in {"run", "reset"}
        /\ UNCHANGED <<dpc, fast, written, line, item>>
    BY <1>6 DEF Flushed, ResetWrite
  <2>2. Pending' = Pending /\ line <= line' /\ item.n = 0
    BY <1>0, <1>t, <2>1 DEF Order, WritesInv, Calling
  <2> QED BY <2>1, <2>2, WritesKept
<1>7. CASE Publish
  <2>1. Pending' = Append(Pending, item)
    BY <1>0, <1>7 DEF Order, Publish
  <2> QED BY <1>7, <2>1, WritesPublish
<1>8. CASE Post
  <2>1. Pending' = Pending
    BY <1>0, <1>8 DEF Order, Post
  <2> QED BY <1>8, <2>1, WritesPost
<1>9. CASE ResetRead
  BY <1>9, WritesReset DEF ResetRead
<1>10. CASE Take \/ Empty \/ Wake \/ Advance \/ PostRead
  <2>1. /\ UNCHANGED <<cpc, fast, written, line, item>>
        /\ ~(dpc = "draw" /\ dpc' = "advance")
    BY <1>10 DEF Take, Empty, Wake, Advance, PostRead
  <2>2. Pending' = Pending /\ line <= line'
    BY <1>0, <1>t, <2>1 DEF Order
  <2> QED BY <2>1, <2>2, WritesKept
<1>11. CASE FlushFastRga
  <2>1. cpc' = cpc /\ dpc' = dpc
    BY <1>11 DEF FlushFastRga
  <2>2. Pending' = Pending
    BY <1>0, <2>1 DEF Order
  <2> QED BY <1>11, <2>2, WritesFlush
<1>12. CASE Draw
  <2>1. cpc' = cpc /\ dpc = "draw" /\ dpc' = "advance"
    BY <1>12 DEF Draw
  <2>2. Pending' = Tail(Pending)
    BY <1>0, <2>1 DEF Order
  <2> QED BY <1>12, <2>2, WritesDraw
<1> QED BY <1>1, <1>2, <1>3, <1>4, <1>5, <1>6, <1>7, <1>8, <1>9, <1>10, <1>11, <1>12
        DEF Next, CpuStep, DeniseThread

(* The CPU's register writes reach Denise in the order they were made,     *)
(* although they travel through two rings that the thread empties at its   *)
(* own pace: the line written beside each tells it which is the older, as  *)
(* long as no write left a full rga_denise_fast behind it in its own line. *)
THEOREM WritesReachInOrder == Spec => WritesInOrder
<1> DEFINE Inv == RingInv /\ (spoilt # {} \/ WritesInv)
           Step == spoilt' # {} \/ cpc = "reset" \/ OldestFirst
<1>1. Init => Inv
  BY RingInit, WritesInit
<1>2. ASSUME Inv, [Next]_vars PROVE Inv' /\ [Step]_vars
  <2>1. RingInv'
    BY <1>2, RingNext
  <2>2. CASE spoilt' # {}
    BY <2>1, <2>2
  <2>3. CASE spoilt' = {}
    <3>1. spoilt = {} /\ ~Torn /\ ~Torn'
      BY <1>2, <2>3, SpoiltForever DEF Torn
    <3>2. TypeInv /\ TypeInv' /\ IndexInv /\ IndexInv' /\ WritesInv
      BY <1>2, <2>1, <3>1 DEF RingInv
    <3>3. CASE UNCHANGED vars
      <4>1. UNCHANGED <<fast, item, written, line, cpc>> /\ Pending' = Pending
        BY <3>3 DEF vars, ring, cpu, Pending
      <4>2. line <= line'
        BY <3>2, <4>1, ItemTypes
      <4>3. WritesInv'
        BY <3>2, <4>1, <4>2, WritesKept
      <4> QED BY <2>1, <3>3, <4>3
    <3>4. CASE Next
      <4>1. WritesInv' /\ (cpc = "reset" \/ OldestFirst)
        BY <2>3, <3>2, <3>4, WritesNext
      <4> QED BY <2>1, <4>1
    <3> QED BY <1>2, <3>3, <3>4
  <2> QED BY <2>2, <2>3
<1> HIDE DEF Inv, Step
<1>3. Spec => [][Step]_vars
  BY <1>1, <1>2, PTL DEF Spec
<1> QED BY <1>3 DEF WritesInOrder, Step
=============================================================================
