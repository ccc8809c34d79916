---------------------------- MODULE DeniseQueue ----------------------------
(***************************************************************************)
(* The Denise thread of drawing.cpp: the emulation thread describes each   *)
(* display line, strobe and register write in a ring of a few entries, the *)
(* thread carries them out, and nobody takes a lock: each side has an      *)
(* index of its own and a counting semaphore on which the other wakes it.  *)
(*                                                                         *)
(* An entry does not hold its line: it names slots of rga_denise, a second *)
(* ring that the emulation thread goes on filling, with room for Chunks    *)
(* lines.  Register writes of a fast CPU take a third ring,                *)
(* rga_denise_fast, and the queue only when that one is full.              *)
(*                                                                         *)
(* What an entry draws is left out.  The picture is the chip set's: no     *)
(* custom_disabled; the CPU is not cycle exact: its writes do not take     *)
(* write_drga.                                                             *)
(***************************************************************************)
EXTENDS Integers, Sequences, SequencesExt

CONSTANTS
  Types,      \* the q->type that occur
  Chunks,     \* DENISE_RGA_SLOT_CHUNKS
  FastSize,   \* DENISE_RGA_SLOT_FAST_TOTAL
  MaxLines,   \* bound on the lines between two resets
  MaxWrites,  \* bound on how many registers are written
  SemMax      \* bound on the posts of a semaphore that are told apart

ASSUME DeniseAssumption ==
  /\ Types \subseteq 0 .. 7
  /\ Chunks \in Nat \ {0, 1} /\ FastSize \in Nat \ {0, 1}
  /\ {MaxLines, MaxWrites} \subseteq Nat /\ SemMax \in Nat \ {0}

(* Bound: the indices are ints that wrap at a multiple of Chunks; the      *)
(* smallest that tells a full ring from an empty one stands for 2^32.      *)
Wrap      == 2 * Chunks
Inc(i)    == IF i + 1 = Wrap THEN 0 ELSE i + 1
Slot(i)   == IF i < Chunks THEN i ELSE i - Chunks
Ahead(i, j) == IF i >= j THEN i - j ELSE i - j + Wrap
Beyond(i, k) == IF i + k < Wrap THEN i + k ELSE i + k - Wrap

(* 0 a line (all of it, or up to the beam), 1 and 2 a line drawn quickly,  *)
(* 3 the writes of a line, 4 a strobe, 5 vsync, 6 a register, 7 store or   *)
(* restore the registers.  `n' numbers register writes.                    *)
NeedsLock == {0, 1, 2, 3, 7}
Entries   == [type: Types, final: BOOLEAN, line: 0 .. MaxLines, n: 0 .. MaxWrites]
Stale     == [type |-> 8, final |-> FALSE, line |-> 0, n |-> 0]   \* was carried out
EndsLine(e) == e.type \in {1, 2, 3, 4} \/ (e.type = 0 /\ e.final)

VARIABLES
  rga_queue_read, rga_queue_write, rga_queue, read_sem, write_sem,
  thread_debug_lock, quit_program,
  line,     \* rga_denise_cycle_line
  fast,     \* rga_denise_fast, what is between its indices
  written,  \* the number of the CPU's last register write
  cpc, item, after,  \* the emulation thread, the entry it queues, what follows a flush
  dpc,      \* the Denise thread
  spoilt    \* history: "torn" when the thread took an entry in the middle of a reset,
            \* "overtaken" when a full rga_denise_fast held writes of its line

ring == <<rga_queue_read, rga_queue_write, rga_queue, read_sem, write_sem>>
cpu  == <<thread_debug_lock, quit_program, line, written, cpc, item, after>>
vars == <<ring, cpu, fast, dpc, spoilt>>

TypeOK ==
  /\ {rga_queue_read, rga_queue_write} \subseteq 0 .. (Wrap - 1)
  /\ line \in 0 .. MaxLines
  /\ rga_queue \in [0 .. (Chunks - 1) -> Entries \cup {Stale}]
  /\ read_sem \in 0 .. SemMax /\ write_sem \in 0 .. SemMax
  /\ thread_debug_lock \in BOOLEAN /\ quit_program \in BOOLEAN
  /\ fast \in Seq([line: 0 .. MaxLines, n: 1 .. MaxWrites]) /\ Len(fast) < FastSize
  /\ written \in 0 .. MaxWrites
  /\ cpc \in {"run", "room", "publish", "post", "flush", "reset", "reset2"}
  /\ item \in Entries \cup {Stale}
  /\ after \in {"run", "unlock", "reset"}
  /\ dpc \in {"look", "wait", "draw", "advance", "post"}
  /\ spoilt \subseteq {"torn", "overtaken"}

Init ==
  /\ rga_queue_read = 0 /\ rga_queue_write = 0
  /\ rga_queue = [i \in 0 .. (Chunks - 1) |-> Stale]
  /\ read_sem = 1 /\ write_sem = 1
  /\ thread_debug_lock = FALSE /\ quit_program = FALSE
  /\ line = 0 /\ fast = <<>> /\ written = 0
  /\ cpc = "run" /\ item = Stale /\ after = "run"
  /\ dpc = "look"
  /\ spoilt = {}

(* A count at the bound stands for any that is not below it.               *)
Posted(sem) == IF sem < SemMax THEN sem + 1 ELSE sem
Waited(sem) == {sem - 1} \cup {s \in {sem} : sem = SemMax}

----------------------------------------------------------------------------
(* The emulation thread                                                    *)

(* waitqueue refuses what draws without the lock, waitqueue_nolock nothing.*)
Refuses(type) == type \in NeedsLock /\ (quit_program \/ ~thread_debug_lock)

QueueEntry(type, final, n) ==
  /\ item' = [type |-> type, final |-> final, line |-> line, n |-> n]
  /\ cpc' = "room"

(* draw_denise_line_queue, denise_handle_quick_strobe_queue, ...: the line *)
(* they end goes on whether it was queued or not (next_denise_rga).        *)
Queue(type, final) ==
  /\ cpc = "run" /\ type # 6
  /\ final \/ type = 0
  /\ EndsLine([type |-> type, final |-> final]) => line < MaxLines
  /\ IF Refuses(type)
     THEN /\ line' = IF EndsLine([type |-> type, final |-> final]) THEN line + 1 ELSE line
          /\ UNCHANGED <<item, cpc>>
     ELSE QueueEntry(type, final, 0) /\ UNCHANGED line
  /\ UNCHANGED <<ring, thread_debug_lock, quit_program, written, after, fast, dpc, spoilt>>

(* Fault: the ring is filled up to its last entry.                         *)
FastRoomToTheLast == Len(fast) < FastSize

FastRoom == Len(fast) < FastSize - 1

(* custom_wput: denise_update_reg_queued, and `if full: direct write'.     *)
WriteRegister ==
  /\ cpc = "run" /\ 6 \in Types /\ written < MaxWrites
  /\ written' = written + 1
  /\ IF FastRoom
     THEN /\ fast' = Append(fast, [line |-> line, n |-> written'])
          /\ UNCHANGED <<item, cpc, spoilt>>
     ELSE /\ QueueEntry(6, TRUE, written')
          /\ spoilt' = IF \E w \in ToSet(fast) : w.line = line
                       THEN spoilt \cup {"overtaken"} ELSE spoilt
          /\ UNCHANGED fast
  /\ UNCHANGED <<ring, thread_debug_lock, quit_program, line, after, dpc>>

(* Fault: the ring is filled up to its last entry.                         *)
RoomToTheLast == Ahead(rga_queue_write, rga_queue_read) < Chunks

Room == Slot(Inc(rga_queue_write)) # Slot(rga_queue_read)

(* A wait on read_sem ends with a post or after 500 ms, and looks again.   *)
AwaitReader ==
  /\ read_sem' \in {read_sem} \cup {s \in Waited(read_sem) : read_sem > 0}
  /\ UNCHANGED <<rga_queue_read, rga_queue_write, rga_queue, write_sem, cpu, fast,
                 dpc, spoilt>>

NoRoom == cpc = "room" /\ ~Room /\ AwaitReader

FillSlot ==
  /\ cpc = "room" /\ Room
  /\ rga_queue' = [rga_queue EXCEPT ![Slot(rga_queue_write)] = item]
  /\ cpc' = "publish"
  /\ UNCHANGED <<rga_queue_read, rga_queue_write, read_sem, write_sem, thread_debug_lock,
                 quit_program, line, written, item, after, fast, dpc, spoilt>>

(* addtowritequeue: atomic_inc ...                                         *)
Publish ==
  /\ cpc = "publish"
  /\ rga_queue_write' = Inc(rga_queue_write)
  /\ cpc' = "post"
  /\ UNCHANGED <<rga_queue_read, rga_queue, read_sem, write_sem, thread_debug_lock,
                 quit_program, line, written, item, after, fast, dpc, spoilt>>

(* Fault: the thread is not woken.                                         *)
PostNone ==
  /\ cpc = "post"
  /\ line' = IF EndsLine(item) THEN line + 1 ELSE line
  /\ cpc' = "run" /\ item' = Stale
  /\ UNCHANGED <<ring, thread_debug_lock, quit_program, written, after, fast, dpc, spoilt>>

(* ... and uae_sem_post; the end of a line is behind its entry.            *)
Post ==
  /\ cpc = "post"
  /\ write_sem' = Posted(write_sem)
  /\ line' = IF EndsLine(item) THEN line + 1 ELSE line
  /\ cpc' = "run" /\ item' = Stale
  /\ UNCHANGED <<rga_queue_read, rga_queue_write, rga_queue, read_sem, thread_debug_lock,
                 quit_program, written, after, fast, dpc, spoilt>>

(* draw_denise_line_queue_flush on its own (CLXDAT, a changed colour       *)
(* table), in custom_end_drawing, and that before the reset that m68k_go   *)
(* makes of the request.                                                   *)
Flush(then) ==
  /\ cpc = "run"
  /\ then = "reset" => quit_program
  /\ cpc' = "flush" /\ after' = then
  /\ UNCHANGED <<ring, thread_debug_lock, quit_program, line, written, item, fast, dpc, spoilt>>

FlushWaits == cpc = "flush" /\ rga_queue_read # rga_queue_write /\ AwaitReader

(* Fault: end_draw_denise does not wait for the thread.                    *)
FlushedAtOnce ==
  /\ cpc = "flush"
  /\ thread_debug_lock' = (thread_debug_lock /\ after = "run")
  /\ cpc' = IF after = "reset" THEN "reset" ELSE "run"
  /\ quit_program' = (quit_program /\ after # "reset")
  /\ after' = "run"
  /\ UNCHANGED <<ring, line, written, item, fast, dpc, spoilt>>

(* The queue is empty; end_draw_denise lets go of the picture.             *)
Flushed ==
  /\ cpc = "flush" /\ rga_queue_read = rga_queue_write
  /\ thread_debug_lock' = (thread_debug_lock /\ after = "run")
  /\ cpc' = IF after = "reset" THEN "reset" ELSE "run"
  /\ quit_program' = (quit_program /\ after # "reset")
  /\ after' = "run"
  /\ UNCHANGED <<ring, line, written, item, fast, dpc, spoilt>>

(* start_draw_denise; lockscr may fail and is tried again at the next line.*)
StartDraw ==
  /\ cpc = "run" /\ ~thread_debug_lock
  /\ thread_debug_lock' = TRUE
  /\ UNCHANGED <<ring, quit_program, line, written, cpc, item, after, fast, dpc, spoilt>>

(* uae_reset and uae_quit set it; m68k_go sees it later.                   *)
Quit ==
  /\ cpc = "run" /\ ~quit_program
  /\ quit_program' = TRUE
  /\ UNCHANGED <<ring, thread_debug_lock, line, written, cpc, item, after, fast, dpc, spoilt>>

(* `rga_queue_write = rga_queue_read = 0', the inner assignment first; the *)
(* other rings and the line counter have been reset, the registers are.    *)
ResetRead ==
  /\ cpc = "reset"
  /\ rga_queue_read' = 0
  /\ line' = 0 /\ fast' = <<>>
  /\ cpc' = "reset2"
  /\ UNCHANGED <<rga_queue_write, rga_queue, read_sem, write_sem, thread_debug_lock,
                 quit_program, written, item, after, dpc, spoilt>>

ResetWrite ==
  /\ cpc = "reset2"
  /\ rga_queue_write' = 0
  /\ cpc' = "run"
  /\ UNCHANGED <<rga_queue_read, rga_queue, read_sem, write_sem, thread_debug_lock,
                 quit_program, line, written, item, after, fast, dpc, spoilt>>

CpuStep == \/ NoRoom \/ FillSlot \/ Publish \/ Post \/ FlushWaits \/ Flushed
           \/ ResetRead \/ ResetWrite

----------------------------------------------------------------------------
(* read_denise_line_queue                                                  *)

Take ==
  /\ dpc = "look" /\ rga_queue_read # rga_queue_write
  /\ dpc' = "draw"
  /\ spoilt' = IF cpc = "reset2" THEN spoilt \cup {"torn"} ELSE spoilt
  /\ UNCHANGED <<ring, cpu, fast>>

Empty ==
  /\ dpc = "look" /\ rga_queue_read = rga_queue_write
  /\ dpc' = "wait"
  /\ UNCHANGED <<ring, cpu, fast, spoilt>>

Wake ==
  /\ dpc = "wait" /\ write_sem > 0
  /\ write_sem' \in Waited(write_sem)
  /\ dpc' = "look"
  /\ UNCHANGED <<rga_queue_read, rga_queue_write, rga_queue, read_sem, cpu, fast, spoilt>>

Current == rga_queue[Slot(rga_queue_read)]

(* Fault: writes of the line before are left in the ring, too.             *)
ExtractableLate ==
  /\ fast # <<>>
  /\ Current.line > Head(fast).line + 1

(* flush_fast_rga, from a line, the writes of a line or a register write:  *)
(* the oldest fast write, if it was made before the entry's line.          *)
Extractable ==
  /\ fast # <<>>
  /\ Current.line > Head(fast).line

FlushFastRga ==
  /\ dpc = "draw"
  /\ Current.type \in {0, 3, 6} /\ Extractable
  /\ fast' = Tail(fast)
  /\ UNCHANGED <<ring, cpu, dpc, spoilt>>

(* The entry is carried out; type 3 may find no write in its line.         *)
Draw ==
  /\ dpc = "draw"
  /\ Current.type \in {0, 6} => ~Extractable
  /\ rga_queue' = [rga_queue EXCEPT ![Slot(rga_queue_read)] = Stale]
  /\ dpc' = "advance"
  /\ UNCHANGED <<rga_queue_read, rga_queue_write, read_sem, write_sem, cpu, fast, spoilt>>

(* Fault: the thread passes over what was queued while it drew.            *)
AdvanceToEnd ==
  /\ dpc = "advance"
  /\ rga_queue_read' = rga_queue_write
  /\ dpc' = "post"
  /\ UNCHANGED <<rga_queue_write, rga_queue, read_sem, write_sem, cpu, fast, spoilt>>

Advance ==
  /\ dpc = "advance"
  /\ rga_queue_read' = Inc(rga_queue_read)
  /\ dpc' = "post"
  /\ UNCHANGED <<rga_queue_write, rga_queue, read_sem, write_sem, cpu, fast,
                 spoilt>>

PostRead ==
  /\ dpc = "post"
  /\ read_sem' = Posted(read_sem)
  /\ dpc' = "look"
  /\ UNCHANGED <<rga_queue_read, rga_queue_write, rga_queue, write_sem, cpu, fast, spoilt>>

DeniseThread == Take \/ Empty \/ Wake \/ FlushFastRga \/ Draw \/ Advance \/ PostRead

----------------------------------------------------------------------------
Next ==
  \/ \E type \in Types, final \in BOOLEAN : Queue(type, final)
  \/ \E then \in {"run", "unlock", "reset"} : Flush(then)
  \/ WriteRegister \/ StartDraw \/ Quit
  \/ CpuStep \/ DeniseThread

Spec == Init /\ [][Next]_vars

(* Neither thread stops inside a call; the CPU need not draw anything.     *)
FairSpec == Spec /\ WF_vars(CpuStep) /\ WF_vars(DeniseThread)

----------------------------------------------------------------------------
(* Properties                                                              *)

Torn == "torn" \in spoilt

(* The entries queued and not yet carried out, oldest first.  While the    *)
(* reset sets one index after the other the queue it found is empty.       *)
Pending ==
  IF cpc = "reset2" THEN <<>>
  ELSE LET first == IF dpc = "advance" THEN Inc(rga_queue_read) ELSE rga_queue_read
       IN  [i \in 1 .. Ahead(rga_queue_write, first) |->
             rga_queue[Slot(Beyond(first, i - 1))]]

(* Whatever draws is carried out with the picture locked, although the     *)
(* emulation thread lets go of it by setting a variable: what the code's   *)
(* two messages `queue processed without lock' and `queue lock was         *)
(* released during draw' report does not happen.                           *)
DrawnLocked ==
  ~Torn /\ dpc = "draw" => Current # Stale /\ (Current.type \in NeedsLock => thread_debug_lock)

(* The slots of rga_denise that a queued entry names are not written again *)
(* while it waits: the emulation thread, which tests for room only in the  *)
(* queue, is less than Chunks lines ahead.  (Once the program is to stop,  *)
(* lines are no longer queued and it may be.)                              *)
NotLapped ==
  ~Torn /\ ~quit_program =>
    \A i \in DOMAIN Pending : Pending[i].type \in NeedsLock => line - Pending[i].line < Chunks

(* Each entry is carried out once, unchanged and in order: but for the     *)
(* entry published and the one carried out, what is pending stays.         *)
InOrder ==
  [][\/ Torn'
     \/ Pending' = IF cpc = "publish" /\ cpc' = "post" THEN Append(Pending, item)
                   ELSE IF dpc = "draw" /\ dpc' = "advance" THEN Tail(Pending) ELSE Pending]_vars

(* The register writes that were made and not yet carried out.             *)
Outstanding == {x.n : x \in ToSet(fast) \cup ToSet(Pending) \cup {item}} \ {0}
OldestFirst == \A n \in Outstanding \ Outstanding', k \in Outstanding : n <= k

(* The CPU's register writes reach Denise in the order they were made,     *)
(* through whichever ring, unless one found rga_denise_fast full of writes *)
(* of its own line.                                                        *)
WritesInOrder == [][spoilt' # {} \/ cpc = "reset" \/ OldestFirst]_vars

(* No wake-up is lost: a call, full queue or flush, returns, and the       *)
(* thread does not sleep for ever beside an entry that nobody flushes.     *)
ThreadsGoOn ==
  /\ (cpc # "run" /\ ~Torn) ~> (cpc = "run" \/ Torn)
  /\ (Pending # <<>> /\ ~Torn) ~> (dpc = "draw" \/ Torn)
=============================================================================
