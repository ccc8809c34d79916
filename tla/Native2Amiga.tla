---------------------------- MODULE Native2Amiga ----------------------------
(***************************************************************************)
(* How host threads make exec.library calls: native2amiga.cpp writes a     *)
(* message of two to four words to native2amiga_pending and requests an    *)
(* interrupt; the Amiga's `UAE fs' task answers it by calling              *)
(* exter_int_helper (filesys.cpp) until it returns 0.                      *)
(*                                                                         *)
(* The pipe is the one of CommPipe, step by step, without the assumption   *)
(* that writes do not overlap: that is what n2asem is for.  Writers of the *)
(* pipe are the threads that send, its reader is the emulation thread,     *)
(* which runs the helper's trap.  The unit packets exter_int_helper        *)
(* forwards once the pipe is empty are not modelled.                       *)
(***************************************************************************)
EXTENDS Integers, Sequences

CONSTANTS
  Threads,    \* the threads that call uae_Signal, uae_ReplyMsg, ...
  Emu,        \* the emulation thread, a member of Threads when it sends
  Messages,   \* the calls they make
  Length,     \* how many words each is
  Size, Chunks,
  Ample,      \* TRUE: Emu only begins a message while the pipe has room for it
  Recheck,    \* currprefs.uaeboard > 1
  MaxResets   \* bound on how often the Amiga is reset

(* The longest message fits into the empty pipe: the interrupt that makes  *)
(* room is only requested after the last word.                             *)
ASSUME N2AAssumption ==
  /\ Length \in [Messages -> Nat \ {0, 1}]
  /\ Messages # {}
  /\ Size \in Nat \ {0, 1} /\ Chunks \in 1 .. (Size - 1)
  /\ \A m \in Messages : Length[m] < Size
  /\ {Ample, Recheck} \subseteq BOOLEAN
  /\ MaxResets \in Nat

(* The i-th word of a message; the first is its command, the last one is   *)
(* written with no_buffer = 1.                                             *)
Words       == UNION {{m} \X (1 .. Length[m]) : m \in Messages}
Flush       == {d \in Words : d[2] = Length[d[1]]}
Message(m)  == [i \in 1 .. Length[m] |-> <<m, i>>]
IsCommand(d) == d[2] = 1

VARIABLES
  lock, reader_wait, writer_wait, data, rdp, wrp,
  writer_waiting, reader_waiting, w, rpc, got,      \* native2amiga_pending
  n2asem,
  call,      \* per thread: where its uae_* call is, and the words still to write
  int_req,   \* bit 0 of uae_int_requested
  signalled, \* the exter task has been signalled by the interrupt server
  singlethread_int_sem,
  hpc,       \* where the emulation thread is with exter_int_helper
  left,      \* the words of the current message that it has still to read
  frame,     \* the words of that message it has read
  resets

pipeVars == <<lock, reader_wait, writer_wait, data, rdp, wrp,
              writer_waiting, reader_waiting, w, rpc, got>>
exter    == <<int_req, signalled, singlethread_int_sem, hpc, left, frame, resets>>
senders  == <<n2asem, call>>
vars     == <<pipeVars, senders, exter>>

Pipe == INSTANCE CommPipe WITH Writers <- Threads, Serialised <- FALSE

SendCalls == [pc: {"idle", "write", "post"}, todo: Seq(Words)]

TypeOK ==
  /\ Pipe!TypeOK
  /\ n2asem \in {0, 1}
  /\ call \in [Threads -> SendCalls]
  /\ int_req \in {0, 1} /\ signalled \in {0, 1} /\ singlethread_int_sem \in {0, 1}
  /\ hpc \in {"off", "helper", "cmd", "args", "reset"}
  /\ left \in Nat /\ frame \in Seq(Words) /\ resets \in 0 .. MaxResets

(* Bound: what malloc left in the buffer is the same word everywhere.      *)
Init ==
  /\ Pipe!Init
  /\ \A i \in Pipe!Slots : data[i] = got
  /\ n2asem = 1
  /\ call = [t \in Threads |-> [pc |-> "idle", todo |-> <<>>]]
  /\ int_req = 0 /\ signalled = 0
  /\ singlethread_int_sem = 1
  /\ hpc = "off" /\ left = 0 /\ frame = <<>>
  /\ resets = 0

(* The emulation thread has one stack: while it sends it does not run the  *)
(* Amiga, and it sends only between two calls of the helper.               *)
EmuSending == Emu \in Threads /\ call[Emu].pc # "idle"
EmuBetween == hpc \in {"off", "helper"} /\ rpc = "idle"

----------------------------------------------------------------------------
(* uae_Signal, uae_PutMsg, uae_ReplyMsg, uae_Cause, ...                    *)

(* Fault: the message is written without n2asem.                           *)
NativesemNoWait(t, m) ==
  /\ call[t].pc = "idle"
  /\ t = Emu => EmuBetween
  /\ call' = [call EXCEPT ![t] = [pc |-> "write", todo |-> Message(m)]]
  /\ UNCHANGED <<pipeVars, n2asem, exter>>

NativesemWait(t, m) ==
  /\ call[t].pc = "idle"
  /\ t = Emu => EmuBetween /\ (Ample => Pipe!Count + Length[m] < Size)
  /\ n2asem > 0
  /\ n2asem' = n2asem - 1
  /\ call' = [call EXCEPT ![t] = [pc |-> "write", todo |-> Message(m)]]
  /\ UNCHANGED <<pipeVars, exter>>

WriteWord(t) ==
  /\ call[t].pc = "write"
  /\ call[t].todo # <<>>
  /\ Pipe!Write(t, Head(call[t].todo))
  /\ call' = [call EXCEPT ![t].todo = Tail(@)]
  /\ UNCHANGED <<n2asem, exter>>

PipeWriterStep(t) == Pipe!WriterStep(t) /\ UNCHANGED <<senders, exter>>

DoUaeIntRequested(t) ==
  /\ call[t].pc = "write"
  /\ call[t].todo = <<>>
  /\ ~Pipe!Active(t)
  /\ int_req' = 1
  /\ call' = [call EXCEPT ![t].pc = "post"]
  /\ UNCHANGED <<pipeVars, n2asem, signalled, singlethread_int_sem, hpc, left, frame, resets>>

NativesemPost(t) ==
  /\ call[t].pc = "post"
  /\ n2asem' = n2asem + 1
  /\ call' = [call EXCEPT ![t].pc = "idle"]
  /\ UNCHANGED <<pipeVars, exter>>

Send(t) == \/ WriteWord(t) \/ PipeWriterStep(t) \/ DoUaeIntRequested(t) \/ NativesemPost(t)

----------------------------------------------------------------------------
(* The Amiga: interrupt server and exter task                              *)

(* exter_server_new reads RTAREA_INTREQ, which clears bit 0, and signals.  *)
ExterServer ==
  /\ hpc \in {"off", "helper"} /\ rpc = "idle" /\ ~EmuSending
  /\ int_req = 1
  /\ int_req' = 0
  /\ signalled' = 1
  /\ UNCHANGED <<pipeVars, senders, singlethread_int_sem, hpc, left, frame, resets>>

(* exter_int_helper (10)                                                   *)
HelperFirst ==
  /\ hpc = "off" /\ ~EmuSending
  /\ signalled = 1
  /\ signalled' = 0
  /\ IF singlethread_int_sem > 0
     THEN /\ singlethread_int_sem' = singlethread_int_sem - 1
          /\ hpc' = "helper"
          /\ UNCHANGED int_req
     ELSE /\ int_req' = 1
          /\ UNCHANGED <<singlethread_int_sem, hpc>>
  /\ UNCHANGED <<pipeVars, senders, left, frame, resets>>

(* The helper's loop, in its first call or in a call with 11.              *)
HasData ==
  /\ hpc = "helper" /\ ~EmuSending
  /\ rdp # wrp
  /\ hpc' = "cmd"
  /\ frame' = <<>>
  /\ UNCHANGED <<pipeVars, senders, int_req, signalled, singlethread_int_sem, left, resets>>

(* Fault: the helper is done whatever is left in the pipe.                 *)
FinishedEarly ==
  /\ hpc = "helper" /\ ~EmuSending
  /\ singlethread_int_sem' = singlethread_int_sem + 1
  /\ hpc' = "off"
  /\ UNCHANGED <<pipeVars, senders, int_req, signalled, left, frame, resets>>

(* Fault: the helper returns 0 without releasing the lock.                 *)
FinishedLocked ==
  /\ hpc = "helper" /\ ~EmuSending
  /\ rdp = wrp
  /\ hpc' = "off"
  /\ UNCHANGED <<pipeVars, senders, int_req, signalled, singlethread_int_sem,
                 left, frame, resets>>

Finished ==
  /\ hpc = "helper" /\ ~EmuSending
  /\ rdp = wrp
  /\ singlethread_int_sem' = singlethread_int_sem + 1
  /\ hpc' = "off"
  /\ UNCHANGED <<pipeVars, senders, int_req, signalled, left, frame, resets>>

ReadWord ==
  /\ hpc \in {"cmd", "args"}
  /\ Pipe!Read
  /\ UNCHANGED <<senders, exter>>

PipeReaderStep ==
  /\ Pipe!ReaderStep
  /\ rpc' # "idle"
  /\ UNCHANGED <<senders, exter>>

(* Fault: one word too many is read.                                       *)
GotCommandGreedy ==
  /\ hpc = "cmd"
  /\ Pipe!ReaderUnlock
  /\ frame' = <<got>>
  /\ left' = Length[got[1]]
  /\ hpc' = "args"
  /\ UNCHANGED <<senders, int_req, signalled, singlethread_int_sem, resets>>

(* A command says how many words follow; any other word read in its place  *)
(* has some value and may pass for any command, or for none (`unknown      *)
(* native action').                                                        *)
GotCommand ==
  /\ hpc = "cmd"
  /\ Pipe!ReaderUnlock
  /\ frame' = <<got>>
  /\ left' \in IF IsCommand(got) THEN {Length[got[1]] - 1}
               ELSE {0} \cup {Length[m] - 1 : m \in Messages}
  /\ hpc' = IF left' = 0 THEN "helper" ELSE "args"
  /\ UNCHANGED <<senders, int_req, signalled, singlethread_int_sem, resets>>

(* With its last word the message is handed to the Amiga, which carries it *)
(* out and calls the helper again.                                         *)
GotArgument ==
  /\ hpc = "args"
  /\ Pipe!ReaderUnlock
  /\ frame' = Append(frame, got)
  /\ left' = left - 1
  /\ hpc' = IF left' = 0 THEN "helper" ELSE "args"
  /\ UNCHANGED <<senders, int_req, signalled, singlethread_int_sem, resets>>

(* filesys_vsync: waiting requests without signal                          *)
FilesysVsync ==
  /\ Recheck
  /\ EmuBetween /\ ~EmuSending
  /\ int_req = 0 /\ singlethread_int_sem > 0
  /\ rdp # wrp
  /\ int_req' = 1
  /\ UNCHANGED <<pipeVars, senders, signalled, singlethread_int_sem, hpc, left, frame, resets>>

Amiga == \/ ExterServer \/ HelperFirst \/ HasData \/ Finished \/ ReadWord
         \/ PipeReaderStep \/ GotCommand \/ GotArgument

----------------------------------------------------------------------------
(* devices_reset: native2amiga_reset, then the other devices, whose        *)
(* threads may still send, and the interrupt request last.  The Amiga is   *)
(* stopped wherever it is; singlethread_int_sem keeps its count.           *)

(* Fault: the reset frees n2asem along with the pipe.                      *)
ResetPipeAndSem ==
  /\ resets < MaxResets
  /\ EmuBetween /\ ~EmuSending
  /\ rdp' = 0 /\ wrp' = 0
  /\ reader_waiting' = 0 /\ writer_waiting' = 0
  /\ n2asem' = 1
  /\ hpc' = "reset" /\ frame' = <<>> /\ left' = 0
  /\ signalled' = 0
  /\ resets' = resets + 1
  /\ UNCHANGED <<lock, reader_wait, writer_wait, data, w, rpc, got, call,
                 int_req, singlethread_int_sem>>

ResetPipe ==
  /\ resets < MaxResets
  /\ EmuBetween /\ ~EmuSending
  /\ rdp' = 0 /\ wrp' = 0
  /\ reader_waiting' = 0 /\ writer_waiting' = 0
  /\ hpc' = "reset" /\ frame' = <<>> /\ left' = 0
  /\ signalled' = 0
  /\ resets' = resets + 1
  /\ UNCHANGED <<lock, reader_wait, writer_wait, data, w, rpc, got, senders,
                 int_req, singlethread_int_sem>>

ResetInterrupt ==
  /\ hpc = "reset"
  /\ int_req' = 0
  /\ hpc' = "off"
  /\ UNCHANGED <<pipeVars, senders, signalled, singlethread_int_sem, left, frame, resets>>

----------------------------------------------------------------------------
Next ==
  \/ Amiga
  \/ FilesysVsync
  \/ ResetPipe \/ ResetInterrupt
  \/ \E t \in Threads : Send(t)
  \/ \E t \in Threads, m \in Messages : NativesemWait(t, m)

Spec == Init /\ [][Next]_vars

(* The Amiga takes its interrupts and schedules its task, the vsync comes  *)
(* every frame and no thread stops inside a call.  Nobody is obliged to    *)
(* send, and n2asem need not be fair.                                      *)
Fairness ==
  /\ WF_vars(ExterServer) /\ WF_vars(HelperFirst) /\ WF_vars(Amiga)
  /\ WF_vars(FilesysVsync) /\ WF_vars(ResetInterrupt)
  /\ \A t \in Threads : WF_vars(Send(t))

FairSpec == Spec /\ Fairness

----------------------------------------------------------------------------
(* Properties                                                              *)

(* Whatever a reset does to the pipe, at most one thread sends, it holds   *)
(* n2asem, and only its words go into the pipe.                            *)
OneSender ==
  /\ n2asem = 1 => \A t \in Threads : call[t].pc = "idle"
  /\ \A t, u \in Threads : call[t].pc # "idle" /\ call[u].pc # "idle" => t = u
  /\ \A t \in Threads : Pipe!Active(t) => call[t].pc = "write"

(* n2asem makes the sending threads one writer: the pipe's fast path and   *)
(* its sleeping writer, safe for one writer only, are, until the Amiga is  *)
(* reset.                                                                  *)
SerialPipe == INSTANCE CommPipe WITH Writers <- Threads, Serialised <- TRUE
WritesSerialised ==
  SerialPipe!Init /\ [][resets' = 0 => SerialPipe!Next]_(SerialPipe!vars)

(* Each message reaches the Amiga whole: the words the helper takes for    *)
(* one message are the words of one message, in order and from the first.  *)
Whole ==
  frame # <<>> =>
    /\ \A i \in DOMAIN frame : frame[i] = <<frame[1][1], i>>
    /\ Len(frame) <= Length[frame[1][1]]

(* ... as long as no reset empties the pipe while a message is written.    *)
Framed == resets = 0 => Whole

(* A pending message is not forgotten: while no sender is about to request *)
(* the interrupt and no helper runs, it is requested or on its way.        *)
NoLostInterrupt ==
  (/\ rdp # wrp /\ hpc = "off" /\ resets = 0
   /\ \A t \in Threads : call[t].pc \in {"idle", "post"})
    => int_req = 1 \/ signalled = 1

(* The pipe is emptied by the EXTER interrupt: every message in it is read *)
(* unless a reset throws it away.                                          *)
Emptied ==
  \A m \in Messages :
    (\E i \in DOMAIN Pipe!Unread : Pipe!Unread[i] = <<m, 1>>)
      ~> ((hpc = "args" /\ frame[1] = <<m, 1>>) \/ resets > 0)

(* A thread that holds n2asem lets go of it, full pipe or not.             *)
SendReturns ==
  \A t \in Threads : (call[t].pc # "idle") ~> (call[t].pc = "idle" \/ resets > 0)
============================================================================
