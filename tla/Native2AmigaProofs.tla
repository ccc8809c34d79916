------------------------- MODULE Native2AmigaProofs -------------------------
(* Proofs about Native2Amiga: one thread at a time sends, resets or not,   *)
(* and while the Amiga is not reset the pipe is used as CommPipe's proofs  *)
(* require, so that what they establish holds of native2amiga_pending.     *)
EXTENDS Native2Amiga, TLAPS

----------------------------------------------------------------------------
(* What is proved about the pipe on its own                                *)

PipeProofs == INSTANCE CommPipeProofs WITH Writers <- Threads, Serialised <- FALSE

(* The pipe of the messages is one the proofs are about.                   *)
LEMMA PipeAssumptionHolds == PipeProofs!PipeAssumption
<1>1. PICK m \in Messages : TRUE
  BY N2AAssumption
<1>2. <<m, 1>> \in {m} \X (1 .. Length[m])
  BY N2AAssumption
<1>3. Words # {}
  BY <1>2 DEF Words
<1>4. Flush \subseteq Words
  BY DEF Flush
<1> QED
  BY <1>3, <1>4, N2AAssumption DEF PipeProofs!PipeAssumption

(* The pipe's types do not depend on whether its writes may overlap ...    *)
LEMMA SameType ==
  /\ Pipe!TypeOK <=> PipeProofs!TypeOK
  /\ Pipe!TypeOK' <=> PipeProofs!TypeOK'
BY DEF Pipe!TypeOK, PipeProofs!TypeOK, Pipe!Slots, PipeProofs!Slots,
       Pipe!Calls, PipeProofs!Calls, Pipe!WriterPCs, PipeProofs!WriterPCs,
       Pipe!ReaderPCs, PipeProofs!ReaderPCs

(* ... nor do the steps of this instance and of the one with the proofs ... *)
LEMMA SameNext == [Pipe!Next]_(Pipe!vars) <=> [PipeProofs!Next]_(PipeProofs!vars)
BY DEF Pipe!Next, PipeProofs!Next, Pipe!Read, PipeProofs!Read,
       Pipe!ReaderStep, PipeProofs!ReaderStep, Pipe!HasWord,
       PipeProofs!HasWord, Pipe!PipeEmpty, PipeProofs!PipeEmpty,
       Pipe!ReaderRelease, PipeProofs!ReaderRelease, Pipe!ReaderWoken,
       PipeProofs!ReaderWoken, Pipe!ReaderRelock, PipeProofs!ReaderRelock,
       Pipe!Take, PipeProofs!Take, Pipe!ReaderUnlock,
       PipeProofs!ReaderUnlock, Pipe!WriterStep, PipeProofs!WriterStep,
       Pipe!WriterLock, PipeProofs!WriterLock, Pipe!HasRoom,
       PipeProofs!HasRoom, Pipe!PipeFull, PipeProofs!PipeFull,
       Pipe!WriterWoken, PipeProofs!WriterWoken, Pipe!WriterRelock,
       PipeProofs!WriterRelock, Pipe!Store, PipeProofs!Store, Pipe!Advance,
       PipeProofs!Advance, Pipe!MaybeWakeReader,
       PipeProofs!MaybeWakeReader, Pipe!WakeDue, PipeProofs!WakeDue,
       Pipe!Count, PipeProofs!Count, Pipe!WriterUnlock,
       PipeProofs!WriterUnlock, Pipe!Write, PipeProofs!Write, Pipe!Active,
       PipeProofs!Active, Pipe!NextSlot, PipeProofs!NextSlot, Pipe!Goto,
       PipeProofs!Goto, Pipe!pipe, PipeProofs!pipe, Pipe!vars,
       PipeProofs!vars

(* ... nor the state init_comm_pipe leaves.                                *)
LEMMA SameInit == Pipe!Init <=> PipeProofs!Init
BY DEF Pipe!Init, PipeProofs!Init, Pipe!Slots, PipeProofs!Slots

(* Every step of the pipe keeps its types.                                 *)
LEMMA PipeTypeNext ==
  ASSUME Pipe!TypeOK, [Pipe!Next]_(Pipe!vars) PROVE Pipe!TypeOK'
BY PipeProofs!TypeNext, SameType, SameNext, PipeAssumptionHolds

(* init_comm_pipe leaves a well-typed pipe.                                *)
LEMMA PipeTypeInit == ASSUME Pipe!Init PROVE Pipe!TypeOK
BY PipeProofs!TypeInit, SameType, SameInit, PipeAssumptionHolds

----------------------------------------------------------------------------
(* One thread at a time sends                                              *)

(* What the argument needs of the types.                                   *)
SendTypes ==
  /\ Pipe!TypeOK
  /\ n2asem \in {0, 1}
  /\ call \in [Threads -> SendCalls]
  /\ resets \in Nat

(* Except for a reset, whatever is done to the pipe is a step of its code. *)
LEMMA PipeSteps ==
  ASSUME SendTypes, [Next]_vars, ~ResetPipe
  PROVE  [Pipe!Next]_(Pipe!vars)
<1> USE DEF Pipe!Next
<1>1. UNCHANGED pipeVars => UNCHANGED Pipe!vars
  BY DEF pipeVars, Pipe!vars, Pipe!pipe
<1>2. ASSUME NEW t \in Threads, WriteWord(t) PROVE Pipe!Next
  <2>1. call[t].todo \in Seq(Words) /\ call[t].todo # <<>>
    BY <1>2 DEF WriteWord, SendTypes, SendCalls
  <2>2. Head(call[t].todo) \in Words
    BY <2>1
  <2> QED
    BY <1>2, <2>2 DEF WriteWord
<1>3. ASSUME NEW t \in Threads, PipeWriterStep(t) PROVE Pipe!Next
  BY <1>3 DEF PipeWriterStep
<1>4. ASSUME ReadWord \/ PipeReaderStep \/ GotCommand \/ GotArgument PROVE Pipe!Next
  BY <1>4 DEF ReadWord, PipeReaderStep, GotCommand, GotArgument, Pipe!ReaderStep
<1>5. ASSUME NEW t \in Threads, DoUaeIntRequested(t) \/ NativesemPost(t)
      PROVE  UNCHANGED pipeVars
  BY <1>5 DEF DoUaeIntRequested, NativesemPost
<1>6. ASSUME NEW t \in Threads, NEW m \in Messages, NativesemWait(t, m)
      PROVE  UNCHANGED pipeVars
  BY <1>6 DEF NativesemWait
<1>7. ASSUME \/ ExterServer \/ HelperFirst \/ HasData \/ Finished \/ FilesysVsync
             \/ ResetInterrupt \/ UNCHANGED vars
      PROVE  UNCHANGED pipeVars
  BY <1>7 DEF ExterServer, HelperFirst, HasData, Finished, FilesysVsync,
              ResetInterrupt, vars
<1> QED
  BY <1>1, <1>2, <1>3, <1>4, <1>5, <1>6, <1>7 DEF Next, Amiga, Send

(* A step of one writer's call leaves the other writers' calls alone.      *)
LEMMA OthersStay ==
  ASSUME Pipe!TypeOK, NEW t \in Threads, Pipe!WriterStep(t)
  PROVE  Pipe!Active(t) /\ \A u \in Threads \ {t} : w'[u] = w[u]
<1>1. w \in [Threads -> Pipe!Calls]
  BY DEF Pipe!TypeOK
<1>2. ASSUME NEW pc, Pipe!Goto(t, pc) PROVE \A u \in Threads \ {t} : w'[u] = w[u]
  BY <1>1, <1>2 DEF Pipe!Goto
<1> QED
  BY <1>2 DEF Pipe!WriterStep, Pipe!Active, Pipe!WriterLock, Pipe!HasRoom,
     Pipe!PipeFull, Pipe!WriterWoken, Pipe!WriterRelock, Pipe!Store, Pipe!Advance,
     Pipe!MaybeWakeReader, Pipe!WriterUnlock

(* A step of the reader leaves every writer's call alone.                  *)
LEMMA ReaderKeepsWriters ==
  ASSUME Pipe!Read \/ Pipe!ReaderStep PROVE w' = w
BY DEF Pipe!Read, Pipe!ReaderStep, Pipe!HasWord, Pipe!PipeEmpty,
   Pipe!ReaderRelease, Pipe!ReaderWoken, Pipe!ReaderRelock, Pipe!Take, Pipe!ReaderUnlock

(* Only the reset counts the resets.                                       *)
LEMMA ResetsNext == ASSUME resets \in Nat, [Next]_vars PROVE resets' \in Nat
BY DEF Next, vars, Amiga, Send, ExterServer, HelperFirst, HasData, Finished,
   ReadWord, PipeReaderStep, GotCommand, GotArgument, FilesysVsync, ResetPipe,
   ResetInterrupt, WriteWord, PipeWriterStep, DoUaeIntRequested, NativesemPost,
   NativesemWait, exter, senders

(* At the start nobody sends.                                              *)
LEMMA SendInit == ASSUME Init PROVE SendTypes /\ OneSender
<1>1. Pipe!TypeOK
  BY PipeTypeInit DEF Init
<1>2. call = [t \in Threads |-> [pc |-> "idle", todo |-> <<>>]] /\ n2asem = 1
  BY DEF Init
<1>3. \A t \in Threads : w[t].pc = "idle"
  <2>1. PICK d \in Words :
          w = [t \in Threads |->
                [pc |-> "idle", path |-> "locked", nxwrp |-> 0, word |-> d]]
    BY DEF Init, Pipe!Init
  <2> QED
    BY <2>1
<1>4. call \in [Threads -> SendCalls]
  BY <1>2 DEF SendCalls
<1>5. resets \in Nat
  BY DEF Init
<1> QED
  BY <1>1, <1>2, <1>3, <1>4, <1>5 DEF SendTypes, OneSender, Pipe!Active

(* No step, the reset included, lets a second thread in while one sends.   *)
LEMMA SendNext ==
  ASSUME SendTypes, OneSender, [Next]_vars
  PROVE  SendTypes' /\ OneSender'
<1> USE DEF Pipe!Active
<1>0. \A t \in Threads : call[t] \in SendCalls /\ call[t].todo \in Seq(Words)
  BY DEF SendTypes, SendCalls
<1>a. Pipe!TypeOK' /\ resets' \in Nat
  <2>0. resets' \in Nat
    BY ResetsNext DEF SendTypes
  <2>1. CASE ~ResetPipe
    BY <2>0, <2>1, PipeSteps, PipeTypeNext DEF SendTypes
  <2>2. CASE ResetPipe
    <3>1. /\ UNCHANGED <<lock, reader_wait, writer_wait, data, w, rpc, got>>
          /\ rdp' = 0 /\ wrp' = 0 /\ reader_waiting' = 0 /\ writer_waiting' = 0
      BY <2>2 DEF ResetPipe
    <3>2. 0 \in Pipe!Slots
      BY N2AAssumption DEF Pipe!Slots
    <3> QED
      BY <2>0, <3>1, <3>2 DEF SendTypes, Pipe!TypeOK
  <2> QED
    BY <2>1, <2>2
<1>1. ASSUME NEW t \in Threads, NEW m \in Messages, NativesemWait(t, m)
      PROVE  SendTypes' /\ OneSender'
  <2>1. n2asem = 1 /\ n2asem' = 0 /\ w' = w
    BY <1>1 DEF NativesemWait, SendTypes, pipeVars
  <2>2. Message(m) \in Seq(Words)
    BY N2AAssumption DEF Message, Words
  <2>3. call' = [call EXCEPT ![t] = [pc |-> "write", todo |-> Message(m)]]
    BY <1>1 DEF NativesemWait
  <2>4. call' \in [Threads -> SendCalls]
    BY <2>2, <2>3 DEF SendTypes, SendCalls
  <2> QED
    BY <1>a, <2>1, <2>3, <2>4 DEF SendTypes, OneSender
<1>2. ASSUME NEW t \in Threads, WriteWord(t) PROVE SendTypes' /\ OneSender'
  <2>1. n2asem' = n2asem /\ call[t].pc = "write"
    BY <1>2 DEF WriteWord
  <2>2. call' = [call EXCEPT ![t].todo = Tail(@)] /\ call[t].todo # <<>>
    BY <1>2 DEF WriteWord
  <2>3. call' \in [Threads -> SendCalls] /\ \A u \in Threads : call'[u].pc = call[u].pc
    <3>1. Tail(call[t].todo) \in Seq(Words)
      BY <1>0, <2>2
    <3> QED
      BY <1>0, <2>2, <3>1 DEF SendTypes, SendCalls
  <2>4. \A u \in Threads \ {t} : w'[u] = w[u]
    BY <1>2 DEF WriteWord, Pipe!Write, SendTypes, Pipe!TypeOK
  <2> QED
    BY <1>a, <2>1, <2>3, <2>4 DEF SendTypes, OneSender
<1>3. ASSUME NEW t \in Threads, PipeWriterStep(t) PROVE SendTypes' /\ OneSender'
  <2>1. UNCHANGED <<n2asem, call>>
    BY <1>3 DEF PipeWriterStep, senders
  <2>2. Pipe!Active(t) /\ \A u \in Threads \ {t} : w'[u] = w[u]
    BY <1>3, OthersStay DEF PipeWriterStep, SendTypes
  <2> QED
    BY <1>a, <2>1, <2>2 DEF SendTypes, OneSender
<1>4. ASSUME NEW t \in Threads, DoUaeIntRequested(t) PROVE SendTypes' /\ OneSender'
  <2>1. n2asem' = n2asem /\ w' = w /\ w[t].pc = "idle" /\ call[t].pc = "write"
    BY <1>4 DEF DoUaeIntRequested, pipeVars
  <2>2. call' = [call EXCEPT ![t].pc = "post"]
    BY <1>4 DEF DoUaeIntRequested
  <2>3. call' \in [Threads -> SendCalls]
    BY <2>2 DEF SendTypes, SendCalls
  <2>4. /\ call'[t].pc = "post"
        /\ \A u \in Threads \ {t} : call'[u] = call[u]
    BY <1>0, <2>2 DEF SendTypes, SendCalls
  <2> QED
    BY <1>a, <2>1, <2>3, <2>4 DEF SendTypes, OneSender
<1>5. ASSUME NEW t \in Threads, NativesemPost(t) PROVE SendTypes' /\ OneSender'
  <2>1. n2asem' = n2asem + 1 /\ w' = w /\ call[t].pc = "post"
    BY <1>5 DEF NativesemPost, pipeVars
  <2>2. call' = [call EXCEPT ![t].pc = "idle"]
    BY <1>5 DEF NativesemPost
  <2>3. call' \in [Threads -> SendCalls]
    BY <2>2 DEF SendTypes, SendCalls
  <2>4. /\ call'[t].pc = "idle"
        /\ \A u \in Threads \ {t} : call'[u] = call[u]
    BY <1>0, <2>2 DEF SendTypes, SendCalls
  <2>5. n2asem = 0
    BY <2>1 DEF SendTypes, OneSender
  <2> QED
    BY <1>a, <2>1, <2>3, <2>4, <2>5 DEF SendTypes, OneSender
<1>6. ASSUME Amiga \/ FilesysVsync \/ ResetInterrupt \/ UNCHANGED vars
      PROVE  SendTypes' /\ OneSender'
  <2>1. UNCHANGED <<n2asem, call>> /\ w' = w
    <3>1. CASE ReadWord \/ PipeReaderStep \/ GotCommand \/ GotArgument
      <4>1. Pipe!Read \/ Pipe!ReaderStep
        BY <3>1 DEF ReadWord, PipeReaderStep, GotCommand, GotArgument, Pipe!ReaderStep
      <4> QED
        BY <3>1, <4>1, ReaderKeepsWriters
           DEF ReadWord, PipeReaderStep, GotCommand, GotArgument, senders
    <3>2. CASE \/ ExterServer \/ HelperFirst \/ HasData \/ Finished \/ FilesysVsync
               \/ ResetInterrupt \/ UNCHANGED vars
      BY <3>2 DEF ExterServer, HelperFirst, HasData, Finished, FilesysVsync,
                  ResetInterrupt, vars, pipeVars, senders, exter
    <3> QED
      BY <1>6, <3>1, <3>2 DEF Amiga
  <2> QED
    BY <1>a, <2>1 DEF SendTypes, OneSender
<1>7. ASSUME ResetPipe PROVE SendTypes' /\ OneSender'
  BY <1>a, <1>7 DEF ResetPipe, senders, SendTypes, OneSender
<1> QED
  BY <1>1, <1>2, <1>3, <1>4, <1>5, <1>6, <1>7 DEF Next, Send

(* n2asem does its work, and goes on doing it when the Amiga is reset in   *)
(* the middle of a message.                                                *)
THEOREM OneThreadSends == Spec => []OneSender
<1>1. SendTypes /\ OneSender /\ [Next]_vars => SendTypes' /\ OneSender'
  BY SendNext
<1> QED
  BY <1>1, SendInit, PTL DEF Spec

----------------------------------------------------------------------------
(* The helper's side: types, and no message is forgotten                   *)

(* Whoever is inside the helper has taken singlethread_int_sem, reads a    *)
(* word only for a message with words to come, and uses the pipe only      *)
(* while it reads.                                                         *)
HelperInv ==
  /\ int_req \in {0, 1} /\ signalled \in {0, 1} /\ singlethread_int_sem \in {0, 1}
  /\ hpc \in {"off", "helper", "cmd", "args", "reset"}
  /\ left \in Nat /\ frame \in Seq(Words) /\ resets \in 0 .. MaxResets
  /\ hpc \in {"helper", "cmd", "args"} => singlethread_int_sem = 0
  /\ hpc = "args" => left > 0
  /\ rpc # "idle" => hpc \in {"cmd", "args"}
  /\ hpc = "reset" => resets > 0

(* A word names a message and a place in it.                               *)
LEMMA WordProps ==
  \A d \in Words : /\ d[1] \in Messages /\ d[2] \in 1 .. Length[d[1]]
                   /\ d = <<d[1], d[2]>> /\ Length[d[1]] \in Nat \ {0, 1}
BY N2AAssumption DEF Words

(* A writer leaves the reader where it is.                                 *)
LEMMA WriterKeepsReader ==
  ASSUME NEW t \in Threads,
         \/ Pipe!WriterStep(t) \/ \E d : Pipe!Write(t, d)
  PROVE  rpc' = rpc /\ got' = got
BY DEF Pipe!WriterStep, Pipe!Write, Pipe!WriterLock, Pipe!HasRoom, Pipe!PipeFull,
   Pipe!WriterWoken, Pipe!WriterRelock, Pipe!Store, Pipe!Advance,
   Pipe!MaybeWakeReader, Pipe!WriterUnlock

(* At the start the helper does not run.                                   *)
LEMMA HelperInit == ASSUME Init PROVE HelperInv
BY N2AAssumption DEF Init, Pipe!Init, HelperInv

(* Every step keeps the helper's side in order.                            *)
LEMMA HelperNext ==
  ASSUME Pipe!TypeOK, HelperInv, [Next]_vars PROVE HelperInv'
<1> USE DEF HelperInv
<1>0. got \in Words
  BY DEF Pipe!TypeOK
<1>1. ASSUME NEW t \in Threads, WriteWord(t) \/ PipeWriterStep(t) PROVE HelperInv'
  <2>1. rpc' = rpc
    BY <1>1, WriterKeepsReader DEF WriteWord, PipeWriterStep
  <2> QED
    BY <1>1, <2>1 DEF WriteWord, PipeWriterStep, exter
<1>2. ASSUME NEW t \in Threads, NEW m \in Messages, NativesemWait(t, m) PROVE HelperInv'
  BY <1>2 DEF NativesemWait, pipeVars, exter
<1>3. ASSUME NEW t \in Threads, DoUaeIntRequested(t) \/ NativesemPost(t) PROVE HelperInv'
  BY <1>3 DEF DoUaeIntRequested, NativesemPost, pipeVars, exter
<1>4. CASE ExterServer
  BY <1>4 DEF ExterServer, pipeVars
<1>5. CASE HelperFirst
  BY <1>5 DEF HelperFirst, pipeVars
<1>6. CASE HasData
  BY <1>6 DEF HasData, pipeVars
<1>7. CASE Finished
  BY <1>7 DEF Finished, pipeVars
<1>8. CASE ReadWord
  BY <1>8 DEF ReadWord, exter
<1>9. CASE PipeReaderStep
  BY <1>9 DEF PipeReaderStep, Pipe!ReaderStep, Pipe!HasWord, Pipe!PipeEmpty,
     Pipe!ReaderRelease, Pipe!ReaderWoken, Pipe!ReaderRelock, Pipe!Take,
     Pipe!ReaderUnlock, exter
<1>10. CASE GotCommand
  <2>1. rpc' = "idle" /\ hpc = "cmd" /\ hpc' \in {"helper", "args"}
    BY <1>10 DEF GotCommand, Pipe!ReaderUnlock
  <2>2. left' \in Nat /\ (hpc' = "args" => left' > 0)
    <3>1. \A m \in Messages : Length[m] - 1 \in Nat
      BY N2AAssumption
    <3>2. Length[got[1]] - 1 \in Nat
      BY <1>0, WordProps
    <3>3. left' \in Nat
      BY <1>10, <3>1, <3>2 DEF GotCommand
    <3> QED
      BY <1>10, <3>3 DEF GotCommand
  <2>3. frame' \in Seq(Words)
    BY <1>0, <1>10 DEF GotCommand
  <2> QED
    BY <1>10, <2>1, <2>2, <2>3 DEF GotCommand
<1>11. CASE GotArgument
  <2>1. rpc' = "idle" /\ hpc = "args" /\ hpc' \in {"helper", "args"}
    BY <1>11 DEF GotArgument, Pipe!ReaderUnlock
  <2>2. left' \in Nat /\ (hpc' = "args" => left' > 0)
    BY <1>11 DEF GotArgument
  <2>3. frame' \in Seq(Words)
    BY <1>0, <1>11 DEF GotArgument
  <2> QED
    BY <1>11, <2>1, <2>2, <2>3 DEF GotArgument
<1>12. CASE FilesysVsync
  BY <1>12 DEF FilesysVsync, pipeVars
<1>13. CASE ResetPipe
  BY <1>13, N2AAssumption DEF ResetPipe, EmuBetween
<1>14. CASE ResetInterrupt
  BY <1>14 DEF ResetInterrupt, pipeVars
<1>15. CASE UNCHANGED vars
  BY <1>15 DEF vars, pipeVars, exter
<1> QED
  BY <1>1, <1>2, <1>3, <1>4, <1>5, <1>6, <1>7, <1>8, <1>9, <1>10, <1>11, <1>12,
     <1>13, <1>14, <1>15 DEF Next, Amiga, Send

(* Every field keeps its type, resets and unknown commands included.       *)
THEOREM TypeCorrect == Spec => []TypeOK
<1>1. SendTypes /\ OneSender /\ HelperInv /\ [Next]_vars
        => SendTypes' /\ OneSender' /\ HelperInv'
  BY SendNext, HelperNext DEF SendTypes
<1>2. Init => SendTypes /\ OneSender /\ HelperInv
  BY SendInit, HelperInit
<1>3. SendTypes /\ HelperInv => TypeOK
  BY DEF SendTypes, HelperInv, TypeOK
<1> QED
  BY <1>1, <1>2, <1>3, PTL DEF Spec

(* No step leaves a message behind: the helper ends only with the pipe     *)
(* empty, and the sender that fills it again is still to request the       *)
(* interrupt.                                                              *)
LEMMA InterruptNext ==
  ASSUME SendTypes, OneSender, HelperInv, NoLostInterrupt, [Next]_vars
  PROVE  NoLostInterrupt'
<1> SUFFICES ASSUME rdp' # wrp', hpc' = "off", resets' = 0,
                    \A t \in Threads : call'[t].pc \in {"idle", "post"}
             PROVE  int_req' = 1 \/ signalled' = 1
  BY DEF NoLostInterrupt
<1> USE DEF HelperInv
<1>1. ASSUME NEW t \in Threads, WriteWord(t) \/ PipeWriterStep(t) PROVE FALSE
  <2>1. call[t].pc = "write"
    BY <1>1, OthersStay DEF WriteWord, PipeWriterStep, SendTypes, OneSender
  <2>2. call'[t].pc = "write"
    BY <1>1, <2>1 DEF WriteWord, PipeWriterStep, senders, SendTypes, SendCalls
  <2> QED
    BY <2>2
<1>2. ASSUME NEW t \in Threads, NEW m \in Messages, NativesemWait(t, m) PROVE FALSE
  BY <1>2 DEF NativesemWait, SendTypes
<1>3. ASSUME NEW t \in Threads, DoUaeIntRequested(t) PROVE int_req' = 1
  BY <1>3 DEF DoUaeIntRequested
<1>4. ASSUME NEW t \in Threads, NativesemPost(t) PROVE int_req' = 1 \/ signalled' = 1
  <2>1. call[t].pc = "post" /\ \A u \in Threads \ {t} : call'[u] = call[u]
    BY <1>4 DEF NativesemPost, SendTypes
  <2>2. UNCHANGED <<rdp, wrp, hpc, resets, int_req, signalled>>
    BY <1>4 DEF NativesemPost, pipeVars, exter
  <2> QED
    BY <2>1, <2>2 DEF NoLostInterrupt
<1>5. ASSUME ExterServer \/ FilesysVsync PROVE int_req' = 1 \/ signalled' = 1
  BY <1>5 DEF ExterServer, FilesysVsync
<1>6. ASSUME HelperFirst PROVE int_req' = 1
  BY <1>6 DEF HelperFirst
<1>7. ASSUME HasData \/ ResetPipe PROVE FALSE
  BY <1>7 DEF HasData, ResetPipe
<1>8. ASSUME Finished PROVE FALSE
  BY <1>8 DEF Finished, pipeVars
<1>9. ASSUME ReadWord \/ PipeReaderStep PROVE FALSE
  <2>1. hpc' = hpc /\ (ReadWord => hpc \in {"cmd", "args"})
    BY <1>9 DEF ReadWord, PipeReaderStep, exter
  <2>2. PipeReaderStep => rpc # "idle"
    BY DEF PipeReaderStep, Pipe!ReaderStep, Pipe!HasWord, Pipe!PipeEmpty,
       Pipe!ReaderRelease, Pipe!ReaderWoken, Pipe!ReaderRelock, Pipe!Take,
       Pipe!ReaderUnlock
  <2> QED
    BY <1>9, <2>1, <2>2
<1>10. ASSUME GotCommand \/ GotArgument PROVE FALSE
  BY <1>10 DEF GotCommand, GotArgument
<1>11. ASSUME ResetInterrupt PROVE FALSE
  BY <1>11 DEF ResetInterrupt
<1>12. ASSUME UNCHANGED vars PROVE int_req' = 1 \/ signalled' = 1
  BY <1>12 DEF vars, pipeVars, senders, exter, NoLostInterrupt
<1> QED
  BY <1>1, <1>2, <1>3, <1>4, <1>5, <1>6, <1>7, <1>8, <1>9, <1>10, <1>11, <1>12
     DEF Next, Amiga, Send

(* A message in the pipe is never forgotten: its sender, the interrupt,    *)
(* the signal or the helper is still to come to it.                        *)
THEOREM MessagesNotForgotten == Spec => []NoLostInterrupt
<1>1. SendTypes /\ OneSender /\ HelperInv /\ NoLostInterrupt /\ [Next]_vars
        => SendTypes' /\ OneSender' /\ HelperInv' /\ NoLostInterrupt'
  BY SendNext, HelperNext, InterruptNext DEF SendTypes
<1>2. Init => NoLostInterrupt
  BY DEF Init, Pipe!Init, NoLostInterrupt
<1> QED
  BY <1>1, <1>2, SendInit, HelperInit, PTL DEF Spec

----------------------------------------------------------------------------
(* Until the first reset the pipe is a queue                               *)

(* Without a reset every step is one that a pipe with serialised writers   *)
(* can take: the thread that begins a write is alone.                      *)
LEMMA StepIsSerial ==
  ASSUME SendTypes, OneSender, [Next]_vars, ~ResetPipe
  PROVE  [SerialPipe!Next]_(SerialPipe!vars)
<1>1. ASSUME NEW t \in Threads, WriteWord(t) PROVE SerialPipe!Next
  <2>1. call[t].todo \in Seq(Words) /\ call[t].todo # <<>>
    BY <1>1 DEF WriteWord, SendTypes, SendCalls
  <2>2. Head(call[t].todo) \in Words
    BY <2>1
  <2>3. \A u \in Threads : ~Pipe!Active(u)
    BY <1>1 DEF WriteWord, OneSender, Pipe!Write
  <2>4. SerialPipe!Write(t, Head(call[t].todo))
    BY <1>1, <2>3 DEF WriteWord, Pipe!Write, SerialPipe!Write, Pipe!Active,
       SerialPipe!Active, Pipe!NextSlot, SerialPipe!NextSlot, Pipe!pipe, SerialPipe!pipe
  <2> QED
    BY <2>2, <2>4 DEF SerialPipe!Next
<1>2. ASSUME ~\E t \in Threads : WriteWord(t) PROVE [SerialPipe!Next]_(SerialPipe!vars)
  <2>1. \/ \E t \in Threads : Pipe!WriterStep(t)
        \/ Pipe!Read \/ Pipe!ReaderStep
        \/ UNCHANGED Pipe!vars
    <3>1. UNCHANGED pipeVars => UNCHANGED Pipe!vars
      BY DEF pipeVars, Pipe!vars, Pipe!pipe
    <3>2. ASSUME NEW t \in Threads, PipeWriterStep(t) PROVE Pipe!WriterStep(t)
      BY <3>2 DEF PipeWriterStep
    <3>3. ASSUME ReadWord \/ PipeReaderStep \/ GotCommand \/ GotArgument
          PROVE  Pipe!Read \/ Pipe!ReaderStep
      BY <3>3 DEF ReadWord, PipeReaderStep, GotCommand, GotArgument, Pipe!ReaderStep
    <3>4. ASSUME NEW t \in Threads, DoUaeIntRequested(t) \/ NativesemPost(t)
          PROVE  UNCHANGED pipeVars
      BY <3>4 DEF DoUaeIntRequested, NativesemPost
    <3>5. ASSUME NEW t \in Threads, NEW m \in Messages, NativesemWait(t, m)
          PROVE  UNCHANGED pipeVars
      BY <3>5 DEF NativesemWait
    <3>6. ASSUME \/ ExterServer \/ HelperFirst \/ HasData \/ Finished \/ FilesysVsync
                 \/ ResetInterrupt \/ UNCHANGED vars
          PROVE  UNCHANGED pipeVars
      BY <3>6 DEF ExterServer, HelperFirst, HasData, Finished, FilesysVsync,
                  ResetInterrupt, vars
    <3> QED
      BY <1>2, <3>1, <3>2, <3>3, <3>4, <3>5, <3>6 DEF Next, Amiga, Send
  <2>2. ASSUME NEW t \in Threads, Pipe!WriterStep(t) PROVE SerialPipe!WriterStep(t)
    BY <2>2 DEF Pipe!WriterStep, SerialPipe!WriterStep, Pipe!WriterLock,
       SerialPipe!WriterLock, Pipe!HasRoom, SerialPipe!HasRoom,
       Pipe!PipeFull, SerialPipe!PipeFull, Pipe!WriterWoken,
       SerialPipe!WriterWoken, Pipe!WriterRelock, SerialPipe!WriterRelock,
       Pipe!Store, SerialPipe!Store, Pipe!Advance, SerialPipe!Advance,
       Pipe!MaybeWakeReader, SerialPipe!MaybeWakeReader, Pipe!WakeDue,
       SerialPipe!WakeDue, Pipe!Count, SerialPipe!Count, Pipe!WriterUnlock,
       SerialPipe!WriterUnlock, Pipe!Goto, SerialPipe!Goto, Pipe!pipe,
       SerialPipe!pipe
  <2>3. ASSUME Pipe!Read \/ Pipe!ReaderStep PROVE SerialPipe!Read \/ SerialPipe!ReaderStep
    BY <2>3 DEF Pipe!Read, SerialPipe!Read, Pipe!ReaderStep, SerialPipe!ReaderStep,
       Pipe!HasWord, SerialPipe!HasWord, Pipe!PipeEmpty,
       SerialPipe!PipeEmpty, Pipe!ReaderRelease, SerialPipe!ReaderRelease,
       Pipe!ReaderWoken, SerialPipe!ReaderWoken, Pipe!ReaderRelock,
       SerialPipe!ReaderRelock, Pipe!Take, SerialPipe!Take,
       Pipe!ReaderUnlock, SerialPipe!ReaderUnlock, Pipe!NextSlot,
       SerialPipe!NextSlot, Pipe!pipe, SerialPipe!pipe
  <2>4. UNCHANGED Pipe!vars => UNCHANGED SerialPipe!vars
    BY DEF Pipe!vars, SerialPipe!vars, Pipe!pipe, SerialPipe!pipe
  <2> QED
    BY <2>1, <2>2, <2>3, <2>4 DEF SerialPipe!Next
<1> QED
  BY <1>1, <1>2

(* As long as the Amiga is not reset, native2amiga_pending is used by one  *)
(* writer at a time: it behaves as CommPipe does for such callers, and     *)
(* what CommPipeProofs shows for them holds of it.                         *)
THEOREM PipeUsedSerially == Spec => WritesSerialised
<1>1. ASSUME Init PROVE SerialPipe!Init
  BY <1>1 DEF Init, Pipe!Init, SerialPipe!Init, Pipe!Slots, SerialPipe!Slots
<1>2. ASSUME SendTypes, OneSender, [Next]_vars
      PROVE  [resets' = 0 => SerialPipe!Next]_(SerialPipe!vars)
  <2>1. ResetPipe => resets' = resets + 1
    BY DEF ResetPipe
  <2>2. ResetPipe => resets' # 0
    BY <1>2, <2>1 DEF SendTypes
  <2> QED
    BY <1>2, <2>2, StepIsSerial
<1>3. Init => SendTypes /\ OneSender
  BY SendInit
<1>4. SendTypes /\ OneSender /\ [Next]_vars => SendTypes' /\ OneSender'
  BY SendNext
<1>5. SendTypes /\ OneSender /\ [Next]_vars
        => [resets' = 0 => SerialPipe!Next]_(SerialPipe!vars)
  BY <1>2
<1>6. Init => SerialPipe!Init
  BY <1>1
<1> QED
  BY <1>3, <1>4, <1>5, <1>6, PTL DEF Spec, WritesSerialised
=============================================================================
