---------------------- MODULE Native2AmigaFrameProofs ----------------------
(***************************************************************************)
(* Proof that the words exter_int_helper takes for one message are the     *)
(* words of one message, for any threads, messages and pipe size.          *)
(*                                                                         *)
(* The pipe carries words, not messages: nothing in it says where one ends *)
(* and the next begins.  The argument follows the words that are still to  *)
(* be handed over, oldest first: the one the helper has in hand, those in  *)
(* the pipe, the one a sender is writing, and those that sender has yet to *)
(* write.  In this stream every word is followed by the next one of its    *)
(* message, or by the first of another.                                    *)
(***************************************************************************)
EXTENDS Native2AmigaProofs, SequenceTheorems

----------------------------------------------------------------------------
(* Well-formed streams                                                     *)

(* f is the beginning of a message, or nothing; and the whole of it.       *)
Prefix(f)   == f # <<>> => /\ \A i \in DOMAIN f : f[i] = <<f[1][1], i>>
                           /\ Len(f) <= Length[f[1][1]]
Complete(f) == f # <<>> => Len(f) = Length[f[1][1]]

(* Word d may come after word c, or to a helper that has read f.           *)
Follows(c, d) == IF c \in Flush THEN IsCommand(d) ELSE d = <<c[1], c[2] + 1>>
Fits(f, d)    == IF Complete(f) THEN IsCommand(d) ELSE d = <<f[1][1], Len(f) + 1>>

(* The stream s completes what has been read, and ends with a message.     *)
WellFormed(f, s) ==
  IF s = <<>> THEN Complete(f)
  ELSE /\ Fits(f, s[1])
       /\ \A i \in 1 .. (Len(s) - 1) : Follows(s[i], s[i + 1])
       /\ s[Len(s)] \in Flush

(* Head and tail make up the sequence.                                     *)
LEMMA HeadTakesTail ==
  ASSUME NEW S, NEW q \in Seq(S), q # <<>>
  PROVE  /\ Head(q) \in S /\ Tail(q) \in Seq(S)
         /\ <<Head(q)>> \in Seq(S) /\ <<Head(q)>> \o Tail(q) = q
<1>1. /\ Head(q) \in S /\ Tail(q) \in Seq(S) /\ Len(Tail(q)) = Len(q) - 1
      /\ \A i \in 1 .. Len(Tail(q)) : Tail(q)[i] = q[i + 1]
  BY HeadTailProperties
<1>2. Len(q) \in Nat \ {0} /\ <<Head(q)>> \in Seq(S) /\ Len(<<Head(q)>>) = 1 /\ Head(q) = q[1]
  BY <1>1, EmptySeq
<1> DEFINE r == <<Head(q)>> \o Tail(q)
<1>3. /\ r \in Seq(S) /\ Len(r) = 1 + (Len(q) - 1)
      /\ \A i \in 1 .. (1 + (Len(q) - 1)) :
           r[i] = IF i <= 1 THEN <<Head(q)>>[i] ELSE Tail(q)[i - 1]
  BY <1>1, <1>2, ConcatProperties
<1>4. Len(r) = Len(q)
  BY <1>2, <1>3
<1>5. ASSUME NEW i \in 1 .. Len(r) PROVE r[i] = q[i]
  <2>1. i \in 1 .. (1 + (Len(q) - 1))
    BY <1>3
  <2> HIDE DEF r
  <2>2. CASE i = 1
    BY <1>2, <1>3, <2>1, <2>2
  <2>3. CASE i # 1
    <3>1. i - 1 \in 1 .. Len(Tail(q)) /\ ~(i <= 1) /\ (i - 1) + 1 = i
      BY <1>1, <1>2, <2>1, <2>3
    <3> QED
      BY <1>1, <1>3, <2>1, <3>1
  <2> QED
    BY <2>2, <2>3
<1> HIDE DEF r
<1>6. r = q
  BY <1>3, <1>4, <1>5, SeqEqual
<1> QED
  BY <1>1, <1>2, <1>6 DEF r

(* A message is its words in order.                                        *)
LEMMA MessageProps ==
  ASSUME NEW m \in Messages
  PROVE  /\ Message(m) \in Seq(Words) /\ Len(Message(m)) = Length[m]
         /\ \A i \in 1 .. Length[m] : Message(m)[i] = <<m, i>>
<1>1. Length[m] \in Nat
  BY N2AAssumption
<1>2. Message(m) = [i \in 1 .. Length[m] |-> <<m, i>>]
  BY DEF Message
<1>3. Message(m) \in [1 .. Length[m] -> Words]
  BY <1>2 DEF Words
<1>4. Message(m) \in Seq(Words)
  BY <1>1, <1>3
<1> QED
  BY <1>1, <1>2, <1>4

(* A message that joins the end of a stream leaves it well-formed.         *)
LEMMA MessageJoins ==
  ASSUME NEW f \in Seq(Words), NEW s \in Seq(Words), WellFormed(f, s),
         NEW m \in Messages
  PROVE  WellFormed(f, s \o Message(m))
<1> DEFINE q == Message(m)
           n == Length[m]
<1>1. n \in Nat /\ n >= 2
  BY N2AAssumption
<1>3. \A i \in 1 .. n : <<m, i>> \in Words /\ (<<m, i>> \in Flush <=> i = n)
  BY DEF Flush, Words
<1>2. q \in Seq(Words) /\ Len(q) = n /\ \A i \in 1 .. n : q[i] = <<m, i>>
  BY MessageProps
<1> HIDE DEF q, n
<1>4. /\ s \o q \in Seq(Words) /\ Len(s \o q) = Len(s) + n
      /\ \A i \in 1 .. (Len(s) + n) :
           (s \o q)[i] = IF i <= Len(s) THEN s[i] ELSE q[i - Len(s)]
  BY <1>2, ConcatProperties
<1>5. Len(s) \in Nat
  BY LenProperties
<1>6. (s \o q)[Len(s) + n] \in Flush /\ s \o q # <<>>
  <2>1. (s \o q)[Len(s) + n] = q[n]
    BY <1>1, <1>4, <1>5
  <2>2. n \in 1 .. n /\ s \o q # <<>>
    BY <1>1, <1>4, <1>5, EmptySeq
  <2>3. q[n] \in Flush
    BY <1>2, <1>3, <2>2
  <2> QED
    BY <2>1, <2>2, <2>3
<1>7. Fits(f, (s \o q)[1])
  <2>1. CASE s = <<>>
    <3>1. (s \o q)[1] = <<m, 1>>
      BY <1>1, <1>2, <2>1, ConcatEmptySeq
    <3> QED
      BY <2>1, <3>1 DEF WellFormed, Fits, IsCommand
  <2>2. CASE s # <<>>
    <3>1. Len(s) >= 1
      BY <1>5, <2>2, EmptySeq
    <3>2. (s \o q)[1] = s[1]
      BY <1>1, <1>4, <1>5, <3>1
    <3> QED
      BY <2>2, <3>2 DEF WellFormed
  <2> QED
    BY <2>1, <2>2
<1>8. ASSUME NEW i \in 1 .. (Len(s \o q) - 1)
      PROVE  Follows((s \o q)[i], (s \o q)[i + 1])
  <2>1. CASE i + 1 <= Len(s)
    <3>1. (s \o q)[i] = s[i] /\ (s \o q)[i + 1] = s[i + 1] /\ i \in 1 .. (Len(s) - 1)
      BY <1>1, <1>4, <1>5, <2>1
    <3>2. s # <<>>
      BY <2>1, EmptySeq
    <3> QED
      BY <3>1, <3>2 DEF WellFormed
  <2>2. CASE i = Len(s)
    <3>1. (s \o q)[i] = s[Len(s)] /\ (s \o q)[i + 1] = q[1]
      BY <1>1, <1>4, <1>5, <2>2
    <3>2. s # <<>>
      BY <2>2, EmptySeq
    <3>3. q[1] = <<m, 1>>
      BY <1>1, <1>2
    <3> QED
      BY <3>1, <3>2, <3>3 DEF WellFormed, Follows, IsCommand
  <2>3. CASE i > Len(s)
    <3> DEFINE j == i - Len(s)
    <3>1. j \in 1 .. (n - 1) /\ (s \o q)[i] = q[j] /\ (s \o q)[i + 1] = q[j + 1]
      BY <1>1, <1>4, <1>5, <2>3
    <3>2. q[j] = <<m, j>> /\ q[j + 1] = <<m, j + 1>> /\ q[j] \notin Flush
      <4>1. j \in 1 .. n /\ j + 1 \in 1 .. n /\ j # n
        BY <1>1, <3>1
      <4> HIDE DEF j
      <4> QED
        BY <1>2, <1>3, <4>1
    <3> QED
      BY <3>1, <3>2 DEF Follows
  <2> QED
    BY <1>1, <1>4, <1>5, <2>1, <2>2, <2>3
<1> QED
  BY <1>4, <1>6, <1>7, <1>8 DEF WellFormed, q

(* The first word of a stream is the one the helper wants; with it read,   *)
(* the rest is well-formed again.                                          *)
LEMMA WordLeaves ==
  ASSUME NEW f \in Seq(Words), Prefix(f), NEW x \in Words, NEW s \in Seq(Words),
         WellFormed(f, <<x>> \o s),
         NEW g, g = IF Complete(f) THEN <<x>> ELSE Append(f, x)
  PROVE  /\ Prefix(g) /\ WellFormed(g, s)
         /\ g # <<>> /\ Len(g) = x[2] /\ g[1][1] = x[1]
         /\ Complete(f) => IsCommand(x)
<1>1. x[2] \in 1 .. Length[x[1]] /\ x = <<x[1], x[2]>> /\ Length[x[1]] \in Nat \ {0, 1}
  BY WordProps
<1>2. /\ <<x>> \o s # <<>> /\ Len(<<x>> \o s) = Len(s) + 1
      /\ (<<x>> \o s)[1] = x
      /\ \A i \in 1 .. Len(s) : (<<x>> \o s)[i + 1] = s[i]
  <2>1. <<x>> \in Seq(Words) /\ Len(<<x>>) = 1 /\ <<x>>[1] = x /\ Len(s) \in Nat
    OBVIOUS
  <2>2. /\ Len(<<x>> \o s) = 1 + Len(s)
        /\ \A i \in 1 .. (1 + Len(s)) :
             (<<x>> \o s)[i] = IF i <= 1 THEN <<x>>[i] ELSE s[i - 1]
    BY <2>1, ConcatProperties
  <2>3. \A i \in 1 .. Len(s) : i + 1 \in 1 .. (1 + Len(s)) /\ ~(i + 1 <= 1) /\ (i + 1) - 1 = i
    BY <2>1
  <2>4. 1 \in 1 .. (1 + Len(s))
    BY <2>1
  <2> QED
    BY <2>1, <2>2, <2>3, <2>4, EmptySeq
<1>3. Fits(f, x)
  BY <1>2 DEF WellFormed
<1>4. x \in Flush <=> x[2] = Length[x[1]]
  BY DEF Flush
<1>5. Prefix(g) /\ g # <<>> /\ Len(g) = x[2] /\ g[1][1] = x[1]
  <2>1. CASE Complete(f)
    <3>1. x[2] = 1 /\ g = <<x>>
      BY <1>3, <2>1 DEF Fits, IsCommand
    <3> QED
      BY <1>1, <3>1 DEF Prefix
  <2>2. CASE ~Complete(f)
    <3>1. x[1] = f[1][1] /\ x[2] = Len(f) + 1 /\ g = Append(f, x) /\ f # <<>>
      BY <1>1, <1>3, <2>2 DEF Fits, Complete
    <3>2. Len(f) \in Nat \ {0} /\ DOMAIN f = 1 .. Len(f)
      BY <3>1, EmptySeq, LenProperties
    <3>3. /\ g # <<>> /\ Len(g) = Len(f) + 1 /\ DOMAIN g = 1 .. (Len(f) + 1)
          /\ g[Len(f) + 1] = x /\ \A i \in 1 .. Len(f) : g[i] = f[i]
      BY <3>1, AppendProperties, LenProperties
    <3>4. g[1] = f[1]
      BY <3>2, <3>3
    <3>5. \A i \in DOMAIN g : g[i] = <<g[1][1], i>>
      <4>1. \A i \in 1 .. Len(f) : g[i] = <<g[1][1], i>>
        BY <3>1, <3>2, <3>3, <3>4 DEF Prefix
      <4>2. g[Len(f) + 1] = <<g[1][1], Len(f) + 1>>
        BY <1>1, <3>1, <3>3, <3>4
      <4> QED
        BY <3>2, <3>3, <4>1, <4>2
    <3> QED
      BY <1>1, <3>1, <3>3, <3>4, <3>5 DEF Prefix
  <2> QED
    BY <2>1, <2>2
<1>6. Complete(g) <=> x \in Flush
  BY <1>4, <1>5 DEF Complete
<1>7. \A d : Fits(g, d) <=> Follows(x, d)
  BY <1>5, <1>6 DEF Fits, Follows
<1>8. WellFormed(g, s)
  <2>1. CASE s = <<>>
    <3>1. (<<x>> \o s)[Len(<<x>> \o s)] = x
      BY <1>2, <2>1
    <3> QED
      BY <1>2, <1>6, <2>1, <3>1 DEF WellFormed
  <2>2. CASE s # <<>>
    <3>1. Len(s) \in Nat \ {0}
      BY <2>2, EmptySeq
    <3>2. Follows(x, s[1])
      <4>1. 1 \in 1 .. (Len(<<x>> \o s) - 1) /\ (<<x>> \o s)[1 + 1] = s[1]
        BY <1>2, <3>1
      <4> QED
        BY <1>2, <4>1 DEF WellFormed
    <3>3. ASSUME NEW i \in 1 .. (Len(s) - 1) PROVE Follows(s[i], s[i + 1])
      <4>1. /\ i + 1 \in 1 .. (Len(<<x>> \o s) - 1)
            /\ (<<x>> \o s)[i + 1] = s[i] /\ (<<x>> \o s)[(i + 1) + 1] = s[i + 1]
        BY <1>2, <3>1
      <4> QED
        BY <1>2, <4>1 DEF WellFormed
    <3>4. s[Len(s)] \in Flush
      <4>1. (<<x>> \o s)[Len(<<x>> \o s)] = s[Len(s)]
        BY <1>2, <3>1
      <4> QED
        BY <1>2, <4>1 DEF WellFormed
    <3> QED
      BY <1>7, <2>2, <3>2, <3>3, <3>4 DEF WellFormed
  <2> QED
    BY <2>1, <2>2
<1> QED
  BY <1>3, <1>5, <1>8 DEF Fits
----------------------------------------------------------------------------
(* The pipe, while no reset has interfered                                 *)

SerialProofs == INSTANCE CommPipeProofs WITH Writers <- Threads, Serialised <- TRUE

(* Its invariant is the one CommPipeProofs shows for serialised writes.    *)
LEMMA SerialInvNext ==
  ASSUME SendTypes, OneSender, SerialProofs!PipeInv, [Next]_vars, ~ResetPipe
  PROVE  SerialProofs!PipeInv'
<1>1. SerialProofs!PipeAssumption
  BY PipeAssumptionHolds DEF PipeProofs!PipeAssumption, SerialProofs!PipeAssumption
<1>2. SerialProofs!TypeOK
  BY DEF SendTypes, Pipe!TypeOK, SerialProofs!TypeOK, Pipe!Slots, SerialProofs!Slots,
     Pipe!Calls, SerialProofs!Calls, Pipe!WriterPCs, SerialProofs!WriterPCs,
     Pipe!ReaderPCs, SerialProofs!ReaderPCs
<1>3. [SerialPipe!Next]_(SerialPipe!vars) => [SerialProofs!Next]_(SerialProofs!vars)
  BY DEF SerialPipe!Next, SerialProofs!Next, SerialPipe!Read, SerialProofs!Read,
     SerialPipe!ReaderStep, SerialProofs!ReaderStep, SerialPipe!HasWord,
     SerialProofs!HasWord, SerialPipe!PipeEmpty, SerialProofs!PipeEmpty,
     SerialPipe!ReaderRelease, SerialProofs!ReaderRelease, SerialPipe!ReaderWoken,
     SerialProofs!ReaderWoken, SerialPipe!ReaderRelock, SerialProofs!ReaderRelock,
     SerialPipe!Take, SerialProofs!Take, SerialPipe!ReaderUnlock,
     SerialProofs!ReaderUnlock, SerialPipe!WriterStep, SerialProofs!WriterStep,
     SerialPipe!WriterLock, SerialProofs!WriterLock, SerialPipe!HasRoom,
     SerialProofs!HasRoom, SerialPipe!PipeFull, SerialProofs!PipeFull,
     SerialPipe!WriterWoken, SerialProofs!WriterWoken, SerialPipe!WriterRelock,
     SerialProofs!WriterRelock, SerialPipe!Store, SerialProofs!Store,
     SerialPipe!Advance, SerialProofs!Advance, SerialPipe!MaybeWakeReader,
     SerialProofs!MaybeWakeReader, SerialPipe!WakeDue, SerialProofs!WakeDue,
     SerialPipe!Count, SerialProofs!Count, SerialPipe!WriterUnlock,
     SerialProofs!WriterUnlock, SerialPipe!Write, SerialProofs!Write,
     SerialPipe!Active, SerialProofs!Active, SerialPipe!NextSlot,
     SerialProofs!NextSlot, SerialPipe!Goto, SerialProofs!Goto, SerialPipe!pipe,
     SerialProofs!pipe, SerialPipe!vars, SerialProofs!vars
<1> QED
  BY <1>1, <1>2, <1>3, StepIsSerial, SerialProofs!PipeInvNext

(* The unread words are words.                                             *)
LEMMA UnreadType == ASSUME Pipe!TypeOK PROVE Pipe!Unread \in Seq(Words)
BY PipeProofs!UnreadProps, SameType, PipeAssumptionHolds
   DEF Pipe!Unread, PipeProofs!Unread, Pipe!Count, PipeProofs!Count

(* A stored word is not yet in the pipe ...                                *)
LEMMA StoreHides ==
  ASSUME Pipe!TypeOK, NEW t \in Threads, Pipe!Store(t) PROVE Pipe!Unread' = Pipe!Unread
<1>1. w[t].word \in Words
  BY DEF Pipe!TypeOK, Pipe!Calls
<1>2. PipeProofs!Unread' = PipeProofs!Unread
  BY <1>1, PipeProofs!UnreadStore, SameType, PipeAssumptionHolds DEF Pipe!Store
<1> QED
  BY <1>2 DEF Pipe!Unread, PipeProofs!Unread, Pipe!Count, PipeProofs!Count

(* ... and joins it, as the newest, when wrp advances.                     *)
LEMMA AdvanceAppends ==
  ASSUME Pipe!TypeOK, SerialProofs!PipeInv, NEW t \in Threads, Pipe!Advance(t)
  PROVE  Pipe!Unread' = Append(Pipe!Unread, w[t].word)
<1>1. /\ data[wrp] = w[t].word /\ wrp' = PipeProofs!NextSlot(wrp)
      /\ PipeProofs!NextSlot(wrp) # rdp /\ rdp' = rdp /\ data' = data
  BY DEF Pipe!Advance, SerialProofs!PipeInv, SerialProofs!WriterState,
     SerialProofs!WriterPCs, SerialProofs!NextSlot, PipeProofs!NextSlot
<1>2. PipeProofs!Unread' = Append(PipeProofs!Unread, data[wrp])
  BY <1>1, PipeProofs!UnreadAdvance, SameType, PipeAssumptionHolds
<1> QED
  BY <1>1, <1>2 DEF Pipe!Unread, PipeProofs!Unread, Pipe!Count, PipeProofs!Count

(* The reader takes the oldest word, and there is one.                     *)
LEMMA TakeRemoves ==
  ASSUME Pipe!TypeOK, SerialProofs!PipeInv, Pipe!Take
  PROVE  /\ Pipe!Unread # <<>> /\ Pipe!Unread' = Tail(Pipe!Unread)
         /\ got' = Head(Pipe!Unread)
<1>1. /\ rdp # wrp /\ rdp' = PipeProofs!NextSlot(rdp) /\ wrp' = wrp /\ data' = data
      /\ got' = data[rdp]
  BY DEF Pipe!Take, SerialProofs!PipeInv, SerialProofs!ReaderState,
     Pipe!NextSlot, PipeProofs!NextSlot
<1>2. /\ PipeProofs!Unread # <<>> /\ PipeProofs!Unread' = Tail(PipeProofs!Unread)
      /\ Head(PipeProofs!Unread) = data[rdp]
  BY <1>1, PipeProofs!UnreadTake, SameType, PipeAssumptionHolds
<1> QED
  BY <1>1, <1>2 DEF Pipe!Unread, PipeProofs!Unread, Pipe!Count, PipeProofs!Count

(* Nothing else changes what is unread.                                    *)
LEMMA UnreadStays ==
  ASSUME UNCHANGED <<data, rdp, wrp>> PROVE Pipe!Unread' = Pipe!Unread
BY DEF Pipe!Unread, Pipe!Count
----------------------------------------------------------------------------
(* The stream of words still to be handed over                             *)

(* The word in the helper's hand and those in the pipe.                    *)
InHand == IF rpc = "unlock" THEN <<got>> ELSE <<>>
Queued == InHand \o Pipe!Unread

(* The word a thread is writing and has not published.                     *)
Offer(t) == IF w[t].pc \in {"lock", "check", "await", "relock", "store", "advance"}
            THEN <<w[t].word>> ELSE <<>>

(* s is what the thread that sends, if any, has still to bring.            *)
ToCome(s) ==
  /\ (\A t \in Threads : call[t].pc = "idle") => s = <<>>
  /\ \A t \in Threads : call[t].pc # "idle" => s = Offer(t) \o call[t].todo

StreamOK == \E s \in Seq(Words) : ToCome(s) /\ WellFormed(frame, Queued \o s)

(* What the helper has read is the beginning of a message, it knows how    *)
(* much is missing, and the stream completes it.                           *)
HelperFrame ==
  /\ Prefix(frame)
  /\ hpc \in {"off", "helper"} => Complete(frame)
  /\ hpc = "cmd" => frame = <<>>
  /\ hpc = "args" => frame # <<>> /\ left = Length[frame[1][1]] - Len(frame)

NothingTodo == \A t \in Threads : call[t].pc # "write" => call[t].todo = <<>>

FrameInv == HelperFrame /\ NothingTodo /\ StreamOK

(* At the start there is nothing to hand over.                             *)
LEMMA FrameInit == ASSUME Init PROVE FrameInv
<1>1. Pipe!TypeOK
  BY PipeTypeInit DEF Init
<1>2. Pipe!Unread = <<>>
  <2>1. PipeProofs!Count = 0
    BY <1>1, PipeProofs!CountProps, PipeAssumptionHolds
       DEF Pipe!TypeOK, Init, Pipe!Init, Pipe!Slots, PipeProofs!Slots
  <2> QED
    BY <2>1 DEF Pipe!Unread, Pipe!Count, PipeProofs!Count
<1>3. call = [t \in Threads |-> [pc |-> "idle", todo |-> <<>>]]
  BY DEF Init
<1>4. frame = <<>> /\ hpc = "off" /\ rpc = "idle"
  BY DEF Init, Pipe!Init
<1>5. HelperFrame /\ NothingTodo
  BY <1>3, <1>4 DEF HelperFrame, NothingTodo, Prefix, Complete
<1>6. ToCome(<<>>) /\ Queued \o <<>> = <<>>
  BY <1>2, <1>3, <1>4 DEF ToCome, Queued, InHand
<1>7. WellFormed(frame, Queued \o <<>>)
  BY <1>4, <1>6 DEF WellFormed, Complete
<1>8. StreamOK
  <2>1. <<>> \in Seq(Words)
    BY EmptySeq
  <2> QED
    BY <1>6, <1>7, <2>1 DEF StreamOK
<1> QED
  BY <1>5, <1>8 DEF FrameInv

(* What is queued is a stream of words.                                    *)
LEMMA QueuedType ==
  ASSUME Pipe!TypeOK
  PROVE  InHand \in Seq(Words) /\ Pipe!Unread \in Seq(Words) /\ Queued \in Seq(Words)
<1>1. InHand \in Seq(Words)
  BY DEF InHand, Pipe!TypeOK
<1> QED
  BY <1>1, UnreadType, ConcatProperties DEF Queued

(* A step that leaves the stream and the helper alone.                     *)
LEMMA FrameStays ==
  ASSUME FrameInv, UNCHANGED <<hpc, left, frame, call>>, Queued' = Queued,
         \A t \in Threads : call[t].pc # "idle" => Offer(t)' = Offer(t)
  PROVE  FrameInv'
<1>1. PICK s \in Seq(Words) : ToCome(s) /\ WellFormed(frame, Queued \o s)
  BY DEF FrameInv, StreamOK
<1>2. ToCome(s)'
  BY <1>1 DEF ToCome
<1>3. WellFormed(frame, Queued \o s)'
  BY <1>1
<1>4. HelperFrame' /\ NothingTodo'
  BY DEF FrameInv, HelperFrame, NothingTodo
<1> QED
  BY <1>2, <1>3, <1>4 DEF FrameInv, StreamOK

(* A step of the writer's call: advancing wrp moves its word from the      *)
(* writer's hand to the pipe, the other steps move no word.                *)
LEMMA FrameWriter ==
  ASSUME SendTypes, OneSender, SerialProofs!PipeInv, FrameInv,
         NEW t \in Threads, PipeWriterStep(t)
  PROVE  FrameInv'
<1> USE DEF SendTypes
<1>1. Pipe!WriterStep(t) /\ UNCHANGED <<call, hpc, left, frame>>
  BY DEF PipeWriterStep, senders, exter
<1>2. call[t].pc = "write" /\ \A u \in Threads \ {t} : call[u].pc = "idle"
  BY <1>1, OthersStay DEF OneSender
<1>3. InHand' = InHand
  BY <1>1, WriterKeepsReader DEF InHand
<1>4. ASSUME NEW pc, Pipe!Goto(t, pc)
      PROVE  w'[t].pc = pc /\ w'[t].word = w[t].word
  BY <1>4 DEF Pipe!Goto, Pipe!TypeOK, Pipe!Calls
<1>5. CASE Pipe!Advance(t)
  <2>1. PICK s \in Seq(Words) : ToCome(s) /\ WellFormed(frame, Queued \o s)
    BY DEF FrameInv, StreamOK
  <2> DEFINE x == w[t].word
             r == call[t].todo
             u == Pipe!Unread
             h == InHand
  <2>2. x \in Words /\ r \in Seq(Words) /\ u \in Seq(Words) /\ h \in Seq(Words)
    BY QueuedType DEF Pipe!TypeOK, Pipe!Calls, SendCalls
  <2>3. s = <<x>> \o r
    BY <1>2, <1>5, <2>1 DEF ToCome, Offer, Pipe!Advance
  <2>4. ToCome(r)'
    <3>1. Offer(t)' = <<>>
      <4>1. w'[t].pc = "wake"
        BY <1>4, <1>5 DEF Pipe!Advance
      <4> QED
        BY <4>1 DEF Offer
    <3>2. <<>> \o r = r
      BY <2>2, ConcatEmptySeq
    <3> QED
      BY <1>1, <1>2, <3>1, <3>2 DEF ToCome
  <2>5. Queued' = h \o Append(u, x)
    BY <1>3, <1>5, AdvanceAppends DEF Queued
  <2>6. (h \o Append(u, x)) \o r = (h \o u) \o (<<x>> \o r)
    <3> HIDE DEF x, r, u, h
    <3>1. <<x>> \in Seq(Words) /\ h \o u \in Seq(Words)
      BY <2>2, ConcatProperties
    <3>2. h \o Append(u, x) = (h \o u) \o <<x>>
      BY <2>2, <3>1, AppendIsConcat, ConcatAssociative
    <3> QED
      BY <2>2, <3>1, <3>2, ConcatAssociative
  <2>7. Queued' \o r = Queued \o s
    BY <2>3, <2>5, <2>6 DEF Queued
  <2>8. r' = r /\ frame' = frame
    BY <1>1
  <2>9. StreamOK'
    <3> HIDE DEF r
    <3> QED
      BY <2>1, <2>2, <2>4, <2>7, <2>8 DEF StreamOK
  <2> QED
    BY <1>1, <2>9 DEF FrameInv, HelperFrame, NothingTodo
<1>6. CASE Pipe!Store(t)
  <2>1. Queued' = Queued
    BY <1>3, <1>6, StoreHides DEF Queued
  <2>2. Offer(t)' = Offer(t)
    BY <1>4, <1>6 DEF Offer, Pipe!Store
  <2> QED
    BY <1>1, <1>2, <2>1, <2>2, FrameStays
<1>7. CASE \/ Pipe!WriterLock(t) \/ Pipe!HasRoom(t) \/ Pipe!PipeFull(t) \/ Pipe!WriterWoken(t)
           \/ Pipe!WriterRelock(t) \/ Pipe!MaybeWakeReader(t) \/ Pipe!WriterUnlock(t)
  <2>1. UNCHANGED <<data, rdp, wrp>>
    BY <1>7 DEF Pipe!WriterLock, Pipe!HasRoom, Pipe!PipeFull, Pipe!WriterWoken,
       Pipe!WriterRelock, Pipe!MaybeWakeReader, Pipe!WriterUnlock, Pipe!pipe
  <2>2. Queued' = Queued
    BY <1>3, <2>1, UnreadStays DEF Queued
  <2>3. Offer(t)' = Offer(t)
    BY <1>4, <1>7 DEF Offer, Pipe!WriterLock, Pipe!HasRoom, Pipe!PipeFull, Pipe!WriterWoken,
       Pipe!WriterRelock, Pipe!MaybeWakeReader, Pipe!WriterUnlock
  <2> QED
    BY <1>1, <1>2, <2>2, <2>3, FrameStays
<1> QED
  BY <1>1, <1>5, <1>6, <1>7 DEF Pipe!WriterStep
(* A thread gets n2asem: nothing was to come, now a message is.            *)
LEMMA FrameWait ==
  ASSUME SendTypes, OneSender, HelperInv, FrameInv,
         NEW t \in Threads, NEW m \in Messages, NativesemWait(t, m)
  PROVE  FrameInv'
<1> USE DEF SendTypes, HelperInv
<1>1. /\ UNCHANGED pipeVars /\ UNCHANGED <<hpc, left, frame>> /\ n2asem = 1
      /\ call' = [call EXCEPT ![t] = [pc |-> "write", todo |-> Message(m)]]
  BY DEF NativesemWait, exter
<1>2. \A u \in Threads : call[u].pc = "idle" /\ ~Pipe!Active(u)
  BY <1>1 DEF OneSender
<1>3. /\ call'[t].pc = "write" /\ call'[t].todo = Message(m)
      /\ \A u \in Threads \ {t} : call'[u] = call[u]
  BY <1>1
<1>4. Queued' = Queued
  BY <1>1, UnreadStays DEF pipeVars, Queued, InHand
<1>5. PICK s \in Seq(Words) : ToCome(s) /\ WellFormed(frame, Queued \o s)
  BY DEF FrameInv, StreamOK
<1>6. s = <<>> /\ Queued \o s = Queued
  BY <1>2, <1>5, QueuedType, ConcatEmptySeq DEF ToCome
<1>7. WellFormed(frame, Queued \o Message(m))
  BY <1>5, <1>6, QueuedType, MessageJoins
<1>8. Message(m) \in Seq(Words)
  BY MessageProps
<1>9. ToCome(Message(m))'
  <2>1. Offer(t)' = <<>>
    BY <1>1, <1>2 DEF Offer, pipeVars, Pipe!Active
  <2>2. <<>> \o Message(m) = Message(m)
    BY <1>8, ConcatEmptySeq
  <2> QED
    BY <1>2, <1>3, <2>1, <2>2 DEF ToCome
<1>10. StreamOK'
  BY <1>1, <1>4, <1>7, <1>8, <1>9 DEF StreamOK
<1>11. HelperFrame' /\ NothingTodo'
  BY <1>1, <1>3 DEF FrameInv, HelperFrame, NothingTodo
<1> QED
  BY <1>10, <1>11 DEF FrameInv

(* A word passes from the rest of the message to the writer's hand.        *)
LEMMA FrameWrite ==
  ASSUME SendTypes, OneSender, FrameInv, NEW t \in Threads, WriteWord(t)
  PROVE  FrameInv'
<1> USE DEF SendTypes
<1> DEFINE r == call[t].todo
<1>1. /\ UNCHANGED <<data, rdp, wrp, rpc, got, hpc, left, frame>>
      /\ call[t].pc = "write" /\ r # <<>> /\ ~Pipe!Active(t)
      /\ call' = [call EXCEPT ![t].todo = Tail(@)]
      /\ w'[t].pc \in {"store", "lock"} /\ w'[t].word = Head(r)
  BY DEF WriteWord, exter, Pipe!Write, Pipe!pipe, Pipe!TypeOK
<1>2. r \in Seq(Words) /\ \A u \in Threads : call[u].pc # "idle" <=> u = t
  BY <1>1 DEF SendCalls, OneSender
<1>3. /\ call'[t].pc = "write" /\ call'[t].todo = Tail(r)
      /\ \A u \in Threads \ {t} : call'[u] = call[u]
  BY <1>1 DEF SendCalls
<1>4. Queued' = Queued
  BY <1>1, UnreadStays DEF Queued, InHand
<1>5. PICK s \in Seq(Words) : ToCome(s) /\ WellFormed(frame, Queued \o s)
  BY DEF FrameInv, StreamOK
<1>6. s = r
  <2>1. Offer(t) = <<>>
    BY <1>1 DEF Offer, Pipe!Active
  <2> QED
    BY <1>2, <1>5, <2>1, ConcatEmptySeq DEF ToCome
<1>7. Offer(t)' \o Tail(r) = r
  <2>1. Offer(t)' = <<Head(r)>>
    BY <1>1 DEF Offer
  <2>2. <<Head(r)>> \o Tail(r) = r
    BY <1>1, <1>2, HeadTakesTail
  <2> QED
    BY <2>1, <2>2
<1>8. ToCome(s)'
  BY <1>2, <1>3, <1>6, <1>7 DEF ToCome
<1>9. StreamOK'
  BY <1>1, <1>4, <1>5, <1>8 DEF StreamOK
<1>10. HelperFrame' /\ NothingTodo'
  BY <1>1, <1>3 DEF FrameInv, HelperFrame, NothingTodo
<1> QED
  BY <1>9, <1>10 DEF FrameInv

(* The interrupt is requested and n2asem let go with the message all       *)
(* written.                                                                *)
LEMMA FrameEnd ==
  ASSUME SendTypes, OneSender, FrameInv, NEW t \in Threads,
         DoUaeIntRequested(t) \/ NativesemPost(t)
  PROVE  FrameInv'
<1> USE DEF SendTypes
<1>1. UNCHANGED pipeVars /\ UNCHANGED <<hpc, left, frame>>
  BY DEF DoUaeIntRequested, NativesemPost, exter
<1>2. /\ call[t].pc \in {"write", "post"} /\ call[t].todo = <<>> /\ ~Pipe!Active(t)
      /\ call'[t].todo = <<>> /\ \A u \in Threads \ {t} : call'[u] = call[u]
  <2>1. CASE DoUaeIntRequested(t)
    BY <2>1 DEF DoUaeIntRequested, SendCalls
  <2>2. CASE NativesemPost(t)
    BY <2>2 DEF NativesemPost, SendCalls, OneSender, FrameInv, NothingTodo
  <2> QED
    BY <2>1, <2>2
<1>3. \A u \in Threads : call[u].pc # "idle" <=> u = t
  BY <1>2 DEF OneSender
<1>4. Queued' = Queued
  BY <1>1, UnreadStays DEF pipeVars, Queued, InHand
<1>5. PICK s \in Seq(Words) : ToCome(s) /\ WellFormed(frame, Queued \o s)
  BY DEF FrameInv, StreamOK
<1>6. Offer(t) = <<>> /\ Offer(t)' = <<>>
  BY <1>1, <1>2 DEF Offer, Pipe!Active, pipeVars
<1>7. s = <<>> /\ <<>> \o <<>> = <<>>
  <2>1. <<>> \o <<>> = <<>>
    BY ConcatEmptySeq, EmptySeq
  <2> QED
    BY <1>2, <1>3, <1>5, <1>6, <2>1 DEF ToCome
<1>8. ToCome(s)'
  BY <1>2, <1>3, <1>6, <1>7 DEF ToCome
<1>9. StreamOK'
  BY <1>1, <1>4, <1>5, <1>8 DEF StreamOK
<1>10. HelperFrame' /\ NothingTodo'
  BY <1>1, <1>2 DEF FrameInv, HelperFrame, NothingTodo
<1> QED
  BY <1>9, <1>10 DEF FrameInv
(* The helper looks at the pipe for the next message.                      *)
LEMMA FrameHasData ==
  ASSUME FrameInv, HasData PROVE FrameInv'
<1>1. /\ UNCHANGED pipeVars /\ UNCHANGED senders /\ Complete(frame)
      /\ hpc' = "cmd" /\ frame' = <<>>
  BY DEF HasData, FrameInv, HelperFrame
<1>2. Queued' = Queued /\ UNCHANGED <<call, w>>
  BY <1>1, UnreadStays DEF pipeVars, senders, Queued, InHand
<1>3. PICK s \in Seq(Words) : ToCome(s) /\ WellFormed(frame, Queued \o s)
  BY DEF FrameInv, StreamOK
<1>4. WellFormed(<<>>, Queued \o s)
  BY <1>1, <1>3 DEF WellFormed, Fits, Complete
<1>5. ToCome(s)'
  BY <1>2, <1>3 DEF ToCome, Offer
<1>6. StreamOK'
  BY <1>1, <1>2, <1>4, <1>5 DEF StreamOK
<1>7. HelperFrame' /\ NothingTodo'
  BY <1>1, <1>2 DEF FrameInv, HelperFrame, NothingTodo, Prefix
<1> QED
  BY <1>6, <1>7 DEF FrameInv

(* The reader takes a word: it passes from the pipe to the helper's hand.  *)
LEMMA FrameTake ==
  ASSUME SendTypes, SerialProofs!PipeInv, FrameInv, Pipe!Take, UNCHANGED <<senders, exter>>
  PROVE  FrameInv'
<1> USE DEF SendTypes
<1> DEFINE u == Pipe!Unread
<1>1. /\ u # <<>> /\ Pipe!Unread' = Tail(u) /\ got' = Head(u)
  BY TakeRemoves
<1>2. rpc = "take" /\ rpc' = "unlock" /\ UNCHANGED <<w, call, hpc, left, frame>>
  BY DEF Pipe!Take, senders, exter
<1>3. Queued' = Queued
  <2>1. u \in Seq(Words)
    BY QueuedType
  <2>2. Queued = u
    BY <1>2, <2>1, ConcatEmptySeq DEF Queued, InHand
  <2>3. Queued' = <<Head(u)>> \o Tail(u)
    BY <1>1, <1>2 DEF Queued, InHand
  <2> QED
    BY <1>1, <2>1, <2>2, <2>3, HeadTakesTail
<1> QED
  BY <1>2, <1>3, FrameStays DEF Offer

(* The word in the helper's hand is the one it wants: what it has read     *)
(* then is the beginning of a message, and the rest of the stream goes on  *)
(* from there.                                                             *)
LEMMA WordRead ==
  ASSUME SendTypes, HelperInv, FrameInv, Pipe!ReaderUnlock, UNCHANGED call,
         frame' = IF Complete(frame) THEN <<got>> ELSE Append(frame, got)
  PROVE  /\ StreamOK' /\ Prefix(frame') /\ frame' # <<>>
         /\ Len(frame') = got[2] /\ frame'[1][1] = got[1]
         /\ Complete(frame) => IsCommand(got)
<1> USE DEF SendTypes, HelperInv
<1>1. rpc = "unlock" /\ rpc' = "idle" /\ UNCHANGED <<data, rdp, wrp, w, got>>
  BY DEF Pipe!ReaderUnlock, Pipe!pipe
<1>2. PICK s \in Seq(Words) : ToCome(s) /\ WellFormed(frame, Queued \o s)
  BY DEF FrameInv, StreamOK
<1> DEFINE u == Pipe!Unread
<1>3. got \in Words /\ u \in Seq(Words) /\ <<got>> \in Seq(Words)
  BY QueuedType DEF Pipe!TypeOK
<1>4. Queued = <<got>> \o u /\ Queued' = u
  <2>1. Pipe!Unread' = u
    BY <1>1, UnreadStays
  <2>2. <<>> \o u = u
    BY <1>3, ConcatEmptySeq
  <2> QED
    BY <1>1, <2>1, <2>2 DEF Queued, InHand
<1>5. Queued \o s = <<got>> \o (u \o s) /\ u \o s \in Seq(Words)
  <2> HIDE DEF u
  <2> QED
    BY <1>3, <1>4, ConcatAssociative, ConcatProperties
<1>6. WellFormed(frame, <<got>> \o (u \o s)) /\ Prefix(frame)
  BY <1>2, <1>5 DEF FrameInv, HelperFrame
<1>7. /\ Prefix(frame') /\ WellFormed(frame', u \o s)
      /\ frame' # <<>> /\ Len(frame') = got[2] /\ frame'[1][1] = got[1]
      /\ Complete(frame) => IsCommand(got)
  <2> DEFINE v == u \o s
  <2>1. /\ v \in Seq(Words) /\ WellFormed(frame, <<got>> \o v)
        /\ frame \in Seq(Words) /\ Prefix(frame) /\ got \in Words
        /\ frame' = IF Complete(frame) THEN <<got>> ELSE Append(frame, got)
    BY <1>3, <1>5, <1>6
  <2> HIDE DEF v
  <2>2. /\ Prefix(frame') /\ WellFormed(frame', v)
        /\ frame' # <<>> /\ Len(frame') = got[2] /\ frame'[1][1] = got[1]
        /\ Complete(frame) => IsCommand(got)
    BY <2>1, WordLeaves, Zenon
  <2> QED
    BY <2>2 DEF v
<1>8. ToCome(s)'
  BY <1>1, <1>2 DEF ToCome, Offer
<1>9. StreamOK'
  BY <1>4, <1>7, <1>8 DEF StreamOK
<1> QED
  BY <1>7, <1>9

(* The helper gets the first word of a message: it is a command, and tells *)
(* how many words belong to it.                                            *)
LEMMA FrameCommand ==
  ASSUME SendTypes, HelperInv, FrameInv, GotCommand
  PROVE  FrameInv'
<1>1. /\ hpc = "cmd" /\ Pipe!ReaderUnlock /\ UNCHANGED call
      /\ frame = <<>> /\ frame' = <<got>>
  BY DEF GotCommand, senders, FrameInv, HelperFrame
<1>2. Complete(frame)
  BY <1>1 DEF Complete
<1>3. /\ StreamOK' /\ Prefix(frame') /\ frame' # <<>> /\ IsCommand(got)
      /\ Len(frame') = got[2] /\ frame'[1][1] = got[1]
  BY <1>1, <1>2, WordRead
<1>4. got \in Words
  BY DEF SendTypes, Pipe!TypeOK
<1>5. left' = Length[got[1]] - 1 /\ left' \in Nat \ {0}
  BY <1>3, <1>4, WordProps DEF GotCommand
<1>6. hpc' = "args" /\ left' = Length[frame'[1][1]] - Len(frame')
  BY <1>3, <1>5 DEF GotCommand, IsCommand
<1>7. HelperFrame' /\ NothingTodo'
  BY <1>1, <1>3, <1>6 DEF FrameInv, HelperFrame, NothingTodo
<1> QED
  BY <1>3, <1>7 DEF FrameInv

(* The helper gets an argument; with the last one the message is complete. *)
LEMMA FrameArgument ==
  ASSUME SendTypes, HelperInv, FrameInv, GotArgument
  PROVE  FrameInv'
<1>1. /\ hpc = "args" /\ Pipe!ReaderUnlock /\ UNCHANGED call
      /\ frame' = Append(frame, got) /\ left' = left - 1
      /\ hpc' = IF left' = 0 THEN "helper" ELSE "args"
  BY DEF GotArgument, senders
<1>2. /\ frame # <<>> /\ left = Length[frame[1][1]] - Len(frame) /\ left \in Nat \ {0}
      /\ frame \in Seq(Words) /\ got \in Words
  BY <1>1 DEF FrameInv, HelperFrame, HelperInv, SendTypes, Pipe!TypeOK
<1>3. Len(frame) \in Nat \ {0} /\ frame[1] \in Words /\ Length[frame[1][1]] \in Nat
  <2>1. Len(frame) \in Nat \ {0}
    BY <1>2, EmptySeq
  <2>2. frame[1] \in Words
    BY <1>2, <2>1, ElementOfSeq
  <2> QED
    BY <2>1, <2>2, WordProps
<1>4. ~Complete(frame)
  BY <1>2, <1>3 DEF Complete
<1>5. StreamOK' /\ Prefix(frame') /\ frame' # <<>>
  BY <1>1, <1>4, WordRead
<1>6. Len(frame') = Len(frame) + 1 /\ frame'[1] = frame[1]
  BY <1>1, <1>2, <1>3, AppendProperties
<1>7. left' = Length[frame'[1][1]] - Len(frame')
  BY <1>1, <1>2, <1>3, <1>6
<1>8. hpc' = "helper" => Complete(frame')
  BY <1>1, <1>3, <1>6, <1>7 DEF Complete
<1>9. HelperFrame' /\ NothingTodo'
  BY <1>1, <1>5, <1>7, <1>8 DEF FrameInv, HelperFrame, NothingTodo
<1> QED
  BY <1>5, <1>9 DEF FrameInv

(* Every step but a reset keeps the stream well-formed.                    *)
LEMMA FrameNext ==
  ASSUME SendTypes, OneSender, HelperInv, resets = 0, SerialProofs!PipeInv, FrameInv,
         [Next]_vars, ~ResetPipe
  PROVE  FrameInv'
<1>1. ASSUME NEW t \in Threads, NEW m \in Messages, NativesemWait(t, m) PROVE FrameInv'
  BY <1>1, FrameWait
<1>2. ASSUME NEW t \in Threads, Send(t) PROVE FrameInv'
  BY <1>2, FrameWrite, FrameWriter, FrameEnd DEF Send
<1>3. ASSUME UNCHANGED <<hpc, left, frame, call, w, data, rdp, wrp>>, InHand' = InHand
      PROVE  FrameInv'
  <2>1. Queued' = Queued
    BY <1>3, UnreadStays DEF Queued
  <2> QED
    BY <1>3, <2>1, FrameStays DEF Offer
<1>4. CASE ExterServer \/ FilesysVsync \/ UNCHANGED vars
  BY <1>3, <1>4 DEF ExterServer, FilesysVsync, vars, pipeVars, senders, exter, InHand
<1>5. CASE HelperFirst \/ Finished
  <2>1. /\ UNCHANGED pipeVars /\ UNCHANGED senders /\ UNCHANGED <<left, frame>>
        /\ hpc \in {"off", "helper"} /\ hpc' \in {"off", "helper"}
    BY <1>5 DEF HelperFirst, Finished
  <2>2. HelperFrame' /\ NothingTodo'
    BY <2>1 DEF FrameInv, HelperFrame, NothingTodo, senders
  <2>3. Queued' = Queued /\ UNCHANGED <<call, w>>
    BY <2>1, UnreadStays DEF pipeVars, senders, Queued, InHand
  <2>4. PICK s \in Seq(Words) : ToCome(s) /\ WellFormed(frame, Queued \o s)
    BY DEF FrameInv, StreamOK
  <2>5. ToCome(s)'
    BY <2>3, <2>4 DEF ToCome, Offer
  <2> QED
    BY <2>1, <2>2, <2>3, <2>4, <2>5 DEF FrameInv, StreamOK
<1>6. CASE HasData
  BY <1>6, FrameHasData
<1>7. CASE ReadWord
  BY <1>3, <1>7 DEF ReadWord, Pipe!Read, Pipe!pipe, senders, exter, InHand
<1>8. CASE PipeReaderStep
  <2>1. CASE Pipe!Take
    BY <1>8, <2>1, FrameTake DEF PipeReaderStep
  <2>2. CASE ~Pipe!Take
    <3>1. /\ UNCHANGED <<hpc, left, frame, call, w, data, rdp, wrp>>
          /\ rpc # "unlock" /\ rpc' # "unlock"
      BY <1>8, <2>2 DEF PipeReaderStep, Pipe!ReaderStep, Pipe!HasWord, Pipe!PipeEmpty,
         Pipe!ReaderRelease, Pipe!ReaderWoken, Pipe!ReaderRelock, Pipe!ReaderUnlock,
         Pipe!pipe, senders, exter
    <3> QED
      BY <1>3, <3>1 DEF InHand
  <2> QED
    BY <2>1, <2>2
<1>9. CASE GotCommand
  BY <1>9, FrameCommand
<1>10. CASE GotArgument
  BY <1>10, FrameArgument
<1>11. ~ResetInterrupt
  BY DEF ResetInterrupt, HelperInv
<1> QED
  BY <1>1, <1>2, <1>4, <1>5, <1>6, <1>7, <1>8, <1>9, <1>10, <1>11 DEF Next, Amiga

----------------------------------------------------------------------------
(* Each message reaches the Amiga whole                                    *)

UntilReset == resets = 0 => SerialProofs!PipeInv /\ FrameInv

(* Until the Amiga is reset in the middle of one, the words the helper     *)
(* takes for a message are the words of one message, in order and from the *)
(* first: native2amiga_pending never gets out of step, for any number of   *)
(* threads, any messages and any size of the pipe.                         *)
THEOREM MessagesWhole == Spec => []Framed
<1>1. ASSUME Init PROVE UntilReset
  <2>1. SerialProofs!Init
    BY <1>1 DEF Init, Pipe!Init, SerialProofs!Init, Pipe!Slots, SerialProofs!Slots
  <2>2. SerialProofs!PipeAssumption
    BY PipeAssumptionHolds DEF PipeProofs!PipeAssumption, SerialProofs!PipeAssumption
  <2> QED
    BY <1>1, <2>1, <2>2, FrameInit, SerialProofs!PipeInvInit DEF UntilReset
<1>2. ASSUME SendTypes, OneSender, HelperInv, UntilReset, [Next]_vars PROVE UntilReset'
  <2> SUFFICES ASSUME resets' = 0 PROVE SerialProofs!PipeInv' /\ FrameInv'
    BY DEF UntilReset
  <2>1. ~ResetPipe
    BY <1>2 DEF ResetPipe, SendTypes
  <2>2. resets = 0
    BY <1>2, <2>1 DEF Next, vars, Amiga, Send, ExterServer, HelperFirst, HasData, Finished,
       ReadWord, PipeReaderStep, GotCommand, GotArgument, FilesysVsync, ResetInterrupt,
       WriteWord, PipeWriterStep, DoUaeIntRequested, NativesemPost, NativesemWait, exter
  <2> QED
    BY <1>2, <2>1, <2>2, SerialInvNext, FrameNext DEF UntilReset
<1>3. UntilReset => Framed
  BY DEF UntilReset, FrameInv, HelperFrame, Prefix, Framed, Whole
<1>4. /\ Init => SendTypes /\ OneSender /\ HelperInv /\ UntilReset
      /\ SendTypes /\ OneSender /\ HelperInv /\ UntilReset /\ [Next]_vars
           => SendTypes' /\ OneSender' /\ HelperInv' /\ UntilReset'
  BY <1>1, <1>2, SendInit, SendNext, HelperInit, HelperNext DEF SendTypes
<1> QED
  BY <1>3, <1>4, PTL DEF Spec
=============================================================================
