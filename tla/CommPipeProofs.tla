--------------------------- MODULE CommPipeProofs ---------------------------
(* Proofs about CommPipe: the type invariant for any number of overlapping *)
(* writers and, for callers that do not let two writes overlap, that no    *)
(* slot is overwritten or read too early.                                  *)
EXTENDS CommPipe, SequenceTheorems, TLAPS

----------------------------------------------------------------------------
(* Arithmetic of the ring                                                  *)

(* What % does in the range the code uses it.                              *)
LEMMA ModSize ==
  \A x \in 0 .. (2 * Size - 1) : x % Size = IF x < Size THEN x ELSE x - Size
BY PipeAssumption

(* The next slot is a slot, another one, and no two slots share it.        *)
LEMMA NextSlotProps ==
  /\ \A i \in Slots : NextSlot(i) = IF i = Size - 1 THEN 0 ELSE i + 1
  /\ \A i \in Slots : NextSlot(i) \in Slots /\ NextSlot(i) # i
  /\ \A i, j \in Slots : NextSlot(i) = NextSlot(j) => i = j
<1>1. \A i \in Slots : NextSlot(i) = IF i = Size - 1 THEN 0 ELSE i + 1
  BY ModSize, PipeAssumption DEF Slots, NextSlot
<1> QED
  BY <1>1, PipeAssumption DEF Slots

(* (wrp - rdp + size) % size is the distance from rdp to wrp.              *)
LEMMA Distance ==
  \A r, p \in Slots :
    (p - r + Size) % Size = IF p >= r THEN p - r ELSE p - r + Size
BY ModSize, PipeAssumption DEF Slots

(* The pipe holds 0 to Size - 1 words; which of the two it is at either    *)
(* end can be read off rdp and wrp, as the code does.                      *)
LEMMA CountProps ==
  ASSUME rdp \in Slots, wrp \in Slots
  PROVE  /\ Count \in 0 .. (Size - 1)
         /\ (Count = 0) <=> (rdp = wrp)
         /\ (Count = Size - 1) <=> (NextSlot(wrp) = rdp)
<1>1. Count = IF wrp >= rdp THEN wrp - rdp ELSE wrp - rdp + Size
  BY Distance DEF Count
<1>2. NextSlot(wrp) = IF wrp = Size - 1 THEN 0 ELSE wrp + 1
  BY ModSize, PipeAssumption DEF Slots, NextSlot
<1> QED
  BY <1>1, <1>2, PipeAssumption DEF Slots

(* Advancing wrp in a pipe that is not full counts one word more.          *)
LEMMA CountAdvance ==
  ASSUME rdp \in Slots, wrp \in Slots, NextSlot(wrp) # rdp,
         rdp' = rdp, wrp' = NextSlot(wrp)
  PROVE  Count' = Count + 1
<1>1. NextSlot(wrp) = IF wrp = Size - 1 THEN 0 ELSE wrp + 1
  BY ModSize, PipeAssumption DEF Slots, NextSlot
<1>2. Count = IF wrp >= rdp THEN wrp - rdp ELSE wrp - rdp + Size
  BY Distance DEF Count
<1>3. Count' = IF wrp' >= rdp THEN wrp' - rdp ELSE wrp' - rdp + Size
  BY Distance, NextSlotProps DEF Count
<1> QED
  BY <1>1, <1>2, <1>3, PipeAssumption DEF Slots

(* Advancing rdp in a pipe that is not empty counts one word fewer.        *)
LEMMA CountTake ==
  ASSUME rdp \in Slots, wrp \in Slots, wrp # rdp,
         rdp' = NextSlot(rdp), wrp' = wrp
  PROVE  Count' = Count - 1
<1>1. NextSlot(rdp) = IF rdp = Size - 1 THEN 0 ELSE rdp + 1
  BY ModSize, PipeAssumption DEF Slots, NextSlot
<1>2. Count = IF wrp >= rdp THEN wrp - rdp ELSE wrp - rdp + Size
  BY Distance DEF Count
<1>3. Count' = IF wrp >= rdp' THEN wrp - rdp' ELSE wrp - rdp' + Size
  BY Distance, NextSlotProps DEF Count
<1> QED
  BY <1>1, <1>2, <1>3, PipeAssumption DEF Slots

(* Moving on changes one writer's program counter and nothing else.        *)
LEMMA GotoProps ==
  ASSUME NEW t \in Writers, NEW pc \in WriterPCs, w \in [Writers -> Calls], Goto(t, pc)
  PROVE  /\ w' \in [Writers -> Calls]
         /\ w'[t].pc = pc /\ w'[t].path = w[t].path
         /\ w'[t].nxwrp = w[t].nxwrp /\ w'[t].word = w[t].word
         /\ \A u \in Writers \ {t} : w'[u] = w[u]
BY DEF Goto, Calls

----------------------------------------------------------------------------
(* Every field keeps its type, however many writes overlap                 *)

(* The start is of the right type.                                         *)
LEMMA TypeInit == ASSUME Init PROVE TypeOK
<1>1. 0 \in Slots
  BY PipeAssumption DEF Slots
<1>2. PICK d \in Words :
        /\ w = [t \in Writers |->
                 [pc |-> "idle", path |-> "locked", nxwrp |-> 0, word |-> d]]
        /\ got = d
  BY DEF Init
<1>3. w \in [Writers -> Calls]
  BY <1>1, <1>2 DEF Calls, WriterPCs
<1> QED
  BY <1>1, <1>2, <1>3 DEF Init, TypeOK, ReaderPCs

(* So is what every step leaves.                                           *)
LEMMA TypeNext == ASSUME TypeOK, [Next]_vars PROVE TypeOK'
<1> USE GotoProps DEF TypeOK, ReaderPCs, pipe
<1>1. ASSUME NEW t \in Writers, NEW d \in Words, Write(t, d) PROVE TypeOK'
  <2> DEFINE call == [pc    |-> IF reader_waiting = 1 THEN "store" ELSE "lock",
                      path  |-> IF reader_waiting = 1 THEN "fast" ELSE "locked",
                      nxwrp |-> NextSlot(wrp),
                      word  |-> d]
  <2>1. call \in Calls
    BY NextSlotProps DEF Calls, WriterPCs
  <2>2. w' = [w EXCEPT ![t] = call]
    BY <1>1 DEF Write
  <2> HIDE DEF call
  <2> QED
    BY <1>1, <2>1, <2>2 DEF Write
<1>2. ASSUME NEW t \in Writers, WriterLock(t) PROVE TypeOK'
  BY <1>2 DEF WriterLock, WriterPCs
<1>3. ASSUME NEW t \in Writers, HasRoom(t) PROVE TypeOK'
  BY <1>3 DEF HasRoom, WriterPCs
<1>4. ASSUME NEW t \in Writers, PipeFull(t) PROVE TypeOK'
  BY <1>4 DEF PipeFull, WriterPCs
<1>5. ASSUME NEW t \in Writers, WriterWoken(t) PROVE TypeOK'
  BY <1>5 DEF WriterWoken, WriterPCs
<1>6. ASSUME NEW t \in Writers, WriterRelock(t) PROVE TypeOK'
  BY <1>6 DEF WriterRelock, WriterPCs
<1>7. ASSUME NEW t \in Writers, Store(t) PROVE TypeOK'
  <2>1. w[t].word \in Words
    BY DEF Calls
  <2> QED
    BY <1>7, <2>1 DEF Store, WriterPCs
<1>8. ASSUME NEW t \in Writers, Advance(t) PROVE TypeOK'
  <2>1. w[t].nxwrp \in Slots
    BY DEF Calls
  <2> QED
    BY <1>8, <2>1 DEF Advance, WriterPCs
<1>9. ASSUME NEW t \in Writers, MaybeWakeReader(t) PROVE TypeOK'
  <2>1. CASE WakeDue(t)
    BY <1>9, <2>1 DEF MaybeWakeReader, WriterPCs
  <2>2. CASE ~WakeDue(t)
    BY <1>9, <2>2 DEF MaybeWakeReader, WriterPCs
  <2> QED
    BY <2>1, <2>2
<1>10. ASSUME NEW t \in Writers, WriterUnlock(t) PROVE TypeOK'
  BY <1>10 DEF WriterUnlock, WriterPCs
<1>11. CASE Read
  BY <1>11 DEF Read
<1>12. CASE HasWord
  BY <1>12 DEF HasWord
<1>13. CASE PipeEmpty
  BY <1>13 DEF PipeEmpty
<1>14. CASE ReaderRelease
  BY <1>14 DEF ReaderRelease
<1>15. CASE ReaderWoken
  BY <1>15 DEF ReaderWoken
<1>16. CASE ReaderRelock
  BY <1>16 DEF ReaderRelock
<1>17. CASE Take
  <2>1. CASE writer_waiting = 1
    BY <1>17, <2>1, NextSlotProps DEF Take
  <2>2. CASE writer_waiting # 1
    BY <1>17, <2>2, NextSlotProps DEF Take
  <2> QED
    BY <2>1, <2>2
<1>18. CASE ReaderUnlock
  BY <1>18 DEF ReaderUnlock
<1>19. CASE UNCHANGED vars
  BY <1>19 DEF vars
<1> QED
  BY <1>1, <1>2, <1>3, <1>4, <1>5, <1>6, <1>7, <1>8, <1>9, <1>10, <1>11,
     <1>12, <1>13, <1>14, <1>15, <1>16, <1>17, <1>18, <1>19
     DEF Next, WriterStep, ReaderStep

(* The type invariant holds in every reachable state.                      *)
THEOREM TypeCorrect == Spec => []TypeOK
<1>1. TypeOK /\ [Next]_vars => TypeOK'
  BY TypeNext
<1> QED
  BY <1>1, TypeInit, PTL DEF Spec

----------------------------------------------------------------------------
(* No slot is overwritten or read too early                                *)

(* The start: everybody idle, the lock free, no post pending.              *)
LEMMA PipeInvInit == Init => PipeInv
<1> SUFFICES ASSUME Init PROVE PipeInv
  OBVIOUS
<1>1. \A t \in Writers : w[t].pc = "idle"
  <2>1. PICK d \in Words :
          w = [t \in Writers |->
                [pc |-> "idle", path |-> "locked", nxwrp |-> 0, word |-> d]]
    BY DEF Init
  <2> QED
    BY <2>1
<1>2. OneWrite /\ Mutex
  BY <1>1 DEF Init, OneWrite, Mutex, Active, ReaderHolds, WriterHolds
<1>3. WriterState
  BY <1>1 DEF WriterState, WriterPCs, Active
<1>4. NobodyAwaits /\ ReaderState
  BY DEF Init, NobodyAwaits, ReaderState
<1> QED
  BY <1>2, <1>3, <1>4 DEF PipeInv

(* Every step of either side keeps the inductive invariant.                *)
LEMMA PipeInvNext ==
  ASSUME Serialised = TRUE, TypeOK, PipeInv, [Next]_vars
  PROVE  PipeInv'
<1> USE DEF TypeOK, PipeInv, Active, ReaderHolds, WriterHolds, pipe
<1>0. \A t \in Writers : w[t].pc \in WriterPCs /\ w[t].path \in {"fast", "locked"} /\ w[t].nxwrp \in Slots
  BY DEF Calls
<1>a. \A t \in Writers :
        /\ w[t].pc \in {"lock", "check", "await", "relock", "unlock"} => w[t].path = "locked"
        /\ w[t].pc \in {"check", "unlock"} => lock = 0 /\ ~ReaderHolds
        /\ ReaderHolds => w[t].pc \in {"idle", "lock", "await", "relock"} \/ reader_waiting = 1
  BY <1>0 DEF WriterState, Mutex, WriterPCs
<1>c. rdp' = rdp /\ wrp' = wrp => Count' = Count
  BY DEF Count
<1>1. ASSUME NEW t \in Writers, NEW d \in Words, Write(t, d) PROVE PipeInv'
  <2>1. /\ w'[t].pc = IF reader_waiting = 1 THEN "store" ELSE "lock"
        /\ w'[t].path = IF reader_waiting = 1 THEN "fast" ELSE "locked"
        /\ w'[t].nxwrp = NextSlot(wrp)
        /\ \A u \in Writers \ {t} : w'[u] = w[u] /\ w[u].pc = "idle"
    BY <1>1 DEF Write
  <2>2. OneWrite'
    BY <1>0, <1>c, <1>1, <2>1, CountProps, PipeAssumption DEF Write, OneWrite
  <2>3. Mutex'
    BY <1>0, <1>c, <1>1, <2>1, CountProps, PipeAssumption DEF Write, Mutex
  <2>4. WriterState'
    <3>1. reader_waiting = 1 => NextSlot(wrp) # rdp
      BY <1>1, <2>1, CountProps, PipeAssumption DEF Write, ReaderState
    <3> QED
      BY <1>0, <1>1, <2>1, <3>1 DEF Write, WriterState, WriterPCs
  <2>5. NobodyAwaits'
    BY <1>0, <1>c, <1>1, <2>1, CountProps, PipeAssumption DEF Write, NobodyAwaits
  <2>6. ReaderState'
    BY <1>0, <1>c, <1>1, <2>1, CountProps, PipeAssumption DEF Write, ReaderState
  <2> QED
    BY <2>2, <2>3, <2>4, <2>5, <2>6
<1>2. ASSUME NEW t \in Writers, WriterLock(t) PROVE PipeInv'
  <2>1. /\ w'[t].pc = "check"
        /\ w'[t].path = w[t].path /\ w'[t].nxwrp = w[t].nxwrp /\ w'[t].word = w[t].word
        /\ \A u \in Writers \ {t} : w'[u] = w[u] /\ w[u].pc = "idle"
    BY <1>2, GotoProps DEF WriterLock, WriterPCs, OneWrite
  <2>2. OneWrite'
    BY <1>0, <1>c, <1>2, <2>1 DEF WriterLock, OneWrite
  <2>3. Mutex'
    BY <1>0, <1>c, <1>2, <2>1 DEF WriterLock, Mutex
  <2>4. WriterState'
    BY <1>0, <1>c, <1>2, <2>1 DEF WriterLock, WriterState, WriterPCs
  <2>5. NobodyAwaits'
    BY <1>0, <1>c, <1>2, <2>1 DEF WriterLock, NobodyAwaits
  <2>6. ReaderState'
    BY <1>0, <1>c, <1>2, <2>1 DEF WriterLock, ReaderState
  <2> QED
    BY <2>2, <2>3, <2>4, <2>5, <2>6
<1>3. ASSUME NEW t \in Writers, HasRoom(t) PROVE PipeInv'
  <2>1. /\ w'[t].pc = "store"
        /\ w'[t].path = w[t].path /\ w'[t].nxwrp = w[t].nxwrp /\ w'[t].word = w[t].word
        /\ \A u \in Writers \ {t} : w'[u] = w[u] /\ w[u].pc = "idle"
    BY <1>3, GotoProps DEF HasRoom, WriterPCs, OneWrite
  <2>2. OneWrite'
    BY <1>0, <1>c, <1>3, <2>1 DEF HasRoom, OneWrite
  <2>3. Mutex'
    BY <1>0, <1>c, <1>3, <2>1 DEF HasRoom, Mutex
  <2>4. WriterState'
    BY <1>0, <1>c, <1>3, <2>1 DEF HasRoom, WriterState, WriterPCs
  <2>5. NobodyAwaits'
    BY <1>0, <1>c, <1>3, <2>1 DEF HasRoom, NobodyAwaits
  <2>6. ReaderState'
    BY <1>0, <1>c, <1>3, <2>1 DEF HasRoom, ReaderState
  <2> QED
    BY <2>2, <2>3, <2>4, <2>5, <2>6
<1>4. ASSUME NEW t \in Writers, PipeFull(t) PROVE PipeInv'
  <2>1. /\ w'[t].pc = "await"
        /\ w'[t].path = w[t].path /\ w'[t].nxwrp = w[t].nxwrp /\ w'[t].word = w[t].word
        /\ \A u \in Writers \ {t} : w'[u] = w[u] /\ w[u].pc = "idle"
    BY <1>4, GotoProps DEF PipeFull, WriterPCs, OneWrite
  <2>2. OneWrite'
    BY <1>0, <1>c, <1>4, <2>1 DEF PipeFull, OneWrite
  <2>3. Mutex'
    BY <1>0, <1>a, <1>4, <2>1 DEF PipeFull, Mutex
  <2>4. WriterState'
    <3>1. writer_wait = 0
      BY <1>4, <2>1 DEF PipeFull, NobodyAwaits
    <3> QED
      BY <1>0, <1>a, <1>4, <2>1, <3>1 DEF PipeFull, WriterState, WriterPCs
  <2>5. NobodyAwaits'
    BY <1>0, <1>c, <1>4, <2>1 DEF PipeFull, NobodyAwaits
  <2>6. ReaderState'
    BY <1>0, <1>c, <1>4, <2>1 DEF PipeFull, ReaderState
  <2> QED
    BY <2>2, <2>3, <2>4, <2>5, <2>6
<1>5. ASSUME NEW t \in Writers, WriterWoken(t) PROVE PipeInv'
  <2>1. /\ w'[t].pc = "relock"
        /\ w'[t].path = w[t].path /\ w'[t].nxwrp = w[t].nxwrp /\ w'[t].word = w[t].word
        /\ \A u \in Writers \ {t} : w'[u] = w[u] /\ w[u].pc = "idle"
    BY <1>5, GotoProps DEF WriterWoken, WriterPCs, OneWrite
  <2>2. OneWrite'
    BY <1>0, <1>c, <1>5, <2>1 DEF WriterWoken, OneWrite
  <2>3. Mutex'
    BY <1>0, <1>c, <1>5, <2>1 DEF WriterWoken, Mutex
  <2>4. WriterState'
    BY <1>0, <1>c, <1>5, <2>1 DEF WriterWoken, WriterState, WriterPCs
  <2>5. NobodyAwaits'
    <3>1. writer_waiting = 0 /\ writer_wait = 1
      BY <1>5 DEF WriterWoken, WriterState
    <3> QED
      BY <1>5, <3>1 DEF WriterWoken, NobodyAwaits
  <2>6. ReaderState'
    BY <1>0, <1>c, <1>5, <2>1 DEF WriterWoken, ReaderState
  <2> QED
    BY <2>2, <2>3, <2>4, <2>5, <2>6
<1>6. ASSUME NEW t \in Writers, WriterRelock(t) PROVE PipeInv'
  <2>1. /\ w'[t].pc = "store"
        /\ w'[t].path = w[t].path /\ w'[t].nxwrp = w[t].nxwrp /\ w'[t].word = w[t].word
        /\ \A u \in Writers \ {t} : w'[u] = w[u] /\ w[u].pc = "idle"
    BY <1>6, GotoProps DEF WriterRelock, WriterPCs, OneWrite
  <2>2. OneWrite'
    BY <1>0, <1>c, <1>6, <2>1 DEF WriterRelock, OneWrite
  <2>3. Mutex'
    BY <1>0, <1>c, <1>6, <2>1 DEF WriterRelock, Mutex
  <2>4. WriterState'
    BY <1>0, <1>c, <1>6, <2>1 DEF WriterRelock, WriterState, WriterPCs
  <2>5. NobodyAwaits'
    BY <1>0, <1>c, <1>6, <2>1 DEF WriterRelock, NobodyAwaits
  <2>6. ReaderState'
    BY <1>0, <1>c, <1>6, <2>1 DEF WriterRelock, ReaderState
  <2> QED
    BY <2>2, <2>3, <2>4, <2>5, <2>6
<1>7. ASSUME NEW t \in Writers, Store(t) PROVE PipeInv'
  <2>1. /\ w'[t].pc = "advance"
        /\ w'[t].path = w[t].path /\ w'[t].nxwrp = w[t].nxwrp /\ w'[t].word = w[t].word
        /\ \A u \in Writers \ {t} : w'[u] = w[u] /\ w[u].pc = "idle"
    BY <1>7, GotoProps DEF Store, WriterPCs, OneWrite
  <2>2. OneWrite'
    BY <1>0, <1>c, <1>7, <2>1 DEF Store, OneWrite
  <2>3. Mutex'
    BY <1>0, <1>c, <1>7, <2>1 DEF Store, Mutex
  <2>4. WriterState'
    BY <1>0, <1>c, <1>7, <2>1 DEF Store, WriterState, WriterPCs
  <2>5. NobodyAwaits'
    BY <1>0, <1>c, <1>7, <2>1 DEF Store, NobodyAwaits
  <2>6. ReaderState'
    BY <1>0, <1>c, <1>7, <2>1 DEF Store, ReaderState
  <2> QED
    BY <2>2, <2>3, <2>4, <2>5, <2>6
<1>8. ASSUME NEW t \in Writers, Advance(t) PROVE PipeInv'
  <2>1. /\ w'[t].pc = "wake"
        /\ w'[t].path = w[t].path /\ w'[t].nxwrp = w[t].nxwrp /\ w'[t].word = w[t].word
        /\ \A u \in Writers \ {t} : w'[u] = w[u] /\ w[u].pc = "idle"
    BY <1>8, GotoProps DEF Advance, WriterPCs, OneWrite
  <2>2. OneWrite'
    BY <1>0, <1>c, <1>8, <2>1, CountAdvance, CountProps, PipeAssumption DEF Advance, OneWrite
  <2>3. Mutex'
    BY <1>0, <1>c, <1>8, <2>1, CountAdvance, CountProps, PipeAssumption DEF Advance, Mutex
  <2>4. WriterState'
    BY <1>0, <1>c, <1>8, <2>1, CountAdvance, CountProps, PipeAssumption DEF Advance, WriterState, WriterPCs
  <2>5. NobodyAwaits'
    BY <1>0, <1>c, <1>8, <2>1, CountAdvance, CountProps, PipeAssumption DEF Advance, NobodyAwaits
  <2>6. ReaderState'
    <3>1. wrp' = NextSlot(wrp) /\ NextSlot(wrp) # rdp
      BY <1>8 DEF Advance, WriterState, WriterPCs
    <3>2. Count' = Count + 1 /\ Count \in 0 .. (Size - 1) /\ rdp' = rdp
      BY <1>8, <3>1, CountAdvance, CountProps DEF Advance
    <3>3. reader_waiting = 1 => Count < Chunks
      BY <1>8, <2>1 DEF Advance, ReaderState
    <3>4. Chunks \in Int
      BY PipeAssumption
    <3> QED
      BY <1>8, <2>1, <3>1, <3>2, <3>3, <3>4 DEF Advance, ReaderState
  <2> QED
    BY <2>2, <2>3, <2>4, <2>5, <2>6
<1>9. ASSUME NEW t \in Writers, MaybeWakeReader(t) PROVE PipeInv'
  <2>1. /\ w'[t].pc = IF w[t].path = "locked" THEN "unlock" ELSE "idle"
        /\ w'[t].path = w[t].path /\ w'[t].nxwrp = w[t].nxwrp /\ w'[t].word = w[t].word
        /\ \A u \in Writers \ {t} : w'[u] = w[u] /\ w[u].pc = "idle"
    BY <1>9, GotoProps DEF MaybeWakeReader, WriterPCs, OneWrite
  <2>2. OneWrite'
    BY <1>0, <1>c, <1>9, <2>1, CountProps, PipeAssumption DEF MaybeWakeReader, OneWrite
  <2>3. Mutex'
    BY <1>0, <1>c, <1>9, <2>1, CountProps, PipeAssumption DEF MaybeWakeReader, Mutex
  <2>4. WriterState'
    BY <1>0, <1>c, <1>9, <2>1, CountProps, PipeAssumption DEF MaybeWakeReader, WriterState, WriterPCs
  <2>5. NobodyAwaits'
    BY <1>0, <1>c, <1>9, <2>1, CountProps, PipeAssumption DEF MaybeWakeReader, NobodyAwaits
  <2>6. ReaderState'
    <3>1. reader_waiting = 1 => rdp # wrp
      BY <1>9 DEF MaybeWakeReader, WriterState
    <3>2. CASE WakeDue(t)
      BY <1>9, <3>1, <3>2 DEF MaybeWakeReader, ReaderState, WakeDue
    <3>3. CASE ~WakeDue(t)
      <4>1. reader_waiting = 1 => Count < Chunks
        BY <3>3, CountProps, PipeAssumption DEF WakeDue
      <4> QED
        BY <1>c, <1>9, <3>3, <4>1 DEF MaybeWakeReader, ReaderState
    <3> QED
      BY <3>2, <3>3
  <2> QED
    BY <2>2, <2>3, <2>4, <2>5, <2>6
<1>10. ASSUME NEW t \in Writers, WriterUnlock(t) PROVE PipeInv'
  <2>1. /\ w'[t].pc = "idle"
        /\ w'[t].path = w[t].path /\ w'[t].nxwrp = w[t].nxwrp /\ w'[t].word = w[t].word
        /\ \A u \in Writers \ {t} : w'[u] = w[u] /\ w[u].pc = "idle"
    BY <1>10, GotoProps DEF WriterUnlock, WriterPCs, OneWrite
  <2>2. OneWrite'
    BY <1>0, <1>c, <1>10, <2>1 DEF WriterUnlock, OneWrite
  <2>3. Mutex'
    BY <1>0, <1>a, <1>10, <2>1 DEF WriterUnlock, Mutex
  <2>4. WriterState'
    BY <1>0, <1>c, <1>10, <2>1 DEF WriterUnlock, WriterState, WriterPCs
  <2>5. NobodyAwaits'
    BY <1>0, <1>c, <1>10, <2>1 DEF WriterUnlock, NobodyAwaits
  <2>6. ReaderState'
    BY <1>0, <1>c, <1>10, <2>1 DEF WriterUnlock, ReaderState
  <2> QED
    BY <2>2, <2>3, <2>4, <2>5, <2>6
<1>11. CASE Read
  <2>1. UNCHANGED w
    BY <1>11 DEF Read
  <2>2. OneWrite'
    BY <1>0, <1>c, <1>11, <2>1 DEF Read, OneWrite
  <2>3. Mutex'
    BY <1>0, <1>c, <1>11, <2>1 DEF Read, Mutex
  <2>4. WriterState'
    BY <1>0, <1>c, <1>11, <2>1 DEF Read, WriterState, WriterPCs
  <2>5. NobodyAwaits'
    BY <1>0, <1>c, <1>11, <2>1 DEF Read, NobodyAwaits
  <2>6. ReaderState'
    BY <1>0, <1>c, <1>11, <2>1 DEF Read, ReaderState
  <2> QED
    BY <2>2, <2>3, <2>4, <2>5, <2>6
<1>12. CASE HasWord
  <2>1. UNCHANGED w
    BY <1>12 DEF HasWord
  <2>2. OneWrite'
    BY <1>0, <1>c, <1>12, <2>1 DEF HasWord, OneWrite
  <2>3. Mutex'
    BY <1>0, <1>c, <1>12, <2>1 DEF HasWord, Mutex
  <2>4. WriterState'
    BY <1>0, <1>c, <1>12, <2>1 DEF HasWord, WriterState, WriterPCs
  <2>5. NobodyAwaits'
    BY <1>0, <1>c, <1>12, <2>1 DEF HasWord, NobodyAwaits
  <2>6. ReaderState'
    BY <1>0, <1>c, <1>12, <2>1 DEF HasWord, ReaderState
  <2> QED
    BY <2>2, <2>3, <2>4, <2>5, <2>6
<1>13. CASE PipeEmpty
  <2>1. UNCHANGED w
    BY <1>13 DEF PipeEmpty
  <2>2. OneWrite'
    BY <1>0, <1>c, <1>13, <2>1, CountProps, PipeAssumption DEF PipeEmpty, OneWrite
  <2>3. Mutex'
    BY <1>0, <1>c, <1>13, <2>1, CountProps, PipeAssumption DEF PipeEmpty, Mutex
  <2>4. WriterState'
    <3>1. reader_waiting = 0
      BY <1>13 DEF PipeEmpty, ReaderState
    <3>2. \A t \in Writers : w[t].pc \in {"idle", "lock", "await", "relock"}
      BY <1>a, <1>13, <3>1 DEF PipeEmpty
    <3> QED
      BY <1>0, <1>13, <2>1, <3>1, <3>2 DEF PipeEmpty, WriterState, WriterPCs
  <2>5. NobodyAwaits'
    BY <1>0, <1>c, <1>13, <2>1, CountProps, PipeAssumption DEF PipeEmpty, NobodyAwaits
  <2>6. ReaderState'
    BY <1>0, <1>c, <1>13, <2>1, CountProps, PipeAssumption DEF PipeEmpty, ReaderState
  <2> QED
    BY <2>2, <2>3, <2>4, <2>5, <2>6
<1>14. CASE ReaderRelease
  <2>1. UNCHANGED w
    BY <1>14 DEF ReaderRelease
  <2>2. OneWrite'
    BY <1>0, <1>c, <1>14, <2>1 DEF ReaderRelease, OneWrite
  <2>3. Mutex'
    BY <1>0, <1>c, <1>14, <2>1 DEF ReaderRelease, Mutex
  <2>4. WriterState'
    BY <1>0, <1>c, <1>14, <2>1 DEF ReaderRelease, WriterState, WriterPCs
  <2>5. NobodyAwaits'
    BY <1>0, <1>c, <1>14, <2>1 DEF ReaderRelease, NobodyAwaits
  <2>6. ReaderState'
    BY <1>0, <1>c, <1>14, <2>1 DEF ReaderRelease, ReaderState
  <2> QED
    BY <2>2, <2>3, <2>4, <2>5, <2>6
<1>15. CASE ReaderWoken
  <2>1. UNCHANGED w
    BY <1>15 DEF ReaderWoken
  <2>2. OneWrite'
    BY <1>0, <1>c, <1>15, <2>1 DEF ReaderWoken, OneWrite
  <2>3. Mutex'
    BY <1>0, <1>c, <1>15, <2>1 DEF ReaderWoken, Mutex
  <2>4. WriterState'
    BY <1>0, <1>c, <1>15, <2>1 DEF ReaderWoken, WriterState, WriterPCs
  <2>5. NobodyAwaits'
    BY <1>0, <1>c, <1>15, <2>1 DEF ReaderWoken, NobodyAwaits
  <2>6. ReaderState'
    BY <1>0, <1>c, <1>15, <2>1 DEF ReaderWoken, ReaderState
  <2> QED
    BY <2>2, <2>3, <2>4, <2>5, <2>6
<1>16. CASE ReaderRelock
  <2>1. UNCHANGED w
    BY <1>16 DEF ReaderRelock
  <2>2. OneWrite'
    BY <1>0, <1>c, <1>16, <2>1 DEF ReaderRelock, OneWrite
  <2>3. Mutex'
    BY <1>0, <1>c, <1>16, <2>1 DEF ReaderRelock, Mutex
  <2>4. WriterState'
    BY <1>0, <1>c, <1>16, <2>1 DEF ReaderRelock, WriterState, WriterPCs
  <2>5. NobodyAwaits'
    BY <1>0, <1>c, <1>16, <2>1 DEF ReaderRelock, NobodyAwaits
  <2>6. ReaderState'
    BY <1>0, <1>c, <1>16, <2>1 DEF ReaderRelock, ReaderState
  <2> QED
    BY <2>2, <2>3, <2>4, <2>5, <2>6
<1>17. CASE Take
  <2>1. UNCHANGED w
    BY <1>17 DEF Take
  <2>2. OneWrite'
    BY <1>0, <1>c, <1>17, <2>1, CountTake, NextSlotProps DEF Take, OneWrite
  <2>3. Mutex'
    BY <1>0, <1>c, <1>17, <2>1, CountTake, NextSlotProps DEF Take, Mutex
  <2>4. WriterState'
    <3>1. reader_waiting = 0 /\ rdp # wrp
      BY <1>17 DEF Take, ReaderState
    <3>2. NextSlot(rdp) # NextSlot(wrp) /\ NextSlot(rdp) # rdp
      BY <3>1, NextSlotProps
    <3>3. ASSUME NEW t \in Writers
          PROVE  w[t].pc \in {"idle", "lock", "await", "relock"}
      BY <1>a, <1>17, <3>1 DEF Take
    <3>4. ASSUME NEW t \in Writers, w[t].pc = "await"
          PROVE  writer_waiting' = 0 /\ writer_wait' = 1
      BY <1>17, <3>4 DEF Take, WriterState
    <3>5. ASSUME NEW t \in Writers, w[t].pc \in {"lock", "await", "relock"}
          PROVE  w[t].nxwrp = NextSlot(wrp) /\ w[t].path = "locked"
      BY <1>a, <3>5 DEF WriterState, WriterPCs
    <3> QED
      BY <1>17, <2>1, <3>2, <3>3, <3>4, <3>5 DEF Take, WriterState, WriterPCs
  <2>5. NobodyAwaits'
    BY <1>0, <1>c, <1>17, <2>1, CountTake, NextSlotProps DEF Take, NobodyAwaits
  <2>6. ReaderState'
    BY <1>0, <1>c, <1>17, <2>1, CountTake, NextSlotProps DEF Take, ReaderState
  <2> QED
    BY <2>2, <2>3, <2>4, <2>5, <2>6
<1>18. CASE ReaderUnlock
  <2>1. UNCHANGED w
    BY <1>18 DEF ReaderUnlock
  <2>2. OneWrite'
    BY <1>0, <1>c, <1>18, <2>1 DEF ReaderUnlock, OneWrite
  <2>3. Mutex'
    BY <1>0, <1>c, <1>18, <2>1 DEF ReaderUnlock, Mutex
  <2>4. WriterState'
    BY <1>0, <1>c, <1>18, <2>1 DEF ReaderUnlock, WriterState, WriterPCs
  <2>5. NobodyAwaits'
    BY <1>0, <1>c, <1>18, <2>1 DEF ReaderUnlock, NobodyAwaits
  <2>6. ReaderState'
    BY <1>0, <1>c, <1>18, <2>1 DEF ReaderUnlock, ReaderState
  <2> QED
    BY <2>2, <2>3, <2>4, <2>5, <2>6
<1>19. CASE UNCHANGED vars
  BY <1>c, <1>19 DEF vars, OneWrite, Mutex, WriterState, NobodyAwaits, ReaderState
<1> QED
  BY <1>1, <1>2, <1>3, <1>4, <1>5, <1>6, <1>7, <1>8, <1>9, <1>10, <1>11, <1>12, <1>13, <1>14, <1>15, <1>16, <1>17, <1>18, <1>19
     DEF Next, WriterStep, ReaderStep

(* For callers that do not let two writes overlap, the invariant holds in  *)
(* every reachable state.                                                  *)
THEOREM HandshakeCorrect == ASSUME Serialised = TRUE PROVE Spec => []PipeInv
<1>1. TypeOK /\ PipeInv /\ [Next]_vars => PipeInv'
  BY PipeInvNext
<1> QED
  BY <1>1, PipeInvInit, TypeCorrect, PTL DEF Spec

(* A writer only ever fills and publishes a slot that holds no unread      *)
(* word, also when it takes the fast path or has slept.                    *)
THEOREM NeverOverruns == ASSUME Serialised = TRUE PROVE Spec => []NoOverrun
<1>1. PipeInv => NoOverrun
  BY DEF PipeInv, WriterState, NoOverrun, WriterPCs
<1> QED
  BY <1>1, HandshakeCorrect, PTL

(* A reader only ever takes a word that was written.                       *)
THEOREM NeverUnderruns == ASSUME Serialised = TRUE PROVE Spec => []NoUnderrun
<1>1. PipeInv => NoUnderrun
  BY DEF PipeInv, ReaderState, NoUnderrun
<1> QED
  BY <1>1, HandshakeCorrect, PTL

----------------------------------------------------------------------------
(* The pipe is a queue                                                     *)

(* The slot k places after slot r.                                         *)
LEMMA SlotOf ==
  ASSUME NEW r \in Slots, NEW k \in 0 .. (Size - 1)
  PROVE  (r + k) % Size = IF r + k < Size THEN r + k ELSE r + k - Size
BY ModSize, PipeAssumption DEF Slots

(* The unread words are the Count words from rdp on, and the slot that is  *)
(* written next is none of theirs.                                         *)
LEMMA UnreadProps ==
  ASSUME TypeOK
  PROVE  /\ Unread \in Seq(Words)
         /\ Len(Unread) = Count
         /\ \A i \in 1 .. Count : Unread[i] = data[(rdp + (i - 1)) % Size]
         /\ Count \in 0 .. (Size - 1)
         /\ (rdp + Count) % Size = wrp
         /\ \A i \in 1 .. Count : (rdp + (i - 1)) % Size \in Slots \ {wrp}
<1>1. /\ Count \in 0 .. (Size - 1)
      /\ Count = IF wrp >= rdp THEN wrp - rdp ELSE wrp - rdp + Size
  BY CountProps, Distance DEF TypeOK, Count
<1>2. (rdp + Count) % Size = wrp
  <2>1. (rdp + Count) % Size = IF rdp + Count < Size THEN rdp + Count ELSE rdp + Count - Size
    BY <1>1, SlotOf DEF TypeOK
  <2> QED
    BY <1>1, <2>1, PipeAssumption DEF TypeOK, Slots
<1>3. ASSUME NEW i \in 1 .. Count
      PROVE  /\ (rdp + i - 1) = (rdp + (i - 1))
             /\ (rdp + (i - 1)) % Size \in Slots \ {wrp}
  <2>1. i - 1 \in 0 .. (Size - 1) /\ i - 1 < Count
    BY <1>1, PipeAssumption
  <2>2. (rdp + (i - 1)) % Size = IF rdp + (i - 1) < Size THEN rdp + (i - 1)
                                                          ELSE rdp + (i - 1) - Size
    BY <2>1, SlotOf DEF TypeOK
  <2> QED
    BY <1>1, <2>1, <2>2, PipeAssumption DEF TypeOK, Slots
<1>4. \A i \in 1 .. Count : data[(rdp + i - 1) % Size] \in Words
  BY <1>3 DEF TypeOK
<1> QED
  BY <1>1, <1>2, <1>3, <1>4 DEF Unread

(* Storing a word touches no unread slot.                                  *)
LEMMA UnreadStore ==
  ASSUME TypeOK, NEW d \in Words, data' = [data EXCEPT ![wrp] = d],
         rdp' = rdp, wrp' = wrp
  PROVE  Unread' = Unread
<1>1. Count' = Count
  BY DEF Count
<1>2. ASSUME NEW i \in 1 .. Count
      PROVE  data'[(rdp + i - 1) % Size] = data[(rdp + i - 1) % Size]
  <2>1. Count \in Int /\ rdp \in Int /\ rdp + i - 1 = rdp + (i - 1)
    BY UnreadProps, PipeAssumption DEF TypeOK, Slots
  <2>2. (rdp + i - 1) % Size \in Slots \ {wrp}
    BY <2>1, UnreadProps
  <2> QED
    BY <2>2 DEF TypeOK
<1> QED
  BY <1>1, <1>2 DEF Unread

(* Publishing the stored word appends it.                                  *)
LEMMA UnreadAdvance ==
  ASSUME TypeOK, NextSlot(wrp) # rdp, wrp' = NextSlot(wrp), rdp' = rdp, data' = data
  PROVE  Unread' = Append(Unread, data[wrp]) /\ Len(Unread) < Size - 1
<1>1. Count' = Count + 1 /\ Count < Size - 1
  BY CountAdvance, CountProps, PipeAssumption DEF TypeOK
<1>2. Unread' = [i \in 1 .. (Count + 1) |-> data[(rdp + i - 1) % Size]]
  BY <1>1 DEF Unread
<1>3. rdp \in Int /\ Count \in Nat /\ Len(Unread) = Count /\ Unread \in Seq(Words)
  BY UnreadProps, PipeAssumption DEF TypeOK, Slots
<1>4. Append(Unread, data[wrp])
        = [i \in 1 .. (Count + 1) |-> IF i = Count + 1 THEN data[wrp] ELSE Unread[i]]
  BY <1>3
<1>5. ASSUME NEW i \in 1 .. (Count + 1)
      PROVE  data[(rdp + i - 1) % Size]
               = IF i = Count + 1 THEN data[wrp] ELSE Unread[i]
  <2>1. rdp + i - 1 = rdp + (i - 1)
    BY <1>3
  <2>2. CASE i = Count + 1
    BY <1>3, <2>1, <2>2, UnreadProps
  <2>3. CASE i \in 1 .. Count
    BY <1>3, <2>1, <2>3, UnreadProps
  <2> QED
    BY <1>3, <2>2, <2>3
<1> QED
  BY <1>1, <1>2, <1>3, <1>4, <1>5

(* Tail, element by element.                                               *)
LEMMA TailOf ==
  ASSUME NEW S, NEW s \in Seq(S), s # <<>>
  PROVE  Tail(s) = [i \in 1 .. (Len(s) - 1) |-> s[i + 1]]
<1>1. /\ Tail(s) \in Seq(S) /\ Len(Tail(s)) = Len(s) - 1
      /\ \A i \in 1 .. Len(Tail(s)) : Tail(s)[i] = s[i + 1]
  BY HeadTailProperties
<1>2. Tail(s) \in [1 .. Len(Tail(s)) -> S]
  BY <1>1, LenProperties
<1>3. Tail(s) = [i \in 1 .. Len(Tail(s)) |-> Tail(s)[i]]
  BY <1>2
<1> QED
  BY <1>1, <1>3

(* Taking a word takes the oldest one.                                     *)
LEMMA UnreadTake ==
  ASSUME TypeOK, rdp # wrp, rdp' = NextSlot(rdp), wrp' = wrp, data' = data
  PROVE  Unread # <<>> /\ Unread' = Tail(Unread) /\ Head(Unread) = data[rdp]
<1>1. Count' = Count - 1 /\ Count > 0
  BY CountTake, CountProps, PipeAssumption DEF TypeOK
<1>2. Unread' = [i \in 1 .. (Count - 1) |-> data[(rdp' + i - 1) % Size]]
  BY <1>1 DEF Unread
<1>3. /\ rdp \in Int /\ Count \in Nat /\ Len(Unread) = Count /\ Unread \in Seq(Words)
      /\ Count <= Size - 1
  BY UnreadProps, PipeAssumption DEF TypeOK, Slots
<1>n. Unread # <<>>
  BY <1>1, <1>3
<1>4. Tail(Unread) = [i \in 1 .. (Count - 1) |-> Unread[i + 1]]
  BY <1>3, <1>n, TailOf
<1>5. ASSUME NEW i \in 1 .. (Count - 1)
      PROVE  data[(rdp' + i - 1) % Size] = Unread[i + 1]
  <2>1. Unread[i + 1] = data[(rdp + i) % Size]
    BY <1>3, UnreadProps
  <2>2. rdp' = IF rdp = Size - 1 THEN 0 ELSE rdp + 1
    BY NextSlotProps DEF TypeOK
  <2>3. rdp' \in Slots /\ rdp' + i - 1 = rdp' + (i - 1) /\ i - 1 \in 0 .. (Size - 1)
    BY <1>3, <2>2, PipeAssumption DEF TypeOK, Slots
  <2>4. (rdp' + (i - 1)) % Size = IF rdp' + (i - 1) < Size THEN rdp' + (i - 1)
                                                            ELSE rdp' + (i - 1) - Size
    BY <2>3, SlotOf
  <2>5. (rdp + i) % Size = IF rdp + i < Size THEN rdp + i ELSE rdp + i - Size
    <3>1. i \in 0 .. (Size - 1)
      BY <1>3, PipeAssumption
    <3> QED
      BY <3>1, SlotOf DEF TypeOK
  <2>6. (rdp' + i - 1) % Size = (rdp + i) % Size
    BY <1>3, <2>2, <2>3, <2>4, <2>5, PipeAssumption DEF TypeOK, Slots
  <2> QED
    BY <2>1, <2>6
<1>6. Head(Unread) = data[rdp]
  <2>1. Unread[1] = data[(rdp + 0) % Size]
    BY <1>1, <1>3, UnreadProps
  <2>2. (rdp + 0) % Size = rdp
    BY ModSize, PipeAssumption DEF TypeOK, Slots
  <2> QED
    BY <1>1, <1>3, <2>1, <2>2
<1> QED
  BY <1>1, <1>2, <1>3, <1>4, <1>5, <1>6

(* A write offers its word until it has advanced wrp, and offers it alone. *)
LEMMA OfferedProps ==
  ASSUME OneWrite, NEW t \in Writers, Active(t)
  PROVE  Offered = IF w[t].pc \in WriterPCs \ {"idle", "wake", "unlock"}
                   THEN {w[t].word} ELSE {}
BY DEF OneWrite, Active, Offered

(* Nobody writes, nothing is offered.                                      *)
LEMMA NothingOffered ==
  ASSUME \A t \in Writers : ~Active(t) PROVE Offered = {}
BY DEF Active, Offered

(* A writer that stays on one side of `advance' changes no offer.          *)
LEMMA OfferStays ==
  ASSUME TypeOK, NEW t \in Writers, NEW pc \in WriterPCs, Goto(t, pc),
         \/ /\ w[t].pc \in WriterPCs \ {"idle", "wake", "unlock"}
            /\ pc \in WriterPCs \ {"idle", "wake", "unlock"}
         \/ /\ w[t].pc \in {"idle", "wake", "unlock"}
            /\ pc \in {"idle", "wake", "unlock"}
  PROVE  Offered' = Offered
<1>1. /\ w'[t].pc = pc /\ w'[t].word = w[t].word
      /\ \A u \in Writers \ {t} : w'[u] = w[u]
  BY GotoProps DEF TypeOK
<1>2. \A u \in Writers :
        /\ w'[u].word = w[u].word
        /\ w'[u].pc \in WriterPCs \ {"idle", "wake", "unlock"}
             <=> w[u].pc \in WriterPCs \ {"idle", "wake", "unlock"}
  BY <1>1
<1> QED
  BY <1>2 DEF Offered

(* Every step of the two threads is an Offer, a Put, a Get or no step of   *)
(* the queue.                                                              *)
LEMMA StepRefines ==
  ASSUME Serialised = TRUE, TypeOK, PipeInv, PipeInv', [Next]_vars
  PROVE  [Fifo!Next]_(Fifo!vars)
<1> USE DEF Fifo!Next, Fifo!vars
<1>1. ASSUME NEW t \in Writers, Advance(t) PROVE Fifo!Put
  <2>1. data[wrp] = w[t].word /\ wrp' = NextSlot(wrp) /\ NextSlot(wrp) # rdp
    BY <1>1 DEF Advance, PipeInv, WriterState, WriterPCs
  <2>2. Unread' = Append(Unread, w[t].word) /\ Len(Unread) < Size - 1
    BY <1>1, <2>1, UnreadAdvance DEF Advance
  <2>3. Offered = {w[t].word}
    BY <1>1, OfferedProps DEF Advance, Active, PipeInv, WriterPCs
  <2>4. w'[t].pc = "wake"
    BY <1>1, GotoProps DEF Advance, TypeOK, WriterPCs
  <2>5. Offered' = {}
    BY <2>4 DEF Offered, Active, PipeInv, OneWrite
  <2> QED
    BY <1>1, <2>2, <2>3, <2>5 DEF Fifo!Put, Advance
<1>2. ASSUME Take PROVE Fifo!Get
  <2>1. rdp # wrp
    BY <1>2 DEF Take, PipeInv, ReaderState
  <2>2. Unread # <<>> /\ Unread' = Tail(Unread) /\ Head(Unread) = data[rdp]
    BY <1>2, <2>1, UnreadTake DEF Take
  <2>3. Offered' = Offered
    BY <1>2 DEF Take, Offered
  <2> QED
    BY <1>2, <2>2, <2>3 DEF Fifo!Get, Take
<1>3. ASSUME NEW t \in Writers, Store(t) PROVE UNCHANGED <<Offered, Unread, got>>
  <2>1. w[t].word \in Words
    BY DEF TypeOK, Calls
  <2>2. UNCHANGED Offered
    BY <1>3, OfferStays DEF Store, WriterPCs
  <2> QED
    BY <1>3, <2>1, <2>2, UnreadStore DEF Store
<1>4. ASSUME UNCHANGED <<data, rdp, wrp>> PROVE UNCHANGED Unread
  BY <1>4 DEF Unread, Count
<1>5. ASSUME NEW t \in Writers, NEW d \in Words, Write(t, d) PROVE Fifo!Offer(d)
  <2>1. Offered = {}
    BY <1>5, NothingOffered DEF Write
  <2>2. /\ w'[t].word = d /\ w'[t].pc \in {"store", "lock"}
        /\ \A u \in Writers \ {t} : w'[u] = w[u] /\ w'[u].pc = "idle"
    BY <1>5 DEF Write, Active, TypeOK
  <2>3. Offered' = {d}
    BY <2>2 DEF Offered, WriterPCs
  <2>4. UNCHANGED <<Unread, got>>
    BY <1>4, <1>5 DEF Write, pipe
  <2> QED
    BY <2>1, <2>3, <2>4 DEF Fifo!Offer
<1>6. ASSUME NEW t \in Writers,
             \/ WriterLock(t) \/ HasRoom(t) \/ PipeFull(t) \/ WriterWoken(t)
             \/ WriterRelock(t) \/ MaybeWakeReader(t) \/ WriterUnlock(t)
      PROVE  UNCHANGED <<Offered, Unread, got>>
  <2>1. UNCHANGED <<data, rdp, wrp, got>>
    BY <1>6 DEF WriterLock, HasRoom, PipeFull, WriterWoken, WriterRelock,
                MaybeWakeReader, WriterUnlock, pipe
  <2>2. ASSUME WriterLock(t) \/ HasRoom(t) \/ PipeFull(t) \/ WriterWoken(t) \/ WriterRelock(t)
        PROVE  UNCHANGED Offered
    BY <2>2, OfferStays DEF WriterLock, HasRoom, PipeFull, WriterWoken, WriterRelock, WriterPCs
  <2>3. ASSUME MaybeWakeReader(t) \/ WriterUnlock(t) PROVE UNCHANGED Offered
    BY <2>3, OfferStays DEF MaybeWakeReader, WriterUnlock, WriterPCs
  <2> QED
    BY <1>4, <1>6, <2>1, <2>2, <2>3
<1>7. ASSUME \/ Read \/ HasWord \/ PipeEmpty \/ ReaderRelease \/ ReaderWoken
             \/ ReaderRelock \/ ReaderUnlock \/ UNCHANGED vars
      PROVE  UNCHANGED <<Offered, Unread, got>>
  <2>1. UNCHANGED <<data, rdp, wrp, w, got>>
    BY <1>7 DEF Read, HasWord, PipeEmpty, ReaderRelease, ReaderWoken, ReaderRelock,
                ReaderUnlock, pipe, vars
  <2> QED
    BY <1>4, <2>1 DEF Offered
<1> QED
  BY <1>1, <1>2, <1>3, <1>5, <1>6, <1>7 DEF Next, WriterStep, ReaderStep

(* The pipe implements the bounded queue: the word of every write is put   *)
(* into it once and read once, unchanged and in order, and never more than *)
(* Size - 1 words are unread.                                              *)
THEOREM PipeIsQueue == ASSUME Serialised = TRUE PROVE Spec => ImplementsFifo
<1>1. Init => Fifo!Init
  <2> SUFFICES ASSUME Init PROVE Offered = {} /\ Unread = <<>> /\ got \in Words
    BY DEF Fifo!Init
  <2>1. Count = 0 /\ got \in Words
    BY CountProps, PipeAssumption DEF Init, Slots
  <2>2. PICK d \in Words :
          w = [t \in Writers |->
                [pc |-> "idle", path |-> "locked", nxwrp |-> 0, word |-> d]]
    BY DEF Init
  <2>3. \A t \in Writers : ~Active(t)
    BY <2>2 DEF Active
  <2> QED
    BY <2>1, <2>3, NothingOffered DEF Unread
<1>2. TypeOK /\ PipeInv /\ PipeInv' /\ [Next]_vars => [Fifo!Next]_(Fifo!vars)
  BY StepRefines
<1> QED
  BY <1>1, <1>2, TypeCorrect, HandshakeCorrect, PTL DEF Spec, ImplementsFifo, Fifo!Spec
----------------------------------------------------------------------------
(* A sleeping reader has missed nothing                                    *)

(* The reason: while the reader is announced asleep, a no_buffer word can  *)
(* only be the newest one in the pipe, and the writer that has just        *)
(* published it has still to call maybe_wake_reader.                       *)
FlushIsNews ==
  reader_waiting = 1 =>
    \A i \in DOMAIN Unread :
      Unread[i] \in Flush =>
        \E t \in Writers : w[t].pc = "wake" /\ w[t].word = Unread[i]

(* The start: nothing in the pipe.                                         *)
LEMMA FlushInit == ASSUME Init PROVE FlushIsNews
BY DEF Init, FlushIsNews

(* A step that changes neither the unread words nor a writer about to wake *)
(* the reader, and does not put the reader to sleep, keeps it so.          *)
LEMMA FlushStays ==
  ASSUME FlushIsNews, UNCHANGED <<data, rdp, wrp>>, reader_waiting' = reader_waiting,
         \A t \in Writers : w[t].pc = "wake" => w'[t] = w[t]
  PROVE  FlushIsNews'
<1>1. Unread' = Unread
  BY DEF Unread, Count
<1> QED
  BY <1>1 DEF FlushIsNews

(* Every step keeps it.                                                    *)
LEMMA FlushNext ==
  ASSUME Serialised = TRUE, TypeOK, PipeInv, FlushIsNews, [Next]_vars
  PROVE  FlushIsNews'
<1> USE DEF pipe
<1>1. ASSUME NEW t \in Writers, NEW d \in Words, Write(t, d) PROVE FlushIsNews'
  <2>1. \A u \in Writers : w[u].pc = "idle"
    BY <1>1 DEF Write, Active
  <2> QED
    BY <1>1, <2>1, FlushStays DEF Write
<1>2. ASSUME NEW t \in Writers,
             \/ WriterLock(t) \/ HasRoom(t) \/ PipeFull(t) \/ WriterWoken(t)
             \/ WriterRelock(t) \/ WriterUnlock(t)
      PROVE  FlushIsNews'
  <2>1. w[t].pc # "wake" /\ UNCHANGED <<data, rdp, wrp, reader_waiting>>
    BY <1>2 DEF WriterLock, HasRoom, PipeFull, WriterWoken, WriterRelock, WriterUnlock
  <2>2. \A u \in Writers \ {t} : w'[u] = w[u]
    BY <1>2, GotoProps DEF TypeOK, WriterLock, HasRoom, PipeFull, WriterWoken,
                           WriterRelock, WriterUnlock, WriterPCs
  <2> QED
    BY <2>1, <2>2, FlushStays
<1>3. ASSUME NEW t \in Writers, Store(t) PROVE FlushIsNews'
  <2>1. \A u \in Writers \ {t} : w'[u] = w[u]
    BY <1>3, GotoProps DEF Store, TypeOK, WriterPCs
  <2>2. w[t].word \in Words
    BY DEF TypeOK, Calls
  <2>3. Unread' = Unread
    BY <1>3, <2>2, UnreadStore DEF Store
  <2>4. w[t].pc = "store" /\ reader_waiting' = reader_waiting
    BY <1>3 DEF Store
  <2> QED
    BY <2>1, <2>3, <2>4 DEF FlushIsNews
<1>4. ASSUME NEW t \in Writers, Advance(t) PROVE FlushIsNews'
  <2> SUFFICES ASSUME reader_waiting = 1, NEW i \in DOMAIN Unread', Unread'[i] \in Flush
               PROVE  w'[t].pc = "wake" /\ w'[t].word = Unread'[i]
    BY <1>4 DEF FlushIsNews, Advance
  <2>1. w'[t].pc = "wake" /\ w'[t].word = w[t].word
    BY <1>4, GotoProps DEF Advance, TypeOK, WriterPCs
  <2>2. data[wrp] = w[t].word /\ wrp' = NextSlot(wrp) /\ NextSlot(wrp) # rdp
    BY <1>4 DEF Advance, PipeInv, WriterState, WriterPCs
  <2>3. Unread' = Append(Unread, w[t].word)
    BY <1>4, <2>2, UnreadAdvance DEF Advance
  <2>4. \A u \in Writers : w[u].pc # "wake"
    BY <1>4 DEF Advance, PipeInv, OneWrite, Active
  <2>5. \A j \in DOMAIN Unread : Unread[j] \notin Flush
    BY <2>4 DEF FlushIsNews
  <2>6. Unread \in Seq(Words) /\ w[t].word \in Words
    BY UnreadProps DEF TypeOK, Calls
  <2>7. CASE i \in DOMAIN Unread
    BY <2>3, <2>5, <2>6, <2>7
  <2>8. CASE i \notin DOMAIN Unread
    BY <2>1, <2>3, <2>6, <2>8
  <2> QED
    BY <2>7, <2>8
<1>5. ASSUME NEW t \in Writers, MaybeWakeReader(t) PROVE FlushIsNews'
  <2>1. CASE WakeDue(t)
    BY <1>5, <2>1 DEF MaybeWakeReader, FlushIsNews
  <2>2. CASE ~WakeDue(t)
    <3>1. reader_waiting' = reader_waiting /\ Unread' = Unread
      BY <1>5, <2>2 DEF MaybeWakeReader, Unread, Count
    <3>2. \A u \in Writers : w[u].pc = "wake" => u = t
      BY <1>5 DEF MaybeWakeReader, PipeInv, OneWrite, Active
    <3>3. reader_waiting = 1 => w[t].word \notin Flush
      BY <2>2 DEF WakeDue
    <3>4. reader_waiting = 1 => \A i \in DOMAIN Unread : Unread[i] \notin Flush
      BY <3>2, <3>3 DEF FlushIsNews
    <3> QED
      BY <3>1, <3>4 DEF FlushIsNews
  <2> QED
    BY <2>1, <2>2
<1>6. CASE PipeEmpty
  <2>1. rdp' = wrp' /\ rdp' \in Slots
    BY <1>6 DEF PipeEmpty, TypeOK
  <2>2. Count' = Count /\ Count = 0
    BY <1>6, CountProps DEF PipeEmpty, TypeOK, Count
  <2>3. Unread' = <<>>
    BY <2>2 DEF Unread
  <2> QED
    BY <2>3 DEF FlushIsNews
<1>7. CASE Take
  <2>1. reader_waiting' = 0
    BY <1>7 DEF Take, PipeInv, ReaderState, TypeOK
  <2> QED
    BY <2>1 DEF FlushIsNews
<1>8. ASSUME \/ Read \/ HasWord \/ ReaderRelease \/ ReaderWoken
             \/ ReaderRelock \/ ReaderUnlock \/ UNCHANGED vars
      PROVE  FlushIsNews'
  <2>1. UNCHANGED <<data, rdp, wrp, w, reader_waiting>>
    BY <1>8 DEF Read, HasWord, ReaderRelease, ReaderWoken, ReaderRelock, ReaderUnlock, vars
  <2> QED
    BY <2>1, FlushStays
<1> QED
  BY <1>1, <1>2, <1>3, <1>4, <1>5, <1>6, <1>7, <1>8 DEF Next, WriterStep, ReaderStep

(* A reader that sleeps with no post on its way has missed neither a       *)
(* no_buffer word nor `chunks' words.                                      *)
THEOREM WakeupsNotLost == ASSUME Serialised = TRUE PROVE Spec => []NoLostWakeup
<1>1. TypeOK /\ PipeInv /\ FlushIsNews /\ [Next]_vars => FlushIsNews'
  BY FlushNext
<1>2. Init => FlushIsNews
  BY FlushInit
<1>3. Spec => []FlushIsNews
  BY <1>1, <1>2, TypeCorrect, HandshakeCorrect, PTL DEF Spec
<1>4. PipeInv /\ FlushIsNews => NoLostWakeup
  BY DEF PipeInv, ReaderState, FlushIsNews, NoLostWakeup
<1> QED
  BY <1>3, <1>4, HandshakeCorrect, PTL
=============================================================================
