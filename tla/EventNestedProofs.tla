------------------------- MODULE EventNestedProofs -------------------------
(***************************************************************************)
(* Proofs about EventSched whatever the handlers do: they may ask for      *)
(* events, which calls MISC_handler inside MISC_handler, and be run early  *)
(* to make room for them, to any depth.  MISC_handler leaves nothing       *)
(* behind that is due, and no event is lost or runs twice.                 *)
(***************************************************************************)
EXTENDS EventSchedProofs

----------------------------------------------------------------------------
(* The inductive invariant                                                 *)

(* Slot s of the table holds an event that is due in cycle cc.             *)
DueIn(cc, tab2, s) == tab2[s].active /\ tab2[s].evtime = cc

(* do_cycles runs above an instruction only, with cycles left that end in  *)
(* time.                                                                   *)
CyclesOK(stk, j, cc) ==
  stk[j].at = "cycles" => j = 2 /\ cc + stk[j].todo <= MaxCycle

(* event2_newevent_xx is left for a handler that makes room; what is to be *)
(* put lies ahead.                                                         *)
NeweventOK(stk, j, cc) ==
  stk[j].at = "newevent" => /\ j < Len(stk) /\ stk[j + 1].at = "code"
                            /\ cc < stk[j].et /\ stk[j].func # Blitter

(* The first n slots a scan m looks at hold nothing due.                   *)
Passed(m, n, cc, tab2) ==
  \A k \in 0 .. Slots - 1 : k < n => ~DueIn(cc, tab2, SlotOf(m, k))

(* A scan is in cycle cc and has left nothing behind that is due.          *)
ScanIn(m, cc, tab2) == m.at = "misc" => m.ct = cc /\ Passed(m, m.i, cc, tab2)

(* Every scan of MISC_handler, those that wait for a handler too, is in    *)
(* this cycle, and has left nothing behind it that is due.                 *)
MiscOK(stk, j, cc, tab2) ==
  /\ ScanIn(stk[j], cc, tab2)
  /\ stk[j].at = "misc" /\ j < Len(stk) =>
       /\ stk[j + 1].at = "code" /\ stk[j].i < Slots
       /\ ~DueIn(cc, tab2, SlotOf(stk[j], stk[j].i))

NestIn(stk, cc, tab2) ==
  /\ stk \in Seq(Frame)
  /\ Len(stk) > 0 /\ stk[1].at = "code"
  /\ \A j \in 1 .. Len(stk) : /\ CyclesOK(stk, j, cc) /\ NeweventOK(stk, j, cc)
                              /\ MiscOK(stk, j, cc, tab2)

(* event2cnt counts the scans that wait for a handler.                     *)
Waiting(stk) == {j \in 1 .. Len(stk) - 1 : stk[j].at = "misc"}
Counted      == event2cnt = Cardinality(Waiting(stack)) /\ event2restart \in Nat

(* The blitter's event is in its slot and nowhere else.                    *)
BlitterSlot(tab2) ==
  \A s \in 0 .. Slots - 1 : tab2[s].active => (s = 0 <=> tab2[s].func = Blitter)

Nested == /\ Types /\ Counted /\ BlitterSlot(eventtab2)
          /\ NestIn(stack, currcycle, eventtab2)

----------------------------------------------------------------------------
(* The calls under way, seen as a sequence                                 *)

(* The kinds of calls.                                                     *)
LEMMA Kinds ==
  /\ \A f \in Frame : /\ f.at \in {"code", "cycles", "misc", "newevent"}
                      /\ f.at = "code" <=> f \in CodeFrame
                      /\ f.at = "cycles" <=> f \in CyclesFrame
                      /\ f.at = "misc" <=> f \in MiscFrame
                      /\ f.at = "newevent" <=> f \in NewFrame
BY DEF Frame, CodeFrame, CyclesFrame, MiscFrame, NewFrame

(* Calls that wait are not disturbed by a table with nothing more due.     *)
LEMMA NestKept ==
  ASSUME NEW stk, NEW cc, NEW tab2, NEW new2, NestIn(stk, cc, tab2),
         \A s \in 0 .. Slots - 1 : DueIn(cc, new2, s) => DueIn(cc, tab2, s)
  PROVE  NestIn(stk, cc, new2)
<1> SUFFICES ASSUME NEW j \in 1 .. Len(stk) PROVE MiscOK(stk, j, cc, new2)
  BY DEF NestIn
<1> SUFFICES ASSUME stk[j].at = "misc"
             PROVE  /\ Passed(stk[j], stk[j].i, cc, new2)
                    /\ j < Len(stk) => ~DueIn(cc, new2, SlotOf(stk[j], stk[j].i))
  BY DEF NestIn, MiscOK, ScanIn
<1>1. stk[j] \in MiscFrame
  <2>1. stk[j] \in Frame
    BY DEF NestIn
  <2> QED
    BY <2>1, Kinds
<1>2. stk[j].idx2 \in 0 .. Slots - 1 /\ stk[j].i \in 0 .. Slots
  BY <1>1 DEF MiscFrame
<1>3. \A k \in 0 .. Slots - 1 : SlotOf(stk[j], k) \in 0 .. Slots - 1
  BY <1>2, SlotProps DEF SlotOf
<1>4. j < Len(stk) => stk[j].i \in 0 .. Slots - 1
  BY <1>2, Sizes DEF NestIn, MiscOK
<1> QED
  BY <1>3, <1>4 DEF NestIn, MiscOK, ScanIn, Passed

(* The call on top is changed, but not what it is.                         *)
LEMMA NestChanged ==
  ASSUME NEW stk, NEW cc, NEW tab2, NestIn(stk, cc, tab2), NEW f \in Frame,
         f.at = stk[Len(stk)].at, f.at \in {"code", "cycles", "misc"},
         f.at = "cycles" => f.todo = stk[Len(stk)].todo,
         ScanIn(f, cc, tab2),
         NEW t \in Seq(Frame), Len(t) = Len(stk),
         \A j \in 1 .. Len(stk) : t[j] = IF j = Len(stk) THEN f ELSE stk[j]
  PROVE  NestIn(t, cc, tab2) /\ Waiting(t) = Waiting(stk)
<1>1. stk \in Seq(Frame) /\ Len(stk) \in 1 .. Len(stk) /\ Len(stk) \in Nat
  BY DEF NestIn
<1>2. t \in Seq(Frame) /\ Len(t) = Len(stk) /\ t[Len(stk)] = f
  BY <1>1
<1>3. \A j \in 1 .. Len(stk) : t[j].at = stk[j].at /\ (j # Len(stk) => t[j] = stk[j])
  OBVIOUS
<1>4. ASSUME NEW j \in 1 .. Len(t)
      PROVE  CyclesOK(t, j, cc) /\ NeweventOK(t, j, cc) /\ MiscOK(t, j, cc, tab2)
  <2>1. CyclesOK(stk, j, cc) /\ NeweventOK(stk, j, cc) /\ MiscOK(stk, j, cc, tab2)
    BY <1>2 DEF NestIn
  <2>2. CASE j = Len(t)
    BY <1>1, <1>2, <1>3, <2>1, <2>2 DEF CyclesOK, NeweventOK, MiscOK
  <2>3. CASE j # Len(t)
    <3>1. j + 1 \in 1 .. Len(t) /\ t[j] = stk[j] /\ t[j + 1].at = stk[j + 1].at
      BY <1>1, <1>2, <1>3, <2>3
    <3> QED
      BY <1>2, <2>1, <3>1 DEF CyclesOK, NeweventOK, MiscOK
  <2> QED
    BY <2>2, <2>3
<1>5. Waiting(t) = Waiting(stk)
  BY <1>1, <1>2, <1>3 DEF Waiting
<1>6. NestIn(t, cc, tab2)
  <2>1. t[1].at = "code" /\ Len(t) > 0
    BY <1>1, <1>2, <1>3 DEF NestIn
  <2> QED
    BY <1>2, <1>4, <2>1 DEF NestIn
<1> QED
  BY <1>5, <1>6

(* Code, do_cycles or MISC_handler is called; or a handler by a scan that  *)
(* has found nothing else due.                                             *)
LEMMA NestPushed ==
  ASSUME NEW stk, NEW cc, NEW tab2, NestIn(stk, cc, tab2), NEW f \in Frame,
         f.at # "newevent",
         f.at = "cycles" => Len(stk) = 1 /\ cc + f.todo <= MaxCycle,
         f.at = "misc" => f.ct = cc /\ f.i = 0,
         LET top == stk[Len(stk)]
         IN  top.at = "misc" => /\ f.at = "code" /\ top.i < Slots
                                /\ ~DueIn(cc, tab2, SlotOf(top, top.i))
  PROVE  /\ NestIn(Append(stk, f), cc, tab2)
         /\ Waiting(Append(stk, f)) = IF stk[Len(stk)].at = "misc"
                                      THEN Waiting(stk) \cup {Len(stk)} ELSE Waiting(stk)
<1> DEFINE t == Append(stk, f)
<1>0. t = Append(stk, f)
  OBVIOUS
<1> HIDE DEF t
<1>1. stk \in Seq(Frame) /\ Len(stk) \in 1 .. Len(stk) /\ Len(stk) \in Nat
  BY DEF NestIn
<1>2. /\ t \in Seq(Frame) /\ Len(t) = Len(stk) + 1 /\ t[Len(t)] = f
      /\ \A j \in 1 .. Len(stk) : t[j] = stk[j]
  BY <1>0, <1>1, AppendProperties
<1>3. ASSUME NEW j \in 1 .. Len(t)
      PROVE  CyclesOK(t, j, cc) /\ NeweventOK(t, j, cc) /\ MiscOK(t, j, cc, tab2)
  <2>1. CASE j = Len(t)
    BY <1>1, <1>2, <2>1, Sizes DEF CyclesOK, NeweventOK, MiscOK, ScanIn, Passed
  <2>2. CASE j # Len(t)
    <3>1. j \in 1 .. Len(stk) /\ t[j] = stk[j]
      BY <1>1, <1>2, <2>2
    <3>2. CyclesOK(stk, j, cc) /\ NeweventOK(stk, j, cc) /\ MiscOK(stk, j, cc, tab2)
      BY <3>1 DEF NestIn
    <3>3. CASE j = Len(stk)
      BY <1>1, <1>2, <3>1, <3>2, <3>3 DEF CyclesOK, NeweventOK, MiscOK
    <3>4. CASE j # Len(stk)
      <4>1. /\ j + 1 \in 1 .. Len(stk) /\ t[j + 1] = stk[j + 1]
            /\ j < Len(stk) /\ j < Len(t)
        BY <1>1, <1>2, <3>1, <3>4
      <4> QED
        BY <3>1, <3>2, <4>1 DEF CyclesOK, NeweventOK, MiscOK
    <3> QED
      BY <3>3, <3>4
  <2> QED
    BY <2>1, <2>2
<1>4. Waiting(t) = IF stk[Len(stk)].at = "misc"
                   THEN Waiting(stk) \cup {Len(stk)} ELSE Waiting(stk)
  <2>1. Waiting(t) = {j \in 1 .. Len(stk) : stk[j].at = "misc"}
    BY <1>1, <1>2 DEF Waiting
  <2> QED
    BY <1>1, <2>1 DEF Waiting
<1>5. NestIn(t, cc, tab2)
  <2>1. t[1].at = "code" /\ Len(t) > 0
    BY <1>1, <1>2 DEF NestIn
  <2> QED
    BY <1>2, <1>3, <2>1 DEF NestIn
<1> QED
  BY <1>4, <1>5 DEF t

(* The call on top returns, or the two on top do.                          *)
LEMMA NestPopped ==
  ASSUME NEW stk, NEW cc, NEW tab2, NestIn(stk, cc, tab2),
         NEW t \in Seq(Frame), Len(t) < Len(stk), Len(t) > 0,
         \A j \in 1 .. Len(t) : t[j] = stk[j],
         stk[Len(t)].at # "newevent"
  PROVE  /\ NestIn(t, cc, tab2)
         /\ Waiting(t) = {j \in Waiting(stk) : j < Len(t)}
<1>1. Len(t) \in Nat /\ Len(stk) \in Nat
  BY DEF NestIn
<1>2. ASSUME NEW j \in 1 .. Len(t)
      PROVE  CyclesOK(t, j, cc) /\ NeweventOK(t, j, cc) /\ MiscOK(t, j, cc, tab2)
  <2>1. j \in 1 .. Len(stk) /\ t[j] = stk[j]
    BY <1>1
  <2>2. CyclesOK(stk, j, cc) /\ NeweventOK(stk, j, cc) /\ MiscOK(stk, j, cc, tab2)
    BY <2>1 DEF NestIn
  <2>3. CASE j = Len(t)
    BY <1>1, <2>1, <2>2, <2>3 DEF CyclesOK, NeweventOK, MiscOK
  <2>4. CASE j # Len(t)
    <3>1. j < Len(t) /\ j < Len(stk) /\ t[j + 1] = stk[j + 1]
      BY <1>1, <2>4
    <3> QED
      BY <2>1, <2>2, <3>1 DEF CyclesOK, NeweventOK, MiscOK
  <2> QED
    BY <2>3, <2>4
<1>3. t[1].at = "code"
  BY <1>1 DEF NestIn
<1>4. Waiting(t) = {j \in Waiting(stk) : j < Len(t)}
  BY <1>1 DEF Waiting
<1> QED
  BY <1>2, <1>3, <1>4 DEF NestIn

(* A handler returns to its scan, which goes on with the next slot, or     *)
(* with the second one; a timer's handler or MISC_handler returns.         *)
LEMMA NestReturned ==
  ASSUME NEW stk, NEW cc, NEW tab2, NestIn(stk, cc, tab2), Len(stk) > 1,
         LET b == stk[Len(stk) - 1] IN b.at # "newevent"
  PROVE  LET b == stk[Len(stk) - 1]
             t == Front(stk)
         IN  /\ NestIn(t, cc, tab2) /\ Len(t) = Len(stk) - 1 /\ t[Len(t)] = b
             /\ b.at # "misc" => Waiting(t) = Waiting(stk)
             /\ b.at = "misc" => /\ Len(stk) - 1 \in Waiting(stk)
                                 /\ Waiting(t) = Waiting(stk) \ {Len(stk) - 1}
<1> DEFINE t == Front(stk)
           b == stk[Len(stk) - 1]
<1>1. stk \in Seq(Frame) /\ Len(stk) \in Nat
  BY DEF NestIn
<1>2. /\ t \in Seq(Frame) /\ Len(t) = Len(stk) - 1
      /\ \A j \in 1 .. Len(stk) - 1 : t[j] = stk[j]
  BY <1>1, FrontIs
<1> HIDE DEF t
<1>3. NestIn(t, cc, tab2) /\ Waiting(t) = {j \in Waiting(stk) : j < Len(t)}
  BY <1>1, <1>2, NestPopped
<1>4. Waiting(t) = {j \in Waiting(stk) : j # Len(stk) - 1}
  BY <1>1, <1>2, <1>3 DEF Waiting
<1>5. Len(stk) - 1 \in Waiting(stk) <=> b.at = "misc"
  BY <1>1 DEF Waiting
<1>6. t[Len(t)] = b
  BY <1>1, <1>2
<1> QED
  BY <1>2, <1>3, <1>4, <1>5, <1>6 DEF t

(* The handler returns that has made room.                                 *)
LEMMA NestReturned2 ==
  ASSUME NEW stk, NEW cc, NEW tab2, NestIn(stk, cc, tab2), Len(stk) > 1,
         stk[Len(stk) - 1].at = "newevent"
  PROVE  LET t == SubSeq(stk, 1, Len(stk) - 2)
         IN  /\ NestIn(t, cc, tab2) /\ Waiting(t) = Waiting(stk)
             /\ t[Len(t)].at \in {"code", "cycles"}
<1> DEFINE n == Len(stk) - 2
           t == SubSeq(stk, 1, n)
<1>1. stk \in Seq(Frame) /\ Len(stk) \in Nat /\ stk[1].at = "code"
  BY DEF NestIn
<1>2. n \in Nat /\ n > 0 /\ n \in 1 .. Len(stk) /\ n + 1 = Len(stk) - 1 /\ n + 1 \in 1 .. Len(stk)
  BY <1>1
<1>3. stk[n].at # "newevent" /\ stk[n].at # "misc"
  <2>1. NeweventOK(stk, n, cc) /\ MiscOK(stk, n, cc, tab2)
    BY <1>2 DEF NestIn
  <2> QED
    BY <1>2, <2>1 DEF NeweventOK, MiscOK
<1>4. \A j \in 1 .. n : stk[j] \in Frame
  BY <1>1, <1>2
<1>5. t \in Seq(Frame) /\ Len(t) = n /\ \A j \in 1 .. n : t[j] = stk[j]
  <2> HIDE DEF n
  <2>1. /\ SubSeq(stk, 1, n) \in Seq(Frame)
        /\ Len(SubSeq(stk, 1, n)) = IF 1 <= n THEN n - 1 + 1 ELSE 0
        /\ \A j \in 1 .. n - 1 + 1 : SubSeq(stk, 1, n)[j] = stk[1 + j - 1]
    BY <1>2, <1>4, SubSeqProperties
  <2>2. n - 1 + 1 = n /\ \A j \in 1 .. n : 1 + j - 1 = j
    BY <1>2
  <2> QED
    BY <1>2, <2>1, <2>2
<1> HIDE DEF t
<1>6. NestIn(t, cc, tab2) /\ Waiting(t) = {j \in Waiting(stk) : j < Len(t)}
  BY <1>1, <1>2, <1>3, <1>5, NestPopped
<1>7. Waiting(t) = Waiting(stk)
  <2>1. \A j \in Waiting(stk) : j \in 1 .. Len(stk) - 1 /\ j # n /\ j # n + 1
    BY <1>2, <1>3 DEF Waiting
  <2>2. \A j \in Waiting(stk) : j < n
    BY <1>1, <2>1
  <2> QED
    BY <1>5, <1>6, <2>2
<1>8. stk[n].at \in {"code", "cycles"}
  <2>1. stk[n] \in Frame
    BY <1>2, <1>4
  <2> QED
    BY <1>3, <2>1, Kinds
<1> QED
  BY <1>2, <1>5, <1>6, <1>7, <1>8 DEF t

(* A handler is called to make room.                                       *)
LEMMA NestMakesRoom ==
  ASSUME NEW stk, NEW cc, NEW tab2, NestIn(stk, cc, tab2),
         stk[Len(stk)].at \in {"code", "cycles"},
         NEW f \in NewFrame, cc < f.et, f.func # Blitter, NEW c \in CodeFrame
  PROVE  NestIn(stk \o <<f, c>>, cc, tab2) /\ Waiting(stk \o <<f, c>>) = Waiting(stk)
<1> DEFINE t == stk \o <<f, c>>
<1>0. t = stk \o <<f, c>>
  OBVIOUS
<1> HIDE DEF t
<1>1. stk \in Seq(Frame) /\ Len(stk) \in 1 .. Len(stk) /\ Len(stk) \in Nat
  BY DEF NestIn
<1>2. f \in Frame /\ c \in Frame /\ f.at = "newevent" /\ c.at = "code"
  BY DEF Frame, NewFrame, CodeFrame
<1>3. /\ t \in Seq(Frame) /\ Len(t) = Len(stk) + 2
      /\ t[Len(stk) + 1] = f /\ t[Len(stk) + 2] = c
      /\ \A j \in 1 .. Len(stk) : t[j] = stk[j]
  <2>1. <<f, c>> \in Seq(Frame) /\ Len(<<f, c>>) = 2
    BY <1>2
  <2> QED
    BY <1>0, <1>1, <2>1
<1>4. ASSUME NEW j \in 1 .. Len(t)
      PROVE  CyclesOK(t, j, cc) /\ NeweventOK(t, j, cc) /\ MiscOK(t, j, cc, tab2)
  <2>1. CASE j = Len(stk) + 2
    BY <1>2, <1>3, <2>1 DEF CyclesOK, NeweventOK, MiscOK, ScanIn
  <2>2. CASE j = Len(stk) + 1
    BY <1>1, <1>2, <1>3, <2>2 DEF CyclesOK, NeweventOK, MiscOK, ScanIn
  <2>3. CASE j \in 1 .. Len(stk)
    <3>1. CyclesOK(stk, j, cc) /\ NeweventOK(stk, j, cc) /\ MiscOK(stk, j, cc, tab2)
      BY <2>3 DEF NestIn
    <3>2. CASE j = Len(stk)
      BY <1>3, <2>3, <3>1, <3>2 DEF CyclesOK, NeweventOK, MiscOK
    <3>3. CASE j # Len(stk)
      <4>1. /\ j + 1 \in 1 .. Len(stk) /\ t[j + 1] = stk[j + 1] /\ t[j] = stk[j]
            /\ j < Len(stk) /\ j < Len(t)
        BY <1>1, <1>3, <2>3, <3>3
      <4> QED
        BY <3>1, <4>1 DEF CyclesOK, NeweventOK, MiscOK
    <3> QED
      BY <3>2, <3>3
  <2> QED
    BY <1>1, <1>3, <2>1, <2>2, <2>3
<1>5. Waiting(t) = Waiting(stk)
  <2>1. \A j \in 1 .. Len(stk) + 1 :
          t[j].at = "misc" <=> j \in 1 .. Len(stk) - 1 /\ stk[j].at = "misc"
    BY <1>1, <1>2, <1>3
  <2> QED
    BY <1>1, <1>3, <2>1 DEF Waiting
<1>6. t[1].at = "code" /\ Len(t) > 0
  BY <1>1, <1>3 DEF NestIn
<1> QED
  BY <1>3, <1>4, <1>5, <1>6 DEF NestIn, t

----------------------------------------------------------------------------
(* event2_newevent_xx                                                      *)

(* The search looks at slot `no', and once round at every slot.            *)
LEMMA SearchRound ==
  ASSUME NEW no \in 1 .. Slots - 1, next \in 1 .. Slots - 1
  PROVE  /\ 0 \in 0 .. Visits(no) - 1 /\ PoolSlot(no, 0) = no
         /\ no = next => \A s \in 1 .. Slots - 1 :
                           \E k \in 0 .. Visits(no) - 1 : PoolSlot(no, k) = s
<1> DEFINE n == Slots - 1
<1>1. n \in Nat \ {0} /\ \A x \in 0 .. (2 * n - 1) : x % n = IF x < n THEN x ELSE x - n
  BY Sizes
<1>2. no \in 1 .. n /\ next \in 1 .. n
  OBVIOUS
<1>3. /\ \A k : PoolSlot(no, k) = 1 + ((no - 1 + k) % n)
      /\ Visits(no) = IF no = next THEN n ELSE (next - no + n) % n
  BY DEF PoolSlot, Visits
<1> HIDE DEF n
<1>4. PoolSlot(no, 0) = no
  <2>1. no - 1 + 0 \in 0 .. (2 * n - 1) /\ no - 1 + 0 < n
    BY <1>1, <1>2
  <2>2. (no - 1 + 0) % n = no - 1 + 0
    BY <1>1, <2>1
  <2> QED
    BY <1>2, <1>3, <2>2
<1>5. Visits(no) \in Nat \ {0}
  <2>1. CASE no = next
    BY <1>1, <1>3, <2>1
  <2>2. CASE no # next
    <3>1. next - no + n \in 0 .. (2 * n - 1) /\ next - no + n # n /\ next - no + n # 0
      BY <1>1, <1>2, <2>2
    <3>2. (next - no + n) % n = IF next - no + n < n THEN next - no + n ELSE next - no + n - n
      BY <1>1, <3>1
    <3> QED
      BY <1>1, <1>2, <1>3, <2>2, <3>1, <3>2
  <2> QED
    BY <2>1, <2>2
<1>6. ASSUME no = next, NEW s \in 1 .. n
      PROVE  \E k \in 0 .. Visits(no) - 1 : PoolSlot(no, k) = s
  <2> DEFINE k == IF no <= s THEN s - no ELSE s - no + n
  <2>1. k \in 0 .. n - 1 /\ no - 1 + k \in 0 .. (2 * n - 1)
        /\ no - 1 + k = IF no <= s THEN s - 1 ELSE s - 1 + n
    BY <1>1, <1>2
  <2> HIDE DEF k
  <2>2. (no - 1 + k) % n = s - 1
    BY <1>1, <1>2, <2>1
  <2>3. k \in 0 .. Visits(no) - 1
    BY <1>3, <1>6, <2>1
  <2>4. PoolSlot(no, k) = s
    <3>1. s \in Nat
      BY <1>1
    <3> QED
      BY <1>3, <2>2, <3>1
  <2> QED
    BY <2>3, <2>4
<1> QED
  BY <1>4, <1>5, <1>6 DEF n

(* What it comes to: a slot is found that is free or holds the same event, *)
(* or there is an event to merge with, or the soonest event is run.        *)
Found(tab2, event, stk) ==
  \E s \in 1 .. Slots - 1 :
    Usable(tab2, event, s) /\ next' = s /\ Put(tab2, s, event, stk)
Merged(tab2, event, stk) ==
  /\ \E s \in 0 .. Slots - 1 :
       /\ tab2[s].active /\ event.func = Ext
       /\ tab2[s].func = Ext /\ tab2[s].evtime = event.evtime
       /\ eventtab2' = [tab2 EXCEPT ![s].data = @ \cup event.data]
  /\ stack' = stk
  /\ UNCHANGED <<nextevent, eventtab, event2idx, event2restart, next>>
MadeRoom(tab2, no, event, stk) ==
  /\ Search(tab2, no, event) = {}
  /\ \E s \in 0 .. Slots - 1 :
       /\ tab2[s].active /\ tab2[s].evtime = Earliest(tab2)
       /\ eventtab2' = [tab2 EXCEPT ![s] = Free]
  /\ stack' = stk \o <<Newevent(next, event.evtime, event.func, event.data),
                       Code(HandlerCalls)>>
  /\ UNCHANGED <<nextevent, eventtab, event2idx, event2restart, next>>

LEMMA PlaceIs ==
  ASSUME NEW tab2 \in Events2, NEW no \in 1 .. Slots - 1, next \in 1 .. Slots - 1,
         NEW event, NEW stk, Place(tab2, no, event, stk)
  PROVE  \/ Found(tab2, event, stk) \/ Merged(tab2, event, stk)
         \/ MadeRoom(tab2, no, event, stk)
<1> DEFINE found == Search(tab2, no, event)
           same  == Mergeable(tab2, event)
           first == Earliest(tab2)
           firsts == {s \in DOMAIN tab2 : tab2[s].active /\ tab2[s].evtime = first}
<1>0. DOMAIN tab2 = 0 .. Slots - 1 /\ 0 .. Slots - 1 \in SUBSET Nat
  BY Sizes DEF Events2
<1>1. CASE found # {}
  <2>1. found \in SUBSET Nat /\ \A k \in found : Usable(tab2, event, PoolSlot(no, k))
    BY DEF Search
  <2>2. Min(found) \in found
    <3> HIDE DEF found
    <3> QED
      BY <1>1, <2>1, MinProps
  <2>3. PoolSlot(no, Min(found)) \in 1 .. Slots - 1
    <3> HIDE DEF found
    <3> QED
      BY <2>1, <2>2, PoolSlotProps
  <2>4. /\ next' = PoolSlot(no, Min(found))
        /\ Put(tab2, PoolSlot(no, Min(found)), event, stk)
    BY <1>1 DEF Place
  <2>5. Usable(tab2, event, PoolSlot(no, Min(found)))
    <3> HIDE DEF found
    <3> QED
      BY <2>1, <2>2
  <2> QED
    BY <2>3, <2>4, <2>5 DEF Found
<1>2. CASE found = {} /\ same # {}
  <2>1. same \in SUBSET Nat
    BY <1>0 DEF Mergeable
  <2>2. Min(same) \in same
    <3> HIDE DEF same
    <3> QED
      BY <1>2, <2>1, MinProps
  <2>3. /\ eventtab2' = [tab2 EXCEPT ![Min(same)].data = @ \cup event.data] /\ stack' = stk
        /\ UNCHANGED <<nextevent, eventtab, event2idx, event2restart, next>>
    BY <1>2 DEF Place
  <2>4. \A s \in same : /\ s \in 0 .. Slots - 1 /\ tab2[s].active /\ event.func = Ext
                         /\ tab2[s].func = Ext /\ tab2[s].evtime = event.evtime
    BY <1>0 DEF Mergeable
  <2> HIDE DEF same
  <2> QED
    BY <2>2, <2>3, <2>4 DEF Merged
<1>3. CASE found = {} /\ same = {}
  <2>1. tab2[no].active /\ no \in 0 .. Slots - 1
    <3>1. 0 \in 0 .. Visits(no) - 1 /\ PoolSlot(no, 0) = no
      BY SearchRound
    <3>2. ~Usable(tab2, event, PoolSlot(no, 0))
      BY <1>3, <3>1 DEF Search
    <3> QED
      BY <3>1, <3>2 DEF Usable
  <2>2. firsts # {}
    <3>1. \A k \in DOMAIN tab2 : tab2[k].active => tab2[k].evtime \in 0 .. MaxCycle
      BY DEF Events2
    <3>2. /\ \A k \in DOMAIN tab2 : tab2[k].active => first <= tab2[k].evtime
          /\ \/ first = EVT_MAX
             \/ \E k \in DOMAIN tab2 : tab2[k].active /\ first = tab2[k].evtime
      BY <3>1, EarliestProps
    <3>3. first # EVT_MAX
      <4>1. tab2[no].evtime \in 0 .. MaxCycle /\ first <= tab2[no].evtime
        BY <1>0, <2>1, <3>1, <3>2
      <4> HIDE DEF first
      <4> QED
        BY <4>1, EvtMax, Sizes
    <3> QED
      BY <3>2, <3>3
  <2>3. firsts \in SUBSET Nat
    BY <1>0
  <2>4. Min(firsts) \in firsts
    <3> HIDE DEF firsts
    <3> QED
      BY <2>2, <2>3, MinProps
  <2>5. /\ eventtab2' = [tab2 EXCEPT ![Min(firsts)] = Free]
        /\ stack' = stk \o <<Newevent(next, event.evtime, event.func, event.data),
                              Code(HandlerCalls)>>
        /\ UNCHANGED <<nextevent, eventtab, event2idx, event2restart, next>>
    BY <1>3 DEF Place
  <2>6. \A s \in firsts : /\ s \in 0 .. Slots - 1 /\ tab2[s].active
                           /\ tab2[s].evtime = Earliest(tab2)
    BY <1>0
  <2> HIDE DEF firsts
  <2> QED
    BY <1>3, <2>4, <2>5, <2>6 DEF MadeRoom
<1> QED
  BY <1>1, <1>2, <1>3

----------------------------------------------------------------------------
(* Asking for events keeps the invariant                                   *)

(* An event that lies ahead is put into a slot.                            *)
LEMMA PutNested ==
  ASSUME Nested, NEW tab2 \in Events2, BlitterSlot(tab2),
         NEW stk, NestIn(stk, currcycle, tab2), Waiting(stk) = Waiting(stack),
         stk[Len(stk)].at \in {"code", "cycles"},
         NEW s \in 0 .. Slots - 1, NEW et \in 0 .. MaxCycle, currcycle < et,
         NEW f \in Funcs, NEW d \in SUBSET (Bits \cup {0}), s = 0 <=> f = Blitter,
         Put(tab2, s, Event(et, f, d), stk),
         next' \in 1 .. Slots - 1, UNCHANGED <<currcycle, event2cnt>>
  PROVE  Nested'
<1> DEFINE event == Event(et, f, d)
           m == Misc((s + 1) % Slots, 0, currcycle, EVT_MAX)
<1>1. /\ eventtab2' = [tab2 EXCEPT ![s] = event] /\ event2idx' = s + 1
      /\ eventtab' = [eventtab EXCEPT ![ev_misc] = Off]
      /\ event2restart' = IF event2cnt > 0 THEN event2restart + 1 ELSE event2restart
      /\ stack' = Append(stk, m) /\ nextevent' = nextevent
      /\ currcycle' = currcycle /\ event2cnt' = event2cnt
  BY DEF Put, CallMisc
<1>2. event \in [active: BOOLEAN, evtime: 0 .. MaxCycle, func: Funcs,
                 data: SUBSET (Bits \cup {0})]
      /\ event.active /\ event.evtime = et /\ event.func = f
  BY DEF Event
<1>3. m \in MiscFrame /\ m \in Frame /\ m.at = "misc" /\ m.ct = currcycle /\ m.i = 0
  <2>1. (s + 1) % Slots \in 0 .. Slots - 1
    BY Sizes
  <2>2. EVT_MAX \in 0 .. MaxCycle \cup {EVT_MAX} /\ currcycle \in 0 .. MaxCycle /\ 0 \in 0 .. Slots
    BY Sizes DEF Nested, Types
  <2> QED
    BY <2>1, <2>2 DEF Misc, MiscFrame, Frame
<1> HIDE DEF event, m
<1>4. /\ eventtab2' \in Events2
      /\ \A q \in 0 .. Slots - 1 : eventtab2'[q] = IF q = s THEN event ELSE tab2[q]
  BY <1>1, <1>2 DEF Events2
<1>5. BlitterSlot(eventtab2')
  BY <1>2, <1>4 DEF BlitterSlot
<1>6. \A q \in 0 .. Slots - 1 : DueIn(currcycle, eventtab2', q) => DueIn(currcycle, tab2, q)
  <2>1. ~(et = currcycle)
    BY EvtimeIsNat, Sizes DEF Nested
  <2> QED
    BY <1>2, <1>4, <2>1 DEF DueIn
<1>7. NestIn(stk, currcycle, eventtab2')
  BY <1>6, NestKept
<1>8. NestIn(stack', currcycle, eventtab2') /\ Waiting(stack') = Waiting(stk)
  <2> DEFINE top == stk[Len(stk)]
  <2>1. top.at # "misc" /\ m.at # "newevent" /\ m.at # "cycles"
    BY <1>3
  <2> HIDE DEF top
  <2>2. PICK new2 : new2 = eventtab2'
    OBVIOUS
  <2>3. PICK t : t = stack'
    OBVIOUS
  <2>4. NestIn(stk, currcycle, new2) /\ t = Append(stk, m)
    BY <1>1, <1>7, <2>2, <2>3
  <2>5. /\ m.at = "cycles" => Len(stk) = 1 /\ currcycle + m.todo <= MaxCycle
        /\ m.at = "misc" => m.ct = currcycle /\ m.i = 0
        /\ top.at = "misc" => /\ m.at = "code" /\ top.i < Slots
                              /\ ~DueIn(currcycle, new2, SlotOf(top, top.i))
    BY <1>3, <2>1
  <2>6. /\ NestIn(t, currcycle, new2)
        /\ Waiting(t) = IF top.at = "misc" THEN Waiting(stk) \cup {Len(stk)} ELSE Waiting(stk)
    <3>1. /\ NestIn(Append(stk, m), currcycle, new2)
          /\ Waiting(Append(stk, m)) = IF top.at = "misc"
                                       THEN Waiting(stk) \cup {Len(stk)} ELSE Waiting(stk)
      BY <1>3, <2>1, <2>4, <2>5, NestPushed DEF top
    <3> QED
      BY <2>4, <3>1
  <2>7. NestIn(t, currcycle, new2) /\ Waiting(t) = Waiting(stk)
    BY <2>1, <2>6
  <2> QED
    BY <2>2, <2>3, <2>7
<1>9. Types'
  <2>1. stack' \in Seq(Frame)
    BY <1>8 DEF NestIn
  <2>2. s + 1 \in 0 .. Slots
    BY Sizes
  <2>3. eventtab' \in [0 .. ev_max - 1 -> [active: BOOLEAN, evtime: 0 .. MaxCycle]]
    BY <1>1, OffProps DEF Nested, Types
  <2> QED
    BY <1>1, <1>4, <2>1, <2>2, <2>3 DEF Nested, Types, Events2
<1>10. Counted'
  BY <1>1, <1>8 DEF Nested, Counted
<1> QED
  BY <1>1, <1>5, <1>8, <1>9, <1>10 DEF Nested

(* An event is merged with another.                                        *)
LEMMA MergeNested ==
  ASSUME Nested, NEW tab2 \in Events2, BlitterSlot(tab2),
         NEW stk, NestIn(stk, currcycle, tab2), Waiting(stk) = Waiting(stack),
         NEW event, event.data \in SUBSET (Bits \cup {0}),
         Merged(tab2, event, stk), UNCHANGED <<currcycle, event2cnt>>
  PROVE  Nested'
<1>1. PICK s \in 0 .. Slots - 1 : eventtab2' = [tab2 EXCEPT ![s].data = @ \cup event.data]
  BY DEF Merged
<1>2. /\ stack' = stk
      /\ UNCHANGED <<nextevent, eventtab, event2idx, event2restart, next, currcycle, event2cnt>>
  BY DEF Merged
<1>3. /\ eventtab2' \in Events2
      /\ \A q \in 0 .. Slots - 1 : /\ eventtab2'[q].active = tab2[q].active
                                    /\ eventtab2'[q].evtime = tab2[q].evtime
                                    /\ eventtab2'[q].func = tab2[q].func
  BY <1>1 DEF Events2
<1>4. NestIn(stk, currcycle, eventtab2') /\ BlitterSlot(eventtab2')
  <2>1. \A q \in 0 .. Slots - 1 : DueIn(currcycle, eventtab2', q) => DueIn(currcycle, tab2, q)
    BY <1>3 DEF DueIn
  <2> QED
    BY <1>3, <2>1, NestKept DEF BlitterSlot
<1>5. stk \in Seq(Frame)
  BY DEF NestIn
<1> QED
  BY <1>2, <1>3, <1>4, <1>5 DEF Nested, Types, Counted, Events2

(* A handler is run early, and the event waits.                            *)
LEMMA MakeRoomNested ==
  ASSUME Nested, NEW tab2 \in Events2, BlitterSlot(tab2),
         NEW stk, NestIn(stk, currcycle, tab2), Waiting(stk) = Waiting(stack),
         stk[Len(stk)].at \in {"code", "cycles"}, NEW no,
         NEW et \in 0 .. MaxCycle, currcycle < et,
         NEW f \in Funcs, NEW d \in SUBSET (Bits \cup {0}), f # Blitter,
         MadeRoom(tab2, no, Event(et, f, d), stk), UNCHANGED <<currcycle, event2cnt>>
  PROVE  Nested'
<1> DEFINE new  == Newevent(next, et, f, d)
           code == Code(HandlerCalls)
<1>1. PICK s \in 0 .. Slots - 1 : eventtab2' = [tab2 EXCEPT ![s] = Free]
  BY DEF MadeRoom
<1>2. /\ stack' = stk \o <<new, code>>
      /\ UNCHANGED <<nextevent, eventtab, event2idx, event2restart, next, currcycle, event2cnt>>
  <2>1. LET e == Event(et, f, d) IN e.evtime = et /\ e.func = f /\ e.data = d
    BY DEF Event
  <2> QED
    BY <2>1 DEF MadeRoom
<1>3. new \in NewFrame /\ code \in CodeFrame /\ new.et = et /\ new.func = f
  <2>1. HandlerCalls \in Nat
    BY EventAssumption
  <2> QED
    BY <2>1 DEF Newevent, Code, NewFrame, CodeFrame, Nested, Types
<1> HIDE DEF new, code
<1>4. /\ eventtab2' \in Events2
      /\ \A q \in 0 .. Slots - 1 : eventtab2'[q].active => eventtab2'[q] = tab2[q]
  BY <1>1, FreeProps DEF Events2
<1>5. NestIn(stk, currcycle, eventtab2') /\ BlitterSlot(eventtab2')
  <2>1. \A q \in 0 .. Slots - 1 : DueIn(currcycle, eventtab2', q) => DueIn(currcycle, tab2, q)
    BY <1>4 DEF DueIn
  <2> QED
    BY <1>4, <2>1, NestKept DEF BlitterSlot
<1>6. NestIn(stack', currcycle, eventtab2') /\ Waiting(stack') = Waiting(stk)
  <2>1. PICK new2 : new2 = eventtab2'
    OBVIOUS
  <2>2. PICK t : t = stack'
    OBVIOUS
  <2>3. /\ NestIn(stk, currcycle, new2) /\ t = stk \o <<new, code>>
        /\ currcycle < new.et /\ new.func # Blitter
    BY <1>2, <1>3, <1>5, <2>1, <2>2
  <2>4. NestIn(t, currcycle, new2) /\ Waiting(t) = Waiting(stk)
    <3>1. /\ NestIn(stk \o <<new, code>>, currcycle, new2)
          /\ Waiting(stk \o <<new, code>>) = Waiting(stk)
      BY <1>3, <2>3, NestMakesRoom
    <3> QED
      BY <2>3, <3>1
  <2> QED
    BY <2>1, <2>2, <2>4
<1>7. stack' \in Seq(Frame)
  BY <1>6 DEF NestIn
<1> QED
  BY <1>2, <1>4, <1>5, <1>6, <1>7 DEF Nested, Types, Counted, Events2

LEMMA PlaceNested ==
  ASSUME Nested, NEW tab2 \in Events2, BlitterSlot(tab2),
         NEW stk, NestIn(stk, currcycle, tab2), Waiting(stk) = Waiting(stack),
         stk[Len(stk)].at \in {"code", "cycles"}, NEW no \in 1 .. Slots - 1,
         NEW et \in 0 .. MaxCycle, currcycle < et,
         NEW f \in Funcs, NEW d \in SUBSET (Bits \cup {0}), f # Blitter,
         Place(tab2, no, Event(et, f, d), stk), UNCHANGED <<currcycle, event2cnt>>
  PROVE  Nested'
<1> DEFINE event == Event(et, f, d)
<1>1. event.data \in SUBSET (Bits \cup {0})
  BY DEF Event
<1>2. Found(tab2, event, stk) \/ Merged(tab2, event, stk) \/ MadeRoom(tab2, no, event, stk)
  BY PlaceIs DEF Nested, Types
<1>3. CASE Found(tab2, event, stk)
  <2>1. PICK s \in 1 .. Slots - 1 : next' = s /\ Put(tab2, s, event, stk)
    BY <1>3 DEF Found
  <2>2. s \in 0 .. Slots - 1 /\ s # 0
    BY Sizes
  <2> QED
    BY <2>1, <2>2, PutNested
<1>4. CASE Merged(tab2, event, stk)
  <2> HIDE DEF event
  <2> QED
    BY <1>1, <1>4, MergeNested
<1>5. CASE MadeRoom(tab2, no, event, stk)
  BY <1>5, MakeRoomNested
<1> QED
  BY <1>2, <1>3, <1>4, <1>5

----------------------------------------------------------------------------
(* Each action keeps the invariant                                         *)

(* What is on top, and below it.                                           *)
LEMMA NestedTop ==
  ASSUME Nested
  PROVE  /\ stack \in Seq(Frame) /\ Depth = Len(stack) /\ Depth \in Nat \ {0}
         /\ Top = stack[Len(stack)] /\ Top \in Frame
         /\ Top.at \in {"code", "cycles", "misc"}
         /\ stack[1] \in CodeFrame
         /\ Top.at = "cycles" => /\ Top \in CyclesFrame /\ Depth = 2
                                 /\ currcycle + Top.todo <= MaxCycle
         /\ Top.at = "misc" => /\ Top \in MiscFrame /\ Depth > 1 /\ Top.ct = currcycle
                               /\ Passed(Top, Top.i, currcycle, eventtab2)
         /\ Depth > 1 => Below \in Frame
<1>1. /\ stack \in Seq(Frame) /\ Depth = Len(stack) /\ Depth \in Nat \ {0}
      /\ Depth \in 1 .. Depth /\ stack[1].at = "code"
  BY DEF Nested, NestIn, Depth
<1>2. /\ CyclesOK(stack, Depth, currcycle) /\ NeweventOK(stack, Depth, currcycle)
      /\ MiscOK(stack, Depth, currcycle, eventtab2)
  BY <1>1 DEF Nested, NestIn
<1>3. Top = stack[Len(stack)] /\ Top \in Frame /\ stack[1] \in Frame
  BY <1>1 DEF Top
<1>4. Top.at # "newevent"
  BY <1>1, <1>2, <1>3 DEF NeweventOK
<1>5. Top.at \in {"code", "cycles", "misc"} /\ stack[1] \in CodeFrame
  BY <1>1, <1>3, <1>4, Kinds
<1>6. Top.at = "cycles" => /\ Top \in CyclesFrame /\ Depth = 2
                           /\ currcycle + Top.todo <= MaxCycle
  BY <1>1, <1>2, <1>3, Kinds DEF CyclesOK
<1>7. Top.at = "misc" => /\ Top \in MiscFrame /\ Depth > 1 /\ Top.ct = currcycle
                         /\ Passed(Top, Top.i, currcycle, eventtab2)
  <2>1. Top.at = "misc" => Depth # 1
    BY <1>1, <1>3
  <2> QED
    BY <1>1, <1>2, <1>3, <2>1, Kinds DEF MiscOK, ScanIn
<1>8. Depth > 1 => Below \in Frame
  BY <1>1 DEF Below
<1> QED
  BY <1>1, <1>3, <1>5, <1>6, <1>7, <1>8

(* Nothing waits below an instruction, or below do_cycles.                 *)
LEMMA NestBase ==
  ASSUME NEW stk \in Seq(Frame), NEW cc, NEW tab2, Len(stk) \in {1, 2}, stk[1].at = "code",
         Len(stk) = 2 => stk[2].at = "cycles" /\ cc + stk[2].todo <= MaxCycle
  PROVE  NestIn(stk, cc, tab2) /\ Waiting(stk) = {}
<1>0. PICK n \in {1, 2} : Len(stk) = n
  OBVIOUS
<1>1. ASSUME NEW j \in 1 .. Len(stk)
      PROVE  CyclesOK(stk, j, cc) /\ NeweventOK(stk, j, cc) /\ MiscOK(stk, j, cc, tab2)
  <2>1. j = 1 \/ (j = 2 /\ n = 2)
    <3>1. j \in 1 .. n
      BY <1>0
    <3> QED
      BY <3>1
  <2> QED
    BY <1>0, <2>1 DEF CyclesOK, NeweventOK, MiscOK, ScanIn
<1>2. Waiting(stk) = {}
  <2>1. \A j \in 1 .. Len(stk) - 1 : j = 1
    <3>1. \A j \in 1 .. n - 1 : j = 1
      OBVIOUS
    <3> QED
      BY <1>0, <3>1
  <2> QED
    BY <2>1 DEF Waiting
<1> QED
  BY <1>1, <1>2 DEF NestIn

(* The caller's stack when the call has been counted.                      *)
LEMMA CalledNested ==
  ASSUME Nested, NEW t \in Nat, Calling(t)
  PROVE  /\ Called \in Seq(Frame) /\ NestIn(Called, currcycle, eventtab2)
         /\ Waiting(Called) = Waiting(stack) /\ Called[Len(Called)].at \in {"code", "cycles"}
         /\ currcycle + t \in 0 .. MaxCycle /\ (t > 0 => currcycle < currcycle + t)
<1>1. Top.at = "code" /\ Top.left > 0 /\ currcycle + t <= MaxCycle
  BY DEF Calling
<1>2. /\ stack \in Seq(Frame) /\ Depth = Len(stack) /\ Depth \in Nat \ {0}
      /\ Top = stack[Len(stack)] /\ Top \in CodeFrame
  BY <1>1, NestedTop, Kinds
<1> DEFINE top == [Top EXCEPT !.left = @ - 1]
<1>3. top \in CodeFrame /\ top \in Frame /\ top.at = "code"
  BY <1>1, <1>2 DEF CodeFrame, Frame
<1>4. Called = [stack EXCEPT ![Len(stack)] = top]
  BY <1>2 DEF Called
<1> HIDE DEF top
<1>5. /\ Called \in Seq(Frame) /\ Len(Called) = Len(stack)
      /\ \A j \in 1 .. Len(stack) : Called[j] = IF j = Len(stack) THEN top ELSE stack[j]
  <2>1. Len(stack) \in 1 .. Len(stack)
    BY <1>2
  <2> QED
    BY <1>2, <1>3, <1>4, <2>1, ExceptSeq
<1>6. NestIn(Called, currcycle, eventtab2) /\ Waiting(Called) = Waiting(stack)
  <2>1. /\ top.at = stack[Len(stack)].at /\ top.at \in {"code", "cycles", "misc"}
        /\ top.at = "cycles" => top.todo = stack[Len(stack)].todo
        /\ ScanIn(top, currcycle, eventtab2) /\ NestIn(stack, currcycle, eventtab2)
    BY <1>1, <1>2, <1>3 DEF ScanIn, Nested
  <2> QED
    BY <1>3, <1>5, <2>1, NestChanged
<1>7. Called[Len(Called)].at \in {"code", "cycles"}
  BY <1>2, <1>3, <1>5
<1>8. currcycle + t \in 0 .. MaxCycle /\ (t > 0 => currcycle < currcycle + t)
  BY <1>1, Sizes DEF Nested, Types
<1> QED
  BY <1>5, <1>6, <1>7, <1>8

(* An event asked for with a delay of one cycle or more lies ahead.        *)
LEMMA AskNested ==
  ASSUME Nested, NEW t \in Delays, Calling(t),
         NEW tab2 \in Events2, BlitterSlot(tab2),
         \A s \in 0 .. Slots - 1 : tab2[s].active => tab2[s] = eventtab2[s],
         NEW f \in Funcs, NEW d \in SUBSET (Bits \cup {0}), f # Blitter,
         Place(tab2, next, Event(currcycle + t, f, d), Called), UNCHANGED <<currcycle, event2cnt>>
  PROVE  Nested'
<1>1. t \in Nat /\ t > 0
  BY EventAssumption DEF Delays
<1>2. /\ NestIn(Called, currcycle, eventtab2) /\ Waiting(Called) = Waiting(stack)
      /\ Called[Len(Called)].at \in {"code", "cycles"}
      /\ currcycle + t \in 0 .. MaxCycle /\ currcycle < currcycle + t
  BY <1>1, CalledNested
<1>3. NestIn(Called, currcycle, tab2)
  <2>1. \A s \in 0 .. Slots - 1 : DueIn(currcycle, tab2, s) => DueIn(currcycle, eventtab2, s)
    BY DEF DueIn
  <2> QED
    BY <1>2, <2>1, NestKept
<1>4. next \in 1 .. Slots - 1
  BY DEF Nested, Types
<1> DEFINE et == currcycle + t
<1>5. et \in 0 .. MaxCycle /\ currcycle < et /\ Place(tab2, next, Event(et, f, d), Called)
  BY <1>2
<1> HIDE DEF et
<1> QED
  BY <1>2, <1>3, <1>4, <1>5, PlaceNested

(* What is left when a handler's events are taken back.                    *)
LEMMA WithoutNested ==
  ASSUME Nested, NEW f
  PROVE  /\ Without(f) \in Events2 /\ BlitterSlot(Without(f))
         /\ \A s \in 0 .. Slots - 1 :
              Without(f)[s].active => Without(f)[s] = eventtab2[s] /\ eventtab2[s].func # f
         /\ \A s \in 0 .. Slots - 1 :
              eventtab2[s].active /\ eventtab2[s].func # f => Without(f)[s] = eventtab2[s]
<1>1. /\ DOMAIN eventtab2 = 0 .. Slots - 1 /\ Without(f) \in Events2
      /\ \A s \in 0 .. Slots - 1 :
           Without(f)[s] = IF eventtab2[s].func = f THEN Free ELSE eventtab2[s]
  BY WithoutProps DEF Nested, Types, Without, Events2
<1>2. \A s \in 0 .. Slots - 1 :
        Without(f)[s].active => Without(f)[s] = eventtab2[s] /\ eventtab2[s].func # f
  BY <1>1, FreeProps
<1> QED
  BY <1>1, <1>2 DEF Nested, BlitterSlot

(* What instructions and handlers call.                                    *)
LEMMA CallersNested ==
  ASSUME Nested, Callers
  PROVE  Nested'
<1> eventtab2 \in Events2 /\ BlitterSlot(eventtab2) /\ Types
  BY DEF Nested, Types, Events2
<1> Delays \subseteq Nat /\ \A t \in Delays : t > 0
  BY DEF Delays
<1>1. ASSUME NEW t \in Delays, NEW f \in Funcs, NEW d \in Data(f), NewEvent(t, f, d)
      PROVE  Nested'
  <2>1. d \in SUBSET (Bits \cup {0})
    BY DataProps
  <2> QED
    BY <1>1, <2>1, AskNested DEF NewEvent
<1>2. ASSUME NEW t \in Delays, NewBlitterEvent(t)
      PROVE  Nested'
  <2>1. /\ Calling(t) /\ Put(eventtab2, 0, Event(currcycle + t, Blitter, {0}), Called)
        /\ UNCHANGED <<currcycle, next, event2cnt>>
    BY <1>2 DEF NewBlitterEvent
  <2>2. 0 \in 0 .. Slots - 1 /\ Blitter \in Funcs /\ {0} \in SUBSET (Bits \cup {0})
    BY Sizes DEF Funcs
  <2>3. /\ NestIn(Called, currcycle, eventtab2) /\ Waiting(Called) = Waiting(stack)
        /\ Called[Len(Called)].at \in {"code", "cycles"}
        /\ currcycle + t \in 0 .. MaxCycle /\ currcycle < currcycle + t
    BY <2>1, CalledNested
  <2>4. next' \in 1 .. Slots - 1
    BY <2>1 DEF Types
  <2> DEFINE et == currcycle + t
  <2>5. /\ et \in 0 .. MaxCycle /\ currcycle < et
        /\ Put(eventtab2, 0, Event(et, Blitter, {0}), Called)
    BY <2>1, <2>3
  <2> HIDE DEF et
  <2> QED
    BY <2>1, <2>2, <2>3, <2>4, <2>5, PutNested
<1>3. ASSUME NEW f \in Funcs, RemoveEvent(f)
      PROVE  Nested'
  <2>1. /\ Calling(0) /\ eventtab2' = Without(f) /\ stack' = Called
        /\ UNCHANGED <<currcycle, nextevent, eventtab, event2idx, next, event2cnt, event2restart>>
    BY <1>3 DEF RemoveEvent, counters
  <2>2. /\ Called \in Seq(Frame) /\ NestIn(Called, currcycle, eventtab2)
        /\ Waiting(Called) = Waiting(stack)
    BY <2>1, CalledNested
  <2>3. Types'
    BY <2>1, <2>2, WithoutNested DEF Types, Events2
  <2>4. NestIn(Called, currcycle, Without(f))
    <3>1. \A s \in 0 .. Slots - 1 :
            DueIn(currcycle, Without(f), s) => DueIn(currcycle, eventtab2, s)
      BY WithoutNested DEF DueIn
    <3> QED
      BY <2>2, <3>1, NestKept
  <2> QED
    BY <2>1, <2>2, <2>3, <2>4, WithoutNested DEF Nested, Counted
<1>4. ASSUME NEW t \in Delays, NEW f \in Funcs, ReplaceEvent(t, f)
      PROVE  Nested'
  <2>1. {0} \in SUBSET (Bits \cup {0}) /\ f # Blitter
    BY <1>4, EventAssumption DEF ReplaceEvent
  <2>2. /\ Calling(t) /\ UNCHANGED <<currcycle, event2cnt>>
        /\ Place(Without(f), next, Event(currcycle + t, f, {0}), Called)
    BY <1>4 DEF ReplaceEvent
  <2>3. PICK tab2 : tab2 = Without(f)
    OBVIOUS
  <2>4. /\ tab2 \in Events2 /\ BlitterSlot(tab2)
        /\ \A s \in 0 .. Slots - 1 : tab2[s].active => tab2[s] = eventtab2[s]
    BY <2>3, WithoutNested
  <2> QED
    BY <2>1, <2>2, <2>3, <2>4, AskNested
<1>5. ASSUME NEW t \in Delays, NEW f \in Funcs, AddNotExists(t, f)
      PROVE  Nested'
  <2>1. {0} \in SUBSET (Bits \cup {0}) /\ f # Blitter
    BY <1>5, EventAssumption DEF AddNotExists
  <2> QED
    BY <1>5, <2>1, AskNested DEF AddNotExists
<1>6. ASSUME NEW k \in Timers, NEW t \in Delays \cup {0}, SetTimer(k, t)
      PROVE  Nested'
  <2>1. /\ Calling(t) /\ eventtab' = Arm(eventtab, k, t) /\ nextevent' = Earliest(eventtab')
        /\ stack' = Called
        /\ UNCHANGED <<currcycle, eventtab2, event2idx, next, event2cnt, event2restart>>
    BY <1>6 DEF SetTimer, Schedule, counters
  <2>2. /\ Called \in Seq(Frame) /\ NestIn(Called, currcycle, eventtab2)
        /\ Waiting(Called) = Waiting(stack) /\ currcycle + t \in 0 .. MaxCycle /\ t \in Nat
    BY <2>1, CalledNested
  <2>3. k \in 0 .. ev_max - 1
    BY EventAssumption
  <2>4. Types'
    BY <2>1, <2>2, <2>3, ArmProps DEF Types
  <2> QED
    BY <2>1, <2>2, <2>4 DEF Nested, Counted
<1>7. ASSUME InitEventtab PROVE Nested'
  <2>1. /\ Depth = 1 /\ nextevent' = Earliest(eventtab')
        /\ eventtab' = [k \in DOMAIN eventtab |-> Off]
        /\ eventtab2' = [s \in DOMAIN eventtab2 |-> Free]
        /\ UNCHANGED <<currcycle, event2idx, next, event2cnt, event2restart, stack>>
    BY <1>7 DEF InitEventtab, Schedule, counters
  <2>2. /\ eventtab' \in [0 .. ev_max - 1 -> [active: BOOLEAN, evtime: 0 .. MaxCycle]]
        /\ \A k \in 0 .. ev_max - 1 : ~eventtab'[k].active
    BY <2>1, OffProps DEF Types
  <2>3. eventtab2' \in Events2 /\ \A s \in 0 .. Slots - 1 : ~eventtab2'[s].active
    BY <2>1, FreeProps DEF Events2
  <2>4. nextevent' \in 0 .. MaxCycle \cup {EVT_MAX}
    <3>1. \A k \in DOMAIN eventtab' : eventtab'[k].active => eventtab'[k].evtime \in 0 .. MaxCycle
      BY <2>2
    <3> QED
      BY <2>1, <3>1, EarliestProps
  <2>5. Types'
    BY <2>1, <2>2, <2>3, <2>4 DEF Types, Events2
  <2>6. NestIn(stack, currcycle, eventtab2')
    <3>1. \A s \in 0 .. Slots - 1 :
            DueIn(currcycle, eventtab2', s) => DueIn(currcycle, eventtab2, s)
      BY <2>3 DEF DueIn
    <3> QED
      BY <3>1, NestKept DEF Nested
  <2> QED
    BY <2>1, <2>3, <2>5, <2>6 DEF Nested, Counted, BlitterSlot
<1> QED
  BY <1>1, <1>2, <1>3, <1>4, <1>5, <1>6, <1>7 DEF Callers

(* The steps of do_cycles.                                                 *)
LEMMA DoCyclesNested ==
  ASSUME Nested, NEW c \in 0 .. MaxStep, DoCycles(c)
  PROVE  Nested'
<1> DEFINE new == Cycles(c, ev_max)
<1>1. /\ Depth = 1 /\ currcycle + c <= MaxCycle /\ stack' = Append(stack, new)
      /\ UNCHANGED <<currcycle, nextevent, eventtab, eventtab2, event2idx, next, event2cnt,
                     event2restart>>
  BY DEF DoCycles, tables, counters
<1>2. stack \in Seq(Frame) /\ Len(stack) = 1 /\ stack[1] \in CodeFrame
  BY <1>1, NestedTop
<1>3. new \in Frame /\ new.at = "cycles" /\ new.todo = c
  <2>1. c \in Nat
    BY EventAssumption
  <2>2. ev_max \in 0 .. ev_max
    BY DEF ev_max
  <2> QED
    BY <2>1, <2>2 DEF Cycles, CyclesFrame, Frame
<1> HIDE DEF new
<1>4. /\ stack' \in Seq(Frame) /\ Len(stack') = 2 /\ stack'[2] = new /\ stack'[1] = stack[1]
  <2>1. /\ stack' \in Seq(Frame) /\ Len(stack') = Len(stack) + 1
        /\ stack'[Len(stack) + 1] = new /\ \A j \in 1 .. Len(stack) : stack'[j] = stack[j]
    BY <1>1, <1>2, <1>3, Pushed DEF Depth
  <2> QED
    BY <1>2, <2>1
<1>5. stack[1].at = "code"
  BY <1>2, Kinds DEF CodeFrame
<1>6. PICK t : t = stack'
  OBVIOUS
<1>7. t \in Seq(Frame) /\ Len(t) = 2 /\ t[1].at = "code" /\ t[2].at = "cycles"
      /\ currcycle + t[2].todo <= MaxCycle
  BY <1>1, <1>3, <1>4, <1>5, <1>6
<1>8. NestIn(t, currcycle, eventtab2) /\ Waiting(t) = {} /\ Waiting(stack) = {}
  BY <1>2, <1>5, <1>7, NestBase
<1> QED
  BY <1>1, <1>4, <1>6, <1>8 DEF Nested, Types, Counted, Events2

LEMMA CyclesNested ==
  ASSUME Nested, NextEventDue \/ CyclesDone
  PROVE  Nested'
<1>1. Top.at = "cycles"
  BY DEF NextEventDue, CyclesDone
<1>2. /\ stack \in Seq(Frame) /\ Len(stack) = 2 /\ stack[1].at = "code" /\ Depth = 2
      /\ Top = stack[2] /\ Top \in CyclesFrame /\ currcycle + Top.todo <= MaxCycle
  BY <1>1, NestedTop DEF CodeFrame
<1>3. Waiting(stack) = {}
  <2>1. stack[2].at = "cycles" /\ currcycle + stack[2].todo <= MaxCycle
    BY <1>1, <1>2
  <2> QED
    BY <1>2, <2>1, NestBase
<1>4. Top.todo \in Nat
  BY <1>2 DEF CyclesFrame
<1>5. /\ MaxCycle \in Nat /\ currcycle \in Nat /\ nextevent \in Nat
      /\ nextevent \in 0 .. MaxCycle \cup {EVT_MAX} /\ MaxCycle < EVT_MAX
  <2>1. currcycle \in 0 .. MaxCycle /\ nextevent \in 0 .. MaxCycle \cup {EVT_MAX}
    BY DEF Nested, Types
  <2>2. MaxCycle \in Nat /\ MaxCycle \in 0 .. MaxCycle
    BY Sizes
  <2> QED
    BY <2>1, <2>2, EvtMax
<1>6. CASE NextEventDue
  <2> DEFINE new == Cycles(Top.todo - (nextevent - currcycle), 0)
  <2>1. /\ nextevent - currcycle <= Top.todo /\ currcycle' = nextevent
        /\ stack' = [stack EXCEPT ![2] = new]
        /\ UNCHANGED <<nextevent, eventtab, eventtab2, event2idx, next, event2cnt, event2restart>>
    BY <1>2, <1>6 DEF NextEventDue, tables, counters
  <2>2. currcycle' \in 0 .. MaxCycle
    BY <1>2, <1>4, <1>5, <2>1
  <2>3. /\ new \in Frame /\ new.at = "cycles"
        /\ nextevent + new.todo <= MaxCycle
    <3>1. Top.todo - (nextevent - currcycle) \in Nat /\ 0 \in 0 .. ev_max
      BY <1>4, <1>5, <2>1 DEF ev_max
    <3>2. new.todo = Top.todo - (nextevent - currcycle)
      BY DEF Cycles
    <3>3. new \in Frame /\ new.at = "cycles"
      BY <3>1 DEF Cycles, CyclesFrame, Frame
    <3> QED
      BY <1>2, <1>4, <1>5, <3>1, <3>2, <3>3
  <2> HIDE DEF new
  <2>4. stack' \in Seq(Frame) /\ Len(stack') = 2 /\ stack'[2] = new /\ stack'[1] = stack[1]
    <3>1. 2 \in 1 .. Len(stack) /\ 1 \in 1 .. Len(stack) /\ 1 # 2
      BY <1>2
    <3>2. Types /\ Depth > 0 /\ stack' = [stack EXCEPT ![Depth] = new]
      BY <1>2, <2>1 DEF Nested
    <3>3. /\ stack' \in Seq(Frame) /\ Depth' = Depth /\ stack'[Depth] = new
          /\ \A j \in 1 .. Depth : j # Depth => stack'[j] = stack[j]
      BY <2>3, <3>2, TopReplaced
    <3> QED
      BY <1>2, <3>1, <3>3 DEF Depth
  <2>5. PICK t : t = stack'
    OBVIOUS
  <2>6. t \in Seq(Frame) /\ Len(t) = 2 /\ t[1].at = "code" /\ t[2].at = "cycles"
        /\ nextevent + t[2].todo <= MaxCycle
    BY <1>2, <2>3, <2>4, <2>5
  <2>7. NestIn(t, nextevent, eventtab2) /\ Waiting(t) = {}
    BY <2>6, NestBase
  <2> QED
    BY <1>3, <2>1, <2>2, <2>4, <2>5, <2>7 DEF Nested, Types, Counted, Events2
<1>7. CASE CyclesDone
  <2> DEFINE t == <<Code(MaxCalls)>>
  <2>1. /\ currcycle' = currcycle + Top.todo /\ stack' = t
        /\ UNCHANGED <<nextevent, eventtab, eventtab2, event2idx, next, event2cnt, event2restart>>
    BY <1>7 DEF CyclesDone, tables, counters
  <2>2. currcycle' \in 0 .. MaxCycle
    BY <1>2, <1>4, <1>5, <2>1
  <2>3. Code(MaxCalls) \in Frame /\ LET c == Code(MaxCalls) IN c.at = "code"
    <3>1. MaxCalls \in Nat
      BY EventAssumption
    <3> QED
      BY <3>1 DEF Code, CodeFrame, Frame
  <2>4. t \in Seq(Frame) /\ Len(t) = 1 /\ t[1].at = "code"
    BY <2>3
  <2> HIDE DEF t
  <2>5. \A cc : NestIn(t, cc, eventtab2) /\ Waiting(t) = {}
    <3> TAKE cc
    <3> QED
      BY <2>4, NestBase
  <2>6. NestIn(t, currcycle', eventtab2) /\ Waiting(t) = {}
    BY <2>5
  <2> QED
    BY <1>3, <2>1, <2>2, <2>4, <2>6 DEF Nested, Types, Counted, Events2
<1> QED
  BY <1>6, <1>7

(* A call's position in the loop over the timers is changed.               *)
LEMMA CyclesMoved ==
  ASSUME Nested, Top.at = "cycles", NEW i \in 0 .. ev_max
  PROVE  LET t == [stack EXCEPT ![Depth].i = i]
         IN  /\ t \in Seq(Frame) /\ NestIn(t, currcycle, eventtab2)
             /\ Waiting(t) = Waiting(stack) /\ t[Len(t)].at = "cycles"
<1> DEFINE f == [Top EXCEPT !.i = i]
<1>1. /\ stack \in Seq(Frame) /\ Depth = Len(stack) /\ Depth \in Nat \ {0}
      /\ Top = stack[Len(stack)] /\ Top \in CyclesFrame
  BY NestedTop
<1>2. f \in Frame /\ f.at = "cycles" /\ f.todo = Top.todo
  BY <1>1 DEF CyclesFrame, Frame
<1>3. PICK t : t = [stack EXCEPT ![Depth].i = i]
  OBVIOUS
<1>4. t = [stack EXCEPT ![Len(stack)] = f]
  BY <1>1, <1>3
<1> HIDE DEF f
<1>5. /\ t \in Seq(Frame) /\ Len(t) = Len(stack)
      /\ \A j \in 1 .. Len(stack) : t[j] = IF j = Len(stack) THEN f ELSE stack[j]
  <2>1. Len(stack) \in 1 .. Len(stack)
    BY <1>1
  <2> QED
    BY <1>1, <1>2, <1>4, <2>1, ExceptSeq
<1>6. /\ f.at = stack[Len(stack)].at /\ f.at \in {"code", "cycles", "misc"}
      /\ f.at = "cycles" => f.todo = stack[Len(stack)].todo
      /\ ScanIn(f, currcycle, eventtab2) /\ NestIn(stack, currcycle, eventtab2)
  BY <1>1, <1>2 DEF ScanIn, Nested
<1>7. NestIn(t, currcycle, eventtab2) /\ Waiting(t) = Waiting(stack)
  BY <1>2, <1>5, <1>6, NestChanged
<1>8. t[Len(t)].at = "cycles"
  BY <1>1, <1>2, <1>5
<1> QED
  BY <1>3, <1>5, <1>7, <1>8

LEMMA TimersServedNested ==
  ASSUME Nested, TimersServed
  PROVE  Nested'
<1>1. /\ Top.at = "cycles" /\ nextevent' = Earliest(eventtab)
      /\ stack' = [stack EXCEPT ![Depth].i = ev_max]
      /\ UNCHANGED <<currcycle, eventtab, eventtab2, event2idx, next, event2cnt, event2restart>>
  BY DEF TimersServed, Schedule, tables, counters
<1>2. /\ stack' \in Seq(Frame) /\ NestIn(stack', currcycle, eventtab2)
      /\ Waiting(stack') = Waiting(stack)
  <2>1. ev_max \in 0 .. ev_max
    BY DEF ev_max
  <2> QED
    BY <1>1, <2>1, CyclesMoved
<1>3. nextevent' \in 0 .. MaxCycle \cup {EVT_MAX}
  <2>1. \A k \in DOMAIN eventtab : eventtab[k].active => eventtab[k].evtime \in 0 .. MaxCycle
    BY DEF Nested, Types
  <2> QED
    BY <1>1, <2>1, EarliestProps
<1> QED
  BY <1>1, <1>2, <1>3 DEF Nested, Types, Counted, Events2

(* The next timer that is due.                                             *)
LEMMA TimerDueNested ==
  ASSUME Nested, Top.at = "cycles", TimersDue # {}
  PROVE  Min(TimersDue) \in 0 .. ev_max - 1
<1>1. Top \in CyclesFrame
  BY NestedTop
<1>2. Top.i \in Nat
  BY <1>1 DEF CyclesFrame
<1>3. TimersDue \in SUBSET Nat /\ \A k \in TimersDue : k \in 0 .. ev_max - 1
  BY <1>2 DEF TimersDue, ev_max
<1>4. Min(TimersDue) \in TimersDue
  BY <1>3, MinProps
<1> QED
  BY <1>3, <1>4

LEMMA TimerFiresNested ==
  ASSUME Nested, NEW t \in Delays \cup {0}, TimerFires(t)
  PROVE  Nested'
<1> DEFINE k == Min(TimersDue)
           stk == [stack EXCEPT ![Depth].i = k + 1]
           code == Code(TimerCalls)
<1>1. /\ Top.at = "cycles" /\ TimersDue # {} /\ currcycle + t <= MaxCycle
      /\ eventtab' = Arm(eventtab, k, t) /\ nextevent' = Earliest(eventtab')
      /\ stack' = Append(stk, code)
      /\ UNCHANGED <<currcycle, eventtab2, event2idx, next, event2cnt, event2restart>>
  BY DEF TimerFires, Schedule, counters
<1>2. k \in 0 .. ev_max - 1 /\ k + 1 \in 0 .. ev_max
  <2>1. k \in 0 .. ev_max - 1
    BY <1>1, TimerDueNested
  <2> HIDE DEF k
  <2> QED
    BY <2>1 DEF ev_max
<1>3. t \in Nat /\ currcycle + t \in 0 .. MaxCycle /\ Types
  <2>1. t \in Nat
    BY EventAssumption DEF Delays
  <2> QED
    BY <1>1, <2>1, Sizes DEF Nested, Types
<1>4. code \in Frame /\ code.at = "code"
  <2>1. TimerCalls \in Nat
    BY EventAssumption
  <2> QED
    BY <2>1 DEF Code, CodeFrame, Frame
<1> HIDE DEF k, code
<1>5. /\ stk \in Seq(Frame) /\ NestIn(stk, currcycle, eventtab2)
      /\ Waiting(stk) = Waiting(stack) /\ stk[Len(stk)].at = "cycles"
  BY <1>1, <1>2, CyclesMoved
<1> HIDE DEF stk
<1>6. NestIn(stack', currcycle, eventtab2) /\ Waiting(stack') = Waiting(stack)
  <2> DEFINE top == stk[Len(stk)]
  <2>1. top.at = "cycles"
    BY <1>5
  <2> HIDE DEF top
  <2>2. /\ code.at # "newevent"
        /\ code.at = "cycles" => Len(stk) = 1 /\ currcycle + code.todo <= MaxCycle
        /\ code.at = "misc" => code.ct = currcycle /\ code.i = 0
        /\ top.at = "misc" => /\ code.at = "code" /\ top.i < Slots
                              /\ ~DueIn(currcycle, eventtab2, SlotOf(top, top.i))
    BY <1>4, <2>1
  <2>3. /\ NestIn(Append(stk, code), currcycle, eventtab2)
        /\ Waiting(Append(stk, code)) = IF top.at = "misc"
                                        THEN Waiting(stk) \cup {Len(stk)} ELSE Waiting(stk)
    BY <1>4, <1>5, <2>2, NestPushed DEF top
  <2> QED
    BY <1>1, <1>5, <2>1, <2>3
<1>7. stack' \in Seq(Frame)
  BY <1>6 DEF NestIn
<1>8. Types'
  BY <1>1, <1>2, <1>3, <1>7, ArmProps DEF Types
<1> QED
  BY <1>1, <1>6, <1>8 DEF Nested, Counted

LEMMA MiscTimerFiresNested ==
  ASSUME Nested, MiscTimerFires
  PROVE  Nested'
<1> DEFINE stk == [stack EXCEPT ![Depth].i = ev_misc + 1]
           m   == Misc(event2idx % Slots, 0, currcycle, EVT_MAX)
<1>1. /\ Top.at = "cycles"
      /\ eventtab' = [eventtab EXCEPT ![ev_misc] = Off]
      /\ event2restart' = IF event2cnt > 0 THEN event2restart + 1 ELSE event2restart
      /\ stack' = Append(stk, m)
      /\ UNCHANGED <<currcycle, nextevent, eventtab2, event2idx, next, event2cnt>>
  BY DEF MiscTimerFires, CallMisc
<1>2. m \in Frame /\ m.at = "misc" /\ m.ct = currcycle /\ m.i = 0
  <2>1. event2idx % Slots \in 0 .. Slots - 1
    BY Sizes DEF Nested, Types
  <2>2. EVT_MAX \in 0 .. MaxCycle \cup {EVT_MAX} /\ currcycle \in 0 .. MaxCycle /\ 0 \in 0 .. Slots
    BY Sizes DEF Nested, Types
  <2> QED
    BY <2>1, <2>2 DEF Misc, MiscFrame, Frame
<1>3. /\ stk \in Seq(Frame) /\ NestIn(stk, currcycle, eventtab2)
      /\ Waiting(stk) = Waiting(stack) /\ stk[Len(stk)].at = "cycles"
  <2>1. ev_misc + 1 \in 0 .. ev_max
    BY DEF ev_misc, ev_max
  <2> QED
    BY <1>1, <2>1, CyclesMoved
<1> HIDE DEF stk, m
<1>4. NestIn(stack', currcycle, eventtab2) /\ Waiting(stack') = Waiting(stack)
  <2> DEFINE top == stk[Len(stk)]
  <2>1. top.at = "cycles"
    BY <1>3
  <2> HIDE DEF top
  <2>2. /\ m.at # "newevent"
        /\ m.at = "cycles" => Len(stk) = 1 /\ currcycle + m.todo <= MaxCycle
        /\ m.at = "misc" => m.ct = currcycle /\ m.i = 0
        /\ top.at = "misc" => /\ m.at = "code" /\ top.i < Slots
                              /\ ~DueIn(currcycle, eventtab2, SlotOf(top, top.i))
    BY <1>2, <2>1
  <2>3. /\ NestIn(Append(stk, m), currcycle, eventtab2)
        /\ Waiting(Append(stk, m)) = IF top.at = "misc"
                                     THEN Waiting(stk) \cup {Len(stk)} ELSE Waiting(stk)
    BY <1>2, <1>3, <2>2, NestPushed DEF top
  <2> QED
    BY <1>1, <1>3, <2>1, <2>3
<1>5. stack' \in Seq(Frame)
  BY <1>4 DEF NestIn
<1>6. eventtab' \in [0 .. ev_max - 1 -> [active: BOOLEAN, evtime: 0 .. MaxCycle]]
  BY <1>1, OffProps DEF Nested, Types
<1>7. event2restart' \in Nat
  BY <1>1 DEF Nested, Counted
<1> QED
  BY <1>1, <1>4, <1>5, <1>6, <1>7 DEF Nested, Types, Counted

LEMMA TimerReturnsNested ==
  ASSUME Nested, TimerReturns
  PROVE  Nested'
<1>1. /\ Depth > 1 /\ Below.at = "cycles" /\ stack' = Front(stack)
      /\ UNCHANGED <<currcycle, nextevent, eventtab, eventtab2, event2idx, next, event2cnt,
                     event2restart>>
  BY DEF TimerReturns, tables, counters
<1>2. NestIn(stack, currcycle, eventtab2) /\ Len(stack) > 1
  BY <1>1 DEF Nested, Depth
<1>3. LET b == stack[Len(stack) - 1] IN b.at # "newevent" /\ b.at # "misc"
  BY <1>1 DEF Below, Depth
<1>4. NestIn(stack', currcycle, eventtab2) /\ Waiting(stack') = Waiting(stack)
  BY <1>1, <1>2, <1>3, NestReturned
<1>5. stack' \in Seq(Frame)
  BY <1>4 DEF NestIn
<1> QED
  BY <1>1, <1>4, <1>5 DEF Nested, Types, Counted

----------------------------------------------------------------------------
(* MISC_handler keeps the invariant                                        *)

(* What is known of a call that a handler will return to.                  *)
LEMMA NestedBelow ==
  ASSUME Nested, Depth > 1
  PROVE  /\ Below = stack[Len(stack) - 1] /\ Below \in Frame
         /\ Below.at = "newevent" => /\ Top.at = "code" /\ Below \in NewFrame
                                     /\ currcycle < Below.et /\ Below.func # Blitter
         /\ Below.at = "misc" => /\ Top.at = "code" /\ Below \in MiscFrame
                                 /\ Below.ct = currcycle /\ Below.i < Slots
                                 /\ Passed(Below, Below.i, currcycle, eventtab2)
                                 /\ ~DueIn(currcycle, eventtab2, SlotOf(Below, Below.i))
<1>1. /\ stack \in Seq(Frame) /\ Depth = Len(stack) /\ Depth \in Nat /\ Top = stack[Len(stack)]
      /\ Below \in Frame /\ Below = stack[Len(stack) - 1]
  BY NestedTop DEF Below
<1>2. Depth - 1 \in 1 .. Depth /\ Depth - 1 < Depth /\ Depth - 1 + 1 = Depth
  BY <1>1
<1>3. /\ NeweventOK(stack, Depth - 1, currcycle)
      /\ MiscOK(stack, Depth - 1, currcycle, eventtab2)
  BY <1>1, <1>2 DEF Nested, NestIn
<1> QED
  BY <1>1, <1>2, <1>3, Kinds DEF NeweventOK, MiscOK, ScanIn

(* The scans that wait can be counted.                                     *)
LEMMA WaitingFinite ==
  ASSUME NEW stk \in Seq(Frame)
  PROVE  IsFiniteSet(Waiting(stk))
<1>1. 1 \in Int /\ Len(stk) - 1 \in Int
  OBVIOUS
<1>2. IsFiniteSet(1 .. Len(stk) - 1)
  BY <1>1, FS_Interval
<1>3. Waiting(stk) \subseteq 1 .. Len(stk) - 1
  BY DEF Waiting
<1> QED
  BY <1>2, <1>3, FS_Subset

LEMMA MiscReturnNested ==
  ASSUME Nested, MiscReturn
  PROVE  Nested'
<1> DEFINE soonest == SoonestBefore(Slots)
           tab     == [eventtab EXCEPT ![ev_misc] = [active |-> TRUE, evtime |-> soonest]]
<1>1. /\ Top.at = "misc" /\ stack' = Front(stack)
      /\ IF soonest < EVT_MAX THEN eventtab' = tab /\ nextevent' = Earliest(tab)
                              ELSE UNCHANGED <<eventtab, nextevent>>
      /\ UNCHANGED <<currcycle, eventtab2, event2idx, next, event2cnt, event2restart>>
  BY DEF MiscReturn, Schedule, counters
<1>2. Top \in MiscFrame /\ Depth > 1 /\ Len(stack) > 1 /\ Types
  BY <1>1, NestedTop DEF Nested
<1>3. Below.at # "newevent" /\ Below.at # "misc" /\ Below = stack[Len(stack) - 1]
  BY <1>1, <1>2, NestedBelow
<1>4. NestIn(stack', currcycle, eventtab2) /\ Waiting(stack') = Waiting(stack)
  <2>1. NestIn(stack, currcycle, eventtab2)
    BY DEF Nested
  <2>2. LET b == stack[Len(stack) - 1] IN b.at # "newevent" /\ b.at # "misc"
    BY <1>3
  <2> QED
    BY <1>1, <1>2, <2>1, <2>2, NestReturned
<1>5. stack' \in Seq(Frame)
  BY <1>4 DEF NestIn
<1>6. /\ eventtab' \in [0 .. ev_max - 1 -> [active: BOOLEAN, evtime: 0 .. MaxCycle]]
      /\ nextevent' \in 0 .. MaxCycle \cup {EVT_MAX}
  <2>1. Slots \in Top.i .. Slots
    BY <1>2, Sizes DEF MiscFrame
  <2>2. soonest \in 0 .. MaxCycle \cup {EVT_MAX}
    BY <1>2, <2>1, SoonestProps
  <2>3. CASE soonest < EVT_MAX
    <3>1. soonest \in 0 .. MaxCycle
      <4>1. soonest # EVT_MAX
        <5> HIDE DEF soonest
        <5> QED
          BY <2>3, EvtMax
      <4> QED
        BY <2>2, <4>1
    <3> HIDE DEF soonest
    <3>2. tab \in [0 .. ev_max - 1 -> [active: BOOLEAN, evtime: 0 .. MaxCycle]]
      BY <1>2, <3>1 DEF Types
    <3>3. \A k \in DOMAIN tab : tab[k].active => tab[k].evtime \in 0 .. MaxCycle
      BY <3>2
    <3> HIDE DEF tab
    <3>4. Earliest(tab) \in 0 .. MaxCycle \cup {EVT_MAX}
      BY <3>3, EarliestProps
    <3> QED
      BY <1>1, <2>3, <3>2, <3>4
  <2>4. CASE ~(soonest < EVT_MAX)
    BY <1>1, <1>2, <2>4 DEF Types
  <2> QED
    BY <2>3, <2>4
<1> QED
  BY <1>1, <1>4, <1>5, <1>6 DEF Nested, Types, Counted

LEMMA MiscHandlerReturnsNested ==
  ASSUME Nested, MiscHandlerReturns
  PROVE  Nested'
<1> DEFINE t == Front(stack)
           n == Len(stack) - 1
           f == IF event2restart > 0 THEN [Below EXCEPT !.i = 1, !.soonest = EVT_MAX]
                                     ELSE [Below EXCEPT !.i = @ + 1]
<1>1. /\ stack \in Seq(Frame) /\ Depth = Len(stack) /\ Depth \in Nat
      /\ Depth > 1 /\ Below.at = "misc" /\ Below = stack[n] /\ Below \in MiscFrame
      /\ Below.ct = currcycle /\ Below.i < Slots
      /\ Passed(Below, Below.i, currcycle, eventtab2)
      /\ ~DueIn(currcycle, eventtab2, SlotOf(Below, Below.i))
  BY NestedTop, NestedBelow DEF MiscHandlerReturns
<1>2. /\ NestIn(t, currcycle, eventtab2) /\ Len(t) = n /\ t[n] = Below
      /\ n \in Waiting(stack) /\ Waiting(t) = Waiting(stack) \ {n}
  <2>1. NestIn(stack, currcycle, eventtab2) /\ Len(stack) > 1
    BY <1>1 DEF Nested
  <2>2. LET b == stack[Len(stack) - 1] IN b.at # "newevent" /\ b.at = "misc"
    BY <1>1
  <2> QED
    BY <1>1, <2>1, <2>2, NestReturned
<1>3. t \in Seq(Frame) /\ n \in 1 .. Len(t)
  BY <1>1, <1>2 DEF NestIn
<1> HIDE DEF t
<1>4. /\ event2cnt' = event2cnt - 1
      /\ event2restart' = IF event2restart > 0 THEN event2restart - 1 ELSE event2restart
      /\ stack' = [t EXCEPT ![n] = f]
      /\ UNCHANGED <<currcycle, nextevent, eventtab, eventtab2, event2idx, next>>
  <2>1. Depth - 1 = n
    BY <1>1
  <2>2. CASE event2restart > 0
    <3>1. stack' = [t EXCEPT ![n].i = 1, ![n].soonest = EVT_MAX]
      BY <2>1, <2>2 DEF MiscHandlerReturns, t
    <3>2. [t EXCEPT ![n].i = 1, ![n].soonest = EVT_MAX] = [t EXCEPT ![n] = f]
      BY <1>2, <2>2
    <3> QED
      BY <2>2, <3>1, <3>2 DEF MiscHandlerReturns, tables
  <2>3. CASE ~(event2restart > 0)
    <3>1. stack' = [t EXCEPT ![n].i = @ + 1]
      BY <2>1, <2>3 DEF MiscHandlerReturns, t
    <3>2. [t EXCEPT ![n].i = @ + 1] = [t EXCEPT ![n] = f]
      BY <1>2, <2>3
    <3> QED
      BY <2>3, <3>1, <3>2 DEF MiscHandlerReturns, tables
  <2> QED
    BY <2>2, <2>3
<1>5. /\ Below.i \in Nat /\ Below.idx2 \in 0 .. Slots - 1
      /\ Slots \in Nat /\ Slots > 1
  BY <1>1, Sizes DEF MiscFrame
<1>6. /\ f \in MiscFrame /\ f.at = "misc" /\ f.ct = currcycle /\ f.idx2 = Below.idx2
      /\ f.i = IF event2restart > 0 THEN 1 ELSE Below.i + 1
  <2>1. 1 \in 0 .. Slots /\ Below.i + 1 \in 0 .. Slots
    BY <1>1, <1>5
  <2> QED
    BY <1>1, <2>1 DEF MiscFrame
<1> HIDE DEF f
<1>7. Passed(f, f.i, currcycle, eventtab2)
  <2>1. \A k : SlotOf(f, k) = SlotOf(Below, k)
    BY <1>6 DEF SlotOf
  <2>2. \A k \in 0 .. Slots - 1 : k < f.i => k < Below.i \/ k = Below.i
    BY <1>5, <1>6
  <2> QED
    BY <1>1, <2>1, <2>2 DEF Passed
<1>8. f \in Frame
  BY <1>6 DEF Frame
<1>9. /\ stack' \in Seq(Frame) /\ Len(stack') = Len(t)
      /\ \A j \in 1 .. Len(t) : stack'[j] = IF j = Len(t) THEN f ELSE t[j]
  BY <1>2, <1>3, <1>4, <1>8, ExceptSeq
<1>10. NestIn(stack', currcycle, eventtab2) /\ Waiting(stack') = Waiting(t)
  <2>1. PICK u : u = stack'
    OBVIOUS
  <2>2. /\ u \in Seq(Frame) /\ Len(u) = Len(t)
        /\ \A j \in 1 .. Len(t) : u[j] = IF j = Len(t) THEN f ELSE t[j]
    BY <1>9, <2>1
  <2>3. /\ f.at = t[Len(t)].at /\ f.at \in {"code", "cycles", "misc"}
        /\ f.at = "cycles" => f.todo = t[Len(t)].todo
        /\ ScanIn(f, currcycle, eventtab2)
    BY <1>1, <1>2, <1>6, <1>7 DEF ScanIn
  <2>4. NestIn(u, currcycle, eventtab2) /\ Waiting(u) = Waiting(t)
    BY <1>2, <1>8, <2>2, <2>3, NestChanged
  <2> QED
    BY <2>1, <2>4
<1>11. Counted'
  <2>1. IsFiniteSet(Waiting(stack)) /\ event2cnt = Cardinality(Waiting(stack))
    BY <1>1, WaitingFinite DEF Nested, Counted
  <2>2. Cardinality(Waiting(stack) \ {n}) = Cardinality(Waiting(stack)) - 1
    BY <1>2, <2>1, FS_RemoveElement
  <2>3. event2restart' \in Nat
    BY <1>4 DEF Nested, Counted
  <2> QED
    BY <1>2, <1>4, <1>10, <2>1, <2>2, <2>3 DEF Counted
<1> QED
  BY <1>4, <1>9, <1>10, <1>11 DEF Nested, Types

(* The event that is run, and what is known of the slots before it.        *)
LEMMA FireIs ==
  ASSUME Nested, Top.at = "misc", DueAt # {}
  PROVE  /\ Min(DueAt) \in 0 .. Slots - 1 /\ Min(DueAt) \in Top.i .. Slots
         /\ SlotAt(Min(DueAt)) \in 0 .. Slots - 1
         /\ DueIn(currcycle, eventtab2, SlotAt(Min(DueAt)))
         /\ Passed(Top, Min(DueAt), currcycle, eventtab2)
<1>1. Types /\ Top \in MiscFrame /\ Top.ct = currcycle /\ Passed(Top, Top.i, currcycle, eventtab2)
  BY NestedTop DEF Nested
<1>2. PICK i : i = Min(DueAt)
  OBVIOUS
<1>3. i \in Top.i .. Slots - 1 /\ Due(i) /\ \A q \in Top.i .. i - 1 : ~Due(q)
  BY <1>1, <1>2, NextEventDueInScan
<1>4. Top.i \in Nat /\ Top.idx2 \in 0 .. Slots - 1
  BY <1>1, Sizes DEF MiscFrame
<1>5. i \in 0 .. Slots - 1 /\ i \in Top.i .. Slots
  BY <1>3, <1>4, Sizes
<1>6. SlotAt(i) \in 0 .. Slots - 1
  BY <1>4, <1>5, SlotProps DEF SlotAt
<1>7. DueIn(currcycle, eventtab2, SlotAt(i))
  BY <1>1, <1>3 DEF Due, DueIn
<1>8. Passed(Top, i, currcycle, eventtab2)
  <2> SUFFICES ASSUME NEW k \in 0 .. Slots - 1, k < i
               PROVE  ~DueIn(currcycle, eventtab2, SlotOf(Top, k))
    BY DEF Passed
  <2>1. k < Top.i \/ k \in Top.i .. i - 1
    BY <1>4, <1>5
  <2> QED
    BY <1>1, <1>3, <2>1 DEF Passed, Due, DueIn, SlotOf, SlotAt
<1> QED
  BY <1>2, <1>5, <1>6, <1>7, <1>8

LEMMA MiscFireNested ==
  ASSUME Nested, MiscFire
  PROVE  Nested' /\ Len(stack') = Len(stack) + 1
<1>1. PICK i : i = Min(DueAt)
  OBVIOUS
<1> DEFINE f == [Top EXCEPT !.i = i, !.soonest = SoonestBefore(i)]
           stk == [stack EXCEPT ![Len(stack)] = f]
           code == Code(HandlerCalls)
<1>2. /\ Top.at = "misc" /\ DueAt # {}
      /\ eventtab2' = [eventtab2 EXCEPT ![SlotAt(i)] = Free]
      /\ stack' = Append([stack EXCEPT ![Depth].i = i, ![Depth].soonest = SoonestBefore(i)], code)
      /\ event2cnt' = event2cnt + 1
      /\ UNCHANGED <<currcycle, nextevent, eventtab, event2idx, event2restart, next>>
  BY <1>1 DEF MiscFire
<1>3. /\ stack \in Seq(Frame) /\ Depth = Len(stack) /\ Depth \in Nat /\ Depth > 1
      /\ Top = stack[Len(stack)] /\ Top \in MiscFrame /\ Top.ct = currcycle /\ Types
  BY <1>2, NestedTop DEF Nested
<1>4. /\ i \in 0 .. Slots - 1 /\ i \in Top.i .. Slots /\ SlotAt(i) \in 0 .. Slots - 1
      /\ Passed(Top, i, currcycle, eventtab2)
  BY <1>1, <1>2, FireIs
<1>5. /\ f \in MiscFrame /\ f.at = "misc" /\ f.ct = currcycle /\ f.i = i /\ f.idx2 = Top.idx2
  <2>1. SoonestBefore(i) \in 0 .. MaxCycle \cup {EVT_MAX}
    BY <1>3, <1>4, SoonestProps
  <2>2. i \in 0 .. Slots
    BY <1>4, Sizes
  <2> QED
    BY <1>3, <2>1, <2>2 DEF MiscFrame
<1>6. f \in Frame /\ Len(stack) \in 1 .. Len(stack)
  BY <1>3, <1>5 DEF Frame
<1>7. stack' = Append(stk, code)
  BY <1>2, <1>3
<1> HIDE DEF f
<1>8. /\ stk \in Seq(Frame) /\ Len(stk) = Len(stack)
      /\ \A j \in 1 .. Len(stack) : stk[j] = IF j = Len(stack) THEN f ELSE stack[j]
  BY <1>3, <1>6, ExceptSeq
<1> HIDE DEF stk
<1>9. /\ eventtab2' \in Events2 /\ ~eventtab2'[SlotAt(i)].active
      /\ \A s \in 0 .. Slots - 1 : eventtab2'[s].active => eventtab2'[s] = eventtab2[s]
  BY <1>2, <1>3, <1>4, FreeProps DEF Types, Events2
<1>10. PICK new2 : new2 = eventtab2'
  OBVIOUS
<1>11. /\ \A s \in 0 .. Slots - 1 : DueIn(currcycle, new2, s) => DueIn(currcycle, eventtab2, s)
       /\ ~DueIn(currcycle, new2, SlotAt(i))
  BY <1>9, <1>10 DEF DueIn
<1>12. NestIn(stack, currcycle, new2)
  BY <1>11, NestKept DEF Nested
<1>13. Passed(f, f.i, currcycle, new2)
  <2>1. \A k : SlotOf(f, k) = SlotOf(Top, k)
    BY <1>5 DEF SlotOf
  <2>2. \A k \in 0 .. Slots - 1 : SlotOf(Top, k) \in 0 .. Slots - 1
    <3>1. Top.idx2 \in 0 .. Slots - 1
      BY <1>3 DEF MiscFrame
    <3> QED
      BY <3>1, SlotProps DEF SlotOf
  <2> QED
    BY <1>4, <1>5, <1>11, <2>1, <2>2 DEF Passed
<1>14. NestIn(stk, currcycle, new2) /\ Waiting(stk) = Waiting(stack)
  <2>1. /\ f.at = stack[Len(stack)].at /\ f.at \in {"code", "cycles", "misc"}
        /\ f.at = "cycles" => f.todo = stack[Len(stack)].todo
        /\ ScanIn(f, currcycle, new2)
    BY <1>2, <1>3, <1>5, <1>13 DEF ScanIn
  <2> QED
    BY <1>6, <1>8, <1>12, <2>1, NestChanged
<1>15. code \in Frame /\ code.at = "code"
  <2>1. HandlerCalls \in Nat
    BY EventAssumption
  <2> QED
    BY <2>1 DEF Code, CodeFrame, Frame
<1> HIDE DEF code
<1>16. /\ NestIn(Append(stk, code), currcycle, new2)
       /\ Waiting(Append(stk, code)) = Waiting(stk) \cup {Len(stk)}
  <2> DEFINE top == stk[Len(stk)]
  <2>1. top.at = "misc" /\ top.i < Slots /\ ~DueIn(currcycle, new2, SlotOf(top, top.i))
    <3>1. top = f
      BY <1>6, <1>8
    <3>2. i < Slots
      BY <1>4, Sizes
    <3>3. SlotOf(f, f.i) = SlotAt(i)
      BY <1>5 DEF SlotOf, SlotAt
    <3> QED
      BY <1>5, <1>11, <3>1, <3>2, <3>3
  <2> HIDE DEF top
  <2>2. /\ code.at # "newevent"
        /\ code.at = "cycles" => Len(stk) = 1 /\ currcycle + code.todo <= MaxCycle
        /\ code.at = "misc" => code.ct = currcycle /\ code.i = 0
        /\ top.at = "misc" => /\ code.at = "code" /\ top.i < Slots
                              /\ ~DueIn(currcycle, new2, SlotOf(top, top.i))
    BY <1>15, <2>1
  <2>3. /\ NestIn(Append(stk, code), currcycle, new2)
        /\ Waiting(Append(stk, code)) = IF top.at = "misc"
                                        THEN Waiting(stk) \cup {Len(stk)} ELSE Waiting(stk)
    BY <1>14, <1>15, <2>2, NestPushed DEF top
  <2> QED
    BY <2>1, <2>3
<1>17. NestIn(stack', currcycle, eventtab2') /\ Waiting(stack') = Waiting(stack) \cup {Len(stack)}
  BY <1>7, <1>8, <1>10, <1>14, <1>16
<1>18. stack' \in Seq(Frame) /\ Len(stack') = Len(stack) + 1
  BY <1>7, <1>8, <1>15, AppendProperties
<1>19. Counted'
  <2>1. IsFiniteSet(Waiting(stack)) /\ event2cnt = Cardinality(Waiting(stack))
    BY <1>3, WaitingFinite DEF Nested, Counted
  <2>2. Len(stack) \notin Waiting(stack)
    BY <1>3 DEF Waiting
  <2>3. Cardinality(Waiting(stack) \cup {Len(stack)}) = Cardinality(Waiting(stack)) + 1
    BY <2>1, <2>2, FS_AddElement
  <2> QED
    BY <1>2, <1>17, <2>1, <2>3 DEF Nested, Counted
<1>20. BlitterSlot(eventtab2')
  BY <1>9 DEF Nested, BlitterSlot
<1> QED
  BY <1>2, <1>3, <1>9, <1>17, <1>18, <1>19, <1>20 DEF Nested, Types, Events2

LEMMA EarlyHandlerReturnsNested ==
  ASSUME Nested, EarlyHandlerReturns
  PROVE  Nested'
<1> DEFINE stk == SubSeq(stack, 1, Len(stack) - 2)
<1>1. /\ Depth > 1 /\ Depth = Len(stack) /\ Below.at = "newevent" /\ Below = stack[Len(stack) - 1]
      /\ Below \in NewFrame /\ currcycle < Below.et /\ Below.func # Blitter
  BY NestedTop, NestedBelow DEF EarlyHandlerReturns
<1>2. /\ Below.no \in 1 .. Slots - 1 /\ Below.et \in 0 .. MaxCycle /\ Below.func \in Funcs
      /\ Below.data \in SUBSET (Bits \cup {0})
  BY <1>1 DEF NewFrame
<1>3. /\ Place(eventtab2, Below.no, Event(Below.et, Below.func, Below.data), stk)
      /\ UNCHANGED <<currcycle, event2cnt>>
  BY <1>1 DEF EarlyHandlerReturns
<1>4. /\ NestIn(stk, currcycle, eventtab2) /\ Waiting(stk) = Waiting(stack)
      /\ stk[Len(stk)].at \in {"code", "cycles"}
  <2>1. NestIn(stack, currcycle, eventtab2) /\ Len(stack) > 1 /\ stack[Len(stack) - 1].at = "newevent"
    BY <1>1 DEF Nested
  <2> QED
    BY <2>1, NestReturned2
<1> HIDE DEF stk
<1>5. eventtab2 \in Events2 /\ BlitterSlot(eventtab2)
  BY DEF Nested, Types, Events2
<1> QED
  BY <1>1, <1>2, <1>3, <1>4, <1>5, PlaceNested

----------------------------------------------------------------------------
(* Theorems                                                                *)

LEMMA NestedInit == Init => Nested
<1> SUFFICES ASSUME Init PROVE Nested
  OBVIOUS
<1>1. /\ currcycle = 0 /\ nextevent = EVT_MAX /\ next = 1
      /\ eventtab = [k \in 0 .. ev_max - 1 |-> Off] /\ eventtab2 = [s \in 0 .. Slots - 1 |-> Free]
      /\ event2idx = 0 /\ event2cnt = 0 /\ event2restart = 0 /\ stack = <<Code(MaxCalls)>>
  BY DEF Init
<1>2. Code(MaxCalls) \in Frame /\ LET c == Code(MaxCalls) IN c.at = "code"
  <2>1. MaxCalls \in Nat
    BY EventAssumption
  <2> QED
    BY <2>1 DEF Code, CodeFrame, Frame
<1>3. stack \in Seq(Frame) /\ Len(stack) = 1 /\ stack[1].at = "code"
  BY <1>1, <1>2
<1>4. NestIn(stack, currcycle, eventtab2) /\ Waiting(stack) = {}
  BY <1>3, NestBase
<1>5. /\ eventtab2 \in Events2 /\ BlitterSlot(eventtab2)
      /\ eventtab \in [0 .. ev_max - 1 -> [active: BOOLEAN, evtime: 0 .. MaxCycle]]
  BY <1>1, FreeProps, OffProps DEF Events2, BlitterSlot
<1>6. 0 \in 0 .. MaxCycle /\ 0 \in 0 .. Slots /\ 1 \in 1 .. Slots - 1
  BY Sizes
<1>7. Counted
  BY <1>1, <1>4, FS_EmptySet DEF Counted
<1> QED
  BY <1>1, <1>3, <1>4, <1>5, <1>6, <1>7 DEF Nested, Types, Events2

LEMMA NestedNext == Nested /\ [Next]_vars => Nested'
<1> SUFFICES ASSUME Nested, [Next]_vars PROVE Nested'
  OBVIOUS
<1>1. CASE Callers
  BY <1>1, CallersNested
<1>2. CASE MiscFire
  BY <1>2, MiscFireNested
<1>3. CASE MiscHandlerReturns
  BY <1>3, MiscHandlerReturnsNested
<1>4. CASE MiscReturn
  BY <1>4, MiscReturnNested
<1>5. CASE EarlyHandlerReturns
  BY <1>5, EarlyHandlerReturnsNested
<1>6. CASE NextEventDue \/ CyclesDone
  BY <1>6, CyclesNested
<1>7. CASE TimerReturns
  BY <1>7, TimerReturnsNested
<1>8. CASE MiscTimerFires
  BY <1>8, MiscTimerFiresNested
<1>9. CASE TimersServed
  BY <1>9, TimersServedNested
<1>10. ASSUME NEW t \in Delays \cup {0}, TimerFires(t) PROVE Nested'
  BY <1>10, TimerFiresNested
<1>11. ASSUME NEW c \in 0 .. MaxStep, DoCycles(c) PROVE Nested'
  BY <1>11, DoCyclesNested
<1>12. CASE UNCHANGED vars
  BY <1>12 DEF vars, tables, counters, Nested, Types, Counted
<1> QED
  BY <1>1, <1>2, <1>3, <1>4, <1>5, <1>6, <1>7, <1>8, <1>9, <1>10, <1>11, <1>12
     DEF Next, Events

(* The calls under way nest as MISC_handler and event2_newevent_xx expect. *)
THEOREM CallsNest == Spec => []Nested
BY NestedInit, NestedNext, PTL DEF Spec

(* Type correctness, whatever the handlers do.                             *)
THEOREM TypeCorrect == Spec => []TypeOK
<1>1. Nested => TypeOK
  <2> SUFFICES ASSUME Nested PROVE TypeOK
    OBVIOUS
  <2>1. Depth > 0 /\ stack[1].at = "code"
    BY DEF Nested, NestIn, Depth
  <2>2. event2cnt \in Nat
    <3>1. IsFiniteSet(Waiting(stack))
      BY WaitingFinite DEF Nested, Types
    <3> QED
      BY <3>1, FS_CardinalityType DEF Nested, Counted
  <2> QED
    BY <2>1, <2>2 DEF Nested, Types, Counted, TypeOK
<1> QED
  BY <1>1, CallsNest, PTL

(* When MISC_handler returns, however often its handlers have called it    *)
(* and started its scan anew, no event is left that is due in this cycle.  *)
THEOREM NoneLeftDue == Spec => AllServed
<1>1. Nested /\ [Next]_vars => [MiscReturns => \A s \in DOMAIN eventtab2 : ~DueNow(s)]_vars
  <2> SUFFICES ASSUME Nested, Next, MiscReturns, NEW s \in DOMAIN eventtab2 PROVE ~DueNow(s)
    OBVIOUS
  <2>1. Top.at = "misc" /\ Len(stack') < Depth
    BY DEF MiscReturns
  <2>2. /\ stack \in Seq(Frame) /\ Depth = Len(stack) /\ Depth \in Nat /\ Depth > 1
        /\ Top \in MiscFrame /\ Top.ct = currcycle /\ Passed(Top, Top.i, currcycle, eventtab2)
    BY <2>1, NestedTop
  <2>3. ~MiscFire
    <3> SUFFICES ASSUME MiscFire PROVE FALSE
      OBVIOUS
    <3>1. Len(stack') = Len(stack) + 1
      BY MiscFireNested
    <3> QED
      BY <2>1, <2>2, <3>1
  <2>4. MiscReturn
    <3>1. ~Callers
      BY <2>1, <2>2 DEF Callers, Calling, NewEvent, NewBlitterEvent, RemoveEvent, ReplaceEvent,
                        AddNotExists, SetTimer, InitEventtab
    <3>2. /\ ~MiscHandlerReturns /\ ~EarlyHandlerReturns /\ ~NextEventDue /\ ~CyclesDone
          /\ ~TimerReturns /\ ~MiscTimerFires /\ ~TimersServed
          /\ ~(\E t \in Delays \cup {0} : TimerFires(t)) /\ ~(\E c \in 0 .. MaxStep : DoCycles(c))
      BY <2>1, <2>2 DEF MiscHandlerReturns, EarlyHandlerReturns, NextEventDue, CyclesDone,
                        TimerReturns, MiscTimerFires, TimersServed, TimerFires, DoCycles
    <3> QED
      BY <2>3, <3>1, <3>2 DEF Next, Events
  <2>5. DueAt = {}
    BY <2>4 DEF MiscReturn
  <2>6. PICK j \in 0 .. Slots - 1 : SlotOf(Top, j) = s
    <3>1. s \in 0 .. Slots - 1
      BY DEF Nested, Types
    <3>2. Top.idx2 \in 0 .. Slots - 1
      BY <2>2 DEF MiscFrame
    <3> QED
      BY <3>1, <3>2, SlotProps DEF SlotOf
  <2>7. CASE j < Top.i
    BY <2>2, <2>6, <2>7 DEF Passed, DueIn, DueNow
  <2>8. CASE ~(j < Top.i)
    <3>1. Top.i \in Nat
      BY <2>2, Sizes DEF MiscFrame
    <3>2. j \in Top.i .. Slots - 1
      BY <2>8, <3>1
    <3>3. ~Due(j)
      BY <2>5, <3>2 DEF DueAt
    <3> QED
      BY <2>2, <2>6, <3>3 DEF Due, DueNow, SlotAt, SlotOf
  <2> QED
    BY <2>7, <2>8
<1> QED
  BY <1>1, CallsNest, PTL DEF Spec, AllServed

----------------------------------------------------------------------------
(* The agenda                                                              *)

(* What the table tab2 holds: one entry for each bit of data.              *)
EntryOf(tab2, s, b) == [time |-> tab2[s].evtime, func |-> tab2[s].func, bit |-> b]
Holds(tab2, s, b)   == tab2[s].active /\ b \in tab2[s].data
AgendaOf(tab2)      == {EntryOf(tab2, x[1], x[2]) :
                          x \in {y \in (0 .. Slots - 1) \X (Bits \cup {0}) :
                                   Holds(tab2, y[1], y[2])}}

LEMMA AgendaIs == Agenda = AgendaOf(eventtab2) /\ Agenda' = AgendaOf(eventtab2')
BY DEF Agenda, AgendaOf, EntryOf, Holds

(* An entry is a bit of an active slot.                                    *)
LEMMA InAgenda ==
  ASSUME NEW tab2
  PROVE  /\ \A s \in 0 .. Slots - 1, b \in Bits \cup {0} :
              Holds(tab2, s, b) => EntryOf(tab2, s, b) \in AgendaOf(tab2)
         /\ \A e \in AgendaOf(tab2) :
              \E s \in 0 .. Slots - 1, b \in Bits \cup {0} :
                Holds(tab2, s, b) /\ e = EntryOf(tab2, s, b)
<1>1. ASSUME NEW s \in 0 .. Slots - 1, NEW b \in Bits \cup {0}, Holds(tab2, s, b)
      PROVE  EntryOf(tab2, s, b) \in AgendaOf(tab2)
  <2> DEFINE x == <<s, b>>
  <2>1. x \in (0 .. Slots - 1) \X (Bits \cup {0}) /\ x[1] = s /\ x[2] = b
    OBVIOUS
  <2> HIDE DEF x
  <2>2. EntryOf(tab2, x[1], x[2]) \in AgendaOf(tab2)
    BY <1>1, <2>1 DEF AgendaOf
  <2> QED
    BY <2>1, <2>2
<1>2. ASSUME NEW e \in AgendaOf(tab2)
      PROVE  \E s \in 0 .. Slots - 1, b \in Bits \cup {0} :
               Holds(tab2, s, b) /\ e = EntryOf(tab2, s, b)
  <2>1. PICK x \in (0 .. Slots - 1) \X (Bits \cup {0}) :
          Holds(tab2, x[1], x[2]) /\ e = EntryOf(tab2, x[1], x[2])
    BY DEF AgendaOf
  <2>2. x[1] \in 0 .. Slots - 1 /\ x[2] \in Bits \cup {0}
    OBVIOUS
  <2> QED
    BY <2>1, <2>2
<1> QED
  BY <1>1, <1>2

(* The entries have the types the agenda expects.                          *)
LEMMA AgendaTyped ==
  ASSUME NEW tab2 \in Events2
  PROVE  AgendaOf(tab2) \subseteq Entries
<1> SUFFICES ASSUME NEW e \in AgendaOf(tab2) PROVE e \in Entries
  OBVIOUS
<1>1. PICK s \in 0 .. Slots - 1, b \in Bits \cup {0} : e = EntryOf(tab2, s, b)
  BY InAgenda
<1>2. tab2[s].evtime \in 0 .. MaxCycle /\ tab2[s].func \in Funcs
  BY DEF Events2
<1> QED
  BY <1>1, <1>2 DEF EntryOf, Entries

(* A slot that is left as it was, or given more data, keeps its entries.   *)
Keeps(tab2, new2, s) ==
  tab2[s].active => /\ new2[s].active /\ new2[s].func = tab2[s].func
                    /\ new2[s].evtime = tab2[s].evtime /\ tab2[s].data \subseteq new2[s].data

LEMMA AgendaKept ==
  ASSUME NEW tab2, NEW new2, NEW K \in SUBSET (0 .. Slots - 1),
         \A s \in 0 .. Slots - 1 : ~(s \in K) => Keeps(tab2, new2, s)
  PROVE  \A e \in AgendaOf(tab2) :
           e \in AgendaOf(new2) \/ \E s \in K : /\ tab2[s].active /\ e.func = tab2[s].func
                                                /\ e.time = tab2[s].evtime
<1> SUFFICES ASSUME NEW e \in AgendaOf(tab2),
                    ~(\E s \in K : /\ tab2[s].active /\ e.func = tab2[s].func
                                   /\ e.time = tab2[s].evtime)
             PROVE  e \in AgendaOf(new2)
  OBVIOUS
<1>1. PICK s \in 0 .. Slots - 1, b \in Bits \cup {0} :
        Holds(tab2, s, b) /\ e = EntryOf(tab2, s, b)
  BY InAgenda
<1>2. tab2[s].active /\ e.func = tab2[s].func /\ e.time = tab2[s].evtime
  BY <1>1 DEF Holds, EntryOf
<1>3. Keeps(tab2, new2, s)
  BY <1>2
<1>4. Holds(new2, s, b) /\ e = EntryOf(new2, s, b)
  BY <1>1, <1>3 DEF Holds, EntryOf, Keeps
<1> QED
  BY <1>4, InAgenda

(* What is taken out of the table is taken off the agenda, and no more.    *)
LEMMA AgendaTaken ==
  ASSUME NEW tab2, NEW new2,
         \A s \in 0 .. Slots - 1 : new2[s].active => new2[s] = tab2[s]
  PROVE  AgendaOf(new2) \subseteq AgendaOf(tab2)
<1>1. {} \in SUBSET (0 .. Slots - 1) /\ \A s \in 0 .. Slots - 1 : Keeps(new2, tab2, s)
  BY DEF Keeps
<1> QED
  BY <1>1, AgendaKept

(* The entries of a handler's events, and of all others.                   *)
Others(f, tab2) == {e \in AgendaOf(tab2) : e.func # f}

LEMMA WithoutAgenda ==
  ASSUME Nested, NEW f
  PROVE  AgendaOf(Without(f)) = Others(f, eventtab2)
<1> DEFINE K == {s \in 0 .. Slots - 1 : eventtab2[s].func = f}
<1>1. /\ \A s \in 0 .. Slots - 1 : 
            Without(f)[s].active => Without(f)[s] = eventtab2[s] /\ eventtab2[s].func # f
      /\ \A s \in 0 .. Slots - 1 :
            eventtab2[s].active /\ eventtab2[s].func # f => Without(f)[s] = eventtab2[s]
  BY WithoutNested
<1>2. PICK tab2 : tab2 = Without(f)
  OBVIOUS
<1>3. /\ K \in SUBSET (0 .. Slots - 1)
      /\ \A s \in 0 .. Slots - 1 : ~(s \in K) => Keeps(eventtab2, tab2, s)
  BY <1>1, <1>2 DEF Keeps
<1>4. \A e \in AgendaOf(eventtab2) : e \in AgendaOf(tab2) \/ e.func = f
  <2>1. \A e \in AgendaOf(eventtab2) :
          e \in AgendaOf(tab2) \/ \E s \in K : /\ eventtab2[s].active /\ e.func = eventtab2[s].func
                                               /\ e.time = eventtab2[s].evtime
    <3> HIDE DEF K
    <3> QED
      BY <1>3, AgendaKept
  <2> QED
    BY <2>1
<1>5. AgendaOf(tab2) \subseteq AgendaOf(eventtab2)
  BY <1>1, <1>2, AgendaTaken
<1>6. ASSUME NEW e \in AgendaOf(tab2) PROVE e.func # f
  <2>1. PICK s \in 0 .. Slots - 1, b \in Bits \cup {0} :
          Holds(tab2, s, b) /\ e = EntryOf(tab2, s, b)
    BY InAgenda
  <2> QED
    BY <1>1, <1>2, <2>1 DEF Holds, EntryOf
<1> QED
  BY <1>2, <1>4, <1>5, <1>6 DEF Others

----------------------------------------------------------------------------
(* Steps of the agenda                                                     *)

(* The handlers the agenda knows.                                          *)
LEMMA FuncsAsked == {e.func : e \in Entries} = Funcs
<1>1. ASSUME NEW f \in Funcs PROVE \E e \in Entries : e.func = f
  <2> DEFINE e == [time |-> 0, func |-> f, bit |-> 0]
  <2>1. 0 \in 0 .. MaxCycle /\ 0 \in Bits \cup {0}
    BY Sizes
  <2>2. e \in Entries /\ e.func = f
    BY <2>1 DEF Entries
  <2> QED
    BY <2>2
<1> QED
  BY <1>1 DEF Entries

(* Events of one handler are asked for, instead of those it had or not.    *)
LEMMA AskIs ==
  ASSUME NEW f \in Funcs, NEW old, eventtab2' \in Events2, UNCHANGED currcycle,
         old = AgendaOf(eventtab2) \/ (f # Ext /\ old = Others(f, eventtab2)),
         old \subseteq AgendaOf(eventtab2'),
         \A e \in AgendaOf(eventtab2') : e \in old \/ (e.func = f /\ e.time > currcycle)
  PROVE  AnyTime!Ask
<1>1. Agenda = AgendaOf(eventtab2) /\ Agenda' = AgendaOf(eventtab2')
  BY AgendaIs
<1>2. Agenda' \subseteq Entries
  BY <1>1, AgendaTyped
<1>3. old \in {Agenda, Agenda \ AnyTime!Of({f} \cap (Other \cup {Blitter}))}
  <2>1. CASE old = AgendaOf(eventtab2)
    BY <1>1, <2>1
  <2>2. CASE f # Ext /\ old = Others(f, eventtab2)
    <3>1. {f} \cap (Other \cup {Blitter}) = {f}
      BY <2>2 DEF Funcs
    <3>2. old = Agenda \ AnyTime!Of({f})
      BY <1>1, <2>2 DEF Others, AnyTime!Of
    <3> QED
      BY <3>1, <3>2
  <2> QED
    BY <2>1, <2>2
<1>4. f \in {e.func : e \in Entries}
  BY FuncsAsked
<1>5. old \subseteq Agenda' /\ \A e \in Agenda' \ old : e.func = f /\ e.time > currcycle
  BY <1>1
<1> QED
  BY <1>2, <1>3, <1>4, <1>5 DEF AnyTime!Ask

(* Entries that are soonest, or of this time, are delivered.               *)
LEMMA DeliverIs ==
  ASSUME NEW t, UNCHANGED currcycle, AgendaOf(eventtab2') \subseteq AgendaOf(eventtab2),
         \A e \in AgendaOf(eventtab2) : e \in AgendaOf(eventtab2') \/ e.time = t
  PROVE  /\ t = currcycle => AnyTime!Deliver
         /\ (\A e \in AgendaOf(eventtab2) : t <= e.time) => AnyTime!DeliverEarly
<1> DEFINE due == AgendaOf(eventtab2) \ AgendaOf(eventtab2')
<1>1. Agenda = AgendaOf(eventtab2) /\ Agenda' = AgendaOf(eventtab2')
  BY AgendaIs
<1>2. Agenda' = Agenda \ due /\ due \subseteq Agenda /\ \A e \in due : e.time = t
  BY <1>1
<1> HIDE DEF due
<1>3. ASSUME t = currcycle PROVE AnyTime!Deliver
  <2>1. due \in SUBSET {e \in Agenda : e.time = currcycle}
    BY <1>2, <1>3
  <2> QED
    BY <1>2, <2>1 DEF AnyTime!Deliver
<1>4. ASSUME \A e \in AgendaOf(eventtab2) : t <= e.time PROVE AnyTime!DeliverEarly
  <2>1. due \in SUBSET AnyTime!Soonest
    BY <1>1, <1>2, <1>4 DEF AnyTime!Soonest
  <2> QED
    BY <1>2, <2>1 DEF AnyTime!DeliverEarly
<1> QED
  BY <1>3, <1>4

(* The table in which an event is put, and what its handler had asked for. *)
AskedIn(tab2, f) == \/ tab2 = eventtab2
                    \/ f # Ext /\ f # Blitter /\ tab2 = Without(f)

LEMMA AskedFor ==
  ASSUME Nested, NEW f, NEW tab2, AskedIn(tab2, f)
  PROVE  /\ AgendaOf(tab2) = AgendaOf(eventtab2) \/ (f # Ext /\ AgendaOf(tab2) = Others(f, eventtab2))
         /\ tab2 \in Events2
<1>1. CASE tab2 = eventtab2
  BY <1>1 DEF Nested, Types, Events2
<1>2. CASE f # Ext /\ f # Blitter /\ tab2 = Without(f)
  BY <1>2, WithoutAgenda, WithoutNested
<1> QED
  BY <1>1, <1>2 DEF AskedIn

(* An event is put into a slot that was free or held the same.             *)
LEMMA FoundAsks ==
  ASSUME Nested, Nested', NEW f \in Funcs, NEW et, currcycle < et, NEW d,
         NEW tab2, AskedIn(tab2, f), NEW stk, Found(tab2, Event(et, f, d), stk), UNCHANGED currcycle
  PROVE  AnyTime!Ask
<1> DEFINE event == Event(et, f, d)
<1>1. /\ AgendaOf(tab2) = AgendaOf(eventtab2) \/ (f # Ext /\ AgendaOf(tab2) = Others(f, eventtab2))
      /\ tab2 \in Events2 /\ eventtab2' \in Events2
  BY AskedFor DEF Nested, Types, Events2
<1>2. PICK s \in 1 .. Slots - 1 : Usable(tab2, event, s) /\ Put(tab2, s, event, stk)
  BY DEF Found
<1>3. PICK new2 : new2 = eventtab2'
  OBVIOUS
<1>4. event.func = f /\ event.evtime = et
  BY DEF Event
<1> HIDE DEF event
<1>5. /\ s \in 0 .. Slots - 1 /\ new2[s] = event /\ (tab2[s].active => tab2[s] = event)
      /\ \A q \in 0 .. Slots - 1 : q # s => new2[q] = tab2[q]
  BY <1>1, <1>2, <1>3, Sizes DEF Put, Usable, Events2
<1>6. AgendaOf(tab2) \subseteq AgendaOf(new2)
  <2>1. {} \in SUBSET (0 .. Slots - 1) /\ \A q \in 0 .. Slots - 1 : Keeps(tab2, new2, q)
    BY <1>5 DEF Keeps
  <2> QED
    BY <2>1, AgendaKept
<1>7. \A e \in AgendaOf(new2) : e \in AgendaOf(tab2) \/ (e.func = f /\ e.time = et)
  <2>1. {s} \in SUBSET (0 .. Slots - 1) /\ \A q \in 0 .. Slots - 1 : ~(q \in {s}) => Keeps(new2, tab2, q)
    BY <1>5 DEF Keeps
  <2>2. \A e \in AgendaOf(new2) :
          e \in AgendaOf(tab2) \/ \E q \in {s} : /\ new2[q].active /\ e.func = new2[q].func
                                               /\ e.time = new2[q].evtime
    BY <2>1, AgendaKept
  <2> QED
    BY <1>4, <1>5, <2>2
<1>8. \A e \in AgendaOf(new2) : e \in AgendaOf(tab2) \/ (e.func = f /\ e.time > currcycle)
  <2>1. et > currcycle
    OBVIOUS
  <2> QED
    BY <1>7, <2>1
<1> QED
  BY <1>1, <1>3, <1>6, <1>8, AskIs

(* Interrupt bits are added to those of an event of the same time.         *)
LEMMA MergedAsks ==
  ASSUME Nested, Nested', NEW f \in Funcs, NEW et, currcycle < et, NEW d,
         NEW tab2, AskedIn(tab2, f), NEW stk, Merged(tab2, Event(et, f, d), stk), UNCHANGED currcycle
  PROVE  AnyTime!Ask
<1> DEFINE event == Event(et, f, d)
<1>1. /\ AgendaOf(tab2) = AgendaOf(eventtab2) \/ (f # Ext /\ AgendaOf(tab2) = Others(f, eventtab2))
      /\ tab2 \in Events2 /\ eventtab2' \in Events2
  BY AskedFor DEF Nested, Types, Events2
<1>2. PICK s \in 0 .. Slots - 1 :
        /\ tab2[s].active /\ event.func = Ext /\ tab2[s].func = Ext /\ tab2[s].evtime = event.evtime
        /\ eventtab2' = [tab2 EXCEPT ![s].data = @ \cup event.data]
  BY DEF Merged
<1>3. PICK new2 : new2 = eventtab2'
  OBVIOUS
<1>4. event.func = f /\ event.evtime = et
  BY DEF Event
<1> HIDE DEF event
<1>5. /\ new2[s].active /\ new2[s].func = tab2[s].func /\ new2[s].evtime = tab2[s].evtime
      /\ tab2[s].data \subseteq new2[s].data
      /\ tab2[s].func = f /\ tab2[s].evtime = et
      /\ \A q \in 0 .. Slots - 1 : q # s => new2[q] = tab2[q]
  BY <1>1, <1>2, <1>3, <1>4 DEF Events2
<1>6. AgendaOf(tab2) \subseteq AgendaOf(new2)
  <2>1. {} \in SUBSET (0 .. Slots - 1) /\ \A q \in 0 .. Slots - 1 : Keeps(tab2, new2, q)
    BY <1>5 DEF Keeps
  <2> QED
    BY <2>1, AgendaKept
<1>7. \A e \in AgendaOf(new2) : e \in AgendaOf(tab2) \/ (e.func = f /\ e.time = et)
  <2>1. {s} \in SUBSET (0 .. Slots - 1) /\ \A q \in 0 .. Slots - 1 : ~(q \in {s}) => Keeps(new2, tab2, q)
    BY <1>5 DEF Keeps
  <2>2. \A e \in AgendaOf(new2) :
          e \in AgendaOf(tab2) \/ \E q \in {s} : /\ new2[q].active /\ e.func = new2[q].func
                                               /\ e.time = new2[q].evtime
    BY <2>1, AgendaKept
  <2> QED
    BY <1>5, <2>2
<1>8. \A e \in AgendaOf(new2) : e \in AgendaOf(tab2) \/ (e.func = f /\ e.time > currcycle)
  <2>1. et > currcycle
    OBVIOUS
  <2> QED
    BY <1>7, <2>1
<1> QED
  BY <1>1, <1>3, <1>6, <1>8, AskIs

(* While room is made for an event nothing of its handler is taken back:   *)
(* that would have left room.                                              *)
LEMMA NoRoom ==
  ASSUME Nested, NEW f, f # Blitter, NEW event, Search(Without(f), next, event) = {}
  PROVE  AgendaOf(Without(f)) = AgendaOf(eventtab2)
<1>1. /\ \A s \in 0 .. Slots - 1 :
            Without(f)[s].active => Without(f)[s] = eventtab2[s] /\ eventtab2[s].func # f
      /\ \A s \in 0 .. Slots - 1 :
            eventtab2[s].active /\ eventtab2[s].func # f => Without(f)[s] = eventtab2[s]
  BY WithoutNested
<1>2. PICK tab2 : tab2 = Without(f)
  OBVIOUS
<1>3. ASSUME NEW s \in 0 .. Slots - 1, eventtab2[s].active PROVE tab2[s] = eventtab2[s]
  <2>1. CASE s = 0
    <3>1. eventtab2[s].func = Blitter
      BY <1>3, <2>1 DEF Nested, BlitterSlot
    <3> QED
      BY <1>1, <1>2, <1>3, <3>1
  <2>2. CASE s # 0
    <3>1. s \in 1 .. Slots - 1 /\ next \in 1 .. Slots - 1
      BY <2>2, Sizes DEF Nested, Types
    <3>2. PICK k \in 0 .. Visits(next) - 1 : PoolSlot(next, k) = s
      BY <3>1, SearchRound
    <3>3. ~Usable(tab2, event, s)
      BY <1>2, <3>2 DEF Search
    <3> QED
      BY <1>1, <1>2, <3>3 DEF Usable
  <2> QED
    BY <2>1, <2>2
<1>4. AgendaOf(eventtab2) \subseteq AgendaOf(tab2)
  BY <1>3, AgendaTaken
<1>5. AgendaOf(tab2) \subseteq AgendaOf(eventtab2)
  BY <1>1, <1>2, AgendaTaken
<1> QED
  BY <1>2, <1>4, <1>5

(* To make room a soonest event is run early.                              *)
LEMMA MadeRoomServes ==
  ASSUME Nested, Nested', NEW f, NEW et, NEW d, NEW no, NEW tab2, AskedIn(tab2, f),
         tab2 = eventtab2 \/ no = next,
         NEW stk, MadeRoom(tab2, no, Event(et, f, d), stk), UNCHANGED currcycle
  PROVE  AnyTime!DeliverEarly
<1> DEFINE t == Earliest(tab2)
<1>1. AgendaOf(tab2) = AgendaOf(eventtab2) /\ tab2 \in Events2
  <2>1. CASE tab2 = eventtab2
    BY <2>1, AskedFor
  <2>2. CASE tab2 # eventtab2
    <3>1. no = next /\ f # Blitter /\ tab2 = Without(f)
      BY <2>2 DEF AskedIn
    <3>2. Search(Without(f), next, Event(et, f, d)) = {}
      BY <3>1 DEF MadeRoom
    <3> QED
      BY <3>1, <3>2, NoRoom, AskedFor
  <2> QED
    BY <2>1, <2>2
<1>2. PICK s \in 0 .. Slots - 1 : /\ tab2[s].active /\ tab2[s].evtime = t
                                 /\ eventtab2' = [tab2 EXCEPT ![s] = Free]
  BY DEF MadeRoom
<1>3. PICK new2 : new2 = eventtab2'
  OBVIOUS
<1>4. ~new2[s].active /\ \A q \in 0 .. Slots - 1 : q # s => new2[q] = tab2[q]
  BY <1>1, <1>2, <1>3, FreeProps DEF Events2
<1>5. \A q \in 0 .. Slots - 1 : tab2[q].active => t <= tab2[q].evtime
  <2>1. /\ DOMAIN tab2 = 0 .. Slots - 1
        /\ \A k \in DOMAIN tab2 : tab2[k].active => tab2[k].evtime \in 0 .. MaxCycle
    BY <1>1 DEF Events2
  <2>2. \A k \in DOMAIN tab2 : tab2[k].active => t <= tab2[k].evtime
    BY <2>1, EarliestProps
  <2> HIDE DEF t
  <2> QED
    BY <2>1, <2>2
<1> HIDE DEF t
<1>6. \A e \in AgendaOf(tab2) : t <= e.time
  <2> SUFFICES ASSUME NEW e \in AgendaOf(tab2) PROVE t <= e.time
    OBVIOUS
  <2>1. PICK q \in 0 .. Slots - 1, b \in Bits \cup {0} :
          Holds(tab2, q, b) /\ e = EntryOf(tab2, q, b)
    BY InAgenda
  <2>2. tab2[q].active /\ e.time = tab2[q].evtime
    BY <2>1 DEF Holds, EntryOf
  <2> QED
    BY <1>5, <2>2
<1>7. AgendaOf(new2) \subseteq AgendaOf(tab2)
  <2>1. \A q \in 0 .. Slots - 1 : new2[q].active => new2[q] = tab2[q]
    BY <1>4
  <2> QED
    BY <2>1, AgendaTaken
<1>8. \A e \in AgendaOf(tab2) : e \in AgendaOf(new2) \/ e.time = t
  <2>1. {s} \in SUBSET (0 .. Slots - 1) /\ \A q \in 0 .. Slots - 1 : ~(q \in {s}) => Keeps(tab2, new2, q)
    BY <1>4 DEF Keeps
  <2>2. \A e \in AgendaOf(tab2) :
          e \in AgendaOf(new2) \/ \E q \in {s} : /\ tab2[q].active /\ e.func = tab2[q].func
                                               /\ e.time = tab2[q].evtime
    BY <2>1, AgendaKept
  <2> QED
    BY <1>2, <2>2
<1> QED
  BY <1>1, <1>3, <1>6, <1>7, <1>8, DeliverIs

(* What becomes of an event that is asked for.                             *)
LEMMA PlaceServes ==
  ASSUME Nested, Nested', NEW f \in Funcs, NEW et, currcycle < et, NEW d,
         NEW no \in 1 .. Slots - 1, NEW tab2, AskedIn(tab2, f), tab2 = eventtab2 \/ no = next,
         NEW stk, Place(tab2, no, Event(et, f, d), stk), UNCHANGED currcycle
  PROVE  AnyTime!Ask \/ AnyTime!DeliverEarly
<1>1. tab2 \in Events2 /\ next \in 1 .. Slots - 1
  BY AskedFor DEF Nested, Types
<1> DEFINE event == Event(et, f, d)
<1>2. Found(tab2, event, stk) \/ Merged(tab2, event, stk) \/ MadeRoom(tab2, no, event, stk)
  BY <1>1, PlaceIs
<1>3. CASE Found(tab2, event, stk)
  BY <1>3, FoundAsks
<1>4. CASE Merged(tab2, event, stk)
  BY <1>4, MergedAsks
<1>5. CASE MadeRoom(tab2, no, event, stk)
  BY <1>5, MadeRoomServes
<1> QED
  BY <1>2, <1>3, <1>4, <1>5

----------------------------------------------------------------------------
(* Each action is a step of the agenda                                     *)

Serves == AnyTime!Ask \/ AnyTime!Cancel \/ AnyTime!CancelAll
            \/ AnyTime!Deliver \/ AnyTime!DeliverEarly

(* A step that leaves the table alone leaves the agenda alone.             *)
LEMMA AgendaStays == UNCHANGED eventtab2 => UNCHANGED Agenda
BY AgendaIs

(* A handler called by MISC_handler is delivered in its cycle.             *)
LEMMA MiscFireDelivers ==
  ASSUME Nested, Nested', MiscFire
  PROVE  AnyTime!Deliver
<1>1. PICK i : i = Min(DueAt)
  OBVIOUS
<1>2. /\ Top.at = "misc" /\ DueAt # {} /\ UNCHANGED currcycle
      /\ eventtab2' = [eventtab2 EXCEPT ![SlotAt(i)] = Free]
  BY <1>1 DEF MiscFire
<1>3. PICK s \in 0 .. Slots - 1 : s = SlotAt(i) /\ DueIn(currcycle, eventtab2, s)
  BY <1>1, <1>2, FireIs
<1>4. PICK new2 : new2 = eventtab2'
  OBVIOUS
<1>5. ~new2[s].active /\ \A q \in 0 .. Slots - 1 : q # s => new2[q] = eventtab2[q]
  BY <1>2, <1>3, <1>4, FreeProps DEF Nested, Types
<1>6. AgendaOf(new2) \subseteq AgendaOf(eventtab2)
  <2>1. \A q \in 0 .. Slots - 1 : new2[q].active => new2[q] = eventtab2[q]
    BY <1>5
  <2> QED
    BY <2>1, AgendaTaken
<1>7. \A e \in AgendaOf(eventtab2) : e \in AgendaOf(new2) \/ e.time = currcycle
  <2>1. {s} \in SUBSET (0 .. Slots - 1)
        /\ \A q \in 0 .. Slots - 1 : ~(q \in {s}) => Keeps(eventtab2, new2, q)
    BY <1>5 DEF Keeps
  <2>2. \A e \in AgendaOf(eventtab2) :
          e \in AgendaOf(new2) \/ \E q \in {s} : /\ eventtab2[q].active /\ e.func = eventtab2[q].func
                                               /\ e.time = eventtab2[q].evtime
    BY <2>1, AgendaKept
  <2> QED
    BY <1>3, <2>2 DEF DueIn
<1>8. AgendaOf(eventtab2') \subseteq AgendaOf(eventtab2)
  BY <1>4, <1>6
<1>9. \A e \in AgendaOf(eventtab2) : e \in AgendaOf(eventtab2') \/ e.time = currcycle
  BY <1>4, <1>7
<1> QED
  BY <1>2, <1>8, <1>9, DeliverIs

(* The blitter's event takes the place of the one it had asked for.        *)
LEMMA BlitterAsks ==
  ASSUME Nested, Nested', NEW t \in Delays, NewBlitterEvent(t)
  PROVE  AnyTime!Ask
<1> DEFINE et    == currcycle + t
           event == Event(et, Blitter, {0})
<1>1. /\ UNCHANGED currcycle /\ et > currcycle
      /\ eventtab2' = [eventtab2 EXCEPT ![0] = event]
  <2>1. t \in Nat \ {0} /\ currcycle \in Nat
    BY Sizes DEF Delays, Nested, Types
  <2> QED
    BY <2>1 DEF NewBlitterEvent, Put
<1>2. event.func = Blitter /\ event.evtime = et
  BY DEF Event
<1> HIDE DEF event
<1>3. PICK new2 : new2 = eventtab2'
  OBVIOUS
<1>4. /\ 0 \in 0 .. Slots - 1 /\ eventtab2 \in Events2 /\ eventtab2' \in Events2
      /\ Blitter \in Funcs /\ Blitter # Ext
  BY Sizes, EventAssumption DEF Nested, Types, Events2, Funcs
<1>5. new2[0] = event /\ \A q \in 0 .. Slots - 1 : q # 0 => new2[q] = eventtab2[q]
  BY <1>1, <1>3, <1>4 DEF Events2
<1>6. /\ {0} \in SUBSET (0 .. Slots - 1)
      /\ \A q \in 0 .. Slots - 1 : ~(q \in {0}) => Keeps(eventtab2, new2, q) /\ Keeps(new2, eventtab2, q)
  BY <1>4, <1>5 DEF Keeps
<1>7. Others(Blitter, eventtab2) \subseteq AgendaOf(new2)
  <2>1. \A e \in AgendaOf(eventtab2) :
          e \in AgendaOf(new2) \/ \E q \in {0} : /\ eventtab2[q].active /\ e.func = eventtab2[q].func
                                               /\ e.time = eventtab2[q].evtime
    BY <1>6, AgendaKept
  <2>2. eventtab2[0].active => eventtab2[0].func = Blitter
    BY <1>4 DEF Nested, BlitterSlot
  <2> QED
    BY <2>1, <2>2 DEF Others
<1>8. \A e \in AgendaOf(new2) :
        e \in Others(Blitter, eventtab2) \/ (e.func = Blitter /\ e.time > currcycle)
  <2> SUFFICES ASSUME NEW e \in AgendaOf(new2)
               PROVE  e \in Others(Blitter, eventtab2) \/ (e.func = Blitter /\ e.time > currcycle)
    OBVIOUS
  <2>1. PICK s \in 0 .. Slots - 1, b \in Bits \cup {0} : Holds(new2, s, b) /\ e = EntryOf(new2, s, b)
    BY InAgenda
  <2>2. new2[s].active /\ e.func = new2[s].func /\ e.time = new2[s].evtime
    BY <2>1 DEF Holds, EntryOf
  <2>3. CASE s = 0
    BY <1>1, <1>2, <1>5, <2>2, <2>3
  <2>4. CASE s # 0
    <3>1. new2[s] = eventtab2[s]
      BY <1>5, <2>4
    <3>2. e \in AgendaOf(eventtab2)
      <4>1. Holds(eventtab2, s, b) /\ e = EntryOf(eventtab2, s, b)
        BY <2>1, <3>1 DEF Holds, EntryOf
      <4> QED
        BY <4>1, InAgenda
    <3>3. eventtab2[s].func # Blitter
      BY <2>2, <2>4, <3>1 DEF Nested, BlitterSlot
    <3> QED
      BY <2>2, <3>1, <3>2, <3>3 DEF Others
  <2> QED
    BY <2>3, <2>4
<1> QED
  BY <1>1, <1>3, <1>4, <1>7, <1>8, AskIs

(* What instructions and handlers call.                                    *)
LEMMA CallersServe ==
  ASSUME Nested, Nested', Callers
  PROVE  Serves \/ UNCHANGED <<currcycle, Agenda>>
<1> /\ next \in 1 .. Slots - 1 /\ \A t \in Delays : currcycle < currcycle + t
  BY Sizes DEF Nested, Types, Delays
<1>1. ASSUME NEW t \in Delays, NEW f \in Funcs, NEW d \in Data(f), NewEvent(t, f, d)
      PROVE  Serves
  <2>1. /\ Place(eventtab2, next, Event(currcycle + t, f, d), Called)
        /\ UNCHANGED currcycle
    BY <1>1 DEF NewEvent
  <2>2. AskedIn(eventtab2, f)
    BY DEF AskedIn
  <2> QED
    BY <2>1, <2>2, PlaceServes DEF Serves
<1>2. ASSUME NEW t \in Delays, NewBlitterEvent(t)
      PROVE  Serves
  BY <1>2, BlitterAsks DEF Serves
<1>3. ASSUME NEW f \in Funcs, RemoveEvent(f)
      PROVE  Serves
  <2>1. eventtab2' = Without(f) /\ UNCHANGED currcycle /\ f \in Other \cup {Blitter}
    BY <1>3 DEF RemoveEvent, Funcs
  <2>2. Agenda' = Others(f, eventtab2) /\ Agenda = AgendaOf(eventtab2)
    BY <2>1, WithoutAgenda, AgendaIs
  <2>3. Agenda' = Agenda \ AnyTime!Of({f})
    BY <2>2 DEF Others, AnyTime!Of
  <2> QED
    BY <2>1, <2>3 DEF Serves, AnyTime!Cancel
<1>4. ASSUME NEW t \in Delays, NEW f \in Funcs, ReplaceEvent(t, f)
      PROVE  Serves
  <2>1. /\ Place(Without(f), next, Event(currcycle + t, f, {0}), Called)
        /\ UNCHANGED currcycle /\ f # Ext /\ f # Blitter
    BY <1>4, EventAssumption DEF ReplaceEvent
  <2>2. PICK tab2 : tab2 = Without(f)
    OBVIOUS
  <2>3. AskedIn(tab2, f) /\ Place(tab2, next, Event(currcycle + t, f, {0}), Called)
    BY <2>1, <2>2 DEF AskedIn
  <2> QED
    BY <2>1, <2>3, PlaceServes DEF Serves
<1>5. ASSUME NEW t \in Delays, NEW f \in Funcs, AddNotExists(t, f)
      PROVE  Serves
  <2>1. /\ Place(eventtab2, next, Event(currcycle + t, f, {0}), Called)
        /\ UNCHANGED currcycle
    BY <1>5 DEF AddNotExists
  <2>2. AskedIn(eventtab2, f)
    BY DEF AskedIn
  <2> QED
    BY <2>1, <2>2, PlaceServes DEF Serves
<1>6. ASSUME NEW k \in Timers, NEW t \in Delays \cup {0}, SetTimer(k, t)
      PROVE  UNCHANGED <<currcycle, Agenda>>
  BY <1>6, AgendaStays DEF SetTimer
<1>7. ASSUME InitEventtab PROVE Serves
  <2>1. /\ MayReset /\ UNCHANGED currcycle
        /\ eventtab2' = [s \in DOMAIN eventtab2 |-> Free]
    BY <1>7 DEF InitEventtab
  <2>2. \A s \in 0 .. Slots - 1 : ~eventtab2'[s].active
    BY <2>1, FreeProps DEF Nested, Types
  <2>3. Agenda' = {}
    BY <2>2, AgendaIs DEF AgendaOf, Holds
  <2> QED
    BY <2>1, <2>3 DEF Serves, AnyTime!CancelAll
<1> QED
  BY <1>1, <1>2, <1>3, <1>4, <1>5, <1>6, <1>7 DEF Callers

(* Every step serves the agenda or leaves it alone; time passes in two     *)
(* steps of do_cycles only.                                                *)
LEMMA AgendaNext ==
  ASSUME Nested, Nested', Next
  PROVE  \/ Serves \/ UNCHANGED <<currcycle, Agenda>>
         \/ (NextEventDue \/ CyclesDone) /\ UNCHANGED Agenda
<1>1. CASE Callers
  BY <1>1, CallersServe
<1>2. CASE MiscFire
  BY <1>2, MiscFireDelivers DEF Serves
<1>3. CASE EarlyHandlerReturns
  <2>1. /\ Depth > 1 /\ Below.at = "newevent" /\ UNCHANGED currcycle
        /\ Place(eventtab2, Below.no, Event(Below.et, Below.func, Below.data),
                 SubSeq(stack, 1, Depth - 2))
    BY <1>3 DEF EarlyHandlerReturns
  <2>2. Below \in NewFrame /\ currcycle < Below.et
    BY <2>1, NestedBelow
  <2>3. Below.no \in 1 .. Slots - 1 /\ Below.func \in Funcs /\ AskedIn(eventtab2, Below.func)
    BY <2>2 DEF NewFrame, AskedIn
  <2> QED
    BY <2>1, <2>2, <2>3, PlaceServes DEF Serves
<1>4. CASE NextEventDue \/ CyclesDone
  BY <1>4, AgendaStays DEF NextEventDue, CyclesDone, tables
<1>5. CASE MiscHandlerReturns \/ MiscReturn \/ TimerReturns \/ MiscTimerFires \/ TimersServed
  BY <1>5, AgendaStays DEF MiscHandlerReturns, MiscReturn, TimerReturns, MiscTimerFires,
                           TimersServed, tables
<1>6. ASSUME NEW t \in Delays \cup {0}, TimerFires(t)
      PROVE  UNCHANGED <<currcycle, Agenda>>
  BY <1>6, AgendaStays DEF TimerFires
<1>7. ASSUME NEW c \in 0 .. MaxStep, DoCycles(c)
      PROVE  UNCHANGED <<currcycle, Agenda>>
  BY <1>7, AgendaStays DEF DoCycles, tables
<1> QED
  BY <1>1, <1>2, <1>3, <1>4, <1>5, <1>6, <1>7 DEF Next, Events

(* At first nothing is asked for.                                          *)
LEMMA AgendaInit == Init => currcycle = 0 /\ Agenda = {}
<1> SUFFICES ASSUME Init PROVE currcycle = 0 /\ Agenda = {}
  OBVIOUS
<1>1. \A s \in 0 .. Slots - 1 : ~eventtab2[s].active
  BY FreeProps DEF Init
<1> QED
  BY <1>1, AgendaIs DEF Init, AgendaOf, Holds

(* Whatever the handlers do, no event is lost and none runs twice: an      *)
(* event leaves the table only when it runs, in its cycle or as the        *)
(* soonest of all when there is no room, and when it is taken back.        *)
THEOREM NoneLost == Spec => NothingLost
<1>1. Init => AnyTime!Init
  BY AgendaInit DEF AnyTime!Init
<1>2. Nested /\ Nested' /\ [Next]_vars => [AnyTime!Next]_(AnyTime!vars)
  <2> SUFFICES ASSUME Nested, Nested', [Next]_vars PROVE [AnyTime!Next]_(AnyTime!vars)
    OBVIOUS
  <2>1. CASE UNCHANGED vars
    BY <2>1, AgendaStays DEF vars, tables, AnyTime!vars
  <2>2. CASE Next
    <3>1. CASE Serves
      BY <3>1 DEF Serves, AnyTime!Next
    <3>2. CASE UNCHANGED <<currcycle, Agenda>>
      BY <3>2 DEF AnyTime!vars
    <3>3. CASE (NextEventDue \/ CyclesDone) /\ UNCHANGED Agenda
      <4>1. currcycle' \in Int
        BY Sizes DEF Nested, Types
      <4> QED
        BY <3>3, <4>1 DEF AnyTime!Next, AnyTime!Pass
    <3> QED
      BY <2>2, <3>1, <3>2, <3>3, AgendaNext
  <2> QED
    BY <2>1, <2>2
<1> QED
  BY <1>1, <1>2, CallsNest, PTL DEF Spec, NothingLost, AnyTime!Spec

----------------------------------------------------------------------------
(* Every event at its time, while no event's handler makes calls           *)

(* do_cycles never steps over the cycle at which the tables are looked at. *)
Ahead == currcycle <= nextevent

(* How currcycle and nextevent change.                                     *)
LEMMA ClockSteps ==
  ASSUME Next
  PROVE  \/ UNCHANGED <<currcycle, nextevent>>
         \/ UNCHANGED currcycle /\ nextevent' = Earliest(eventtab')
         \/ NextEventDue \/ CyclesDone
<1> DEFINE Same == UNCHANGED <<currcycle, nextevent>>
           Anew == UNCHANGED currcycle /\ nextevent' = Earliest(eventtab')
<1>1. ASSUME NEW tab2, NEW no, NEW event, NEW stk, Place(tab2, no, event, stk)
      PROVE  UNCHANGED nextevent
  BY <1>1 DEF Place, Put
<1>2. CASE Callers
  <2>1. ASSUME NEW t \in Delays, NEW f \in Funcs, NEW d \in Data(f), NewEvent(t, f, d)
        PROVE  Same
    BY <1>1, <2>1 DEF NewEvent
  <2>2. ASSUME NEW t \in Delays, NewBlitterEvent(t) PROVE Same
    BY <2>2 DEF NewBlitterEvent, Put
  <2>3. ASSUME NEW f \in Funcs, RemoveEvent(f) PROVE Same
    BY <2>3 DEF RemoveEvent
  <2>4. ASSUME NEW t \in Delays, NEW f \in Funcs, ReplaceEvent(t, f) \/ AddNotExists(t, f)
        PROVE  Same
    BY <1>1, <2>4 DEF ReplaceEvent, AddNotExists
  <2>5. ASSUME NEW k \in Timers, NEW t \in Delays \cup {0}, SetTimer(k, t) PROVE Anew
    BY <2>5 DEF SetTimer, Schedule
  <2>6. InitEventtab => Anew
    BY DEF InitEventtab, Schedule
  <2> HIDE DEF Same, Anew
  <2> QED
    BY <1>2, <2>1, <2>2, <2>3, <2>4, <2>5, <2>6 DEF Callers, Same, Anew
<1>3. CASE Events
  <2>1. MiscFire \/ MiscHandlerReturns \/ TimerReturns \/ MiscTimerFires => Same
    BY DEF MiscFire, MiscHandlerReturns, TimerReturns, MiscTimerFires
  <2>2. EarlyHandlerReturns => Same
    BY <1>1 DEF EarlyHandlerReturns
  <2>3. MiscReturn => Same \/ Anew
    BY DEF MiscReturn, Schedule
  <2>4. TimersServed => Anew
    BY DEF TimersServed, Schedule, tables
  <2>5. ASSUME NEW t \in Delays \cup {0}, TimerFires(t) PROVE Anew
    BY <2>5 DEF TimerFires, Schedule
  <2>6. ASSUME NEW c \in 0 .. MaxStep, DoCycles(c) PROVE Same
    BY <2>6 DEF DoCycles
  <2> HIDE DEF Same, Anew
  <2> QED
    BY <1>3, <2>1, <2>2, <2>3, <2>4, <2>5, <2>6 DEF Events, Same, Anew
<1> QED
  BY <1>2, <1>3 DEF Next

(* No timer is behind, so that the next to be served is not.               *)
LEMMA AheadNext ==
  ASSUME Ahead, Punctual, Punctual', [Next]_vars
  PROVE  Ahead'
<1>1. currcycle \in 0 .. MaxCycle /\ currcycle' \in 0 .. MaxCycle
      /\ nextevent \in 0 .. MaxCycle \cup {EVT_MAX}
  BY DEF Punctual, Types
<1>2. CASE UNCHANGED <<currcycle, nextevent>>
  BY <1>2 DEF Ahead
<1>3. CASE UNCHANGED currcycle /\ nextevent' = Earliest(eventtab')
  <2>1. PICK tab : tab = eventtab'
    OBVIOUS
  <2>2. /\ DOMAIN tab = 0 .. ev_max - 1
        /\ \A k \in DOMAIN tab : tab[k].active => /\ tab[k].evtime \in 0 .. MaxCycle
                                                 /\ currcycle <= tab[k].evtime
    BY <1>3, <2>1 DEF Punctual, Types, Timely, TimelyIn
  <2>3. \/ Earliest(tab) = EVT_MAX
        \/ \E k \in DOMAIN tab : tab[k].active /\ Earliest(tab) = tab[k].evtime
    BY <2>2, EarliestProps
  <2>4. currcycle <= EVT_MAX
    <3>1. EVT_MAX \in Nat /\ currcycle < EVT_MAX
      BY <1>1, EvtMax
    <3> QED
      BY <1>1, <3>1, Sizes
  <2> QED
    BY <1>3, <2>1, <2>2, <2>3, <2>4 DEF Ahead
<1>4. CASE NextEventDue
  BY <1>1, <1>4, Sizes DEF NextEventDue, Ahead
<1>5. CASE CyclesDone
  <2>1. Top.at = "cycles" /\ nextevent - currcycle > Top.todo /\ currcycle' = currcycle + Top.todo
        /\ UNCHANGED nextevent
    BY <1>5 DEF CyclesDone
  <2>2. Top.todo \in Nat
    BY <2>1, CyclesOnTop DEF Punctual, CyclesFrame
  <2>3. nextevent \in Nat /\ currcycle \in Nat
    BY <1>1, EvtMax, Sizes
  <2> QED
    BY <2>1, <2>2, <2>3 DEF Ahead
<1> QED
  BY <1>2, <1>3, <1>4, <1>5, ClockSteps DEF vars

(* Time passes to the next event at most.                                  *)
LEMMA PassIs ==
  ASSUME Ahead, Punctual, NextEventDue \/ CyclesDone, UNCHANGED Agenda
  PROVE  UNCHANGED currcycle \/ OnTime!Pass
<1>1. Top.at = "cycles" /\ Top.todo \in Nat
  <2>1. Top.at = "cycles"
    BY DEF NextEventDue, CyclesDone
  <2> QED
    BY <2>1, CyclesOnTop DEF Punctual, CyclesFrame
<1>2. /\ currcycle \in Nat /\ nextevent \in Nat /\ currcycle <= nextevent
      /\ currcycle' \in {nextevent, currcycle + Top.todo}
      /\ currcycle' <= nextevent
  <2>1. currcycle \in Nat /\ nextevent \in Nat /\ currcycle <= nextevent
    BY EvtMax, Sizes DEF Punctual, Types, Ahead
  <2>2. CASE NextEventDue
    BY <2>1, <2>2 DEF NextEventDue
  <2>3. CASE CyclesDone
    BY <1>1, <2>1, <2>3 DEF CyclesDone
  <2> QED
    BY <2>1, <2>2, <2>3
<1>3. currcycle' \in Nat /\ currcycle' >= currcycle
  BY <1>1, <1>2
<1>4. ASSUME NEW e \in Agenda PROVE e.time >= currcycle'
  <2>1. PICK s \in 0 .. Slots - 1, b \in Bits \cup {0} :
          Holds(eventtab2, s, b) /\ e = EntryOf(eventtab2, s, b)
    BY AgendaIs, InAgenda
  <2>2. eventtab2[s].active /\ e.time = eventtab2[s].evtime
    BY <2>1 DEF Holds, EntryOf
  <2>3. ev_misc \in 0 .. ev_max - 1
    BY DEF ev_misc, ev_max
  <2>4. /\ eventtab[ev_misc].active /\ eventtab[ev_misc].evtime <= eventtab2[s].evtime
        /\ nextevent <= eventtab[ev_misc].evtime
    <3>1. ~Scanning
      BY <1>1, CyclesOnTop DEF Punctual
    <3> QED
      BY <2>2, <2>3, <3>1 DEF Punctual, Foreseen, ForeseenIn, Timely, TimelyIn
  <2>5. eventtab[ev_misc].evtime \in Nat /\ eventtab2[s].evtime \in Nat
    BY <2>3, EvtimeIsNat DEF Punctual
  <2> QED
    BY <1>2, <1>3, <2>2, <2>4, <2>5
<1>5. CASE currcycle' = currcycle
  BY <1>5
<1>6. CASE currcycle' # currcycle
  <2>1. currcycle' > currcycle /\ currcycle' \in Int
    BY <1>2, <1>3, <1>6
  <2> QED
    BY <1>4, <2>1 DEF OnTime!Pass
<1> QED
  BY <1>5, <1>6

(* While no event's handler makes calls, every event asked for runs at its *)
(* time: no time passes by which one should have run.                      *)
THEOREM RunsOnTime == ASSUME HandlerCalls = 0 PROVE Spec => ImplementsAgenda
<1>1. Init => OnTime!Init
  BY AgendaInit DEF OnTime!Init
<1>2. Init => Ahead
  BY EvtMax, Sizes DEF Init, Ahead
<1>3. Ahead /\ Punctual /\ Punctual' /\ [Next]_vars => Ahead'
  BY AheadNext
<1>4. Ahead /\ Punctual /\ Nested /\ Nested' /\ [Next]_vars => [OnTime!Next]_(OnTime!vars)
  <2> SUFFICES ASSUME Ahead, Punctual, Nested, Nested', [Next]_vars
               PROVE  [OnTime!Next]_(OnTime!vars)
    OBVIOUS
  <2>1. CASE UNCHANGED vars
    BY <2>1, AgendaStays DEF vars, tables, OnTime!vars
  <2>2. CASE Next
    <3>1. CASE Serves
      <4>1. CASE AnyTime!Ask
        BY <4>1 DEF AnyTime!Ask, AnyTime!Of, OnTime!Ask, OnTime!Of, OnTime!Next
      <4>2. CASE AnyTime!Cancel
        BY <4>2 DEF AnyTime!Cancel, AnyTime!Of, OnTime!Cancel, OnTime!Of, OnTime!Next
      <4>3. CASE AnyTime!CancelAll \/ AnyTime!Deliver
        BY <4>3 DEF AnyTime!CancelAll, OnTime!CancelAll, AnyTime!Deliver, OnTime!Deliver,
                    OnTime!Next
      <4>4. CASE AnyTime!DeliverEarly
        BY <4>4 DEF AnyTime!DeliverEarly, AnyTime!Soonest, OnTime!DeliverEarly, OnTime!Soonest,
                    OnTime!Next
      <4> QED
        BY <3>1, <4>1, <4>2, <4>3, <4>4 DEF Serves
    <3>2. CASE UNCHANGED <<currcycle, Agenda>>
      BY <3>2 DEF OnTime!vars
    <3>3. CASE (NextEventDue \/ CyclesDone) /\ UNCHANGED Agenda
      BY <3>3, PassIs DEF OnTime!Next, OnTime!vars
    <3> QED
      BY <2>2, <3>1, <3>2, <3>3, AgendaNext
  <2> QED
    BY <2>1, <2>2
<1>5. Spec => []Punctual
  BY EventsPunctual
<1> QED
  BY <1>1, <1>2, <1>3, <1>4, <1>5, CallsNest, PTL DEF Spec, ImplementsAgenda, OnTime!Spec
=============================================================================
