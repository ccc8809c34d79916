-------------------------- MODULE EventSchedProofs --------------------------
(***************************************************************************)
(* Proofs about EventSched: while no event's handler asks for events, no   *)
(* event is ever overdue between two instructions, for any number of       *)
(* slots, timers and handlers, any delays and any calls of the timers'     *)
(* handlers, resets included.                                              *)
(***************************************************************************)
EXTENDS EventSched, SequenceTheorems, FiniteSetTheorems, TLAPS

----------------------------------------------------------------------------
(* The soonest of several times                                            *)

(* A set of natural numbers that is not empty has a smallest element: of   *)
(* the intervals from 0 to its elements one contains no other.             *)
LEMMA MinProps ==
  ASSUME NEW A \in SUBSET Nat, A # {}
  PROVE  Min(A) \in A /\ \A y \in A : Min(A) <= y
<1> DEFINE R == StrictSubsetOrdering(Nat)
           T == {0 .. x : x \in A}
<1>1. IsWellFoundedOn(R, FiniteSubsetsOf(Nat))
  BY FS_StrictSubsetOrderingWellFounded
<1>2. T \subseteq FiniteSubsetsOf(Nat) /\ T # {}
  <2>1. ASSUME NEW x \in A PROVE 0 .. x \in FiniteSubsetsOf(Nat)
    <3>1. IsFiniteSet(0 .. x) /\ 0 .. x \in SUBSET Nat
      BY FS_Interval
    <3> QED
      BY <3>1 DEF FiniteSubsetsOf
  <2> QED
    BY <2>1
<1>3. PICK I \in T : \A J \in T : ~ (<<J, I>> \in R)
  <2> HIDE DEF R, T
  <2> QED
    BY <1>1, <1>2, WFMin
<1>4. PICK x \in A : I = 0 .. x
  BY <1>3
<1>5. ASSUME NEW y \in A PROVE x <= y
  <2> SUFFICES ASSUME y < x PROVE FALSE
    OBVIOUS
  <2>1. 0 .. y \in T /\ 0 .. y \in SUBSET Nat /\ 0 .. x \in SUBSET Nat
    OBVIOUS
  <2>2. 0 .. y \subseteq 0 .. x /\ 0 .. y # 0 .. x
    OBVIOUS
  <2>3. <<0 .. y, 0 .. x>> \in R
    BY <2>1, <2>2 DEF StrictSubsetOrdering
  <2> QED
    BY <1>3, <1>4, <2>1, <2>3
<1> QED
  BY <1>5 DEF Min

(* The sizes of the tables and of time.                                    *)
LEMMA Sizes == Slots \in Nat \ {0, 1} /\ MaxCycle \in Nat \ {0}
BY EventAssumption

(* Times of active entries come before EVT_MAX.                            *)
LEMMA EvtMax == EVT_MAX \in Nat /\ \A t \in 0 .. MaxCycle : t < EVT_MAX
BY EventAssumption DEF EVT_MAX

(* Earliest is the time of an active entry that no other precedes.         *)
LEMMA EarliestProps ==
  ASSUME NEW tab, \A k \in DOMAIN tab : tab[k].active => tab[k].evtime \in 0 .. MaxCycle
  PROVE  /\ \A k \in DOMAIN tab : tab[k].active => Earliest(tab) <= tab[k].evtime
         /\ \/ Earliest(tab) = EVT_MAX
            \/ \E k \in DOMAIN tab : tab[k].active /\ Earliest(tab) = tab[k].evtime
         /\ Earliest(tab) \in 0 .. MaxCycle \cup {EVT_MAX}
<1> DEFINE times == {tab[k].evtime : k \in {j \in DOMAIN tab : tab[j].active}}
<1>1. times \in SUBSET Nat /\ times \subseteq 0 .. MaxCycle
  OBVIOUS
<1>2. Earliest(tab) = IF times = {} THEN EVT_MAX ELSE Min(times)
  BY DEF Earliest
<1>3. CASE times = {}
  BY <1>2, <1>3
<1>4. CASE times # {}
  <2>1. Min(times) \in times /\ \A y \in times : Min(times) <= y
    <3> HIDE DEF times
    <3> QED
      BY <1>1, <1>4, MinProps
  <2> QED
    BY <1>1, <1>2, <1>4, <2>1
<1> QED
  BY <1>3, <1>4

(* The smaller of two numbers.                                             *)
LEMMA MinOfTwo ==
  ASSUME NEW a \in Nat, NEW b \in Nat
  PROVE  Min({a, b}) = IF a <= b THEN a ELSE b
<1>1. {a, b} \in SUBSET Nat /\ {a, b} # {}
  OBVIOUS
<1>2. Min({a, b}) \in {a, b} /\ \A y \in {a, b} : Min({a, b}) <= y
  BY <1>1, MinProps
<1> QED
  BY <1>2

----------------------------------------------------------------------------
(* The scan of MISC_handler                                                *)

(* From event2idx on and round again every slot is looked at.              *)
LEMMA SlotProps ==
  ASSUME NEW idx2 \in 0 .. Slots - 1
  PROVE  /\ \A j \in 0 .. Slots - 1 : (idx2 + j) % Slots \in 0 .. Slots - 1
         /\ \A s \in 0 .. Slots - 1 : \E j \in 0 .. Slots - 1 : (idx2 + j) % Slots = s
<1>1. \A x \in 0 .. (2 * Slots - 1) : x % Slots = IF x < Slots THEN x ELSE x - Slots
  BY EventAssumption
<1>2. \A j \in 0 .. Slots - 1 : (idx2 + j) % Slots \in 0 .. Slots - 1
  BY <1>1, EventAssumption
<1>3. ASSUME NEW s \in 0 .. Slots - 1
      PROVE  \E j \in 0 .. Slots - 1 : (idx2 + j) % Slots = s
  <2>1. CASE idx2 <= s
    <3>1. s - idx2 \in 0 .. Slots - 1 /\ idx2 + (s - idx2) = s /\ s < Slots
      BY <2>1, EventAssumption
    <3>2. (idx2 + (s - idx2)) % Slots = s
      BY <1>1, <3>1, EventAssumption
    <3> QED
      BY <3>1, <3>2
  <2>2. CASE idx2 > s
    <3> DEFINE j == s - idx2 + Slots
    <3>1. j \in 0 .. Slots - 1 /\ idx2 + j = s + Slots /\ s + Slots \in 0 .. (2 * Slots - 1)
      BY <2>2, EventAssumption
    <3>2. (idx2 + j) % Slots = s
      BY <1>1, <3>1, EventAssumption
    <3> QED
      BY <3>1, <3>2
  <2> QED
    BY <2>1, <2>2, EventAssumption
<1> QED
  BY <1>2, <1>3
----------------------------------------------------------------------------
(* The inductive invariant                                                 *)

(* The kinds of calls on the stack.                                        *)
CodeFrame   == [at: {"code"}, left: Nat]
CyclesFrame == [at: {"cycles"}, todo: Nat, i: 0 .. ev_max]
MiscFrame   == [at: {"misc"}, idx2: 0 .. Slots - 1, i: 0 .. Slots, ct: 0 .. MaxCycle,
                soonest: 0 .. MaxCycle \cup {EVT_MAX}]
NewFrame    == [at: {"newevent"}, no: 1 .. Slots - 1, et: 0 .. MaxCycle,
                func: Funcs, data: SUBSET (Bits \cup {0})]
Frame       == CodeFrame \cup CyclesFrame \cup MiscFrame \cup NewFrame

Types ==
  /\ currcycle \in 0 .. MaxCycle
  /\ nextevent \in 0 .. MaxCycle \cup {EVT_MAX}
  /\ eventtab \in [0 .. ev_max - 1 -> [active: BOOLEAN, evtime: 0 .. MaxCycle]]
  /\ eventtab2 \in [0 .. Slots - 1 -> [active: BOOLEAN, evtime: 0 .. MaxCycle,
                                       func: Funcs, data: SUBSET (Bits \cup {0})]]
  /\ event2idx \in 0 .. Slots
  /\ next \in 1 .. Slots - 1
  /\ stack \in Seq(Frame)

(* Below the calls into MISC_handler and event2_newevent_xx there is an    *)
(* instruction, or do_cycles and possibly a timer's handler.               *)
Plain(stk, b) ==
  /\ b \in 1 .. 3
  /\ stk[1] \in CodeFrame
  /\ b > 1 => stk[2] \in CyclesFrame
  /\ b > 2 => stk[3] \in CodeFrame

(* On top of them MISC_handler, with or without an event's handler, or     *)
(* event2_newevent_xx with the handler that is run early to make room.     *)
(* These handlers make no calls.                                           *)
Mode(b) ==
  /\ Plain(stack, b)
  /\ \/ Depth = b
     \/ Depth = b + 1 /\ stack[b + 1] \in MiscFrame
     \/ Depth = b + 2 /\ stack[b + 1] \in MiscFrame /\ stack[b + 2] = Code(0)
     \/ Depth = b + 2 /\ stack[b + 1] \in NewFrame /\ stack[b + 2] = Code(0) /\ b # 2
Shape == \E b \in 1 .. 3 : Mode(b)

Scanning == Top.at = "misc" \/ (Depth > 1 /\ Below.at = "misc")
Scan     == IF Top.at = "misc" THEN Top ELSE Below

Counters ==
  /\ event2restart = 0
  /\ event2cnt = IF Depth > 1 /\ Below.at = "misc" THEN 1 ELSE 0

(* The timers before this one have been served in the current cycle.       *)
ServedIn(stk) == IF Len(stk) > 1 /\ stk[2].at = "cycles" THEN stk[2].i ELSE ev_max

(* No timer is behind, and those that have been served are ahead.          *)
TimelyIn(stk) ==
  /\ (Len(stk) > 1 /\ stk[2].at = "cycles") => currcycle + stk[2].todo <= MaxCycle
  /\ \A k \in 0 .. ev_max - 1 : eventtab[k].active =>
       /\ nextevent <= eventtab[k].evtime
       /\ currcycle <= eventtab[k].evtime
       /\ k < ServedIn(stk) => currcycle < eventtab[k].evtime
Timely == TimelyIn(stack)

(* Unless MISC_handler is under way, ev_misc comes before every event.     *)
ForeseenIn(tab2) ==
  \A s \in 0 .. Slots - 1 : tab2[s].active =>
    eventtab[ev_misc].active /\ eventtab[ev_misc].evtime <= tab2[s].evtime
Foreseen == ~Scanning => ForeseenIn(eventtab2)

(* While it is, no event is behind, and of the slots it has looked at it   *)
(* knows the soonest event.                                                *)
SlotOf(m, j) == (m.idx2 + j) % Slots
ScanOK ==
  Scanning =>
    /\ ~eventtab[ev_misc].active
    /\ Scan.ct = currcycle /\ currcycle < Scan.soonest
    /\ \A s \in 0 .. Slots - 1 : eventtab2[s].active => currcycle <= eventtab2[s].evtime
    /\ \A j \in 0 .. Scan.i - 1 : eventtab2[SlotOf(Scan, j)].active =>
         /\ currcycle < eventtab2[SlotOf(Scan, j)].evtime
         /\ Scan.soonest <= eventtab2[SlotOf(Scan, j)].evtime
    /\ Top.at # "misc" => Scan.i < Slots /\ ~eventtab2[SlotOf(Scan, Scan.i)].active

(* An event for which room is made lies ahead.                             *)
AskedAhead == Depth > 1 /\ Below.at = "newevent" => currcycle < Below.et

Punctual == Types /\ Shape /\ Counters /\ Timely /\ Foreseen /\ ScanOK /\ AskedAhead
----------------------------------------------------------------------------
(* What is on the stack                                                    *)

(* There is always a call on the stack, and each is of a known kind.       *)
LEMMA StackProps ==
  ASSUME Types, Shape
  PROVE  /\ Depth \in Nat \ {0} /\ Top \in Frame
         /\ \A j \in 1 .. Depth : stack[j] \in Frame
         /\ Depth > 1 => Below \in Frame
<1> stack \in Seq(Frame)
  BY DEF Types
<1>1. Depth \in Nat /\ \A j \in 1 .. Depth : stack[j] \in Frame
  BY DEF Depth
<1>2. Depth > 0
  BY <1>1 DEF Shape, Mode
<1> QED
  BY <1>1, <1>2 DEF Top, Below

(* The call on top tells which calls are below it.                         *)
LEMMA MiscOnTop ==
  ASSUME Types, Shape, Top.at = "misc"
  PROVE  /\ Top \in MiscFrame /\ Scanning /\ Scan = Top
         /\ \E b \in 1 .. 3 : Plain(stack, b) /\ Depth = b + 1
<1>1. PICK b \in 1 .. 3 : Mode(b)
  BY DEF Shape
<1>2. Depth # b
  BY <1>1 DEF Mode, Plain, Top, CodeFrame, CyclesFrame
<1>3. Depth # b + 2
  BY <1>1 DEF Mode, Top, Code
<1> QED
  BY <1>1, <1>2, <1>3 DEF Mode, Top, Scanning, Scan

(* do_cycles on top: nothing but an instruction is below it.               *)
LEMMA CyclesOnTop ==
  ASSUME Types, Shape, Top.at = "cycles"
  PROVE  /\ Top \in CyclesFrame /\ Depth = 2 /\ ~Scanning
         /\ stack[1] \in CodeFrame /\ stack[2] = Top
<1>1. PICK b \in 1 .. 3 : Mode(b)
  BY DEF Shape
<1>2. Depth # b + 1
  BY <1>1 DEF Mode, Top, MiscFrame
<1>3. Depth # b + 2
  BY <1>1 DEF Mode, Top, Code
<1>4. b = 2
  BY <1>1, <1>2, <1>3 DEF Mode, Plain, Top, CodeFrame
<1> QED
  BY <1>1, <1>2, <1>3, <1>4 DEF Mode, Top, Below, Scanning, Plain, CodeFrame

(* An event's handler on top, called by MISC_handler.                      *)
LEMMA CodeAboveMisc ==
  ASSUME Types, Shape, Depth > 1, Top.at = "code", Below.at = "misc"
  PROVE  /\ Below \in MiscFrame /\ Top = Code(0) /\ Scanning /\ Scan = Below
         /\ \E b \in 1 .. 3 : Plain(stack, b) /\ Depth = b + 2
<1>1. PICK b \in 1 .. 3 : Mode(b)
  BY DEF Shape
<1>2. Depth # b
  BY <1>1 DEF Mode, Plain, Below, CodeFrame, CyclesFrame
<1>3. Depth # b + 1
  BY <1>1 DEF Mode, Top, MiscFrame
<1> QED
  BY <1>1, <1>2, <1>3 DEF Mode, Top, Below, Scanning, Scan, NewFrame

(* A handler on top that is run early to make room.                        *)
LEMMA CodeAboveNewevent ==
  ASSUME Types, Shape, Depth > 1, Top.at = "code", Below.at = "newevent"
  PROVE  /\ Below \in NewFrame /\ Top = Code(0) /\ ~Scanning
         /\ \E b \in {1, 3} : Plain(stack, b) /\ Depth = b + 2
<1>1. PICK b \in 1 .. 3 : Mode(b)
  BY DEF Shape
<1>2. Depth # b
  BY <1>1 DEF Mode, Plain, Below, CodeFrame, CyclesFrame
<1>3. Depth # b + 1
  BY <1>1 DEF Mode, Top, MiscFrame
<1> QED
  BY <1>1, <1>2, <1>3 DEF Mode, Top, Below, Scanning, NewFrame, MiscFrame

(* A timer's handler on top.                                               *)
LEMMA CodeAboveCycles ==
  ASSUME Types, Shape, Depth > 1, Top.at = "code", Below.at = "cycles"
  PROVE  Plain(stack, 3) /\ Depth = 3 /\ ~Scanning
<1>1. PICK b \in 1 .. 3 : Mode(b)
  BY DEF Shape
<1>2. Depth # b + 1
  BY <1>1 DEF Mode, Top, MiscFrame
<1>3. Depth # b + 2
  BY <1>1 DEF Mode, Below, MiscFrame, NewFrame
<1>4. Depth = b /\ b = 3
  BY <1>1, <1>2, <1>3 DEF Mode, Plain, Below, Top, CodeFrame, CyclesFrame
<1> QED
  BY <1>1, <1>4 DEF Mode, Scanning

(* Only an instruction and a timer's handler make calls.                   *)
LEMMA CallerIsPlain ==
  ASSUME Types, Shape, Top.at = "code", Top.left > 0
  PROVE  Depth \in {1, 3} /\ Plain(stack, Depth) /\ Top \in CodeFrame /\ ~Scanning
<1>1. PICK b \in 1 .. 3 : Mode(b)
  BY DEF Shape
<1>2. Depth # b + 1
  BY <1>1 DEF Mode, Top, MiscFrame
<1>3. Depth # b + 2
  BY <1>1 DEF Mode, Top, Code
<1>4. Depth = b /\ b # 2
  BY <1>1, <1>2, <1>3 DEF Mode, Plain, Top, CyclesFrame
<1> QED
  BY <1>1, <1>4 DEF Mode, Scanning, Plain, Top, Below, CyclesFrame

(* Between two instructions nothing is under way.                          *)
LEMMA Resting ==
  ASSUME Types, Shape, Depth = 1
  PROVE  stack[1] \in CodeFrame /\ ~Scanning
<1> QED
  BY DEF Shape, Mode, Plain, Scanning, Top, CodeFrame
----------------------------------------------------------------------------
(* Events asked for                                                        *)

Events2 == [0 .. Slots - 1 -> [active: BOOLEAN, evtime: 0 .. MaxCycle,
                               func: Funcs, data: SUBSET (Bits \cup {0})]]

(* A free slot is well typed.                                              *)
LEMMA FreeProps == Free \in [active: BOOLEAN, evtime: 0 .. MaxCycle, func: Funcs,
                             data: SUBSET (Bits \cup {0})] /\ ~Free.active
BY EventAssumption DEF Free, Funcs

(* An event put into a slot makes MISC_handler look at every slot.         *)
LEMMA PutKeeps ==
  ASSUME Types, NEW b \in {1, 3}, NEW stk \in Seq(Frame), Len(stk) = b, Plain(stk, b),
         TimelyIn(stk), event2cnt = 0, event2restart = 0,
         NEW tab2 \in Events2, ForeseenIn(tab2),
         NEW no \in 0 .. Slots - 1, NEW et \in 0 .. MaxCycle, currcycle < et,
         NEW f \in Funcs, NEW d \in SUBSET (Bits \cup {0}),
         Put(tab2, no, Event(et, f, d), stk),
         next' \in 1 .. Slots - 1, UNCHANGED <<currcycle, event2cnt>>
  PROVE  Punctual'
<1> DEFINE m == Misc((no + 1) % Slots, 0, currcycle, EVT_MAX)
<1>1. /\ eventtab2' = [tab2 EXCEPT ![no] = Event(et, f, d)] /\ event2idx' = no + 1
      /\ eventtab' = [eventtab EXCEPT ![ev_misc] = Off] /\ event2restart' = 0
      /\ stack' = Append(stk, m) /\ nextevent' = nextevent
  BY DEF Put, CallMisc
<1>2. m \in MiscFrame /\ m \in Frame
  <2>1. (no + 1) % Slots \in 0 .. Slots - 1
    BY EventAssumption
  <2> QED
    BY <2>1, EvtMax, EventAssumption DEF Types, Misc, MiscFrame, Frame
<1>3. /\ stack' \in Seq(Frame) /\ Depth' = b + 1 /\ stack'[b + 1] = m
      /\ \A j \in 1 .. b : stack'[j] = stk[j]
  <2> HIDE DEF m
  <2> QED
    BY <1>1, <1>2 DEF Depth
<1>4. Top' = m /\ Scanning' /\ Scan' = m
  BY <1>3 DEF Top, Scanning, Scan, Misc
<1>5. Types'
  <2>1. eventtab2' \in Events2
    BY <1>1 DEF Events2, Event
  <2>2. eventtab' \in [0 .. ev_max - 1 -> [active: BOOLEAN, evtime: 0 .. MaxCycle]]
    <3>1. Off \in [active: BOOLEAN, evtime: 0 .. MaxCycle]
      BY Sizes DEF Off
    <3> QED
      BY <1>1, <3>1 DEF Types
  <2>3. event2idx' \in 0 .. Slots
    BY <1>1, Sizes
  <2> QED
    BY <1>1, <1>3, <2>1, <2>2, <2>3 DEF Types, Events2
<1>6. Shape'
  <2>1. Plain(stack', b)
    BY <1>3 DEF Plain
  <2> QED
    BY <1>2, <1>3, <2>1 DEF Shape, Mode
<1>7. Counters'
  <2>1. Below' = stk[b] /\ stk[b].at # "misc"
    BY <1>3 DEF Below, Plain, CodeFrame
  <2> QED
    BY <1>1, <2>1 DEF Counters
<1>8. ServedIn(stack') = ServedIn(stk)
  BY <1>3 DEF ServedIn, Depth, Misc
<1>9. Timely'
  <2>1. \A k \in 0 .. ev_max - 1 : eventtab'[k].active => eventtab[k].active /\ eventtab'[k] = eventtab[k]
    BY <1>1 DEF Types, Off
  <2>2. Len(stack') > 1 /\ stack'[2].at = "cycles" => Len(stk) > 1 /\ stack'[2] = stk[2]
    BY <1>3 DEF Depth, Misc
  <2> QED
    BY <1>1, <1>8, <2>1, <2>2 DEF Timely, TimelyIn
<1>10. ScanOK'
  <2>1. ~eventtab'[ev_misc].active
    BY <1>1 DEF Types, Off, ev_max, ev_misc
  <2>2. \A s \in 0 .. Slots - 1 : eventtab2'[s].active => currcycle <= eventtab2'[s].evtime
    <3>1. \A s \in 0 .. Slots - 1 : tab2[s].active => currcycle <= tab2[s].evtime
      <4>1. eventtab[ev_misc].active => currcycle <= eventtab[ev_misc].evtime
        BY DEF TimelyIn, ev_max, ev_misc
      <4>2. eventtab[ev_misc].evtime \in Nat /\ \A s \in 0 .. Slots - 1 : tab2[s].evtime \in Nat
        <5>1. ev_misc \in 0 .. ev_max - 1
          BY DEF ev_max, ev_misc
        <5>2. eventtab[ev_misc].evtime \in 0 .. MaxCycle
          BY <5>1 DEF Types
        <5>3. \A s \in 0 .. Slots - 1 : tab2[s].evtime \in 0 .. MaxCycle
          BY DEF Events2
        <5> QED
          BY <5>2, <5>3, Sizes
      <4> QED
        BY <4>1, <4>2 DEF ForeseenIn, Types
    <3> QED
      BY <1>1, <3>1 DEF Events2, Event, Types
  <2>3. m.i = 0 /\ m.ct = currcycle /\ m.soonest = EVT_MAX /\ m.at = "misc" /\ currcycle < EVT_MAX
    BY EvtMax DEF Misc, Types
  <2> QED
    BY <1>4, <2>1, <2>2, <2>3 DEF ScanOK
<1>11. Foreseen' /\ AskedAhead'
  <2>1. Below' = stk[b] /\ stk[b].at # "newevent"
    BY <1>3 DEF Below, Plain, CodeFrame
  <2> QED
    BY <1>4, <2>1 DEF Foreseen, AskedAhead
<1> QED
  BY <1>5, <1>6, <1>7, <1>9, <1>10, <1>11 DEF Punctual
(* The search keeps to the pool.                                           *)
LEMMA PoolSlotProps ==
  ASSUME NEW no \in 1 .. Slots - 1, NEW k \in Nat
  PROVE  PoolSlot(no, k) \in 1 .. Slots - 1
<1> DEFINE x == no - 1 + k
           n == Slots - 1
<1>1. x \in Nat /\ n \in Nat \ {0}
  BY Sizes
<1>2. x % n \in 0 .. n - 1
  <2> HIDE DEF x, n
  <2> QED
    BY <1>1
<1>3. PoolSlot(no, k) = 1 + (x % n)
  BY DEF PoolSlot
<1> QED
  BY <1>1, <1>2, <1>3, Sizes

(* event2_newevent_xx: a slot is found, or merged with, or made free.      *)
LEMMA PlaceKeeps ==
  ASSUME HandlerCalls = 0,
         Types, NEW b \in {1, 3}, NEW stk \in Seq(Frame), Len(stk) = b, Plain(stk, b),
         TimelyIn(stk), event2cnt = 0, event2restart = 0,
         NEW tab2 \in Events2, ForeseenIn(tab2),
         NEW no \in 1 .. Slots - 1, NEW et \in 0 .. MaxCycle, currcycle < et,
         NEW f \in Funcs, NEW d \in SUBSET (Bits \cup {0}),
         Place(tab2, no, Event(et, f, d), stk), UNCHANGED <<currcycle, event2cnt>>
  PROVE  Punctual'
<1> DEFINE event == Event(et, f, d)
           found == Search(tab2, no, event)
           same  == Mergeable(tab2, event)
           first == Earliest(tab2)
           evict == Min({s \in DOMAIN tab2 : tab2[s].active /\ tab2[s].evtime = first})
<1>1. CASE found # {}
  <2>1. Min(found) \in Nat
    <3>1. found \in SUBSET Nat
      BY DEF Search
    <3> HIDE DEF found
    <3> QED
      BY <1>1, <3>1, MinProps
  <2> DEFINE s == PoolSlot(no, Min(found))
  <2>2. next' = s /\ Put(tab2, s, event, stk)
    BY <1>1 DEF Place
  <2>3. s \in 1 .. Slots - 1 /\ s \in 0 .. Slots - 1
    <3>1. s \in 1 .. Slots - 1
      <4> HIDE DEF found
      <4> QED
        BY <2>1, PoolSlotProps
    <3> QED
      BY <3>1, Sizes
  <2> HIDE DEF s
  <2> QED
    BY <2>2, <2>3, PutKeeps
<1>2. CASE found = {}
  <2>1. UNCHANGED <<nextevent, eventtab, event2idx, event2restart, next>>
    BY <1>2 DEF Place
  <2>2. /\ \/ /\ stack' = stk
              /\ \E s : eventtab2' = [tab2 EXCEPT ![s].data = @ \cup event.data]
           \/ /\ stack' = stk \o <<Newevent(next, et, f, d), Code(0)>>
              /\ \E s : eventtab2' = [tab2 EXCEPT ![s] = Free]
    <3>1. event.evtime = et /\ event.func = f /\ event.data = d
      BY DEF Event
    <3>2. CASE same # {}
      BY <1>2, <3>2 DEF Place
    <3>3. CASE same = {}
      <4>1. /\ eventtab2' = [tab2 EXCEPT ![evict] = Free]
            /\ stack' = stk \o <<Newevent(next, event.evtime, event.func, event.data),
                                 Code(HandlerCalls)>>
        BY <1>2, <3>3 DEF Place
      <4> QED
        BY <3>1, <4>1
    <3> QED
      BY <3>2, <3>3
  <2>3. eventtab2' \in Events2 /\ ForeseenIn(eventtab2')
    <3>1. ASSUME NEW s, eventtab2' = [tab2 EXCEPT ![s].data = @ \cup event.data]
          PROVE  eventtab2' \in Events2 /\ ForeseenIn(eventtab2')
      <4>1. event.data \in SUBSET (Bits \cup {0})
        BY DEF Event
      <4>2. eventtab2' \in Events2
        BY <3>1, <4>1 DEF Events2
      <4>3. \A q \in 0 .. Slots - 1 : /\ eventtab2'[q].active = tab2[q].active
                                      /\ eventtab2'[q].evtime = tab2[q].evtime
        BY <3>1 DEF Events2
      <4> QED
        BY <4>2, <4>3 DEF ForeseenIn
    <3>2. ASSUME NEW s, eventtab2' = [tab2 EXCEPT ![s] = Free]
          PROVE  eventtab2' \in Events2 /\ ForeseenIn(eventtab2')
      <4>1. eventtab2' \in Events2
        BY <3>2, FreeProps DEF Events2
      <4>2. \A q \in 0 .. Slots - 1 : eventtab2'[q].active => eventtab2'[q] = tab2[q]
        BY <3>2, FreeProps DEF Events2
      <4> QED
        BY <4>1, <4>2 DEF ForeseenIn
    <3> QED
      BY <2>2, <3>1, <3>2
  <2>4. CASE stack' = stk
    <3>1. Depth' = b /\ stack' \in Seq(Frame) /\ Top' = stk[b]
      BY <2>4 DEF Depth, Top
    <3>2. /\ Top'.at # "misc"
          /\ Depth' > 1 => Below'.at # "misc" /\ Below'.at # "newevent"
      BY <2>4, <3>1 DEF Plain, Below, CodeFrame, CyclesFrame
    <3>3. Types' /\ Shape'
      BY <2>1, <2>3, <2>4, <3>1 DEF Types, Events2, Shape, Mode
    <3>4. Counters' /\ ScanOK' /\ AskedAhead' /\ ~Scanning'
      BY <2>1, <3>1, <3>2 DEF Counters, ScanOK, AskedAhead, Scanning
    <3>5. Timely' /\ Foreseen'
      BY <2>1, <2>3, <2>4 DEF Timely, TimelyIn, ServedIn, Foreseen, ForeseenIn
    <3> QED
      BY <3>3, <3>4, <3>5 DEF Punctual
  <2>5. CASE stack' = stk \o <<Newevent(next, et, f, d), Code(0)>>
    <3> DEFINE new  == Newevent(next, et, f, d)
               code == Code(0)
    <3>1. new \in NewFrame /\ new \in Frame /\ code \in Frame /\ code \in CodeFrame
      BY DEF Newevent, Code, NewFrame, CodeFrame, Frame, Types
    <3>2. /\ stack' \in Seq(Frame) /\ Depth' = b + 2
          /\ stack'[b + 1] = new /\ stack'[b + 2] = code
          /\ \A j \in 1 .. b : stack'[j] = stk[j]
      <4> HIDE DEF new, code
      <4>1. <<new, code>> \in Seq(Frame) /\ Len(<<new, code>>) = 2
        BY <3>1
      <4>2. stack' = stk \o <<new, code>>
        BY <2>5 DEF new, code
      <4> QED
        BY <4>1, <4>2 DEF Depth
    <3>3. /\ Top' = code /\ Below' = new /\ Top'.at = "code" /\ Below'.at = "newevent"
          /\ Below'.et = et
      BY <3>2 DEF Top, Below, Newevent, Code
    <3>4. Types'
      BY <2>1, <2>3, <3>2 DEF Types, Events2
    <3>5. Shape'
      <4>1. Plain(stack', b)
        BY <3>2 DEF Plain
      <4> QED
        BY <3>1, <3>2, <4>1 DEF Shape, Mode
    <3>6. Counters' /\ ScanOK' /\ AskedAhead' /\ ~Scanning'
      BY <2>1, <3>2, <3>3 DEF Counters, ScanOK, AskedAhead, Scanning
    <3>7. ServedIn(stack') = ServedIn(stk)
      BY <3>2 DEF ServedIn, Depth, Newevent
    <3>8. Len(stack') > 1 /\ stack'[2].at = "cycles" => Len(stk) > 1 /\ stack'[2] = stk[2]
      BY <3>2 DEF Depth, Newevent
    <3>9. Timely' /\ Foreseen'
      BY <2>1, <2>3, <3>7, <3>8 DEF Timely, TimelyIn, Foreseen, ForeseenIn
    <3> QED
      BY <3>4, <3>5, <3>6, <3>9 DEF Punctual
  <2> QED
    BY <2>2, <2>4, <2>5
<1> QED
  BY <1>1, <1>2
----------------------------------------------------------------------------
(* Each action keeps the invariant                                         *)

(* The caller's stack when the call has been counted.                      *)
LEMMA CalledProps ==
  ASSUME Punctual, NEW t \in Nat, Calling(t)
  PROVE  /\ Depth \in {1, 3} /\ Plain(stack, Depth) /\ ~Scanning
         /\ Called \in Seq(Frame) /\ Len(Called) = Depth /\ Plain(Called, Depth)
         /\ TimelyIn(Called) /\ ForeseenIn(eventtab2)
         /\ event2cnt = 0 /\ event2restart = 0 /\ currcycle + t \in 0 .. MaxCycle
<1>1. Top.at = "code" /\ Top.left > 0 /\ currcycle + t <= MaxCycle
  BY DEF Calling
<1>2. Depth \in {1, 3} /\ Plain(stack, Depth) /\ Top \in CodeFrame /\ ~Scanning
  BY <1>1, CallerIsPlain DEF Punctual
<1> DEFINE top == [Top EXCEPT !.left = @ - 1]
<1>3. top \in CodeFrame /\ top \in Frame
  BY <1>1, <1>2 DEF CodeFrame, Frame
<1>4. stack \in Seq(Frame) /\ Depth = Len(stack)
  BY DEF Punctual, Types, Depth
<1>5. Called = [stack EXCEPT ![Depth] = top]
  BY DEF Called, Top
<1>6. /\ Called \in Seq(Frame) /\ Len(Called) = Depth /\ Called[Depth] = top
      /\ \A j \in 1 .. Depth : j # Depth => Called[j] = stack[j]
  <2> HIDE DEF top
  <2> QED
    BY <1>2, <1>3, <1>4, <1>5
<1>7. Plain(Called, Depth)
  BY <1>2, <1>3, <1>6 DEF Plain
<1>8. Depth > 1 => Called[2] = stack[2]
  BY <1>2, <1>6
<1>9. TimelyIn(Called)
  BY <1>2, <1>4, <1>6, <1>8 DEF Punctual, Timely, TimelyIn, ServedIn
<1>10. Depth > 1 => Below.at # "misc"
  BY <1>2 DEF Below, Plain, CyclesFrame
<1>11. currcycle + t \in 0 .. MaxCycle
  BY <1>1, Sizes DEF Punctual, Types
<1> QED
  BY <1>2, <1>6, <1>7, <1>9, <1>10, <1>11 DEF Punctual, Counters, Foreseen

(* An event asked for with a delay of one cycle or more lies ahead.        *)
LEMMA AskKeeps ==
  ASSUME HandlerCalls = 0, Punctual, NEW t \in Delays, Calling(t),
         NEW tab2 \in Events2, ForeseenIn(tab2),
         NEW f \in Funcs, NEW d \in SUBSET (Bits \cup {0}),
         Place(tab2, next, Event(currcycle + t, f, d), Called), UNCHANGED <<currcycle, event2cnt>>
  PROVE  Punctual'
<1>1. t \in Nat /\ t > 0
  BY EventAssumption DEF Delays
<1>2. currcycle < currcycle + t
  BY <1>1, Sizes DEF Punctual, Types
<1>3. next \in 1 .. Slots - 1 /\ Types
  BY DEF Punctual, Types
<1> QED
  BY <1>1, <1>2, <1>3, CalledProps, PlaceKeeps

(* Taking events back leaves those that stay foreseen.                     *)
LEMMA WithoutProps ==
  ASSUME Types, NEW f
  PROVE  /\ Without(f) \in Events2
         /\ ForeseenIn(eventtab2) => ForeseenIn(Without(f))
<1>1. /\ \A s \in 0 .. Slots - 1 : Without(f)[s] = IF eventtab2[s].func = f THEN Free ELSE eventtab2[s]
      /\ DOMAIN eventtab2 = 0 .. Slots - 1 /\ eventtab2 \in Events2
  BY DEF Types, Without, Events2
<1>2. Without(f) \in Events2
  BY <1>1, FreeProps DEF Without, Events2
<1> QED
  BY <1>1, <1>2, FreeProps DEF ForeseenIn

(* A handler's data are well typed.                                        *)
LEMMA DataProps == ASSUME NEW f \in Funcs PROVE Data(f) \subseteq SUBSET (Bits \cup {0})
BY DEF Data

(* A call that leaves the tables' order and the calls below it alone.      *)
LEMMA CallKeeps ==
  ASSUME Punctual, NEW t \in Nat, Calling(t), stack' = Called,
         Types', Timely', ForeseenIn(eventtab2)', UNCHANGED counters
  PROVE  Punctual'
<1>1. /\ Depth \in {1, 3} /\ Len(Called) = Depth /\ Plain(Called, Depth)
      /\ event2cnt = 0 /\ event2restart = 0
  BY CalledProps
<1>2. Depth' = Depth /\ Plain(stack', Depth)
  BY <1>1 DEF Depth
<1>3. Shape'
  BY <1>1, <1>2 DEF Shape, Mode
<1>4. Top'.at # "misc" /\ (Depth' > 1 => Below'.at # "misc" /\ Below'.at # "newevent")
  BY <1>1, <1>2 DEF Top, Below, Plain, CodeFrame, CyclesFrame
<1> QED
  BY <1>1, <1>3, <1>4
     DEF Punctual, Counters, counters, ScanOK, AskedAhead, Scanning, Foreseen
(* So is a timer that is off.                                              *)
LEMMA OffProps == Off \in [active: BOOLEAN, evtime: 0 .. MaxCycle] /\ ~Off.active
BY Sizes DEF Off

(* A timer that is set lies ahead, and the next event is computed anew.    *)
LEMMA ArmProps ==
  ASSUME Types, NEW k \in 0 .. ev_max - 1, NEW t \in Nat, currcycle + t \in 0 .. MaxCycle
  PROVE  LET tab == Arm(eventtab, k, t)
         IN  /\ tab \in [0 .. ev_max - 1 -> [active: BOOLEAN, evtime: 0 .. MaxCycle]]
             /\ \A q \in 0 .. ev_max - 1 : q # k => tab[q] = eventtab[q]
             /\ tab[k].active => currcycle < tab[k].evtime
             /\ Earliest(tab) \in 0 .. MaxCycle \cup {EVT_MAX}
             /\ \A q \in 0 .. ev_max - 1 : tab[q].active => Earliest(tab) <= tab[q].evtime
<1> DEFINE new == IF t > 0 THEN [active |-> TRUE, evtime |-> currcycle + t] ELSE Off
           tab == Arm(eventtab, k, t)
<1>1. new \in [active: BOOLEAN, evtime: 0 .. MaxCycle] /\ (new.active => currcycle < new.evtime)
  BY OffProps, Sizes DEF Types
<1>2. tab = [eventtab EXCEPT ![k] = new]
  BY DEF Arm
<1> HIDE DEF new, tab
<1>3. /\ tab \in [0 .. ev_max - 1 -> [active: BOOLEAN, evtime: 0 .. MaxCycle]]
      /\ tab[k] = new /\ \A q \in 0 .. ev_max - 1 : q # k => tab[q] = eventtab[q]
  BY <1>1, <1>2 DEF Types
<1>4. \A q \in DOMAIN tab : tab[q].active => tab[q].evtime \in 0 .. MaxCycle
  BY <1>3
<1>5. /\ Earliest(tab) \in 0 .. MaxCycle \cup {EVT_MAX}
      /\ \A q \in DOMAIN tab : tab[q].active => Earliest(tab) <= tab[q].evtime
  BY <1>4, EarliestProps
<1> QED
  BY <1>1, <1>3, <1>5 DEF tab

(* What instructions and handlers call.                                    *)
LEMMA CallersKeep ==
  ASSUME HandlerCalls = 0, Punctual, Callers
  PROVE  Punctual'
<1> Types
  BY DEF Punctual
<1> eventtab2 \in Events2 /\ \A t : Calling(t) /\ t \in Nat => ForeseenIn(eventtab2)
  BY CalledProps DEF Types, Events2
<1> Delays \subseteq Nat
  BY DEF Delays
<1>1. ASSUME NEW t \in Delays, NEW f \in Funcs, NEW d \in Data(f), NewEvent(t, f, d)
      PROVE  Punctual'
  <2>1. d \in SUBSET (Bits \cup {0})
    BY DataProps
  <2> QED
    BY <1>1, <2>1, AskKeeps DEF NewEvent
<1>2. ASSUME NEW t \in Delays, NewBlitterEvent(t)
      PROVE  Punctual'
  <2>1. Calling(t) /\ Put(eventtab2, 0, Event(currcycle + t, Blitter, {0}), Called)
        /\ UNCHANGED <<currcycle, next, event2cnt>>
    BY <1>2 DEF NewBlitterEvent
  <2>2. 0 \in 0 .. Slots - 1 /\ Blitter \in Funcs /\ {0} \in SUBSET (Bits \cup {0})
    BY Sizes DEF Funcs
  <2>3. currcycle < currcycle + t
    BY Sizes DEF Delays, Types
  <2>4. next' \in 1 .. Slots - 1
    BY <2>1 DEF Types
  <2> QED
    BY <2>1, <2>2, <2>3, <2>4, CalledProps, PutKeeps
<1>3. ASSUME NEW f \in Funcs, RemoveEvent(f)
      PROVE  Punctual'
  <2>1. /\ Calling(0) /\ eventtab2' = Without(f) /\ stack' = Called
        /\ UNCHANGED <<currcycle, nextevent, eventtab, event2idx, next, counters>>
    BY <1>3 DEF RemoveEvent
  <2>2. Called \in Seq(Frame) /\ TimelyIn(Called) /\ ForeseenIn(eventtab2)
    BY <2>1, CalledProps
  <2>3. Types'
    BY <2>1, <2>2, WithoutProps DEF Types, Events2
  <2>4. Timely'
    BY <2>1, <2>2 DEF Timely, TimelyIn, ServedIn
  <2>5. ForeseenIn(eventtab2)'
    BY <2>1, <2>2, WithoutProps DEF ForeseenIn
  <2> QED
    BY <2>1, <2>3, <2>4, <2>5, CallKeeps
<1>4. ASSUME NEW t \in Delays, NEW f \in Funcs, ReplaceEvent(t, f)
      PROVE  Punctual'
  <2>1. {0} \in SUBSET (Bits \cup {0})
    OBVIOUS
  <2> QED
    BY <1>4, <2>1, WithoutProps, AskKeeps DEF ReplaceEvent
<1>5. ASSUME NEW t \in Delays, NEW f \in Funcs, AddNotExists(t, f)
      PROVE  Punctual'
  <2>1. {0} \in SUBSET (Bits \cup {0})
    OBVIOUS
  <2> QED
    BY <1>5, <2>1, AskKeeps DEF AddNotExists
<1>6. ASSUME NEW k \in Timers, NEW t \in Delays \cup {0}, SetTimer(k, t)
      PROVE  Punctual'
  <2>1. /\ Calling(t) /\ eventtab' = Arm(eventtab, k, t) /\ nextevent' = Earliest(eventtab')
        /\ stack' = Called
        /\ UNCHANGED <<currcycle, eventtab2, event2idx, next, counters>>
    BY <1>6 DEF SetTimer, Schedule
  <2>2. /\ Called \in Seq(Frame) /\ TimelyIn(Called) /\ ForeseenIn(eventtab2)
        /\ currcycle + t \in 0 .. MaxCycle /\ currcycle \in Nat /\ t \in Nat
    BY <2>1, CalledProps, Sizes DEF Types
  <2>3. k \in 0 .. ev_max - 1 /\ k # ev_misc
    BY EventAssumption
  <2>4. Types'
    BY <2>1, <2>2, <2>3, ArmProps DEF Types
  <2>5. Timely'
    <3>1. \A q \in 0 .. ev_max - 1 : eventtab'[q].active =>
            \/ q # k /\ eventtab'[q] = eventtab[q]
            \/ currcycle < eventtab'[q].evtime
      BY <2>1, <2>2, <2>3, ArmProps
    <3>2. \A q \in 0 .. ev_max - 1 : eventtab'[q].active => nextevent' <= eventtab'[q].evtime
      BY <2>1, <2>2, <2>3, ArmProps
    <3>3. \A q \in 0 .. ev_max - 1 : eventtab'[q].evtime \in Nat
      <4>1. \A q \in 0 .. ev_max - 1 : eventtab'[q].evtime \in 0 .. MaxCycle
        BY <2>4 DEF Types
      <4> QED
        BY <4>1, Sizes
    <3> QED
      BY <2>1, <2>2, <3>1, <3>2, <3>3 DEF Timely, TimelyIn, ServedIn
  <2>6. ForeseenIn(eventtab2)'
    <3>1. eventtab'[ev_misc] = eventtab[ev_misc]
      BY <2>1, <2>2, <2>3, ArmProps DEF ev_max, ev_misc
    <3> QED
      BY <2>1, <2>2, <3>1 DEF ForeseenIn
  <2> QED
    BY <2>1, <2>2, <2>4, <2>5, <2>6, CallKeeps
<1>7. ASSUME InitEventtab PROVE Punctual'
  <2>1. /\ Depth = 1 /\ nextevent' = Earliest(eventtab')
        /\ eventtab' = [k \in DOMAIN eventtab |-> Off]
        /\ eventtab2' = [s \in DOMAIN eventtab2 |-> Free]
        /\ UNCHANGED <<currcycle, event2idx, next, counters, stack>>
    BY <1>7 DEF InitEventtab, Schedule
  <2>2. stack[1] \in CodeFrame /\ ~Scanning /\ Depth' = 1
    BY <2>1, Resting DEF Punctual, Depth
  <2>3. /\ eventtab' \in [0 .. ev_max - 1 -> [active: BOOLEAN, evtime: 0 .. MaxCycle]]
        /\ \A k \in 0 .. ev_max - 1 : ~eventtab'[k].active
    BY <2>1, OffProps DEF Types
  <2>4. /\ eventtab2' \in Events2
        /\ \A s \in 0 .. Slots - 1 : ~eventtab2'[s].active
    BY <2>1, FreeProps DEF Events2
  <2>5. nextevent' \in 0 .. MaxCycle \cup {EVT_MAX}
    <3>1. \A k \in DOMAIN eventtab' : eventtab'[k].active => eventtab'[k].evtime \in 0 .. MaxCycle
      BY <2>3
    <3> QED
      BY <2>1, <3>1, EarliestProps
  <2>6. Types'
    BY <2>1, <2>3, <2>4, <2>5 DEF Types, Events2
  <2>7. Shape' /\ Counters' /\ ~Scanning' /\ AskedAhead'
    <3>1. Shape'
      BY <2>1 DEF Punctual, Shape, Mode, Plain, Depth
    <3>2. Top' = stack[1] /\ Top'.at # "misc"
      BY <2>1, <2>2 DEF Top, CodeFrame
    <3> QED
      BY <2>1, <2>2, <3>1, <3>2 DEF Punctual, Counters, counters, Scanning, AskedAhead
  <2>8. Timely' /\ Foreseen' /\ ScanOK'
    <3>1. Timely'
      BY <2>2, <2>3 DEF Depth, Timely, TimelyIn
    <3> QED
      BY <2>4, <2>7, <3>1 DEF Foreseen, ForeseenIn, ScanOK
  <2> QED
    BY <2>6, <2>7, <2>8 DEF Punctual
<1> QED
  BY <1>1, <1>2, <1>3, <1>4, <1>5, <1>6, <1>7 DEF Callers

(* A call returns.                                                         *)
LEMMA FrontIs ==
  ASSUME NEW stk \in Seq(Frame), Len(stk) > 0
  PROVE  /\ Front(stk) \in Seq(Frame) /\ Len(Front(stk)) = Len(stk) - 1
         /\ \A j \in 1 .. Len(stk) - 1 : Front(stk)[j] = stk[j]
<1> DEFINE n == Len(stk) - 1
<1>1. Front(stk) = SubSeq(stk, 1, n)
  BY DEF Front
<1>2. n \in Nat /\ 1 \in Int /\ n \in Int
  OBVIOUS
<1>3. \A j \in 1 .. n : stk[j] \in Frame
  OBVIOUS
<1> HIDE DEF n
<1>4. /\ SubSeq(stk, 1, n) \in Seq(Frame)
      /\ Len(SubSeq(stk, 1, n)) = IF 1 <= n THEN n - 1 + 1 ELSE 0
      /\ \A j \in 1 .. n - 1 + 1 : SubSeq(stk, 1, n)[j] = stk[1 + j - 1]
  BY <1>2, <1>3, SubSeqProperties
<1>5. n - 1 + 1 = n /\ \A j \in 1 .. n : 1 + j - 1 = j
  BY <1>2
<1>6. Len(SubSeq(stk, 1, n)) = n /\ \A j \in 1 .. n : SubSeq(stk, 1, n)[j] = stk[j]
  BY <1>2, <1>4, <1>5
<1> QED
  BY <1>1, <1>4, <1>6 DEF n

(* The call on top is changed.                                             *)
LEMMA TopReplaced ==
  ASSUME Types, Depth > 0, NEW f \in Frame, stack' = [stack EXCEPT ![Depth] = f]
  PROVE  /\ stack' \in Seq(Frame) /\ Depth' = Depth /\ stack'[Depth] = f
         /\ \A j \in 1 .. Depth : j # Depth => stack'[j] = stack[j]
<1>1. stack \in Seq(Frame) /\ Depth = Len(stack) /\ Depth \in 1 .. Len(stack)
  BY DEF Types, Depth
<1> QED
  BY <1>1, ExceptSeq DEF Depth

(* A call is made.                                                         *)
LEMMA Pushed ==
  ASSUME NEW stk \in Seq(Frame), NEW f \in Frame, stack' = Append(stk, f)
  PROVE  /\ stack' \in Seq(Frame) /\ Depth' = Len(stk) + 1 /\ stack'[Len(stk) + 1] = f
         /\ \A j \in 1 .. Len(stk) : stack'[j] = stk[j]
BY AppendProperties DEF Depth

(* A timer before the next one that is due, or any if none is, is ahead.   *)
LEMMA ServedAhead ==
  ASSUME Punctual, Top.at = "cycles", NEW k \in 0 .. ev_max - 1, eventtab[k].active,
         \A q \in TimersDue : k < q
  PROVE  currcycle < eventtab[k].evtime
<1>1. Top \in CyclesFrame /\ Depth = 2 /\ stack[2] = Top
  BY CyclesOnTop DEF Punctual
<1>2. ServedIn(stack) = Top.i /\ Top.i \in 0 .. ev_max
  BY <1>1 DEF ServedIn, Depth, CyclesFrame
<1>3. currcycle \in Nat /\ eventtab[k].evtime \in Nat
  <2>1. currcycle \in 0 .. MaxCycle /\ eventtab[k].evtime \in 0 .. MaxCycle
    BY DEF Punctual, Types
  <2> QED
    BY <2>1, Sizes
<1>4. currcycle <= eventtab[k].evtime /\ (k < Top.i => currcycle < eventtab[k].evtime)
  BY <1>2 DEF Punctual, Timely, TimelyIn
<1>5. k >= Top.i => eventtab[k].evtime # currcycle
  BY <1>2 DEF TimersDue, ev_max
<1> QED
  BY <1>2, <1>3, <1>4, <1>5 DEF ev_max

(* The steps of do_cycles that serve no timer.                             *)
LEMMA CyclesKeep ==
  ASSUME Punctual, NextEventDue \/ CyclesDone \/ TimerReturns \/ TimersServed
                     \/ \E c \in 0 .. MaxStep : DoCycles(c)
  PROVE  Punctual'
<1>A. Types /\ Shape /\ stack \in Seq(Frame) /\ Depth = Len(stack)
  BY DEF Punctual, Types, Depth
<1>B. MaxCycle \in Nat /\ currcycle \in Nat /\ nextevent \in Nat /\ currcycle <= MaxCycle
  BY <1>A, Sizes, EvtMax DEF Types
<1>0. \A k \in 0 .. ev_max - 1 : eventtab[k].evtime \in Nat
  <2>1. \A k \in 0 .. ev_max - 1 : eventtab[k].evtime \in 0 .. MaxCycle
    BY <1>A DEF Types
  <2> QED
    BY <1>B, <2>1
<1>1. ASSUME NextEventDue PROVE Punctual'
  <2>1. /\ Top.at = "cycles" /\ Top.i = ev_max /\ nextevent - currcycle <= Top.todo
        /\ currcycle' = nextevent
        /\ stack' = [stack EXCEPT ![Depth] = Cycles(Top.todo - (nextevent - currcycle), 0)]
        /\ UNCHANGED <<nextevent, eventtab, eventtab2, event2idx, next, event2cnt, event2restart>>
    BY <1>A, <1>B, <1>1 DEF NextEventDue, tables, counters
  <2>2. /\ Top \in CyclesFrame /\ Depth = 2 /\ ~Scanning
        /\ stack[1] \in CodeFrame /\ stack[2] = Top
    BY <1>A, <1>B, <2>1, CyclesOnTop
  <2> DEFINE todo == Top.todo - (nextevent - currcycle)
             c    == Cycles(todo, 0)
  <2>3. Top.todo \in Nat /\ currcycle + Top.todo <= MaxCycle
    BY <1>A, <1>B, <2>1, <2>2 DEF Punctual, Timely, TimelyIn, CyclesFrame
  <2>4. todo \in Nat /\ nextevent + todo = currcycle + Top.todo
    BY <1>A, <1>B, <2>1, <2>3
  <2>5. c \in CyclesFrame /\ c \in Frame /\ c.at = "cycles" /\ c.i = 0 /\ c.todo = todo
    BY <1>A, <1>B, <2>4 DEF Cycles, CyclesFrame, Frame, ev_max
  <2>6. /\ stack' \in Seq(Frame) /\ Depth' = 2 /\ stack'[1] = stack[1] /\ stack'[2] = c
    <3>1. stack' = [stack EXCEPT ![Depth] = c] /\ Depth > 0
      BY <2>1, <2>2
    <3> HIDE DEF c
    <3>2. stack' \in Seq(Frame) /\ Depth' = Depth /\ stack'[Depth] = c
          /\ \A j \in 1 .. Depth : j # Depth => stack'[j] = stack[j]
      BY <1>A, <3>1, <2>2, <2>5, TopReplaced
    <3> QED
      BY <1>A, <1>B, <3>2, <2>2
  <2>7. currcycle' \in 0 .. MaxCycle
    BY <1>A, <1>B, <2>1, <2>3, <2>4
  <2>8. Types'
    BY <1>A, <1>B, <2>1, <2>6, <2>7 DEF Types
  <2>9. Plain(stack', 2) /\ Shape'
    BY <1>A, <1>B, <2>2, <2>5, <2>6 DEF Shape, Mode, Plain
  <2>10. Top' = c /\ Below' = stack[1] /\ Below'.at = "code"
    BY <1>A, <1>B, <2>2, <2>6 DEF Top, Below, CodeFrame
  <2>11. Counters' /\ ~Scanning' /\ ScanOK' /\ AskedAhead' /\ Foreseen'
    BY <1>A, <1>B, <2>1, <2>2, <2>5, <2>6, <2>10
       DEF Punctual, Counters, Below, Scanning, ScanOK, AskedAhead, Foreseen, ForeseenIn, CodeFrame
  <2>12. Timely'
    <3>1. ServedIn(stack') = 0
      BY <1>A, <1>B, <2>5, <2>6 DEF ServedIn, Depth
    <3>2. \A k \in 0 .. ev_max - 1 : eventtab'[k].active =>
            nextevent' <= eventtab'[k].evtime /\ currcycle' <= eventtab'[k].evtime
      BY <1>A, <1>B, <2>1 DEF Punctual, Timely, TimelyIn
    <3>3. currcycle' + stack'[2].todo <= MaxCycle
      BY <1>A, <1>B, <2>1, <2>3, <2>4, <2>5, <2>6
    <3> QED
      BY <1>A, <1>B, <3>1, <3>2, <3>3 DEF Timely, TimelyIn
  <2> QED
    BY <1>A, <1>B, <2>8, <2>9, <2>11, <2>12 DEF Punctual
<1>2. ASSUME CyclesDone PROVE Punctual'
  <2>1. /\ Top.at = "cycles" /\ Top.i = ev_max /\ nextevent - currcycle > Top.todo
        /\ currcycle' = currcycle + Top.todo
        /\ stack' = <<Code(MaxCalls)>>
        /\ UNCHANGED <<nextevent, eventtab, eventtab2, event2idx, next, event2cnt, event2restart>>
    BY <1>A, <1>B, <1>2 DEF CyclesDone, tables, counters
  <2>2. /\ Top \in CyclesFrame /\ Depth = 2 /\ ~Scanning
        /\ stack[1] \in CodeFrame /\ stack[2] = Top
    BY <1>A, <1>B, <2>1, CyclesOnTop
  <2>3. Top.todo \in Nat /\ currcycle + Top.todo <= MaxCycle
    BY <1>A, <1>B, <2>1, <2>2 DEF Punctual, Timely, TimelyIn, CyclesFrame
  <2>4. Code(MaxCalls) \in CodeFrame /\ Code(MaxCalls) \in Frame
    BY EventAssumption DEF Code, CodeFrame, Frame
  <2>5. stack' \in Seq(Frame) /\ Depth' = 1 /\ stack'[1] \in CodeFrame
    BY <1>A, <1>B, <2>1, <2>4 DEF Depth
  <2>6. currcycle' \in 0 .. MaxCycle /\ currcycle' < nextevent
    BY <1>A, <1>B, <2>1, <2>3
  <2>7. Types'
    BY <1>A, <1>B, <2>1, <2>5, <2>6 DEF Types
  <2>8. Shape'
    BY <1>A, <1>B, <2>5 DEF Shape, Mode, Plain
  <2>9. Top'.at = "code"
    BY <1>A, <1>B, <2>5 DEF Top, CodeFrame
  <2>10. Counters' /\ ~Scanning' /\ ScanOK' /\ AskedAhead' /\ Foreseen'
    BY <1>A, <1>B, <2>1, <2>2, <2>5, <2>9
       DEF Punctual, Counters, Below, Scanning, ScanOK, AskedAhead, Foreseen, ForeseenIn, CodeFrame
  <2>11. Timely'
    <3>1. Len(stack') = 1
      BY <1>A, <1>B, <2>5 DEF Depth
    <3>2. \A k \in 0 .. ev_max - 1 : eventtab'[k].active =>
            nextevent' <= eventtab'[k].evtime /\ currcycle' < eventtab'[k].evtime
      BY <1>A, <1>B, <1>0, <2>1, <2>6, Sizes DEF Punctual, Timely, TimelyIn
    <3> QED
      BY <1>A, <1>B, <1>0, <2>1, <2>6, <3>1, <3>2 DEF Timely, TimelyIn
  <2> QED
    BY <1>A, <1>B, <2>7, <2>8, <2>10, <2>11 DEF Punctual
<1>3. ASSUME TimerReturns PROVE Punctual'
  <2>1. /\ Depth > 1 /\ Top.at = "code" /\ Below.at = "cycles" /\ stack' = Front(stack)
        /\ UNCHANGED <<currcycle, nextevent, eventtab, eventtab2, event2idx, next,
                       event2cnt, event2restart>>
    BY <1>A, <1>B, <1>3 DEF TimerReturns, tables, counters
  <2>2. Plain(stack, 3) /\ Depth = 3 /\ ~Scanning
    BY <1>A, <1>B, <2>1, CodeAboveCycles
  <2>3. /\ stack' \in Seq(Frame) /\ Depth' = 2 /\ stack'[1] = stack[1] /\ stack'[2] = stack[2]
    <3>1. Len(stack) = 3 /\ Len(stack) > 0
      BY <1>A, <1>B, <2>2
    <3>2. /\ Front(stack) \in Seq(Frame) /\ Len(Front(stack)) = Len(stack) - 1
          /\ \A j \in 1 .. Len(stack) - 1 : Front(stack)[j] = stack[j]
      BY <1>A, <3>1, FrontIs
    <3> QED
      BY <1>A, <1>B, <2>1, <3>1, <3>2 DEF Depth
  <2>4. Types' /\ Shape'
    BY <1>A, <1>B, <2>1, <2>2, <2>3 DEF Types, Shape, Mode, Plain
  <2>5. Top'.at = "cycles" /\ Below'.at = "code" /\ ~Scanning'
    BY <1>A, <1>B, <2>2, <2>3 DEF Top, Below, Plain, CodeFrame, CyclesFrame, Scanning
  <2>6. Counters' /\ ScanOK' /\ AskedAhead' /\ Foreseen'
    BY <1>A, <1>B, <2>1, <2>2, <2>5 DEF Punctual, Counters, ScanOK, AskedAhead, Foreseen, ForeseenIn
  <2>7. Timely'
    BY <1>A, <1>B, <2>1, <2>2, <2>3 DEF Punctual, Timely, TimelyIn, ServedIn, Depth
  <2> QED
    BY <1>A, <1>B, <2>4, <2>6, <2>7 DEF Punctual
<1>4. ASSUME TimersServed PROVE Punctual'
  <2>1. /\ Top.at = "cycles" /\ Top.i < ev_max /\ TimersDue = {}
        /\ nextevent' = Earliest(eventtab)
        /\ stack' = [stack EXCEPT ![Depth].i = ev_max]
        /\ UNCHANGED <<currcycle, eventtab, eventtab2, event2idx, next, event2cnt, event2restart>>
    BY <1>A, <1>B, <1>4 DEF TimersServed, tables, counters, Schedule
  <2>2. /\ Top \in CyclesFrame /\ Depth = 2 /\ ~Scanning
        /\ stack[1] \in CodeFrame /\ stack[2] = Top
    BY <1>A, <1>B, <2>1, CyclesOnTop
  <2> DEFINE c == [Top EXCEPT !.i = ev_max]
  <2>3. c \in CyclesFrame /\ c \in Frame /\ c.at = "cycles" /\ c.i = ev_max /\ c.todo = Top.todo
    BY <1>A, <1>B, <2>2 DEF CyclesFrame, Frame, ev_max
  <2>4. /\ stack' \in Seq(Frame) /\ Depth' = 2 /\ stack'[1] = stack[1] /\ stack'[2] = c
    <3>1. stack' = [stack EXCEPT ![Depth] = c] /\ Depth > 0
      BY <2>1, <2>2
    <3> HIDE DEF c
    <3>2. stack' \in Seq(Frame) /\ Depth' = Depth /\ stack'[Depth] = c
          /\ \A j \in 1 .. Depth : j # Depth => stack'[j] = stack[j]
      BY <1>A, <3>1, <2>2, <2>3, TopReplaced
    <3> QED
      BY <1>A, <1>B, <3>2, <2>2
  <2>5. /\ \A k \in 0 .. ev_max - 1 : eventtab[k].active => nextevent' <= eventtab[k].evtime
        /\ nextevent' \in 0 .. MaxCycle \cup {EVT_MAX}
    <3>1. DOMAIN eventtab = 0 .. ev_max - 1 /\ \A k \in DOMAIN eventtab : eventtab[k].evtime \in 0 .. MaxCycle
      BY <1>A DEF Types
    <3> QED
      BY <1>A, <1>B, <2>1, <3>1, EarliestProps
  <2>6. Types'
    BY <1>A, <1>B, <2>1, <2>4, <2>5 DEF Types
  <2>7. Shape'
    BY <1>A, <1>B, <2>2, <2>3, <2>4 DEF Shape, Mode, Plain
  <2>8. Top' = c /\ Below' = stack[1] /\ Below'.at = "code"
    BY <1>A, <1>B, <2>2, <2>4 DEF Top, Below, CodeFrame
  <2>9. Counters' /\ ~Scanning' /\ ScanOK' /\ AskedAhead' /\ Foreseen'
    BY <1>A, <1>B, <2>1, <2>2, <2>3, <2>4, <2>8
       DEF Punctual, Counters, Below, Scanning, ScanOK, AskedAhead, Foreseen, ForeseenIn, CodeFrame
  <2>10. Timely'
    <3>1. \A k \in 0 .. ev_max - 1 : eventtab[k].active => currcycle < eventtab[k].evtime
      BY <1>A, <1>B, <1>0, <2>1, <2>2, ServedAhead
    <3>2. currcycle + Top.todo <= MaxCycle
      BY <1>A, <1>B, <2>1, <2>2 DEF Punctual, Timely, TimelyIn
    <3>3. stack'[2].todo = Top.todo /\ UNCHANGED <<currcycle, eventtab>>
      BY <1>A, <1>B, <2>1, <2>3, <2>4
    <3>4. \A k \in 0 .. ev_max - 1 : eventtab'[k].active =>
            /\ nextevent' <= eventtab'[k].evtime
            /\ currcycle' <= eventtab'[k].evtime /\ currcycle' < eventtab'[k].evtime
      BY <1>A, <1>B, <1>0, <2>5, <3>1, <3>3
    <3> QED
      BY <1>A, <1>B, <3>2, <3>3, <3>4 DEF Timely, TimelyIn
  <2> QED
    BY <1>A, <1>B, <2>6, <2>7, <2>9, <2>10 DEF Punctual
<1>5. ASSUME NEW c \in 0 .. MaxStep, DoCycles(c) PROVE Punctual'
  <2>1. /\ Depth = 1 /\ currcycle + c <= MaxCycle /\ stack' = Append(stack, Cycles(c, ev_max))
        /\ UNCHANGED <<currcycle, nextevent, eventtab, eventtab2, event2idx, next,
                       event2cnt, event2restart>>
    BY <1>A, <1>B, <1>5 DEF DoCycles, tables, counters
  <2>2. stack[1] \in CodeFrame /\ ~Scanning
    BY <1>A, <1>B, <2>1, Resting
  <2> DEFINE f == Cycles(c, ev_max)
  <2>3. f \in CyclesFrame /\ f \in Frame /\ f.at = "cycles" /\ f.i = ev_max /\ f.todo = c
    BY DEF Cycles, CyclesFrame, Frame, ev_max
  <2>4. /\ stack' \in Seq(Frame) /\ Depth' = 2 /\ stack'[1] = stack[1] /\ stack'[2] = f
    <3>1. stack' = Append(stack, f)
      BY <1>A, <1>B, <2>1
    <3> HIDE DEF f
    <3>2. /\ stack' \in Seq(Frame) /\ Depth' = Len(stack) + 1 /\ stack'[Len(stack) + 1] = f
          /\ \A j \in 1 .. Len(stack) : stack'[j] = stack[j]
      BY <1>A, <3>1, <2>3, Pushed
    <3>3. Len(stack) = 1
      BY <1>A, <1>B, <2>1
    <3>4. Len(stack) + 1 = 2 /\ 1 \in 1 .. Len(stack)
      BY <1>A, <1>B, <3>3
    <3> QED
      BY <1>A, <1>B, <3>2, <3>4
  <2>5. Types' /\ Shape'
    BY <1>A, <1>B, <2>1, <2>2, <2>3, <2>4 DEF Types, Shape, Mode, Plain
  <2>6. Top' = f /\ Below' = stack[1] /\ Below'.at = "code"
    BY <1>A, <1>B, <2>2, <2>4 DEF Top, Below, CodeFrame
  <2>7. Counters' /\ ~Scanning' /\ ScanOK' /\ AskedAhead' /\ Foreseen'
    BY <1>A, <1>B, <2>1, <2>2, <2>3, <2>4, <2>6
       DEF Punctual, Counters, Scanning, ScanOK, AskedAhead, Foreseen, ForeseenIn
  <2>8. Timely'
    BY <1>A, <1>B, <1>0, <2>1, <2>3, <2>4 DEF Punctual, Timely, TimelyIn, ServedIn, Depth
  <2> QED
    BY <1>A, <1>B, <2>5, <2>7, <2>8 DEF Punctual
<1> QED
  BY <1>A, <1>B, <1>1, <1>2, <1>3, <1>4, <1>5
(* Both at once.                                                           *)
LEMMA ReplacedAndPushed ==
  ASSUME NEW stk \in Seq(Frame), NEW d \in 1 .. Len(stk), NEW c \in Frame, NEW f \in Frame,
         stack' = Append([stk EXCEPT ![d] = c], f)
  PROVE  /\ stack' \in Seq(Frame) /\ Depth' = Len(stk) + 1
         /\ stack'[d] = c /\ stack'[Len(stk) + 1] = f
         /\ \A j \in 1 .. Len(stk) : j # d => stack'[j] = stk[j]
<1> DEFINE t == [stk EXCEPT ![d] = c]
<1>1. /\ t \in Seq(Frame) /\ Len(t) = Len(stk)
      /\ \A j \in 1 .. Len(stk) : t[j] = IF j = d THEN c ELSE stk[j]
  BY ExceptSeq
<1>2. stack' = Append(t, f)
  OBVIOUS
<1> HIDE DEF t
<1>3. /\ stack' \in Seq(Frame) /\ Depth' = Len(t) + 1 /\ stack'[Len(t) + 1] = f
      /\ \A j \in 1 .. Len(t) : stack'[j] = t[j]
  BY <1>1, <1>2, Pushed
<1> QED
  BY <1>1, <1>3

(* Times can be compared.                                                  *)
LEMMA EvtimeIsNat ==
  ASSUME Types
  PROVE  /\ currcycle \in Nat /\ MaxCycle \in Nat
         /\ \A k \in 0 .. ev_max - 1 : eventtab[k].evtime \in Nat
         /\ \A s \in 0 .. Slots - 1 : eventtab2[s].evtime \in Nat
<1>1. /\ currcycle \in 0 .. MaxCycle
      /\ \A k \in 0 .. ev_max - 1 : eventtab[k].evtime \in 0 .. MaxCycle
      /\ \A s \in 0 .. Slots - 1 : eventtab2[s].evtime \in 0 .. MaxCycle
  BY DEF Types
<1> QED
  BY <1>1, Sizes

(* The next timer that is due; those before it are ahead.                  *)
LEMMA NextDue ==
  ASSUME Punctual, Top.at = "cycles", TimersDue # {}
  PROVE  /\ Min(TimersDue) \in Top.i .. ev_max - 1 /\ Min(TimersDue) \in 0 .. ev_max - 1
         /\ eventtab[Min(TimersDue)].active /\ eventtab[Min(TimersDue)].evtime = currcycle
         /\ \A k \in 0 .. Min(TimersDue) - 1 : eventtab[k].active => currcycle < eventtab[k].evtime
<1>1. Top \in CyclesFrame
  BY CyclesOnTop DEF Punctual
<1>2. Top.i \in Nat
  BY <1>1 DEF CyclesFrame
<1>3. TimersDue \in SUBSET Nat
  BY <1>2 DEF TimersDue, ev_max
<1>4. Min(TimersDue) \in TimersDue /\ \A q \in TimersDue : Min(TimersDue) <= q
  BY <1>3, MinProps
<1>5. Min(TimersDue) \in Top.i .. ev_max - 1 /\ Min(TimersDue) \in 0 .. ev_max - 1
  BY <1>2, <1>4 DEF TimersDue, ev_max
<1>6. ASSUME NEW k \in 0 .. Min(TimersDue) - 1, eventtab[k].active
      PROVE  currcycle < eventtab[k].evtime
  <2>1. k \in 0 .. ev_max - 1 /\ \A q \in TimersDue : k < q
    BY <1>3, <1>4, <1>5 DEF ev_max
  <2> QED
    BY <1>6, <2>1, ServedAhead
<1> QED
  BY <1>4, <1>5, <1>6 DEF TimersDue

(* A timer's handler is called.                                            *)
LEMMA TimerFiresKeeps ==
  ASSUME Punctual, NEW t \in Delays \cup {0}, TimerFires(t)
  PROVE  Punctual'
<1> DEFINE k == Min(TimersDue)
           c == [Top EXCEPT !.i = k + 1]
<1>A. Types /\ Shape /\ stack \in Seq(Frame) /\ Depth = Len(stack) /\ t \in Nat
  BY DEF Punctual, Types, Depth, Delays
<1>1. /\ Top.at = "cycles" /\ TimersDue # {} /\ k # ev_misc /\ currcycle + t <= MaxCycle
      /\ eventtab' = Arm(eventtab, k, t) /\ nextevent' = Earliest(eventtab')
      /\ stack' = Append([stack EXCEPT ![Depth].i = k + 1], Code(TimerCalls))
      /\ UNCHANGED <<currcycle, eventtab2, event2idx, next, event2cnt, event2restart>>
  BY DEF TimerFires, Schedule, counters
<1>2. /\ Top \in CyclesFrame /\ Depth = 2 /\ ~Scanning
      /\ stack[1] \in CodeFrame /\ stack[2] = Top
  BY <1>A, <1>1, CyclesOnTop
<1>3. /\ k \in 0 .. ev_max - 1
      /\ \A q \in 0 .. k - 1 : eventtab[q].active => currcycle < eventtab[q].evtime
  BY <1>1, NextDue
<1>4. currcycle + t \in 0 .. MaxCycle
  BY <1>A, <1>1, EvtimeIsNat
<1> HIDE DEF k
<1>5. c \in CyclesFrame /\ c \in Frame /\ c.at = "cycles" /\ c.i = k + 1 /\ c.todo = Top.todo
  BY <1>2, <1>3 DEF CyclesFrame, Frame, ev_max
<1> DEFINE code == Code(TimerCalls)
<1>6. code \in CodeFrame /\ code \in Frame
  BY EventAssumption DEF Code, CodeFrame, Frame
<1>7. /\ stack' \in Seq(Frame) /\ Depth' = 3
      /\ stack'[1] = stack[1] /\ stack'[2] = c /\ stack'[3] = code
  <2>1. stack' = Append([stack EXCEPT ![2] = c], code) /\ c \in Frame /\ code \in Frame
    BY <1>1, <1>2, <1>5, <1>6
  <2>2. 2 \in 1 .. Len(stack) /\ 1 \in 1 .. Len(stack) /\ Len(stack) + 1 = 3 /\ 1 # 2
    BY <1>A, <1>2
  <2> HIDE DEF c, code
  <2>3. /\ stack' \in Seq(Frame) /\ Depth' = Len(stack) + 1
        /\ stack'[2] = c /\ stack'[Len(stack) + 1] = code
        /\ \A j \in 1 .. Len(stack) : j # 2 => stack'[j] = stack[j]
    BY <1>A, <2>1, <2>2, ReplacedAndPushed
  <2> QED
    BY <2>2, <2>3
<1>8. /\ eventtab' \in [0 .. ev_max - 1 -> [active: BOOLEAN, evtime: 0 .. MaxCycle]]
      /\ \A q \in 0 .. ev_max - 1 : q # k => eventtab'[q] = eventtab[q]
      /\ eventtab'[k].active => currcycle < eventtab'[k].evtime
      /\ nextevent' \in 0 .. MaxCycle \cup {EVT_MAX}
      /\ \A q \in 0 .. ev_max - 1 : eventtab'[q].active => nextevent' <= eventtab'[q].evtime
  BY <1>A, <1>1, <1>3, <1>4, ArmProps
<1>9. Types'
  BY <1>A, <1>1, <1>7, <1>8 DEF Types
<1>10. Shape'
  BY <1>2, <1>5, <1>6, <1>7 DEF Shape, Mode, Plain
<1>11. Top' = code /\ Below' = c
  BY <1>7 DEF Top, Below
<1>12. Counters' /\ ~Scanning' /\ ScanOK' /\ AskedAhead'
  BY <1>1, <1>2, <1>5, <1>7, <1>11
     DEF Punctual, Counters, Below, Scanning, ScanOK, AskedAhead, CodeFrame, Code
<1>13. Foreseen'
  <2>1. eventtab'[ev_misc] = eventtab[ev_misc]
    BY <1>1, <1>8 DEF ev_misc, ev_max, k
  <2> QED
    BY <1>1, <1>2, <2>1 DEF Punctual, Foreseen, ForeseenIn
<1>14. Timely'
  <2>1. \A q \in 0 .. ev_max - 1 : eventtab'[q].active =>
           /\ currcycle <= eventtab'[q].evtime
           /\ q < k + 1 => currcycle < eventtab'[q].evtime
    <3>1. ASSUME NEW q \in 0 .. ev_max - 1, q # k, eventtab'[q].active
          PROVE  /\ currcycle <= eventtab'[q].evtime
                 /\ q < k + 1 => currcycle < eventtab'[q].evtime
      <4>1. eventtab'[q] = eventtab[q]
        BY <1>8, <3>1
      <4>2. currcycle <= eventtab[q].evtime
        BY <3>1, <4>1 DEF Punctual, Timely, TimelyIn
      <4>3. q < k + 1 => q \in 0 .. k - 1
        BY <1>3, <3>1 DEF ev_max
      <4> QED
        BY <1>3, <3>1, <4>1, <4>2, <4>3
    <3>2. eventtab'[k].active => currcycle <= eventtab'[k].evtime
      <4>1. eventtab'[k].evtime \in 0 .. MaxCycle
        BY <1>3, <1>8
      <4> QED
        BY <1>A, <1>8, <4>1, EvtimeIsNat
    <3> QED
      BY <1>8, <3>1, <3>2
  <2>2. currcycle + Top.todo <= MaxCycle
    BY <1>1, <1>2 DEF Punctual, Timely, TimelyIn, Depth
  <2>3. ServedIn(stack') = k + 1
    BY <1>5, <1>7 DEF ServedIn, Depth
  <2> QED
    BY <1>1, <1>5, <1>7, <1>8, <2>1, <2>2, <2>3 DEF Timely, TimelyIn
<1> QED
  BY <1>9, <1>10, <1>12, <1>13, <1>14 DEF Punctual

(* MISC_handler is called for ev_misc.                                     *)
LEMMA MiscTimerFiresKeeps ==
  ASSUME Punctual, MiscTimerFires
  PROVE  Punctual'
<1> DEFINE c == [Top EXCEPT !.i = ev_misc + 1]
           m == Misc(event2idx % Slots, 0, currcycle, EVT_MAX)
<1>A. Types /\ Shape /\ stack \in Seq(Frame) /\ Depth = Len(stack)
  BY DEF Punctual, Types, Depth
<1>1. /\ Top.at = "cycles" /\ TimersDue # {} /\ Min(TimersDue) = ev_misc
      /\ eventtab' = [eventtab EXCEPT ![ev_misc] = Off]
      /\ event2restart' = IF event2cnt > 0 THEN event2restart + 1 ELSE event2restart
      /\ stack' = Append([stack EXCEPT ![Depth].i = ev_misc + 1], m)
      /\ UNCHANGED <<currcycle, nextevent, eventtab2, event2idx, next, event2cnt>>
  BY DEF MiscTimerFires, CallMisc
<1>2. /\ Top \in CyclesFrame /\ Depth = 2 /\ ~Scanning
      /\ stack[1] \in CodeFrame /\ stack[2] = Top
  BY <1>A, <1>1, CyclesOnTop
<1>3. /\ eventtab[ev_misc].active /\ eventtab[ev_misc].evtime = currcycle
      /\ \A q \in 0 .. ev_misc - 1 : eventtab[q].active => currcycle < eventtab[q].evtime
  BY <1>1, NextDue
<1>4. c \in CyclesFrame /\ c \in Frame /\ c.at = "cycles" /\ c.i = 3 /\ c.todo = Top.todo
  BY <1>2 DEF CyclesFrame, Frame, ev_max, ev_misc
<1>5. m \in MiscFrame /\ m \in Frame
  <2>1. event2idx % Slots \in 0 .. Slots - 1
    BY <1>A, Sizes DEF Types
  <2> QED
    BY <1>A, <2>1, EvtMax, Sizes DEF Types, Misc, MiscFrame, Frame
<1>6. /\ stack' \in Seq(Frame) /\ Depth' = 3
      /\ stack'[1] = stack[1] /\ stack'[2] = c /\ stack'[3] = m
  <2>1. stack' = Append([stack EXCEPT ![2] = c], m) /\ c \in Frame /\ m \in Frame
    BY <1>1, <1>2, <1>4, <1>5
  <2>2. 2 \in 1 .. Len(stack) /\ 1 \in 1 .. Len(stack) /\ Len(stack) + 1 = 3 /\ 1 # 2
    BY <1>A, <1>2
  <2> HIDE DEF c, m
  <2>3. /\ stack' \in Seq(Frame) /\ Depth' = Len(stack) + 1
        /\ stack'[2] = c /\ stack'[Len(stack) + 1] = m
        /\ \A j \in 1 .. Len(stack) : j # 2 => stack'[j] = stack[j]
    BY <1>A, <2>1, <2>2, ReplacedAndPushed
  <2> QED
    BY <2>2, <2>3
<1>7. Top' = m /\ Below' = c /\ Scanning' /\ Scan' = m
  BY <1>6 DEF Top, Below, Scanning, Scan, Misc
<1>8. /\ eventtab' \in [0 .. ev_max - 1 -> [active: BOOLEAN, evtime: 0 .. MaxCycle]]
      /\ ~eventtab'[ev_misc].active
      /\ \A q \in 0 .. ev_max - 1 : q # ev_misc => eventtab'[q] = eventtab[q]
  <2>1. ev_misc \in 0 .. ev_max - 1
    BY DEF ev_misc, ev_max
  <2> QED
    BY <1>A, <1>1, <2>1, OffProps DEF Types
<1>9. Types'
  BY <1>A, <1>1, <1>6, <1>8 DEF Types
<1>10. Shape'
  BY <1>2, <1>4, <1>5, <1>6 DEF Shape, Mode, Plain
<1>11. Counters'
  BY <1>1, <1>2, <1>4, <1>6, <1>7 DEF Punctual, Counters, Below, CodeFrame
<1>12. Foreseen' /\ AskedAhead'
  BY <1>4, <1>7 DEF Foreseen, AskedAhead
<1>13. Timely'
  <2>1. \A q \in 0 .. ev_max - 1 : eventtab'[q].active =>
           /\ nextevent <= eventtab'[q].evtime
           /\ currcycle <= eventtab'[q].evtime
           /\ q < 3 => currcycle < eventtab'[q].evtime
    BY <1>3, <1>8 DEF Punctual, Timely, TimelyIn, ev_misc
  <2>2. currcycle + Top.todo <= MaxCycle
    BY <1>1, <1>2 DEF Punctual, Timely, TimelyIn, Depth
  <2>3. ServedIn(stack') = 3
    BY <1>4, <1>6 DEF ServedIn, Depth
  <2> QED
    BY <1>1, <1>4, <1>6, <2>1, <2>2, <2>3 DEF Timely, TimelyIn
<1>14. ScanOK'
  <2>1. \A s \in 0 .. Slots - 1 : eventtab2[s].active => currcycle <= eventtab2[s].evtime
    BY <1>2, <1>3 DEF Punctual, Foreseen, ForeseenIn
  <2>2. m.i = 0 /\ m.ct = currcycle /\ m.soonest = EVT_MAX /\ m.at = "misc" /\ currcycle < EVT_MAX
    BY <1>A, EvtMax DEF Misc, Types
  <2> QED
    BY <1>1, <1>7, <1>8, <2>1, <2>2 DEF ScanOK
<1> QED
  BY <1>9, <1>10, <1>11, <1>12, <1>13, <1>14 DEF Punctual
(* MISC_handler: what is known of mintime when slot j comes.               *)
LEMMA SoonestProps ==
  ASSUME Types, Top \in MiscFrame, NEW j \in Top.i .. Slots
  PROVE  /\ SoonestBefore(j) \in 0 .. MaxCycle \cup {EVT_MAX}
         /\ SoonestBefore(j) <= Top.soonest
         /\ \A q \in Top.i .. j - 1 :
              eventtab2[SlotAt(q)].active => SoonestBefore(j) <= eventtab2[SlotAt(q)].evtime
         /\ \/ SoonestBefore(j) \in {Top.soonest, EVT_MAX}
            \/ \E q \in Top.i .. j - 1 : /\ eventtab2[SlotAt(q)].active
                                         /\ SoonestBefore(j) = eventtab2[SlotAt(q)].evtime
<1> DEFINE seen == {SlotAt(i) : i \in Top.i .. j - 1}
           tab  == [s \in seen |-> eventtab2[s]]
<1>1. /\ Top.i \in 0 .. Slots /\ Top.idx2 \in 0 .. Slots - 1
      /\ Top.soonest \in 0 .. MaxCycle \cup {EVT_MAX}
  BY DEF MiscFrame
<1>2. \A q \in Top.i .. j - 1 : SlotAt(q) \in 0 .. Slots - 1
  <2>1. \A q \in Top.i .. j - 1 : q \in 0 .. Slots - 1
    BY <1>1, Sizes
  <2> QED
    BY <1>1, <2>1, SlotProps DEF SlotAt
<1>3. DOMAIN tab = seen /\ \A s \in seen : tab[s] = eventtab2[s]
  OBVIOUS
<1>4. \A k \in DOMAIN tab : tab[k].active => tab[k].evtime \in 0 .. MaxCycle
  BY <1>2, <1>3 DEF Types
<1>5. SoonestBefore(j) = Min({Top.soonest, Earliest(tab)})
  BY DEF SoonestBefore
<1> HIDE DEF tab
<1>6. /\ \A k \in DOMAIN tab : tab[k].active => Earliest(tab) <= tab[k].evtime
      /\ \/ Earliest(tab) = EVT_MAX
         \/ \E k \in DOMAIN tab : tab[k].active /\ Earliest(tab) = tab[k].evtime
      /\ Earliest(tab) \in 0 .. MaxCycle \cup {EVT_MAX}
  BY <1>4, EarliestProps
<1>7. Top.soonest \in Nat /\ Earliest(tab) \in Nat
  BY <1>1, <1>6, EvtMax, Sizes
<1>8. SoonestBefore(j) = IF Top.soonest <= Earliest(tab) THEN Top.soonest ELSE Earliest(tab)
  BY <1>5, <1>7, MinOfTwo
<1>9. \A q \in Top.i .. j - 1 :
        /\ SlotAt(q) \in seen /\ tab[SlotAt(q)] = eventtab2[SlotAt(q)]
        /\ eventtab2[SlotAt(q)].evtime \in Nat
  BY <1>2, <1>3, EvtimeIsNat
<1>10. \A q \in Top.i .. j - 1 :
         eventtab2[SlotAt(q)].active => SoonestBefore(j) <= eventtab2[SlotAt(q)].evtime
  BY <1>3, <1>6, <1>7, <1>8, <1>9
<1>11. Earliest(tab) = EVT_MAX \/ \E q \in Top.i .. j - 1 :
          eventtab2[SlotAt(q)].active /\ Earliest(tab) = eventtab2[SlotAt(q)].evtime
  BY <1>3, <1>6
<1> QED
  BY <1>1, <1>6, <1>7, <1>8, <1>10, <1>11

(* The next event that is due in the scan; none before it is.              *)
LEMMA NextEventDueInScan ==
  ASSUME Types, Top \in MiscFrame, DueAt # {}
  PROVE  /\ Min(DueAt) \in Top.i .. Slots - 1 /\ Due(Min(DueAt))
         /\ \A q \in Top.i .. Min(DueAt) - 1 : ~Due(q)
<1>1. Top.i \in 0 .. Slots
  BY DEF MiscFrame
<1>2. DueAt \in SUBSET Nat
  BY <1>1, Sizes DEF DueAt
<1>3. Min(DueAt) \in DueAt /\ \A q \in DueAt : Min(DueAt) <= q
  BY <1>2, MinProps
<1>4. Min(DueAt) \in Top.i .. Slots - 1 /\ Due(Min(DueAt))
  BY <1>3 DEF DueAt
<1>5. ASSUME NEW q \in Top.i .. Min(DueAt) - 1 PROVE ~Due(q)
  <2>1. q \in Top.i .. Slots - 1 /\ q < Min(DueAt)
    BY <1>1, <1>4, Sizes
  <2>2. q \notin DueAt
    BY <1>1, <1>3, <1>4, <2>1, Sizes
  <2> QED
    BY <2>1, <2>2 DEF DueAt
<1> QED
  BY <1>4, <1>5

(* MISC_handler frees the slot and calls the handler.                      *)
LEMMA MiscFireKeeps ==
  ASSUME HandlerCalls = 0, Punctual, MiscFire
  PROVE  Punctual'
<1> DEFINE i == Min(DueAt)
           c == [Top EXCEPT !.i = i, !.soonest = SoonestBefore(i)]
           code == Code(0)
<1>A. Types /\ Shape /\ stack \in Seq(Frame) /\ Depth = Len(stack)
  BY DEF Punctual, Types, Depth
<1>1. /\ Top.at = "misc" /\ DueAt # {}
      /\ eventtab2' = [eventtab2 EXCEPT ![SlotAt(i)] = Free]
      /\ stack' = Append([stack EXCEPT ![Depth].i = i, ![Depth].soonest = SoonestBefore(i)],
                         code)
      /\ event2cnt' = event2cnt + 1
      /\ UNCHANGED <<currcycle, nextevent, eventtab, event2idx, event2restart, next>>
  BY DEF MiscFire
<1>2. Top \in MiscFrame /\ Scanning /\ Scan = Top
  BY <1>A, <1>1, MiscOnTop
<1>3. PICK b \in 1 .. 3 : Plain(stack, b) /\ Depth = b + 1
  BY <1>A, <1>1, MiscOnTop
<1>4. i \in Top.i .. Slots - 1 /\ Due(i) /\ \A q \in Top.i .. i - 1 : ~Due(q)
  BY <1>A, <1>1, <1>2, NextEventDueInScan
<1> HIDE DEF i
<1>5. Top.i \in 0 .. Slots /\ Top.idx2 \in 0 .. Slots - 1 /\ i \in 0 .. Slots - 1 /\ i \in Top.i .. Slots
  <2>1. Top.i \in 0 .. Slots /\ Top.idx2 \in 0 .. Slots - 1
    BY <1>2 DEF MiscFrame
  <2> QED
    BY <1>4, <2>1, Sizes
<1>6. /\ SoonestBefore(i) \in 0 .. MaxCycle \cup {EVT_MAX}
      /\ SoonestBefore(i) <= Top.soonest
      /\ \A q \in Top.i .. i - 1 :
           eventtab2[SlotAt(q)].active => SoonestBefore(i) <= eventtab2[SlotAt(q)].evtime
      /\ \/ SoonestBefore(i) \in {Top.soonest, EVT_MAX}
         \/ \E q \in Top.i .. i - 1 : /\ eventtab2[SlotAt(q)].active
                                      /\ SoonestBefore(i) = eventtab2[SlotAt(q)].evtime
  BY <1>A, <1>2, <1>5, SoonestProps
<1>7. /\ c \in MiscFrame /\ c \in Frame /\ c.at = "misc" /\ c.i = i /\ c.idx2 = Top.idx2
      /\ c.ct = Top.ct /\ c.soonest = SoonestBefore(i)
  <2>1. Top \in [at: {"misc"}, idx2: 0 .. Slots - 1, i: 0 .. Slots, ct: 0 .. MaxCycle,
                 soonest: 0 .. MaxCycle \cup {EVT_MAX}]
    BY <1>2 DEF MiscFrame
  <2>2. i \in 0 .. Slots
    BY <1>5, Sizes
  <2>3. /\ c.at = "misc" /\ c.i = i /\ c.idx2 = Top.idx2
        /\ c.ct = Top.ct /\ c.soonest = SoonestBefore(i)
    BY <2>1
  <2>4. c \in MiscFrame
    BY <1>6, <2>1, <2>2 DEF MiscFrame
  <2> QED
    BY <2>3, <2>4 DEF Frame
<1>8. code \in CodeFrame /\ code \in Frame /\ code.at = "code" /\ code = Code(0)
  BY DEF Code, CodeFrame, Frame
<1>9. /\ stack' \in Seq(Frame) /\ Depth' = b + 2
      /\ stack'[b + 1] = c /\ stack'[b + 2] = code
      /\ \A j \in 1 .. b : stack'[j] = stack[j]
  <2>1. stack' = Append([stack EXCEPT ![b + 1] = c], code) /\ c \in Frame /\ code \in Frame
    BY <1>1, <1>3, <1>7, <1>8 DEF Top
  <2>2. b + 1 \in 1 .. Len(stack) /\ Len(stack) + 1 = b + 2
        /\ \A j \in 1 .. b : j \in 1 .. Len(stack) /\ j # b + 1
    BY <1>A, <1>3
  <2> HIDE DEF c, code
  <2>3. /\ stack' \in Seq(Frame) /\ Depth' = Len(stack) + 1
        /\ stack'[b + 1] = c /\ stack'[Len(stack) + 1] = code
        /\ \A j \in 1 .. Len(stack) : j # b + 1 => stack'[j] = stack[j]
    BY <1>A, <2>1, <2>2, ReplacedAndPushed
  <2> QED
    BY <2>2, <2>3
<1> HIDE DEF c, code
<1>10. Top' = code /\ Below' = c /\ Top'.at = "code" /\ Scanning' /\ Scan' = c /\ Depth' > 1
  <2>1. Top' = code /\ Below' = c /\ Depth' > 1
    BY <1>9 DEF Top, Below
  <2> QED
    BY <1>7, <1>8, <2>1 DEF Scanning, Scan
<1>11. /\ SlotAt(i) \in 0 .. Slots - 1 /\ eventtab2' \in Events2
       /\ ~eventtab2'[SlotAt(i)].active
       /\ \A s \in 0 .. Slots - 1 : eventtab2'[s].active => eventtab2'[s] = eventtab2[s]
  <2>1. SlotAt(i) \in 0 .. Slots - 1 /\ eventtab2 \in Events2
    BY <1>A, <1>5, SlotProps DEF SlotAt, Types, Events2
  <2> HIDE DEF i
  <2> QED
    BY <1>1, <2>1, FreeProps DEF Events2
<1>12. Types'
  BY <1>A, <1>1, <1>9, <1>11 DEF Types, Events2
<1>13. Shape'
  <2>1. Plain(stack', b)
    BY <1>3, <1>9 DEF Plain
  <2> QED
    BY <1>7, <1>8, <1>9, <2>1 DEF Shape, Mode
<1>14. Counters'
  <2>1. event2cnt = 0 /\ event2restart = 0
    <3>1. Depth > 1 => Below = stack[b] /\ Below.at # "misc"
      BY <1>3 DEF Below, Plain, CodeFrame, CyclesFrame
    <3> QED
      BY <3>1 DEF Punctual, Counters
  <2> QED
    BY <1>1, <1>7, <1>9, <1>10, <2>1 DEF Counters
<1>15. Foreseen' /\ AskedAhead'
  BY <1>7, <1>10 DEF Foreseen, AskedAhead
<1>16. Timely'
  <2>1. (Len(stack) > 1 /\ stack[2].at = "cycles") =
          (Len(stack') > 1 /\ stack'[2].at = "cycles")
    <3>1. CASE b = 1
      <4>1. stack[2].at = "misc" /\ stack'[2].at = "misc"
        BY <1>1, <1>3, <1>7, <1>9, <3>1 DEF Top
      <4> QED
        BY <4>1
    <3>2. CASE b # 1
      <4>1. stack'[2] = stack[2] /\ Len(stack) > 1 /\ Len(stack') > 1
        BY <1>A, <1>3, <1>9, <3>2 DEF Depth
      <4> QED
        BY <4>1
    <3> QED
      BY <3>1, <3>2
  <2>2. stack[2].at = "cycles" => stack'[2] = stack[2]
    BY <1>1, <1>3, <1>9 DEF Top, Plain
  <2> QED
    BY <1>1, <2>1, <2>2 DEF Punctual, Timely, TimelyIn, ServedIn
<1>17. ScanOK'
  <2>1. /\ ~eventtab[ev_misc].active
        /\ Top.ct = currcycle /\ currcycle < Top.soonest
        /\ \A s \in 0 .. Slots - 1 : eventtab2[s].active => currcycle <= eventtab2[s].evtime
        /\ \A j \in 0 .. Top.i - 1 : eventtab2[SlotOf(Top, j)].active =>
             /\ currcycle < eventtab2[SlotOf(Top, j)].evtime
             /\ Top.soonest <= eventtab2[SlotOf(Top, j)].evtime
    BY <1>2 DEF Punctual, ScanOK
  <2>2. /\ \A j : SlotOf(c, j) = SlotOf(Top, j) /\ SlotOf(Top, j) = SlotAt(j)
        /\ \A j \in 0 .. Slots - 1 : SlotAt(j) \in 0 .. Slots - 1
    BY <1>5, <1>7, SlotProps DEF SlotOf, SlotAt
  <2>3. ASSUME NEW j \in 0 .. i - 1, eventtab2[SlotAt(j)].active
        PROVE  /\ currcycle < eventtab2[SlotAt(j)].evtime
               /\ SoonestBefore(i) <= eventtab2[SlotAt(j)].evtime
    <3>1. /\ currcycle \in Nat /\ eventtab2[SlotAt(j)].evtime \in Nat /\ Top.soonest \in Nat
          /\ SoonestBefore(i) \in Nat /\ SlotAt(j) \in 0 .. Slots - 1 /\ Top.i \in Nat /\ j \in Nat
      <4>1. j \in 0 .. Slots - 1 /\ Top.i \in Nat /\ j \in Nat
        BY <1>5, Sizes
      <4>2. Top.soonest \in Nat /\ SoonestBefore(i) \in Nat
        BY <1>2, <1>6, EvtMax, Sizes DEF MiscFrame
      <4> QED
        BY <1>A, <2>2, <4>1, <4>2, EvtimeIsNat
    <3>2. CASE j < Top.i
      <4>1. j \in 0 .. Top.i - 1
        BY <3>1, <3>2
      <4>2. currcycle < eventtab2[SlotAt(j)].evtime /\ Top.soonest <= eventtab2[SlotAt(j)].evtime
        BY <2>1, <2>2, <2>3, <4>1
      <4> QED
        BY <1>6, <3>1, <4>2
    <3>3. CASE j >= Top.i
      <4>1. j \in Top.i .. i - 1
        BY <1>5, <3>1, <3>3
      <4>2. eventtab2[SlotAt(j)].evtime # currcycle /\ currcycle <= eventtab2[SlotAt(j)].evtime
        BY <1>4, <2>1, <2>3, <3>1, <4>1 DEF Due
      <4> QED
        BY <1>6, <2>3, <3>1, <4>1, <4>2
    <3> QED
      BY <3>1, <3>2, <3>3
  <2>4. currcycle < SoonestBefore(i)
    <3>1. currcycle < EVT_MAX
      BY <1>A, EvtMax DEF Types
    <3>2. \A q \in Top.i .. i - 1 : q \in 0 .. i - 1
      BY <1>5
    <3> QED
      BY <1>6, <2>1, <2>3, <3>1, <3>2
  <2>5. \A j \in 0 .. i - 1 : j \in 0 .. Slots - 1
    BY <1>5, Sizes
  <2>6. /\ ~eventtab'[ev_misc].active /\ c.ct = currcycle' /\ currcycle' < c.soonest
        /\ \A s \in 0 .. Slots - 1 : eventtab2'[s].active => currcycle' <= eventtab2'[s].evtime
    BY <1>1, <1>7, <1>11, <2>1, <2>4
  <2>7. \A j \in 0 .. c.i - 1 : eventtab2'[SlotOf(c, j)].active =>
          /\ currcycle' < eventtab2'[SlotOf(c, j)].evtime
          /\ c.soonest <= eventtab2'[SlotOf(c, j)].evtime
    BY <1>1, <1>7, <1>11, <2>2, <2>3, <2>5
  <2>8. c.i < Slots /\ ~eventtab2'[SlotOf(c, c.i)].active
    BY <1>5, <1>7, <1>11, <2>2, Sizes
  <2> HIDE DEF c
  <2>9. \A j : (SlotOf(Scan, j))' = SlotOf(c, j)
    BY <1>10 DEF SlotOf
  <2> QED
    BY <1>10, <2>6, <2>7, <2>8 DEF ScanOK, SlotOf
<1> QED
  BY <1>12, <1>13, <1>14, <1>15, <1>16, <1>17 DEF Punctual
(* The handler has asked for nothing: the scan goes on after its slot.     *)
LEMMA MiscHandlerReturnsKeeps ==
  ASSUME Punctual, MiscHandlerReturns
  PROVE  Punctual'
<1> DEFINE c == [Below EXCEPT !.i = @ + 1]
<1>A. Types /\ Shape /\ stack \in Seq(Frame) /\ Depth = Len(stack)
  BY DEF Punctual, Types, Depth
<1>1. /\ Depth > 1 /\ Top.at = "code" /\ Below.at = "misc"
      /\ event2cnt' = event2cnt - 1 /\ event2cnt = 1 /\ event2restart = 0
      /\ event2restart' = event2restart
      /\ stack' = [Front(stack) EXCEPT ![Depth - 1].i = @ + 1]
      /\ UNCHANGED <<currcycle, nextevent, eventtab, eventtab2, event2idx, next>>
  BY DEF MiscHandlerReturns, tables, Punctual, Counters
<1>2. Below \in MiscFrame /\ Scanning /\ Scan = Below
  BY <1>A, <1>1, CodeAboveMisc
<1>3. PICK b \in 1 .. 3 : Plain(stack, b) /\ Depth = b + 2
  BY <1>A, <1>1, CodeAboveMisc
<1>4. /\ ~eventtab[ev_misc].active
      /\ Below.ct = currcycle /\ currcycle < Below.soonest
      /\ \A s \in 0 .. Slots - 1 : eventtab2[s].active => currcycle <= eventtab2[s].evtime
      /\ \A j \in 0 .. Below.i - 1 : eventtab2[SlotOf(Below, j)].active =>
           /\ currcycle < eventtab2[SlotOf(Below, j)].evtime
           /\ Below.soonest <= eventtab2[SlotOf(Below, j)].evtime
      /\ Below.i < Slots /\ ~eventtab2[SlotOf(Below, Below.i)].active
  BY <1>1, <1>2 DEF Punctual, ScanOK
<1>5. /\ c \in MiscFrame /\ c \in Frame /\ c.at = "misc" /\ c.i = Below.i + 1
      /\ c.idx2 = Below.idx2 /\ c.ct = Below.ct /\ c.soonest = Below.soonest
      /\ Below.i \in Nat
  <2>1. Below \in [at: {"misc"}, idx2: 0 .. Slots - 1, i: 0 .. Slots, ct: 0 .. MaxCycle,
                   soonest: 0 .. MaxCycle \cup {EVT_MAX}]
    BY <1>2 DEF MiscFrame
  <2>2. Below.i + 1 \in 0 .. Slots /\ Below.i \in Nat
    BY <1>4, <2>1, Sizes
  <2>3. /\ c.at = "misc" /\ c.i = Below.i + 1 /\ c.idx2 = Below.idx2
        /\ c.ct = Below.ct /\ c.soonest = Below.soonest
    BY <2>1
  <2>4. c \in MiscFrame
    BY <2>1, <2>2 DEF MiscFrame
  <2> QED
    BY <2>2, <2>3, <2>4 DEF Frame
<1>6. /\ stack' \in Seq(Frame) /\ Depth' = b + 1 /\ stack'[b + 1] = c
      /\ \A j \in 1 .. b : stack'[j] = stack[j]
  <2>1. /\ Front(stack) \in Seq(Frame) /\ Len(Front(stack)) = b + 1
        /\ \A j \in 1 .. b + 1 : Front(stack)[j] = stack[j]
    <3>1. Len(stack) > 0 /\ Len(stack) - 1 = b + 1
      BY <1>A, <1>3
    <3> QED
      BY <1>A, <3>1, FrontIs
  <2>2. Front(stack)[b + 1] = Below /\ Depth - 1 = b + 1
    BY <1>3, <2>1 DEF Below
  <2>3. stack' = [Front(stack) EXCEPT ![b + 1] = c]
    BY <1>1, <2>2
  <2>4. b + 1 \in 1 .. Len(Front(stack)) /\ b + 1 \in 1 .. b + 1
        /\ \A j \in 1 .. b : j \in 1 .. b + 1 /\ j # b + 1
    BY <2>1
  <2> HIDE DEF c
  <2>5. /\ stack' \in Seq(Frame) /\ Len(stack') = Len(Front(stack))
        /\ \A j \in 1 .. Len(Front(stack)) : stack'[j] = IF j = b + 1 THEN c ELSE Front(stack)[j]
    BY <1>5, <2>1, <2>3, <2>4, ExceptSeq
  <2> QED
    BY <2>1, <2>4, <2>5 DEF Depth
<1> HIDE DEF c
<1>7. Top' = c /\ Scanning' /\ Scan' = c
  BY <1>5, <1>6 DEF Top, Scanning, Scan
<1>8. Below' = stack[b] /\ stack[b].at # "misc" /\ stack[b].at # "newevent"
  <2>1. Below' = stack[b]
    <3>1. (b + 1) - 1 = b /\ b \in 1 .. b
      OBVIOUS
    <3> QED
      BY <1>6, <3>1 DEF Below
  <2>2. stack[b].at # "misc" /\ stack[b].at # "newevent"
    BY <1>3 DEF Plain, CodeFrame, CyclesFrame
  <2> QED
    BY <2>1, <2>2
<1>9. Types'
  BY <1>A, <1>1, <1>6 DEF Types
<1>10. Shape'
  <2>1. Plain(stack', b)
    BY <1>3, <1>6 DEF Plain
  <2> QED
    BY <1>5, <1>6, <2>1 DEF Shape, Mode
<1>11. Counters' /\ Foreseen' /\ AskedAhead'
  BY <1>1, <1>7, <1>8 DEF Counters, Foreseen, AskedAhead
<1>12. Timely'
  <2>1. (Len(stack) > 1 /\ stack[2].at = "cycles") =
          (Len(stack') > 1 /\ stack'[2].at = "cycles")
    <3>1. CASE b = 1
      <4>1. stack[2].at = "misc"
        <5>1. Depth - 1 = 2
          BY <1>3, <3>1
        <5> QED
          BY <1>1, <5>1 DEF Below
      <4>2. stack'[2].at = "misc"
        BY <1>5, <1>6, <3>1
      <4> QED
        BY <1>A, <1>3, <1>6, <3>1, <4>1, <4>2 DEF Depth
    <3>2. CASE b # 1
      <4>1. stack'[2] = stack[2] /\ Len(stack) > 1 /\ Len(stack') > 1
        BY <1>A, <1>3, <1>6, <3>2 DEF Depth
      <4> QED
        BY <4>1
    <3> QED
      BY <3>1, <3>2
  <2>2. stack[2].at = "cycles" => stack'[2] = stack[2]
    BY <1>1, <1>3, <1>6 DEF Below, Plain
  <2> QED
    BY <1>1, <2>1, <2>2 DEF Punctual, Timely, TimelyIn, ServedIn
<1>13. ScanOK'
  <2>1. \A j : SlotOf(c, j) = SlotOf(Below, j)
    BY <1>5 DEF SlotOf
  <2>2. \A j \in 0 .. c.i - 1 : j \in 0 .. Below.i - 1 \/ j = Below.i
    BY <1>5
  <2>3. \A j \in 0 .. c.i - 1 : eventtab2[SlotOf(c, j)].active =>
          /\ currcycle < eventtab2[SlotOf(c, j)].evtime
          /\ c.soonest <= eventtab2[SlotOf(c, j)].evtime
    BY <1>4, <1>5, <2>1, <2>2
  <2> QED
    BY <1>1, <1>4, <1>5, <1>7, <2>3 DEF ScanOK, SlotOf
<1> QED
  BY <1>9, <1>10, <1>11, <1>12, <1>13 DEF Punctual

(* The scan ends: mintime is the soonest event, and all are ahead.         *)
LEMMA ScanComplete ==
  ASSUME Punctual, Top.at = "misc", DueAt = {}
  PROVE  /\ SoonestBefore(Slots) \in 0 .. MaxCycle \cup {EVT_MAX}
         /\ currcycle < SoonestBefore(Slots)
         /\ \A s \in 0 .. Slots - 1 : eventtab2[s].active =>
              SoonestBefore(Slots) <= eventtab2[s].evtime
<1>A. Types /\ Shape
  BY DEF Punctual
<1>1. Top \in MiscFrame /\ Scanning /\ Scan = Top
  BY <1>A, MiscOnTop
<1>2. Top.i \in 0 .. Slots /\ Top.idx2 \in 0 .. Slots - 1 /\ Slots \in Top.i .. Slots
  <2>1. Top.i \in 0 .. Slots /\ Top.idx2 \in 0 .. Slots - 1
    BY <1>1 DEF MiscFrame
  <2> QED
    BY <2>1, Sizes
<1>3. /\ SoonestBefore(Slots) \in 0 .. MaxCycle \cup {EVT_MAX}
      /\ SoonestBefore(Slots) <= Top.soonest
      /\ \A q \in Top.i .. Slots - 1 :
           eventtab2[SlotAt(q)].active => SoonestBefore(Slots) <= eventtab2[SlotAt(q)].evtime
      /\ \/ SoonestBefore(Slots) \in {Top.soonest, EVT_MAX}
         \/ \E q \in Top.i .. Slots - 1 : /\ eventtab2[SlotAt(q)].active
                                          /\ SoonestBefore(Slots) = eventtab2[SlotAt(q)].evtime
  BY <1>A, <1>1, <1>2, SoonestProps
<1>4. /\ Top.ct = currcycle /\ currcycle < Top.soonest
      /\ \A s \in 0 .. Slots - 1 : eventtab2[s].active => currcycle <= eventtab2[s].evtime
      /\ \A j \in 0 .. Top.i - 1 : eventtab2[SlotAt(j)].active =>
           Top.soonest <= eventtab2[SlotAt(j)].evtime
  BY <1>1 DEF Punctual, ScanOK, SlotOf, SlotAt
<1>5. /\ \A j \in 0 .. Slots - 1 : SlotAt(j) \in 0 .. Slots - 1
      /\ \A s \in 0 .. Slots - 1 : \E j \in 0 .. Slots - 1 : SlotAt(j) = s
  BY <1>2, SlotProps DEF SlotAt
<1>6. currcycle \in Nat /\ SoonestBefore(Slots) \in Nat /\ Top.soonest \in Nat
  <2>1. Top.soonest \in 0 .. MaxCycle \cup {EVT_MAX}
    BY <1>1 DEF MiscFrame
  <2> QED
    BY <1>A, <1>3, <2>1, EvtMax, EvtimeIsNat, Sizes
<1>7. ASSUME NEW j \in 0 .. Slots - 1, eventtab2[SlotAt(j)].active
      PROVE  /\ SoonestBefore(Slots) <= eventtab2[SlotAt(j)].evtime
             /\ j >= Top.i => currcycle < eventtab2[SlotAt(j)].evtime
  <2>1. SlotAt(j) \in 0 .. Slots - 1 /\ eventtab2[SlotAt(j)].evtime \in Nat
    BY <1>A, <1>5, EvtimeIsNat
  <2>2. CASE j < Top.i
    <3>1. j \in 0 .. Top.i - 1
      BY <1>2, <2>2, Sizes
    <3>2. Top.soonest <= eventtab2[SlotAt(j)].evtime
      BY <1>4, <1>7, <3>1
    <3> QED
      BY <1>2, <1>3, <1>6, <2>1, <2>2, <3>2, Sizes
  <2>3. CASE j >= Top.i
    <3>1. j \in Top.i .. Slots - 1
      BY <1>2, <2>3, Sizes
    <3>2. eventtab2[SlotAt(j)].evtime # Top.ct
      BY <1>7, <3>1 DEF DueAt, Due
    <3>3. currcycle <= eventtab2[SlotAt(j)].evtime
      BY <1>4, <1>7, <2>1
    <3> QED
      BY <1>3, <1>4, <1>6, <1>7, <2>1, <3>1, <3>2, <3>3
  <2> QED
    BY <1>2, <2>2, <2>3, Sizes
<1>8. currcycle < SoonestBefore(Slots)
  <2>1. currcycle < EVT_MAX
    BY <1>A, EvtMax DEF Types
  <2>2. \A q \in Top.i .. Slots - 1 : q \in 0 .. Slots - 1 /\ q >= Top.i
    BY <1>2, Sizes
  <2> QED
    BY <1>3, <1>4, <1>7, <2>1, <2>2
<1> QED
  BY <1>3, <1>5, <1>7, <1>8
(* The scan ends and ev_misc is set.                                       *)
LEMMA MiscReturnKeeps ==
  ASSUME Punctual, MiscReturn
  PROVE  Punctual'
<1> DEFINE soonest == SoonestBefore(Slots)
           new     == [active |-> TRUE, evtime |-> soonest]
           tab     == [eventtab EXCEPT ![ev_misc] = new]
<1>A. Types /\ Shape /\ stack \in Seq(Frame) /\ Depth = Len(stack)
  BY DEF Punctual, Types, Depth
<1>1. /\ Top.at = "misc" /\ DueAt = {} /\ stack' = Front(stack)
      /\ soonest < EVT_MAX => eventtab' = tab /\ nextevent' = Earliest(tab)
      /\ ~(soonest < EVT_MAX) => UNCHANGED <<eventtab, nextevent>>
      /\ UNCHANGED <<currcycle, eventtab2, event2idx, next, event2cnt, event2restart>>
  BY DEF MiscReturn, counters, Schedule
<1>2. Top \in MiscFrame /\ Scanning /\ Scan = Top
  BY <1>A, <1>1, MiscOnTop
<1>3. PICK b \in 1 .. 3 : Plain(stack, b) /\ Depth = b + 1
  BY <1>A, <1>1, MiscOnTop
<1>4. /\ soonest \in 0 .. MaxCycle \cup {EVT_MAX} /\ currcycle < soonest
      /\ \A s \in 0 .. Slots - 1 : eventtab2[s].active => soonest <= eventtab2[s].evtime
  BY <1>1, ScanComplete
<1> HIDE DEF soonest
<1>5. /\ stack' \in Seq(Frame) /\ Depth' = b /\ \A j \in 1 .. b : stack'[j] = stack[j]
  <2>1. Len(stack) > 0 /\ Len(stack) - 1 = b
    BY <1>A, <1>3
  <2>2. /\ Front(stack) \in Seq(Frame) /\ Len(Front(stack)) = Len(stack) - 1
        /\ \A j \in 1 .. Len(stack) - 1 : Front(stack)[j] = stack[j]
    BY <1>A, <2>1, FrontIs
  <2> QED
    BY <1>1, <2>1, <2>2 DEF Depth
<1>6. Plain(stack', b)
  BY <1>3, <1>5 DEF Plain
<1>7. /\ ev_misc \in 0 .. ev_max - 1 /\ ~eventtab[ev_misc].active
      /\ eventtab \in [0 .. ev_max - 1 -> [active: BOOLEAN, evtime: 0 .. MaxCycle]]
  BY <1>A, <1>2 DEF Punctual, ScanOK, Types, ev_misc, ev_max
<1>8. /\ eventtab' \in [0 .. ev_max - 1 -> [active: BOOLEAN, evtime: 0 .. MaxCycle]]
      /\ \A q \in 0 .. ev_max - 1 : q # ev_misc => eventtab'[q] = eventtab[q]
      /\ eventtab'[ev_misc].active => eventtab'[ev_misc].evtime = soonest
      /\ nextevent' \in 0 .. MaxCycle \cup {EVT_MAX}
      /\ \A q \in 0 .. ev_max - 1 : eventtab'[q].active => nextevent' <= eventtab'[q].evtime
      /\ soonest < EVT_MAX => eventtab'[ev_misc].active
  <2>1. CASE soonest < EVT_MAX
    <3>1. eventtab' = tab /\ nextevent' = Earliest(tab)
      BY <1>1, <2>1
    <3>2. soonest \in 0 .. MaxCycle
      BY <1>4, <2>1, EvtMax
    <3>3. /\ tab \in [0 .. ev_max - 1 -> [active: BOOLEAN, evtime: 0 .. MaxCycle]]
          /\ tab[ev_misc] = new /\ \A q \in 0 .. ev_max - 1 : q # ev_misc => tab[q] = eventtab[q]
      BY <1>7, <3>2
    <3>4. new.active /\ new.evtime = soonest
      OBVIOUS
    <3> HIDE DEF tab, new
    <3>5. \A k \in DOMAIN tab : tab[k].active => tab[k].evtime \in 0 .. MaxCycle
      BY <3>3
    <3>6. /\ Earliest(tab) \in 0 .. MaxCycle \cup {EVT_MAX}
          /\ \A q \in DOMAIN tab : tab[q].active => Earliest(tab) <= tab[q].evtime
      BY <3>5, EarliestProps
    <3> QED
      BY <3>1, <3>3, <3>4, <3>6
  <2>2. CASE ~(soonest < EVT_MAX)
    <3>1. eventtab' = eventtab /\ nextevent' = nextevent
      BY <1>1, <2>2
    <3>2. /\ nextevent \in 0 .. MaxCycle \cup {EVT_MAX}
          /\ \A q \in 0 .. ev_max - 1 : eventtab[q].active => nextevent <= eventtab[q].evtime
      BY <1>A DEF Punctual, Timely, TimelyIn, Types
    <3> QED
      BY <1>7, <2>2, <3>1, <3>2
  <2> QED
    BY <2>1, <2>2
<1>9. Types'
  BY <1>A, <1>1, <1>5, <1>8 DEF Types
<1>10. Shape'
  BY <1>5, <1>6 DEF Shape, Mode
<1>11. /\ ~Scanning' /\ (Depth' > 1 => Below'.at # "misc" /\ Below'.at # "newevent")
  BY <1>5, <1>6 DEF Scanning, Top, Below, Plain, CodeFrame, CyclesFrame
<1>12. Counters' /\ ScanOK' /\ AskedAhead'
  <2>1. event2cnt = 0 /\ event2restart = 0
    <3>1. Depth > 1 => Below = stack[b] /\ Below.at # "misc"
      BY <1>3 DEF Below, Plain, CodeFrame, CyclesFrame
    <3> QED
      BY <3>1 DEF Punctual, Counters
  <2> QED
    BY <1>1, <1>11, <2>1 DEF Counters, ScanOK, AskedAhead
<1>13. Foreseen'
  <2>1. ASSUME NEW s \in 0 .. Slots - 1, eventtab2[s].active
        PROVE  eventtab'[ev_misc].active /\ eventtab'[ev_misc].evtime <= eventtab2[s].evtime
    <3>1. soonest <= eventtab2[s].evtime /\ eventtab2[s].evtime \in 0 .. MaxCycle
      BY <1>A, <1>4, <2>1 DEF Types
    <3>2. soonest \in Nat /\ EVT_MAX \in Nat /\ eventtab2[s].evtime \in Nat
          /\ eventtab2[s].evtime < EVT_MAX
      BY <1>4, <3>1, EvtMax, Sizes
    <3>3. soonest < EVT_MAX
      BY <3>1, <3>2
    <3> QED
      BY <1>8, <3>1, <3>3
  <2> QED
    BY <1>1, <2>1 DEF Foreseen, ForeseenIn
<1>14. Timely'
  <2>1. (Len(stack) > 1 /\ stack[2].at = "cycles") =
          (Len(stack') > 1 /\ stack'[2].at = "cycles")
    <3>1. CASE b = 1
      <4>1. stack[2].at = "misc" /\ Len(stack') = 1
        <5>1. Depth = 2
          BY <1>3, <3>1
        <5> QED
          BY <1>1, <1>5, <3>1, <5>1 DEF Top, Depth
      <4> QED
        BY <4>1
    <3>2. CASE b # 1
      <4>1. stack'[2] = stack[2] /\ Len(stack) > 1 /\ Len(stack') > 1
        BY <1>A, <1>3, <1>5, <3>2 DEF Depth
      <4> QED
        BY <4>1
    <3> QED
      BY <3>1, <3>2
  <2>2. (Len(stack) > 1 /\ stack[2].at = "cycles") => stack'[2] = stack[2]
    <3>1. CASE b = 1
      <4>1. Depth = 2
        BY <1>3, <3>1
      <4> QED
        BY <1>1, <4>1 DEF Top
    <3>2. CASE b # 1
      BY <1>5, <3>2
    <3> QED
      BY <3>1, <3>2
  <2>3. ServedIn(stack') = ServedIn(stack)
    BY <2>1, <2>2 DEF ServedIn
  <2>4. \A q \in 0 .. ev_max - 1 : eventtab'[q].active =>
           /\ nextevent' <= eventtab'[q].evtime
           /\ currcycle <= eventtab'[q].evtime
           /\ q < ServedIn(stack) => currcycle < eventtab'[q].evtime
    <3>1. ASSUME NEW q \in 0 .. ev_max - 1, q # ev_misc, eventtab'[q].active
          PROVE  /\ currcycle <= eventtab'[q].evtime
                 /\ q < ServedIn(stack) => currcycle < eventtab'[q].evtime
      BY <1>8, <3>1 DEF Punctual, Timely, TimelyIn
    <3>2. currcycle < soonest /\ currcycle <= soonest
      <4>1. soonest \in Nat /\ currcycle \in Nat
        BY <1>A, <1>4, EvtMax, EvtimeIsNat, Sizes
      <4> QED
        BY <1>4, <4>1
    <3> QED
      BY <1>8, <3>1, <3>2
  <2> QED
    BY <1>1, <2>1, <2>2, <2>3, <2>4 DEF Punctual, Timely, TimelyIn
<1> QED
  BY <1>9, <1>10, <1>12, <1>13, <1>14 DEF Punctual

(* The handler that has been run early returns, and the event is placed.   *)
LEMMA EarlyHandlerReturnsKeeps ==
  ASSUME HandlerCalls = 0, Punctual, EarlyHandlerReturns
  PROVE  Punctual'
<1> DEFINE stk == SubSeq(stack, 1, Depth - 2)
<1>A. Types /\ Shape /\ stack \in Seq(Frame) /\ Depth = Len(stack) /\ eventtab2 \in Events2
  BY DEF Punctual, Types, Depth, Events2
<1>1. /\ Depth > 1 /\ Top.at = "code" /\ Below.at = "newevent"
      /\ Place(eventtab2, Below.no, Event(Below.et, Below.func, Below.data), stk)
      /\ UNCHANGED <<currcycle, event2cnt>>
  BY DEF EarlyHandlerReturns
<1>2. Below \in NewFrame /\ ~Scanning
  BY <1>A, <1>1, CodeAboveNewevent
<1>3. PICK b \in {1, 3} : Plain(stack, b) /\ Depth = b + 2
  BY <1>A, <1>1, CodeAboveNewevent
<1>4. stk \in Seq(Frame) /\ Len(stk) = b /\ \A j \in 1 .. b : stk[j] = stack[j]
  <2>1. stk = SubSeq(stack, 1, b) /\ b \in Int /\ 1 \in Int /\ b - 1 + 1 = b /\ 1 <= b
    BY <1>3
  <2>2. \A j \in 1 .. b : stack[j] \in Frame /\ 1 + j - 1 = j
    <3>1. \A j \in 1 .. b : j \in 1 .. Len(stack) /\ 1 + j - 1 = j
      BY <1>A, <1>3
    <3>2. \A j \in 1 .. Len(stack) : stack[j] \in Frame
      BY <1>A
    <3> QED
      BY <3>1, <3>2
  <2> HIDE DEF stk
  <2>3. /\ SubSeq(stack, 1, b) \in Seq(Frame)
        /\ Len(SubSeq(stack, 1, b)) = IF 1 <= b THEN b - 1 + 1 ELSE 0
        /\ \A j \in 1 .. b - 1 + 1 : SubSeq(stack, 1, b)[j] = stack[1 + j - 1]
    BY <2>1, <2>2, SubSeqProperties
  <2> QED
    BY <2>1, <2>2, <2>3
<1> HIDE DEF stk
<1>5. Plain(stk, b)
  BY <1>3, <1>4 DEF Plain
<1>6. TimelyIn(stk)
  <2>1. CASE b = 1
    <3>1. Depth = 3 /\ stack[2] = Below /\ Len(stk) = 1
      BY <1>3, <1>4, <2>1 DEF Below
    <3> QED
      BY <1>1, <3>1 DEF Punctual, Timely, TimelyIn, ServedIn, Depth
  <2>2. CASE b = 3
    <3>1. stk[2] = stack[2] /\ Len(stk) > 1 /\ Len(stack) > 1
      BY <1>A, <1>3, <1>4, <2>2
    <3> QED
      BY <3>1 DEF Punctual, Timely, TimelyIn, ServedIn
  <2> QED
    BY <2>1, <2>2
<1>7. event2cnt = 0 /\ event2restart = 0 /\ ForeseenIn(eventtab2) /\ currcycle < Below.et
  BY <1>1, <1>2 DEF Punctual, Counters, Foreseen, AskedAhead
<1>8. /\ Below.no \in 1 .. Slots - 1 /\ Below.et \in 0 .. MaxCycle
      /\ Below.func \in Funcs /\ Below.data \in SUBSET (Bits \cup {0})
  BY <1>2 DEF NewFrame
<1> QED
  BY <1>A, <1>1, <1>4, <1>5, <1>6, <1>7, <1>8, PlaceKeeps

----------------------------------------------------------------------------
(* The theorems                                                            *)

(* Nothing has been asked for yet.                                         *)
LEMMA PunctualInit == Init => Punctual
<1> SUFFICES ASSUME Init PROVE Punctual
  OBVIOUS
<1> DEFINE code == Code(MaxCalls)
<1>1. code \in CodeFrame /\ code \in Frame /\ code.at = "code"
  BY EventAssumption DEF Code, CodeFrame, Frame
<1>2. stack \in Seq(Frame) /\ Depth = 1 /\ stack[1] = code /\ Top = code /\ Len(stack) = 1
  <2>1. stack = <<code>>
    BY DEF Init
  <2> HIDE DEF code
  <2> QED
    BY <1>1, <2>1 DEF Depth, Top
<1>3. /\ eventtab \in [0 .. ev_max - 1 -> [active: BOOLEAN, evtime: 0 .. MaxCycle]]
      /\ \A k \in 0 .. ev_max - 1 : ~eventtab[k].active
  BY OffProps DEF Init
<1>4. eventtab2 \in Events2 /\ \A s \in 0 .. Slots - 1 : ~eventtab2[s].active
  BY FreeProps DEF Init, Events2
<1>5. Types
  <2>1. currcycle \in 0 .. MaxCycle /\ event2idx \in 0 .. Slots /\ next \in 1 .. Slots - 1
    BY Sizes DEF Init
  <2> QED
    BY <1>2, <1>3, <1>4, <2>1 DEF Init, Types, Events2
<1>6. Shape /\ ~Scanning
  BY <1>1, <1>2 DEF Shape, Mode, Plain, Scanning
<1>7. Counters /\ ScanOK /\ AskedAhead
  BY <1>2, <1>6 DEF Init, Counters, ScanOK, AskedAhead
<1>8. Timely /\ Foreseen
  BY <1>2, <1>3, <1>4 DEF Timely, TimelyIn, Foreseen, ForeseenIn
<1> QED
  BY <1>5, <1>6, <1>7, <1>8 DEF Punctual

(* A step of something else.                                               *)
LEMMA PunctualStutter == ASSUME Punctual, UNCHANGED vars PROVE Punctual'
<1>1. UNCHANGED <<currcycle, nextevent, eventtab, eventtab2, event2idx, next,
                  event2cnt, event2restart, stack>>
  BY DEF vars, tables, counters
<1>2. Types' /\ Shape' /\ Counters'
  BY <1>1 DEF Punctual, Types, Shape, Mode, Counters, Depth, Below
<1>3. Timely' /\ Foreseen' /\ AskedAhead'
  BY <1>1 DEF Punctual, Timely, TimelyIn, Foreseen, ForeseenIn, AskedAhead, Scanning,
              Depth, Top, Below
<1>4. Scanning' = Scanning /\ Scan' = Scan /\ Top' = Top
  BY <1>1 DEF Scanning, Scan, Depth, Top, Below
<1>5. ScanOK'
  BY <1>1, <1>4 DEF Punctual, ScanOK, SlotOf
<1> QED
  BY <1>2, <1>3, <1>5 DEF Punctual

(* Every step.                                                             *)
LEMMA PunctualNext == ASSUME HandlerCalls = 0, Punctual, Next PROVE Punctual'
<1>1. CASE Callers
  BY <1>1, CallersKeep
<1>2. CASE Events
  <2>1. CASE MiscFire
    BY <2>1, MiscFireKeeps
  <2>2. CASE MiscHandlerReturns
    BY <2>2, MiscHandlerReturnsKeeps
  <2>3. CASE MiscReturn
    BY <2>3, MiscReturnKeeps
  <2>4. CASE EarlyHandlerReturns
    BY <2>4, EarlyHandlerReturnsKeeps
  <2>5. CASE MiscTimerFires
    BY <2>5, MiscTimerFiresKeeps
  <2>6. CASE \E t \in Delays \cup {0} : TimerFires(t)
    BY <2>6, TimerFiresKeeps
  <2>7. CASE NextEventDue \/ CyclesDone \/ TimerReturns \/ TimersServed
               \/ \E c \in 0 .. MaxStep : DoCycles(c)
    BY <2>7, CyclesKeep
  <2> QED
    BY <1>2, <2>1, <2>2, <2>3, <2>4, <2>5, <2>6, <2>7 DEF Events
<1> QED
  BY <1>1, <1>2 DEF Next

(* The event tables are correct at every step, and with them the types.    *)
THEOREM EventsPunctual == ASSUME HandlerCalls = 0 PROVE Spec => []Punctual
<1>1. Punctual /\ [Next]_vars => Punctual'
  BY PunctualNext, PunctualStutter
<1> QED
  BY PunctualInit, <1>1, PTL DEF Spec

(* Between two instructions ev_misc is set to the soonest event or an      *)
(* earlier time, and nextevent to the soonest timer: nothing that has been *)
(* asked of events.cpp is passed over when do_cycles comes.                *)
THEOREM NoneMissed == ASSUME HandlerCalls = 0 PROVE Spec => []NothingMissed
<1>1. Punctual => NothingMissed
  <2> SUFFICES ASSUME Punctual, AtRest PROVE NothingMissed
    BY DEF NothingMissed
  <2>1. ~Scanning
    BY Resting DEF Punctual, AtRest
  <2>2. DOMAIN eventtab2 = 0 .. Slots - 1 /\ DOMAIN eventtab = 0 .. ev_max - 1
    BY DEF Punctual, Types
  <2> QED
    BY <2>1, <2>2 DEF Punctual, Foreseen, ForeseenIn, Timely, TimelyIn, NothingMissed
<1> QED
  BY <1>1, EventsPunctual, PTL

(* Between two instructions every event that waits in eventtab2 is still   *)
(* to come: none is overdue.                                               *)
THEOREM NoneOverdue == ASSUME HandlerCalls = 0 PROVE Spec => []NeverOverdue
<1>1. Punctual => NeverOverdue
  <2> SUFFICES ASSUME Punctual, AtRest PROVE NeverOverdue
    BY DEF NeverOverdue
  <2>1. ~Scanning /\ Depth = 1
    BY Resting DEF Punctual, AtRest
  <2>2. DOMAIN eventtab2 = 0 .. Slots - 1 /\ ForeseenIn(eventtab2)
    BY <2>1 DEF Punctual, Types, Foreseen
  <2>3. ev_misc \in 0 .. ev_max - 1 /\ ev_misc < ServedIn(stack)
    BY <2>1 DEF ServedIn, Depth, ev_misc, ev_max
  <2>4. eventtab[ev_misc].active => currcycle < eventtab[ev_misc].evtime
    BY <2>3 DEF Punctual, Timely, TimelyIn
  <2>5. /\ currcycle \in Nat /\ eventtab[ev_misc].evtime \in Nat
        /\ \A s \in 0 .. Slots - 1 : eventtab2[s].evtime \in Nat
    BY <2>3, EvtimeIsNat DEF Punctual
  <2> QED
    BY <2>2, <2>4, <2>5 DEF ForeseenIn, NeverOverdue
<1> QED
  BY <1>1, EventsPunctual, PTL
=============================================================================
