----------------------------- MODULE EventSched -----------------------------
(***************************************************************************)
(* The event tables of events.cpp, by which everything in the emulated     *)
(* Amiga that happens at a time is started: eventtab, one entry per timer  *)
(* (the entry ev_misc among them), and eventtab2, the pool of one-shot     *)
(* events that MISC_handler serves through ev_misc.                        *)
(*                                                                         *)
(* The code is sequential but re-entrant: a handler may ask for new events,*)
(* which calls MISC_handler inside MISC_handler.  `stack' holds the calls  *)
(* under way, the running instruction first.  What a handler does is not   *)
(* modelled, except that it may call the functions of this file.           *)
(***************************************************************************)
EXTENDS Integers, Sequences, FiniteSets, SequencesExt, FiniteSetsExt

CONSTANTS
  Slots,         \* ev2_max; slot 0 is ev2_blitter, the others are the pool
  Timers,        \* the entries of eventtab in use, apart from ev_misc
  Ext,           \* event_doint_delay_do_ext, whose data are interrupt bits
  Blitter,       \* blitter_handler
  Other,         \* the other handlers
  Bits,          \* interrupt bits
  MaxDelay,      \* bound on the delays asked for
  MaxCycle,      \* bound on currcycle
  MaxStep,       \* bound on the cycles of one instruction
  MaxCalls,      \* bound on the calls one instruction makes
  HandlerCalls,  \* bound on the calls an event's handler makes
  TimerCalls,    \* bound on the calls a timer's handler makes
  MaxDepth,      \* bound on the nesting of handlers and these functions
  MaxRestarts,   \* bound on event2restart, which need not return to 0
  MayReset       \* TRUE: init_eventtab may be called by a reset

ev_misc == 2
ev_max  == 4

ASSUME EventAssumption ==
  /\ Slots \in Nat \ {0, 1}
  /\ Ext # Blitter /\ {Ext, Blitter} \cap Other = {}
  /\ Timers \subseteq (0 .. ev_max - 1) \ {ev_misc}
  /\ {MaxDelay, MaxCycle, MaxStep} \subseteq Nat \ {0}
  /\ {MaxCalls, HandlerCalls, TimerCalls, MaxDepth, MaxRestarts} \subseteq Nat
  /\ MayReset \in BOOLEAN

Funcs   == {Ext, Blitter} \cup Other
Data(f) == IF f = Ext THEN {{b} : b \in Bits} ELSE {{0}}
EVT_MAX == MaxCycle + 1000 \* later than any event

VARIABLES
  currcycle, nextevent,
  eventtab,       \* timer -> [active, evtime]
  eventtab2,      \* slot -> [active, evtime, func, data]
  event2idx, event2cnt, event2restart,
  next,           \* the static variable of event2_newevent_xx
  stack           \* the calls under way

counters == <<event2cnt, event2restart>>
tables   == <<eventtab, eventtab2, event2idx, next>>
vars     == <<currcycle, nextevent, tables, counters, stack>>

(* The calls: code that may call this file, do_cycles_normal between its   *)
(* while (i = ev_max) and its for, MISC_handler in its for (`soonest' is   *)
(* ct + mintime), and event2_newevent_xx while it makes room (`no' is      *)
(* `next' as it was when the search came round to it).                     *)
Code(n)                      == [at |-> "code", left |-> n]
Cycles(todo, i)              == [at |-> "cycles", todo |-> todo, i |-> i]
Misc(idx2, i, ct, soonest)   == [at |-> "misc", idx2 |-> idx2, i |-> i, ct |-> ct,
                                 soonest |-> soonest]
Newevent(no, et, func, data) == [at |-> "newevent", no |-> no, et |-> et,
                                 func |-> func, data |-> data]

Depth == Len(stack)
Top   == stack[Depth]
Below == stack[Depth - 1]

Earliest(tab) == LET times == {tab[k].evtime : k \in {j \in DOMAIN tab : tab[j].active}}
                 IN  IF times = {} THEN EVT_MAX ELSE Min(times)

(* An entry that is not active; what else is left in it is never read.     *)
Off  == [active |-> FALSE, evtime |-> 0]
Free == [active |-> FALSE, evtime |-> 0, func |-> Blitter, data |-> {0}]

(* events_schedule                                                         *)
Schedule(tab) == nextevent' = Earliest(tab)

TypeOK ==
  /\ currcycle \in 0 .. MaxCycle
  /\ nextevent \in 0 .. MaxCycle \cup {EVT_MAX}
  /\ eventtab \in [0 .. ev_max - 1 -> [active: BOOLEAN, evtime: 0 .. MaxCycle]]
  /\ eventtab2 \in [0 .. Slots - 1 -> [active: BOOLEAN, evtime: 0 .. MaxCycle,
                                       func: Funcs, data: SUBSET (Bits \cup {0})]]
  /\ event2idx \in 0 .. Slots
  /\ event2cnt \in Nat /\ event2restart \in Nat
  /\ next \in 1 .. Slots - 1
  /\ Depth > 0 /\ stack[1].at = "code"

(* clear_events; nothing has been asked for yet.                           *)
Init ==
  /\ currcycle = 0 /\ nextevent = EVT_MAX
  /\ eventtab = [k \in 0 .. ev_max - 1 |-> Off]
  /\ eventtab2 = [s \in 0 .. Slots - 1 |-> Free]
  /\ event2idx = 0 /\ event2cnt = 0 /\ event2restart = 0
  /\ next = 1
  /\ stack = <<Code(MaxCalls)>>

----------------------------------------------------------------------------
(* MISC_handler                                                            *)

(* Its prologue, on top of the calls stk.                                  *)
CallMisc(tab, idx, stk) ==
  /\ eventtab' = [tab EXCEPT ![ev_misc] = Off]
  /\ event2restart' = IF event2cnt > 0 THEN event2restart + 1 ELSE event2restart
  /\ stack' = Append(stk, Misc(idx % Slots, 0, currcycle, EVT_MAX))

SlotAt(i) == (Top.idx2 + i) % Slots
Due(i)    == eventtab2[SlotAt(i)].active /\ eventtab2[SlotAt(i)].evtime = Top.ct
DueAt     == {i \in Top.i .. Slots - 1 : Due(i)}

(* mintime, after the slots from i to j - 1 have been looked at.           *)
SoonestBefore(j) ==
  LET seen == {SlotAt(i) : i \in Top.i .. j - 1}
  IN  Min({Top.soonest, Earliest([s \in seen |-> eventtab2[s]])})

(* The for loop runs to the next due event and calls its handler.          *)
MiscFire ==
  /\ Top.at = "misc"
  /\ DueAt # {}
  /\ LET i == Min(DueAt)
     IN  /\ eventtab2' = [eventtab2 EXCEPT ![SlotAt(i)] = Free]
         /\ stack' = Append([stack EXCEPT ![Depth].i = i, ![Depth].soonest = SoonestBefore(i)],
                            Code(HandlerCalls))
  /\ event2cnt' = event2cnt + 1
  /\ UNCHANGED <<currcycle, nextevent, eventtab, event2idx, event2restart, next>>

(* Fault: the scan that starts again leaves out one slot more.             *)
MiscHandlerReturnsLate ==
  /\ Depth > 1 /\ Top.at = "code" /\ Below.at = "misc"
  /\ event2cnt' = event2cnt - 1
  /\ IF event2restart > 0
     THEN /\ event2restart' = event2restart - 1
          /\ stack' = [Front(stack) EXCEPT ![Depth - 1].i = 2,
                                           ![Depth - 1].soonest = EVT_MAX]
     ELSE /\ stack' = [Front(stack) EXCEPT ![Depth - 1].i = @ + 1]
          /\ UNCHANGED event2restart
  /\ UNCHANGED <<currcycle, nextevent, tables>>

(* The handler returns.  If it has called MISC_handler meanwhile, i is set *)
(* to 0, and the loop goes on with i = 1.                                  *)
MiscHandlerReturns ==
  /\ Depth > 1 /\ Top.at = "code" /\ Below.at = "misc"
  /\ event2cnt' = event2cnt - 1
  /\ IF event2restart > 0
     THEN /\ event2restart' = event2restart - 1
          /\ stack' = [Front(stack) EXCEPT ![Depth - 1].i = 1,
                                           ![Depth - 1].soonest = EVT_MAX]
     ELSE /\ stack' = [Front(stack) EXCEPT ![Depth - 1].i = @ + 1]
          /\ UNCHANGED event2restart
  /\ UNCHANGED <<currcycle, nextevent, tables>>

(* Fault: the cycle at which the tables are looked at again is not         *)
(* brought forward.                                                        *)
MiscReturnUnscheduled ==
  /\ Top.at = "misc"
  /\ DueAt = {}
  /\ eventtab' = IF SoonestBefore(Slots) < EVT_MAX
                 THEN [eventtab EXCEPT ![ev_misc] =
                        [active |-> TRUE, evtime |-> SoonestBefore(Slots)]]
                 ELSE eventtab
  /\ stack' = Front(stack)
  /\ UNCHANGED <<currcycle, nextevent, eventtab2, event2idx, next, counters>>

(* No other event is due: ev_misc is set to the soonest one seen.          *)
MiscReturn ==
  /\ Top.at = "misc"
  /\ DueAt = {}
  /\ LET soonest == SoonestBefore(Slots)
         tab     == [eventtab EXCEPT ![ev_misc] = [active |-> TRUE, evtime |-> soonest]]
     IN  IF soonest < EVT_MAX
         THEN eventtab' = tab /\ Schedule(tab)
         ELSE UNCHANGED <<eventtab, nextevent>>
  /\ stack' = Front(stack)
  /\ UNCHANGED <<currcycle, eventtab2, event2idx, next, counters>>

----------------------------------------------------------------------------
(* event2_newevent_xx                                                      *)

Event(et, f, d) == [active |-> TRUE, evtime |-> et, func |-> f, data |-> d]

(* Put an event into slot no and call MISC_handler.                        *)
Put(tab2, no, event, stk) ==
  /\ eventtab2' = [tab2 EXCEPT ![no] = event]
  /\ event2idx' = no + 1
  /\ CallMisc(eventtab, no + 1, stk)
  /\ UNCHANGED nextevent

(* Fault: the search goes on with slot 0, the blitter's.                   *)
PoolSlotWrapped(no, k) == (no + k) % Slots

(* The slots of the pool the search looks at, from no on, round to next.   *)
PoolSlot(no, k) == 1 + ((no - 1 + k) % (Slots - 1))
Visits(no) == IF no = next THEN Slots - 1 ELSE (next - no + Slots - 1) % (Slots - 1)

(* Fault: the search stops at any event of the same handler.               *)
UsableSameFunc(tab2, event, s) == tab2[s].active => tab2[s].func = event.func

(* The search stops at a free slot and at one with the same event in it.   *)
Usable(tab2, event, s) == tab2[s].active => tab2[s] = event

Mergeable(tab2, event) ==
  {s \in DOMAIN tab2 : /\ tab2[s].active /\ event.func = Ext
                       /\ tab2[s].func = Ext /\ tab2[s].evtime = event.evtime}

Search(tab2, no, event) ==
  {k \in 0 .. Visits(no) - 1 : Usable(tab2, event, PoolSlot(no, k))}

(* Find a slot; or merge the event with one of the same time; or make room *)
(* by calling the soonest event's handler early, and look again after.     *)
Place(tab2, no, event, stk) ==
  LET found == Search(tab2, no, event)
      same  == Mergeable(tab2, event)
      first == Earliest(tab2)
      evict == Min({s \in DOMAIN tab2 : tab2[s].active /\ tab2[s].evtime = first})
  IN  IF found # {}
      THEN LET s == PoolSlot(no, Min(found))
           IN  next' = s /\ Put(tab2, s, event, stk)
      ELSE /\ IF same # {}
              THEN /\ eventtab2' = [tab2 EXCEPT ![Min(same)].data = @ \cup event.data]
                   /\ stack' = stk
              ELSE /\ eventtab2' = [tab2 EXCEPT ![evict] = Free]
                   /\ stack' = stk \o <<Newevent(next, event.evtime, event.func, event.data),
                                        Code(HandlerCalls)>>
           /\ UNCHANGED <<nextevent, eventtab, event2idx, event2restart, next>>

(* The handler called early returns.                                       *)
EarlyHandlerReturns ==
  /\ Depth > 1 /\ Top.at = "code" /\ Below.at = "newevent"
  /\ Place(eventtab2, Below.no, Event(Below.et, Below.func, Below.data),
           SubSeq(stack, 1, Depth - 2))
  /\ UNCHANGED <<currcycle, event2cnt>>

----------------------------------------------------------------------------
(* What an instruction and a handler may call.  A delay of 0 or less calls *)
(* the handler at once and leaves the tables alone, or does so after the   *)
(* removal, like a removal alone.                                          *)

Calling(t) ==
  /\ Top.at = "code" /\ Top.left > 0
  /\ currcycle + t <= MaxCycle /\ Depth <= MaxDepth /\ event2restart <= MaxRestarts
Called     == [stack EXCEPT ![Depth].left = @ - 1]

Without(f) == [s \in DOMAIN eventtab2 |->
                IF eventtab2[s].func = f THEN Free ELSE eventtab2[s]]
Exists(f)  == \E s \in DOMAIN eventtab2 : eventtab2[s].active /\ eventtab2[s].func = f

(* event2_newevent2, event2_newevent_xx (-1, ...)                          *)
NewEvent(t, f, d) ==
  /\ Calling(t) /\ f # Blitter
  /\ Place(eventtab2, next, Event(currcycle + t, f, d), Called)
  /\ UNCHANGED <<currcycle, event2cnt>>

(* event2_newevent (ev2_blitter, ...): whatever is in the slot.            *)
NewBlitterEvent(t) ==
  /\ Calling(t)
  /\ Put(eventtab2, 0, Event(currcycle + t, Blitter, {0}), Called)
  /\ UNCHANGED <<currcycle, next, event2cnt>>

(* event2_newevent_x_remove, event2_remevent (ev2_blitter)                 *)
RemoveEvent(f) ==
  /\ Calling(0) /\ f # Ext
  /\ eventtab2' = Without(f)
  /\ stack' = Called
  /\ UNCHANGED <<currcycle, nextevent, eventtab, event2idx, next, counters>>

(* event2_newevent_x_replace                                               *)
ReplaceEvent(t, f) ==
  /\ Calling(t) /\ f \in Other
  /\ Place(Without(f), next, Event(currcycle + t, f, {0}), Called)
  /\ UNCHANGED <<currcycle, event2cnt>>

(* event2_newevent_x_add_not_exists                                        *)
AddNotExists(t, f) ==
  /\ Calling(t) /\ f \in Other /\ ~Exists(f)
  /\ Place(eventtab2, next, Event(currcycle + t, f, {0}), Called)
  /\ UNCHANGED <<currcycle, event2cnt>>

(* A timer is set or stopped and the next event computed: CIA_calctimers,  *)
(* start_sync_equalline_handler, start_sync_imm_handler, schedule_audio    *)
(* and events_schedule.                                                    *)
Arm(tab, k, t) ==
  [tab EXCEPT ![k] = IF t > 0 THEN [active |-> TRUE, evtime |-> currcycle + t] ELSE Off]

SetTimer(k, t) ==
  /\ Calling(t)
  /\ eventtab' = Arm(eventtab, k, t)
  /\ Schedule(eventtab')
  /\ stack' = Called
  /\ UNCHANGED <<currcycle, eventtab2, event2idx, next, counters>>

(* init_eventtab of a reset; next and the counters of MISC_handler stay.   *)
InitEventtab ==
  /\ MayReset
  /\ Depth = 1
  /\ eventtab' = [k \in DOMAIN eventtab |-> Off]
  /\ eventtab2' = [s \in DOMAIN eventtab2 |-> Free]
  /\ Schedule(eventtab')
  /\ UNCHANGED <<currcycle, event2idx, next, counters, stack>>

----------------------------------------------------------------------------
(* do_cycles_normal                                                        *)

(* Bound: at MaxCycle time stands still.                                   *)
DoCycles(c) ==
  /\ Depth = 1
  /\ c = 0 <=> currcycle = MaxCycle
  /\ currcycle + c <= MaxCycle
  /\ stack' = Append(stack, Cycles(c, ev_max))
  /\ UNCHANGED <<currcycle, nextevent, tables, counters>>

NextEventDue ==
  /\ Top.at = "cycles" /\ Top.i = ev_max
  /\ nextevent - currcycle <= Top.todo
  /\ currcycle' = nextevent
  /\ stack' = [stack EXCEPT ![Depth] = Cycles(Top.todo - (nextevent - currcycle), 0)]
  /\ UNCHANGED <<nextevent, tables, counters>>

(* The rest of the cycles; the next instruction follows.                   *)
CyclesDone ==
  /\ Top.at = "cycles" /\ Top.i = ev_max
  /\ nextevent - currcycle > Top.todo
  /\ currcycle' = currcycle + Top.todo
  /\ stack' = <<Code(MaxCalls)>>
  /\ UNCHANGED <<nextevent, tables, counters>>

TimersDue == {k \in Top.i .. ev_max - 1 : /\ eventtab[k].active
                                          /\ eventtab[k].evtime = currcycle}

(* A timer's handler sets its timer anew, or stops it, and may do more.    *)
TimerFires(t) ==
  /\ Top.at = "cycles" /\ Top.i < ev_max
  /\ TimersDue # {}
  /\ Min(TimersDue) # ev_misc
  /\ currcycle + t <= MaxCycle
  /\ eventtab' = Arm(eventtab, Min(TimersDue), t)
  /\ Schedule(eventtab')
  /\ stack' = Append([stack EXCEPT ![Depth].i = Min(TimersDue) + 1], Code(TimerCalls))
  /\ UNCHANGED <<currcycle, eventtab2, event2idx, next, counters>>

TimerReturns ==
  /\ Depth > 1 /\ Top.at = "code" /\ Below.at = "cycles"
  /\ stack' = Front(stack)
  /\ UNCHANGED <<currcycle, nextevent, tables, counters>>

MiscTimerFires ==
  /\ Top.at = "cycles" /\ Top.i < ev_max
  /\ TimersDue # {}
  /\ Min(TimersDue) = ev_misc
  /\ CallMisc(eventtab, event2idx, [stack EXCEPT ![Depth].i = ev_misc + 1])
  /\ UNCHANGED <<currcycle, nextevent, eventtab2, event2idx, next, event2cnt>>

(* Fault: the next event is not computed when the timers have been served. *)
TimersServedUnscheduled ==
  /\ Top.at = "cycles" /\ Top.i < ev_max
  /\ TimersDue = {}
  /\ stack' = [stack EXCEPT ![Depth].i = ev_max]
  /\ UNCHANGED <<currcycle, nextevent, tables, counters>>

(* The for loop has come to its end.                                       *)
TimersServed ==
  /\ Top.at = "cycles" /\ Top.i < ev_max
  /\ TimersDue = {}
  /\ Schedule(eventtab)
  /\ stack' = [stack EXCEPT ![Depth].i = ev_max]
  /\ UNCHANGED <<currcycle, tables, counters>>

----------------------------------------------------------------------------
Delays == 1 .. MaxDelay

Events ==
  \/ MiscFire \/ MiscHandlerReturns \/ MiscReturn \/ EarlyHandlerReturns
  \/ NextEventDue \/ CyclesDone \/ TimerReturns \/ MiscTimerFires \/ TimersServed
  \/ \E t \in Delays \cup {0} : TimerFires(t)
  \/ \E c \in 0 .. MaxStep : DoCycles(c)

Callers ==
  \/ \E t \in Delays, f \in Funcs : \E d \in Data(f) : NewEvent(t, f, d)
  \/ \E t \in Delays : NewBlitterEvent(t)
  \/ \E f \in Funcs : RemoveEvent(f)
  \/ \E t \in Delays, f \in Funcs : ReplaceEvent(t, f) \/ AddNotExists(t, f)
  \/ \E k \in Timers, t \in Delays \cup {0} : SetTimer(k, t)
  \/ InitEventtab

Next == Events \/ Callers

Spec == Init /\ [][Next]_vars

(* The emulation thread runs: an instruction makes so many calls, and then *)
(* it is charged for its cycles.                                           *)
FairSpec == Spec /\ WF_vars(Events)

----------------------------------------------------------------------------
(* Properties                                                              *)

AtRest == Depth = 1

(* Between two instructions no event is overdue ...                        *)
NeverOverdue ==
  AtRest => \A s \in DOMAIN eventtab2 : eventtab2[s].active => currcycle < eventtab2[s].evtime

(* ... because ev_misc is set to the soonest event or an earlier time, and *)
(* the cycle at which the tables are looked at again to the soonest timer. *)
NothingMissed ==
  AtRest =>
    /\ \A s \in DOMAIN eventtab2 :
         eventtab2[s].active => /\ eventtab[ev_misc].active
                                /\ eventtab[ev_misc].evtime <= eventtab2[s].evtime
    /\ \A k \in DOMAIN eventtab : eventtab[k].active => nextevent <= eventtab[k].evtime

(* However its handlers ask for events, make room for them and so call it  *)
(* again, which starts its scan anew from the second slot on, MISC_handler *)
(* leaves no event behind that is due in this cycle.                       *)
MiscReturns == Top.at = "misc" /\ Len(stack') < Depth
DueNow(s)   == eventtab2[s].active /\ eventtab2[s].evtime = currcycle
AllServed   == [][MiscReturns => \A s \in DOMAIN eventtab2 : ~DueNow(s)]_vars

(* Every event asked for runs at its time, and is neither lost nor run     *)
(* twice, except that the soonest runs early when there is no room.        *)
Agenda == {[time |-> eventtab2[x[1]].evtime, func |-> eventtab2[x[1]].func, bit |-> x[2]] :
             x \in {y \in (0 .. Slots - 1) \X (Bits \cup {0}) :
                      eventtab2[y[1]].active /\ y[2] \in eventtab2[y[1]].data}}
Entries == [time: 0 .. MaxCycle, func: Funcs, bit: Bits \cup {0}]

OnTime == INSTANCE EventAgenda
            WITH now <- currcycle, agenda <- Agenda, Cancellable <- Other \cup {Blitter},
                 Punctual <- TRUE
ImplementsAgenda == OnTime!Spec

(* Whatever the handlers do, no event is lost and none runs twice.         *)
AnyTime == INSTANCE EventAgenda
             WITH now <- currcycle, agenda <- Agenda, Cancellable <- Other \cup {Blitter},
                  Punctual <- FALSE
NothingLost == AnyTime!Spec

(* Every event asked for is run or taken back.                             *)
InstructionsEnd == []<>AtRest

AllRun == \A s \in 0 .. Slots - 1 : eventtab2[s].active ~> ~eventtab2[s].active
=============================================================================
