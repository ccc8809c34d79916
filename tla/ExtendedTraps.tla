--------------------------- MODULE ExtendedTraps ---------------------------
(***************************************************************************)
(* The extended traps of traps.cpp: a trap whose handler runs in a thread  *)
(* of its own, so that it can call 68k code, which may make further traps  *)
(* before it returns.  The emulation thread and the trap threads hand      *)
(* control over by two semaphores per trap; trap_mutex and the raised      *)
(* interrupt mask are to keep the hand-overs of different traps apart.     *)
(*                                                                         *)
(* The 68k side is the Amiga's tasks, which Exec switches between when the *)
(* interrupt mask allows it, and interrupt servers, which run on top of a  *)
(* task until they are done.                                               *)
(***************************************************************************)
EXTENDS Integers, Sequences, FiniteSets, SequencesExt

CONSTANTS
  Tasks, Servers,  \* the Amiga's tasks and interrupt servers
  Boot,            \* the task that runs first
  Contexts,        \* the addresses xcalloc may return (bounds the traps under way)
  Vals,            \* values of D0
  None,
  MayReset         \* TRUE: the Amiga may be reset

Programs == Tasks \cup Servers

ASSUME TrapsAssumption ==
  /\ Boot \in Tasks /\ Tasks \cap Servers = {}
  /\ Vals # {} /\ None \notin Vals \cup Contexts \cup Tasks
  /\ MayReset \in BOOLEAN

VARIABLES
  regs,             \* [pc, d0, a7, intmask]
  running,          \* the program whose registers are in regs
  tcb,              \* program -> its registers while it does not run
  interrupted,      \* the task under an interrupt server, if one runs
  emu,              \* where the emulation thread is
  thread,           \* context -> where its trap thread is
  context,          \* context -> struct TrapContext
  switch_to_trap_sem, switch_to_emu_sem,
  trap_mutex, current_context

amiga   == <<regs, running, tcb, interrupted>>
sems    == <<switch_to_trap_sem, switch_to_emu_sem, trap_mutex>>
vars    == <<amiga, emu, thread, context, sems, current_context>>

(* pc is the address of one of the three traps below or in ordinary code;  *)
(* a7 is what m68k_call_handler has left on the stack.                     *)
Zero == CHOOSE v \in Vals : TRUE
Regs == [pc |-> "code", d0 |-> Zero, a7 |-> <<>>, intmask |-> 0]
Free == [task |-> None, saved |-> Regs, has_retval |-> FALSE,
         call68k_retval |-> None, trap_retval |-> None]

(* The emulation thread: interpreting 68k code, waiting for switch_to_emu  *)
(* of a context, or in m68k_return_handler waiting for trap_mutex.         *)
Cpu         == [at |-> "cpu", ctx |-> None]
Switched(c) == [at |-> "switched", ctx |-> c]
Returning   == [at |-> "returning", ctx |-> None]

At(pc) == emu = Cpu /\ regs.pc = pc

Init ==
  /\ regs = Regs /\ running = Boot /\ interrupted = None
  /\ tcb = [p \in Programs |-> Regs]
  /\ emu = Cpu
  /\ thread = [c \in Contexts |-> "none"]
  /\ context = [c \in Contexts |-> Free]
  /\ switch_to_trap_sem = [c \in Contexts |-> 0]
  /\ switch_to_emu_sem = [c \in Contexts |-> 0]
  /\ trap_mutex = 1 /\ current_context = None

----------------------------------------------------------------------------
(* The trap thread of context c                                            *)

Goes(c, from, to) == thread[c] = from /\ thread' = [thread EXCEPT ![c] = to]

(* trap_thread waits until it is switched to.                              *)
ThreadStarts(c) ==
  /\ Goes(c, "start", "handler")
  /\ switch_to_trap_sem[c] > 0
  /\ switch_to_trap_sem' = [switch_to_trap_sem EXCEPT ![c] = @ - 1]
  /\ UNCHANGED <<amiga, emu, context, switch_to_emu_sem, trap_mutex, current_context>>

(* The handler calls 68k code by trap_Call68k ...                          *)
HandlerCalls(c) ==
  /\ Goes(c, "handler", "call")
  /\ UNCHANGED <<amiga, emu, context, sems, current_context>>

(* ... or is done.                                                         *)
HandlerDone(c) ==
  /\ Goes(c, "handler", "exit")
  /\ \E v \in Vals : context' = [context EXCEPT ![c].trap_retval = v]
  /\ UNCHANGED <<amiga, emu, sems, current_context>>

(* Fault: trap_mutex is not taken.                                         *)
EntersUnlocked(c, from, to) ==
  /\ Goes(c, from, to)
  /\ UNCHANGED <<amiga, emu, context, sems, current_context>>

(* trap_Call68k and trap_thread wait for trap_mutex.                       *)
Enters(c, from, to) ==
  /\ Goes(c, from, to)
  /\ trap_mutex > 0
  /\ trap_mutex' = trap_mutex - 1
  /\ UNCHANGED <<amiga, emu, context, switch_to_trap_sem, switch_to_emu_sem, current_context>>

CallEnters(c) == Enters(c, "call", "calling")
ExitEnters(c) == Enters(c, "exit", "exiting")

(* Fault: interrupts are left on between a hand-over and its trap.        *)
MaskLeft(r) == r

Masked(r) == [r EXCEPT !.intmask = 7]

(* The rest of a hand-over: registers, current_context, switch_to_emu.     *)
SwitchToEmu(c, r) ==
  /\ regs' = r
  /\ current_context' = c
  /\ switch_to_emu_sem' = [switch_to_emu_sem EXCEPT ![c] = @ + 1]
  /\ UNCHANGED <<running, tcb, interrupted, emu, context, switch_to_trap_sem, trap_mutex>>

CallSwitches(c) ==
  /\ Goes(c, "calling", "called")
  /\ SwitchToEmu(c, Masked([regs EXCEPT !.pc = "m68k_call"]))

(* Fault: current_context is set by trap_Call68k only.                     *)
ExitSwitchesUnnamed(c) ==
  /\ Goes(c, "exiting", "ending")
  /\ regs' = Masked([context[c].saved EXCEPT !.pc = "exit_trap"])
  /\ switch_to_emu_sem' = [switch_to_emu_sem EXCEPT ![c] = @ + 1]
  /\ UNCHANGED <<running, tcb, interrupted, emu, context, switch_to_trap_sem, trap_mutex,
                 current_context>>

ExitSwitches(c) ==
  /\ Goes(c, "exiting", "ending")
  /\ SwitchToEmu(c, Masked([context[c].saved EXCEPT !.pc = "exit_trap"]))

ThreadEnds(c) ==
  /\ Goes(c, "ending", "ended")
  /\ UNCHANGED <<amiga, emu, context, sems, current_context>>

(* trap_Call68k, after the 68k code has returned.                          *)
Called(c) ==
  /\ Goes(c, "called", "leaving")
  /\ switch_to_trap_sem[c] > 0
  /\ switch_to_trap_sem' = [switch_to_trap_sem EXCEPT ![c] = @ - 1]
  /\ UNCHANGED <<amiga, emu, context, switch_to_emu_sem, trap_mutex, current_context>>

CallLeaves(c) ==
  /\ Goes(c, "leaving", "handler")
  /\ trap_mutex' = trap_mutex + 1
  /\ UNCHANGED <<amiga, emu, context, switch_to_trap_sem, switch_to_emu_sem, current_context>>

Handles(c) == HandlerCalls(c) \/ HandlerDone(c)

TrapThread(c) ==
  \/ ThreadStarts(c) \/ CallEnters(c) \/ CallSwitches(c) \/ Called(c) \/ CallLeaves(c)
  \/ ExitEnters(c) \/ ExitSwitches(c) \/ ThreadEnds(c)

----------------------------------------------------------------------------
(* The emulation thread                                                    *)

(* trap_HandleExtendedTrap                                                 *)
HandleExtendedTrap(c, has_retval) ==
  /\ At("code")
  /\ Goes(c, "none", "start")
  /\ context' = [context EXCEPT ![c] =
                   [Free EXCEPT !.task = running, !.saved = regs, !.has_retval = has_retval]]
  /\ switch_to_trap_sem' = [switch_to_trap_sem EXCEPT ![c] = 1]
  /\ switch_to_emu_sem' = [switch_to_emu_sem EXCEPT ![c] = 0]
  /\ emu' = Switched(c)
  /\ UNCHANGED <<amiga, trap_mutex, current_context>>

(* The end of trap_HandleExtendedTrap and of m68k_return_handler.          *)
SwitchedBack ==
  /\ emu.at = "switched"
  /\ switch_to_emu_sem[emu.ctx] > 0
  /\ switch_to_emu_sem' = [switch_to_emu_sem EXCEPT ![emu.ctx] = @ - 1]
  /\ emu' = Cpu
  /\ UNCHANGED <<amiga, thread, context, switch_to_trap_sem, trap_mutex, current_context>>

(* Fault: the interrupts stay masked.                                      *)
M68kCallHandlerMasked ==
  /\ At("m68k_call")
  /\ regs' = [regs EXCEPT !.pc = "code", !.a7 = Append(@, current_context)]
  /\ trap_mutex' = trap_mutex + 1
  /\ UNCHANGED <<running, tcb, interrupted, emu, thread, context,
                 switch_to_trap_sem, switch_to_emu_sem, current_context>>

(* Fault: the stack pointer is not written back.                           *)
M68kCallHandlerSpLost ==
  /\ At("m68k_call")
  /\ regs' = [regs EXCEPT !.pc = "code", !.intmask = context[current_context].saved.intmask]
  /\ trap_mutex' = trap_mutex + 1
  /\ UNCHANGED <<running, tcb, interrupted, emu, thread, context,
                 switch_to_trap_sem, switch_to_emu_sem, current_context>>

(* m68k_call_handler                                                       *)
M68kCallHandler ==
  /\ At("m68k_call")
  /\ regs' = [regs EXCEPT !.pc = "code", !.a7 = Append(@, current_context),
                          !.intmask = context[current_context].saved.intmask]
  /\ trap_mutex' = trap_mutex + 1
  /\ UNCHANGED <<running, tcb, interrupted, emu, thread, context,
                 switch_to_trap_sem, switch_to_emu_sem, current_context>>

(* m68k_return_handler                                                     *)
M68kReturnHandler ==
  /\ At("m68k_return")
  /\ emu' = Returning
  /\ UNCHANGED <<amiga, thread, context, sems, current_context>>

(* Fault: the context is taken from current_context.                       *)
M68kReturnsCurrent ==
  /\ emu = Returning
  /\ trap_mutex > 0
  /\ trap_mutex' = trap_mutex - 1
  /\ regs' = [regs EXCEPT !.a7 = Front(@)]
  /\ context' = [context EXCEPT ![current_context].call68k_retval = regs.d0]
  /\ switch_to_trap_sem' = [switch_to_trap_sem EXCEPT ![current_context] = @ + 1]
  /\ emu' = Switched(current_context)
  /\ UNCHANGED <<running, tcb, interrupted, thread, switch_to_emu_sem, current_context>>

M68kReturns ==
  /\ emu = Returning
  /\ trap_mutex > 0
  /\ trap_mutex' = trap_mutex - 1
  /\ LET c == Last(regs.a7)
     IN  /\ context' = [context EXCEPT ![c].call68k_retval = regs.d0]
         /\ switch_to_trap_sem' = [switch_to_trap_sem EXCEPT ![c] = @ + 1]
         /\ emu' = Switched(c)
  /\ regs' = [regs EXCEPT !.a7 = Front(@)]
  /\ UNCHANGED <<running, tcb, interrupted, thread, switch_to_emu_sem, current_context>>

(* exit_trap_handler                                                       *)
ExitTrapHandler ==
  /\ At("exit_trap")
  /\ LET ctx == context[current_context]
     IN  /\ thread[current_context] = "ended"
         /\ regs' = IF ctx.has_retval THEN [ctx.saved EXCEPT !.d0 = ctx.trap_retval]
                                      ELSE ctx.saved
  /\ context' = [context EXCEPT ![current_context] = Free]
  /\ thread' = [thread EXCEPT ![current_context] = "none"]
  /\ trap_mutex' = trap_mutex + 1
  /\ UNCHANGED <<running, tcb, interrupted, emu, switch_to_trap_sem, switch_to_emu_sem,
                 current_context>>

EmulationThread ==
  SwitchedBack \/ M68kCallHandler \/ M68kReturnHandler \/ M68kReturns \/ ExitTrapHandler

----------------------------------------------------------------------------
(* The 68k code                                                            *)

(* A called function leaves its result in D0 and returns to the address    *)
(* on its stack.                                                           *)
Rts(v) ==
  /\ At("code")
  /\ regs.a7 # <<>>
  /\ regs' = [regs EXCEPT !.d0 = v, !.pc = "m68k_return"]
  /\ UNCHANGED <<running, tcb, interrupted, emu, thread, context, sems, current_context>>

(* Between two instructions another program goes on.                       *)
Resume(p, intmask) ==
  /\ tcb' = [tcb EXCEPT ![running] = regs]
  /\ running' = p
  /\ regs' = [tcb[p] EXCEPT !.intmask = intmask]
  /\ UNCHANGED <<emu, thread, context, sems, current_context>>

Dispatch(t) ==
  /\ emu = Cpu /\ regs.intmask = 0
  /\ t # running /\ Resume(t, 0)
  /\ UNCHANGED interrupted

Interrupt(s) ==
  /\ emu = Cpu /\ regs.intmask = 0
  /\ Resume(s, 2)
  /\ interrupted' = running

Rte ==
  /\ At("code") /\ running \in Servers
  /\ regs.a7 = <<>>
  /\ Resume(interrupted, 0)
  /\ interrupted' = None

(* A reset asked for takes place after any instruction, when m68k_go finds *)
(* quit_program set; it does not know of the traps.                        *)
Reset ==
  /\ MayReset
  /\ emu = Cpu
  /\ regs' = Regs /\ running' = Boot /\ interrupted' = None
  /\ tcb' = [p \in Programs |-> Regs]
  /\ UNCHANGED <<emu, thread, context, sems, current_context>>

----------------------------------------------------------------------------
Next ==
  \/ \E c \in Contexts : TrapThread(c) \/ Handles(c)
  \/ \E c \in Contexts, has_retval \in BOOLEAN : HandleExtendedTrap(c, has_retval)
  \/ EmulationThread
  \/ \E v \in Vals : Rts(v)
  \/ \E t \in Tasks : Dispatch(t)
  \/ \E s \in Servers : Interrupt(s)
  \/ Rte \/ Reset

Spec == Init /\ [][Next]_vars

(* Threads run, the CPU goes on, and a handler does something.             *)
FairSpec ==
  /\ Spec
  /\ WF_vars(EmulationThread)
  /\ \A c \in Contexts : WF_vars(TrapThread(c)) /\ WF_vars(Handles(c))

----------------------------------------------------------------------------
(* Properties                                                              *)

RegType == [pc: {"code", "m68k_call", "m68k_return", "exit_trap"}, d0: Vals,
            a7: Seq(Contexts), intmask: {0, 2, 7}]
ContextType == [task: Programs \cup {None}, saved: RegType, has_retval: BOOLEAN,
                call68k_retval: Vals \cup {None}, trap_retval: Vals \cup {None}]

TypeOK ==
  /\ running \in Programs /\ interrupted \in Tasks \cup {None}
  /\ regs \in RegType /\ tcb \in [Programs -> RegType]
  /\ emu \in {Cpu, Returning} \cup {Switched(c) : c \in Contexts}
  /\ thread \in [Contexts -> {"none", "start", "handler", "call", "calling", "called",
                              "leaving", "exit", "exiting", "ending", "ended"}]
  /\ context \in [Contexts -> ContextType]
  /\ switch_to_trap_sem \in [Contexts -> {0, 1}]
  /\ switch_to_emu_sem \in [Contexts -> {0, 1}]
  /\ trap_mutex \in {0, 1}
  /\ current_context \in Contexts \cup {None}

(* The threads are coroutines: at any time exactly one of them, the        *)
(* emulation thread or one trap thread, is not waiting for another (a      *)
(* trap thread that is ending does nothing more).                          *)
EmuRuns     == \/ emu.at = "cpu"
               \/ emu.at = "returning" /\ trap_mutex > 0
               \/ emu.at = "switched" /\ switch_to_emu_sem[emu.ctx] > 0
TrapRuns(c) == \/ thread[c] \in {"handler", "calling", "leaving", "exiting"}
               \/ thread[c] \in {"call", "exit"} /\ trap_mutex > 0
               \/ thread[c] \in {"start", "called"} /\ switch_to_trap_sem[c] > 0
OneRuns ==
  Cardinality({c \in Contexts : TrapRuns(c)}) + (IF EmuRuns THEN 1 ELSE 0) = 1

(* The code that handles a call or an exit finds in current_context the    *)
(* trap that asked for it, and that is a trap of the running program.      *)
CallerIsRunning ==
  emu = Cpu /\ regs.pc \in {"m68k_call", "exit_trap"} =>
    /\ current_context \in Contexts
    /\ context[current_context].task = running
    /\ thread[current_context] \in
         IF regs.pc = "m68k_call" THEN {"called"} ELSE {"ending", "ended"}

(* Ordinary code runs with the interrupt mask of its program, so that      *)
(* other programs run while a handler's 68k call waits.                    *)
MaskRestored == At("code") => regs.intmask = IF running \in Servers THEN 2 ELSE 0

(* The traps and 68k calls of each program nest and return their values.   *)
RegsOf(p)     == IF p = running THEN regs ELSE tcb[p]
HandlerOf(p)  == {c \in Contexts : /\ thread[c] # "none" /\ context[c].task = p
                                   /\ c \notin ToSet(RegsOf(p).a7)}
CallFrames(p) == RegsOf(p).a7 \o SetToSeq(HandlerOf(p))

Procedures == INSTANCE TrapCalls WITH
  Calls    <- Contexts,
  frames   <- [p \in Programs |-> CallFrames(p)],
  handling <- [p \in Programs |-> HandlerOf(p) # {}],
  d0       <- [p \in Programs |-> IF HandlerOf(p) # {} THEN None ELSE RegsOf(p).d0],
  call     <- [c \in Contexts |->
                 [d0         |-> IF thread[c] = "none" THEN None ELSE context[c].saved.d0,
                  has_retval |-> context[c].has_retval,
                  got        |-> context[c].call68k_retval,
                  result     |-> context[c].trap_retval]]
ImplementsCalls == Procedures!Spec

(* The emulation thread gets control back: a handler is done or calls.     *)
EmulationResumes == emu # Cpu ~> emu = Cpu

(* What a handler calls is run, and a trap whose handler is done returns.  *)
TrapsServed ==
  \A c \in Contexts :
    /\ thread[c] = "call" ~> \E p \in Programs : c \in ToSet(RegsOf(p).a7)
    /\ thread[c] = "exit" ~> thread[c] = "none"
=============================================================================
