------------------------ MODULE ExtendedTrapsProofs ------------------------
(***************************************************************************)
(* Proofs about ExtendedTraps, for any tasks, interrupt servers and traps. *)
(***************************************************************************)
EXTENDS ExtendedTraps, FiniteSetTheorems, TLAPS

(***************************************************************************)
(* The inductive invariant.  A trap thread is quiet: it waits for the 68k  *)
(* code it has called, or is at its end; unless the emulation thread waits *)
(* for it.                                                                 *)
(***************************************************************************)
Mask(p) == IF p \in Servers THEN 2 ELSE 0

Quiet(c) ==
  \/ thread[c] = "none"
  \/ /\ thread[c] \in {"called", "ending", "ended"}
     /\ switch_to_trap_sem[c] = 0 /\ switch_to_emu_sem[c] = 0

(* Context c has its next trap in the registers.                           *)
Handed(c) ==
  /\ current_context = c
  /\ context[c].task = running /\ context[c].saved.a7 = regs.a7
  /\ regs.intmask = 7
  /\ \/ thread[c] = "called" /\ regs.pc = "m68k_call"
     \/ thread[c] \in {"ending", "ended"} /\ regs.pc = "exit_trap"

(* The emulation thread waits for c.                                       *)
Active(c) ==
  /\ context[c].task = running /\ context[c].saved.a7 = regs.a7
  /\ \/ /\ thread[c] \in {"start", "called"}
        /\ switch_to_trap_sem[c] = 1 /\ switch_to_emu_sem[c] = 0
     \/ /\ thread[c] \in {"handler", "call", "calling", "leaving", "exit", "exiting"}
        /\ switch_to_trap_sem[c] = 0 /\ switch_to_emu_sem[c] = 0
     \/ /\ Handed(c)
        /\ switch_to_trap_sem[c] = 0 /\ switch_to_emu_sem[c] = 1

Control ==
  /\ \A c \in Contexts : IF emu = Switched(c) THEN Active(c) ELSE Quiet(c)
  /\ emu = Cpu /\ regs.pc \in {"m68k_call", "exit_trap"} =>
       current_context \in Contexts /\ Handed(current_context)
  /\ emu = Cpu /\ regs.pc \in {"code", "m68k_return"} => regs.intmask = Mask(running)
  /\ emu = Cpu /\ regs.pc = "m68k_return" => regs.a7 # <<>>
  /\ emu = Returning => regs.a7 # <<>>

(* A program's stack holds the traps whose 68k calls it is running, each   *)
(* on top of what lay there when it was entered.                           *)
OnStack(c, p, s, k) ==
  /\ thread[c] = "called" /\ emu # Switched(c)
  /\ context[c].task = p
  /\ context[c].saved.a7 = SubSeq(s, 1, k - 1)

Stacks == \A p \in Programs : \A k \in 1 .. Len(RegsOf(p).a7) :
            OnStack(RegsOf(p).a7[k], p, RegsOf(p).a7, k)

Saved ==
  /\ \A c \in Contexts : thread[c] # "none" =>
       /\ context[c].task \in Programs
       /\ context[c].saved.pc = "code"
       /\ context[c].saved.intmask = Mask(context[c].task)
       /\ thread[c] \in {"exit", "exiting", "ending", "ended"} =>
            context[c].trap_retval \in Vals
  /\ \A p \in Programs \ {running} :
       /\ tcb[p].pc \in {"code", "m68k_return"}
       /\ tcb[p].pc = "m68k_return" => tcb[p].a7 # <<>>
  /\ running \in Servers => interrupted \in Tasks

(* trap_mutex is taken from a hand-over to its trap, and from a 68k call's *)
(* return until the handler goes on.  A reset may lose it.                 *)
Locked ==
  \/ emu = Cpu /\ regs.pc \in {"m68k_call", "exit_trap"}
  \/ \E c \in Contexts :
       /\ emu = Switched(c)
       /\ thread[c] \in {"calling", "called", "leaving", "exiting", "ending", "ended"}

Mutex ==
  /\ Locked => trap_mutex = 0
  /\ ~Locked /\ ~MayReset => trap_mutex = 1

IInv == TypeOK /\ Control /\ Stacks /\ Saved /\ Mutex

----------------------------------------------------------------------------
(* The values the states are made of.                                      *)
LEMMA Values ==
  /\ \A c \in Contexts : Switched(c) # Cpu /\ Switched(c) # Returning
  /\ \A c, d \in Contexts : Switched(c) = Switched(d) => c = d
  /\ Cpu # Returning
  /\ Zero \in Vals /\ Regs \in RegType /\ Free \in ContextType
<1>1. Zero \in Vals
  BY TrapsAssumption DEF Zero
<1> QED
  BY <1>1 DEF Switched, Cpu, Returning, Regs, RegType, Free, ContextType

(* The stacks stay in order as long as what lies on them is left alone.    *)
LEMMA StacksKept ==
  ASSUME Stacks, TypeOK,
         \A p \in Programs : RegsOf(p).a7' = RegsOf(p).a7,
         \A c \in Contexts : thread[c] = "called" /\ emu # Switched(c) =>
            /\ thread'[c] = "called" /\ emu' # Switched(c)
            /\ context'[c].task = context[c].task
            /\ context'[c].saved.a7 = context[c].saved.a7
  PROVE  Stacks'
<1> SUFFICES ASSUME NEW p \in Programs, NEW k \in 1 .. Len(RegsOf(p).a7)
             PROVE  OnStack(RegsOf(p).a7[k], p, RegsOf(p).a7, k)'
  BY DEF Stacks
<1>1. RegsOf(p) \in RegType
  BY DEF TypeOK, RegsOf
<1>2. RegsOf(p).a7[k] \in Contexts
  BY <1>1 DEF RegType
<1>3. OnStack(RegsOf(p).a7[k], p, RegsOf(p).a7, k)
  BY DEF Stacks
<1> QED
  BY <1>2, <1>3 DEF OnStack

(* Each step of a trap thread, of the emulation thread and of the 68k code *)
(* preserves the invariant.                                                *)
LEMMA ThreadStartsKeeps ==
  ASSUME IInv, NEW c \in Contexts, ThreadStarts(c)
  PROVE  IInv'
<1> USE DEF ThreadStarts, Goes, amiga
<1>1. emu = Switched(c)
  BY DEF IInv, Control, Quiet
<1>2. TypeOK'
  BY DEF IInv, TypeOK
<1>3. Control'
  BY <1>1, Values DEF IInv, Control, Quiet, Active, Handed, TypeOK
<1>4. Stacks'
  BY <1>1, StacksKept DEF IInv, RegsOf, TypeOK
<1>5. Saved'
  BY DEF IInv, Saved, TypeOK
<1>6. Mutex'
  BY <1>1, Values DEF IInv, Mutex, Locked, TypeOK
<1> QED
  BY <1>2, <1>3, <1>4, <1>5, <1>6 DEF IInv

LEMMA HandlerCallsKeeps ==
  ASSUME IInv, NEW c \in Contexts, HandlerCalls(c)
  PROVE  IInv'
<1> USE DEF HandlerCalls, Goes, amiga, sems
<1>1. emu = Switched(c)
  BY DEF IInv, Control, Quiet
<1>2. TypeOK'
  BY DEF IInv, TypeOK
<1>3. Control'
  BY <1>1, Values DEF IInv, Control, Quiet, Active, Handed, TypeOK
<1>4. Stacks'
  BY <1>1, StacksKept DEF IInv, RegsOf, TypeOK
<1>5. Saved'
  BY DEF IInv, Saved, TypeOK
<1>6. Mutex'
  BY <1>1, Values DEF IInv, Mutex, Locked, TypeOK
<1> QED
  BY <1>2, <1>3, <1>4, <1>5, <1>6 DEF IInv

LEMMA HandlerDoneKeeps ==
  ASSUME IInv, NEW c \in Contexts, HandlerDone(c)
  PROVE  IInv'
<1> USE DEF HandlerDone, Goes, amiga, sems
<1>1. emu = Switched(c)
  BY DEF IInv, Control, Quiet
<1>2. TypeOK'
  BY DEF IInv, TypeOK, ContextType
<1>3. Control'
  BY <1>1, Values DEF IInv, Control, Quiet, Active, Handed, TypeOK, ContextType
<1>4. Stacks'
  BY <1>1, StacksKept DEF IInv, RegsOf, TypeOK, ContextType
<1>5. Saved'
  BY DEF IInv, Saved, TypeOK, ContextType
<1>6. Mutex'
  BY <1>1, Values DEF IInv, Mutex, Locked, TypeOK
<1> QED
  BY <1>2, <1>3, <1>4, <1>5, <1>6 DEF IInv

LEMMA CallEntersKeeps ==
  ASSUME IInv, NEW c \in Contexts, CallEnters(c)
  PROVE  IInv'
<1> USE DEF CallEnters, Enters, Goes, amiga
<1>1. emu = Switched(c)
  BY DEF IInv, Control, Quiet
<1>2. TypeOK'
  BY DEF IInv, TypeOK
<1>3. Control'
  BY <1>1, Values DEF IInv, Control, Quiet, Active, Handed, TypeOK
<1>4. Stacks'
  BY <1>1, StacksKept DEF IInv, RegsOf, TypeOK
<1>5. Saved'
  BY DEF IInv, Saved, TypeOK
<1>6. Mutex'
  BY <1>1, Values DEF IInv, Mutex, Locked, TypeOK
<1> QED
  BY <1>2, <1>3, <1>4, <1>5, <1>6 DEF IInv

LEMMA ExitEntersKeeps ==
  ASSUME IInv, NEW c \in Contexts, ExitEnters(c)
  PROVE  IInv'
<1> USE DEF ExitEnters, Enters, Goes, amiga
<1>1. emu = Switched(c)
  BY DEF IInv, Control, Quiet
<1>2. TypeOK'
  BY DEF IInv, TypeOK
<1>3. Control'
  BY <1>1, Values DEF IInv, Control, Quiet, Active, Handed, TypeOK
<1>4. Stacks'
  BY <1>1, StacksKept DEF IInv, RegsOf, TypeOK
<1>5. Saved'
  BY DEF IInv, Saved, TypeOK
<1>6. Mutex'
  BY <1>1, Values DEF IInv, Mutex, Locked, TypeOK
<1> QED
  BY <1>2, <1>3, <1>4, <1>5, <1>6 DEF IInv

LEMMA CallSwitchesKeeps ==
  ASSUME IInv, NEW c \in Contexts, CallSwitches(c)
  PROVE  IInv'
<1> USE DEF CallSwitches, SwitchToEmu, Masked, Goes
<1>1. emu = Switched(c)
  BY DEF IInv, Control, Quiet
<1>2. TypeOK'
  <2>1. switch_to_emu_sem[c] = 0
    BY <1>1 DEF IInv, Control, Active, Handed
  <2>2. regs' \in RegType
    BY DEF IInv, TypeOK, RegType
  <2> QED
    BY <2>1, <2>2 DEF IInv, TypeOK
<1>3. Control'
  BY <1>1, Values DEF IInv, Control, Quiet, Active, Handed, TypeOK, RegType
<1>4. Stacks'
  BY <1>1, StacksKept DEF IInv, RegsOf, TypeOK, RegType
<1>5. Saved'
  BY DEF IInv, Saved, TypeOK
<1>6. Mutex'
  BY <1>1, Values DEF IInv, Mutex, Locked, TypeOK
<1> QED
  BY <1>2, <1>3, <1>4, <1>5, <1>6 DEF IInv

LEMMA ExitSwitchesKeeps ==
  ASSUME IInv, NEW c \in Contexts, ExitSwitches(c)
  PROVE  IInv'
<1> USE DEF ExitSwitches, SwitchToEmu, Masked, Goes
<1>1. emu = Switched(c)
  BY DEF IInv, Control, Quiet
<1>2. TypeOK'
  <2>1. switch_to_emu_sem[c] = 0
    BY <1>1 DEF IInv, Control, Active, Handed
  <2>2. context[c].saved \in RegType
    BY DEF IInv, TypeOK, ContextType
  <2>3. regs' \in RegType
    BY <2>2 DEF RegType
  <2> QED
    BY <2>1, <2>3 DEF IInv, TypeOK
<1>3. Control'
  BY <1>1, Values DEF IInv, Control, Quiet, Active, Handed, TypeOK, RegType, ContextType
<1>4. Stacks'
  BY <1>1, StacksKept DEF IInv, RegsOf, TypeOK, RegType, ContextType, Control, Active
<1>5. Saved'
  BY DEF IInv, Saved, TypeOK
<1>6. Mutex'
  BY <1>1, Values DEF IInv, Mutex, Locked, TypeOK
<1> QED
  BY <1>2, <1>3, <1>4, <1>5, <1>6 DEF IInv

LEMMA CalledKeeps ==
  ASSUME IInv, NEW c \in Contexts, Called(c)
  PROVE  IInv'
<1> USE DEF Called, Goes, amiga
<1>1. emu = Switched(c)
  BY DEF IInv, Control, Quiet
<1>2. TypeOK'
  BY DEF IInv, TypeOK
<1>3. Control'
  BY <1>1, Values DEF IInv, Control, Quiet, Active, Handed, TypeOK
<1>4. Stacks'
  BY <1>1, StacksKept DEF IInv, RegsOf, TypeOK
<1>5. Saved'
  BY DEF IInv, Saved, TypeOK
<1>6. Mutex'
  BY <1>1, Values DEF IInv, Mutex, Locked, TypeOK
<1> QED
  BY <1>2, <1>3, <1>4, <1>5, <1>6 DEF IInv

LEMMA CallLeavesKeeps ==
  ASSUME IInv, NEW c \in Contexts, CallLeaves(c)
  PROVE  IInv'
<1> USE DEF CallLeaves, Goes, amiga
<1>1. emu = Switched(c)
  BY DEF IInv, Control, Quiet
<1>2. TypeOK'
  BY <1>1 DEF IInv, TypeOK, Mutex, Locked
<1>3. Control'
  BY <1>1, Values DEF IInv, Control, Quiet, Active, Handed, TypeOK
<1>4. Stacks'
  BY <1>1, StacksKept DEF IInv, RegsOf, TypeOK
<1>5. Saved'
  BY DEF IInv, Saved, TypeOK
<1>6. Mutex'
  BY <1>1, Values DEF IInv, Mutex, Locked, TypeOK
<1> QED
  BY <1>2, <1>3, <1>4, <1>5, <1>6 DEF IInv

LEMMA ThreadEndsKeeps ==
  ASSUME IInv, NEW c \in Contexts, ThreadEnds(c)
  PROVE  IInv'
<1> USE DEF ThreadEnds, Goes, amiga, sems
<1>1. TypeOK'
  BY DEF IInv, TypeOK
<1>2. Control'
  BY Values DEF IInv, Control, Quiet, Active, Handed, TypeOK
<1>3. Stacks'
  BY StacksKept DEF IInv, RegsOf, TypeOK
<1>4. Saved'
  BY DEF IInv, Saved, TypeOK
<1>5. Mutex'
  BY Values DEF IInv, Mutex, Locked, TypeOK
<1> QED
  BY <1>1, <1>2, <1>3, <1>4, <1>5 DEF IInv

LEMMA HandleExtendedTrapKeeps ==
  ASSUME IInv, NEW c \in Contexts, NEW has_retval \in BOOLEAN, HandleExtendedTrap(c, has_retval)
  PROVE  IInv'
<1> USE DEF HandleExtendedTrap, At, Goes, amiga
<1>1. regs.intmask = Mask(running)
  BY DEF IInv, Control
<1>2. context'[c] = [Free EXCEPT !.task = running, !.saved = regs, !.has_retval = has_retval]
  BY DEF IInv, TypeOK
<1>3. context'[c].task = running /\ context'[c].saved = regs
  BY <1>2 DEF Free
<1>4. context'[c] \in ContextType
  BY <1>2, Values DEF IInv, TypeOK, ContextType
<1>5. TypeOK'
  BY <1>2, <1>4 DEF IInv, TypeOK
<1>6. Control'
  BY <1>3, Values DEF IInv, Control, Quiet, Active, Handed, TypeOK
<1>7. Stacks'
  BY Values, StacksKept DEF IInv, RegsOf, TypeOK
<1>8. Saved'
  BY <1>1, <1>3 DEF IInv, Saved, TypeOK
<1>9. Mutex'
  BY Values DEF IInv, Mutex, Locked, TypeOK
<1> QED
  BY <1>5, <1>6, <1>7, <1>8, <1>9 DEF IInv

LEMMA SwitchedBackKeeps ==
  ASSUME IInv, SwitchedBack
  PROVE  IInv'
<1> USE DEF SwitchedBack, amiga
<1>1. PICK c \in Contexts : emu = Switched(c)
  BY DEF IInv, TypeOK, Cpu, Returning
<1>2. emu.ctx = c
  BY <1>1 DEF Switched
<1>3. /\ Handed(c) /\ thread[c] \in {"called", "ending", "ended"}
      /\ switch_to_trap_sem[c] = 0 /\ switch_to_emu_sem[c] = 1
  BY <1>1, <1>2 DEF IInv, Control, Active, Handed
<1>4. TypeOK'
  BY <1>2, <1>3 DEF IInv, TypeOK
<1>5. Control'
  BY <1>1, <1>2, <1>3, Values DEF IInv, Control, Quiet, Handed, TypeOK
<1>6. Stacks'
  BY <1>1, Values, StacksKept DEF IInv, RegsOf, TypeOK
<1>7. Saved'
  BY DEF IInv, Saved, TypeOK
<1>8. Mutex'
  BY <1>1, <1>3, Values DEF IInv, Mutex, Locked, Handed
<1> QED
  BY <1>4, <1>5, <1>6, <1>7, <1>8 DEF IInv

(* m68k_call_handler pushes its context on top of what the trap found.     *)
LEMMA M68kCallHandlerKeeps ==
  ASSUME IInv, M68kCallHandler
  PROVE  IInv'
<1> USE DEF M68kCallHandler, At
<1> DEFINE c == current_context
<1>1. c \in Contexts /\ Handed(c) /\ thread[c] = "called"
  BY DEF IInv, Control, Handed
<1>2. regs.a7 \in Seq(Contexts) /\ regs \in RegType /\ context[c].saved \in RegType
  BY <1>1 DEF IInv, TypeOK, RegType, ContextType
<1>3. context[c].saved.intmask = Mask(running)
  BY <1>1 DEF IInv, Saved, Handed
<1>4. /\ regs'.pc = "code" /\ regs'.a7 = Append(regs.a7, c) /\ regs'.intmask = Mask(running)
      /\ regs' \in RegType
  <2>1. Append(regs.a7, c) \in Seq(Contexts)
    BY <1>1, <1>2
  <2>2. regs' = [regs EXCEPT !.pc = "code", !.a7 = Append(regs.a7, c),
                             !.intmask = context[c].saved.intmask]
    BY <1>2 DEF RegType
  <2> QED
    BY <1>2, <1>3, <2>1, <2>2 DEF RegType
<1>5. trap_mutex = 0
  BY DEF IInv, Mutex, Locked
<1>6. TypeOK'
  BY <1>4, <1>5 DEF IInv, TypeOK
<1>7. Control'
  BY <1>4, Values DEF IInv, Control, Quiet
<1>8. Stacks'
  <2> SUFFICES ASSUME NEW p \in Programs, NEW k \in 1 .. Len(RegsOf(p).a7')
               PROVE  OnStack(RegsOf(p).a7[k], p, RegsOf(p).a7, k)'
    BY DEF Stacks
  <2> USE DEF OnStack
  <2>1. CASE p # running
    <3>1. OnStack(RegsOf(p).a7[k], p, RegsOf(p).a7, k) /\ RegsOf(p)' = RegsOf(p)
      BY <2>1 DEF IInv, Stacks, RegsOf
    <3> QED
      BY <3>1
  <2>2. CASE p = running /\ k \in 1 .. Len(regs.a7)
    <3>1. OnStack(regs.a7[k], p, regs.a7, k)
      BY <2>2 DEF IInv, Stacks, RegsOf
    <3>2. regs'.a7[k] = regs.a7[k]
      BY <1>2, <1>4, <2>2
    <3>3. SubSeq(regs'.a7, 1, k - 1) = SubSeq(regs.a7, 1, k - 1)
      BY <1>1, <1>2, <1>4, <2>2
    <3>4. RegsOf(p)' = regs'
      BY <2>2 DEF RegsOf
    <3> QED
      BY <3>1, <3>2, <3>3, <3>4
  <2>3. CASE p = running /\ k = Len(regs.a7) + 1
    <3>1. regs'.a7[k] = c /\ SubSeq(regs'.a7, 1, k - 1) = regs.a7
      BY <1>1, <1>2, <1>4, <2>3
    <3>2. context[c].task = running /\ context[c].saved.a7 = regs.a7 /\ emu # Switched(c)
      BY <1>1, Values DEF Handed
    <3>3. RegsOf(p)' = regs'
      BY <2>3 DEF RegsOf
    <3> QED
      BY <1>1, <2>3, <3>1, <3>2, <3>3
  <2>4. p = running => Len(RegsOf(p).a7') = Len(regs.a7) + 1
    BY <1>1, <1>2, <1>4 DEF RegsOf
  <2> QED
    BY <1>2, <2>1, <2>2, <2>3, <2>4
<1>9. Saved'
  BY DEF IInv, Saved
<1>10. Mutex'
  BY <1>4, <1>5, Values DEF Mutex, Locked
<1> QED
  BY <1>6, <1>7, <1>8, <1>9, <1>10 DEF IInv

LEMMA M68kReturnHandlerKeeps ==
  ASSUME IInv, M68kReturnHandler
  PROVE  IInv'
<1> USE DEF M68kReturnHandler, At, amiga, sems
<1>1. TypeOK'
  BY DEF IInv, TypeOK
<1>2. Control'
  BY Values DEF IInv, Control, Quiet
<1>3. Stacks'
  BY Values, StacksKept DEF IInv, RegsOf, TypeOK
<1>4. Saved'
  BY DEF IInv, Saved, TypeOK
<1>5. Mutex'
  BY Values DEF IInv, Mutex, Locked
<1> QED
  BY <1>1, <1>2, <1>3, <1>4, <1>5 DEF IInv

(* m68k_return_handler finds on top of the stack the trap that has called; *)
(* no other program has it on its stack, nor has this one elsewhere.       *)
LEMMA M68kReturnsKeeps ==
  ASSUME IInv, M68kReturns
  PROVE  IInv'
<1> USE DEF M68kReturns
<1> DEFINE c == Last(regs.a7)
           n == Len(regs.a7)
<1>1. regs \in RegType /\ regs.a7 \in Seq(Contexts) /\ regs.a7 # <<>>
  BY DEF IInv, TypeOK, RegType, Control
<1>2. n \in Nat /\ n >= 1 /\ c = regs.a7[n] /\ c \in Contexts
  BY <1>1 DEF Last
<1>3. Front(regs.a7) = SubSeq(regs.a7, 1, n - 1)
  BY DEF Front
<1>4. Front(regs.a7) \in Seq(Contexts) /\ Len(Front(regs.a7)) = n - 1
  BY <1>1, <1>2, <1>3
<1>5. /\ thread[c] = "called" /\ context[c].task = running
      /\ context[c].saved.a7 = Front(regs.a7)
  <2>1. OnStack(regs.a7[n], running, regs.a7, n)
    BY <1>2 DEF IInv, Stacks, RegsOf, TypeOK
  <2> QED
    BY <1>2, <1>3, <2>1 DEF OnStack
<1>6. switch_to_trap_sem[c] = 0 /\ switch_to_emu_sem[c] = 0
  BY <1>2, <1>5, Values DEF IInv, Control, Quiet
<1>7. /\ regs' \in RegType /\ regs'.a7 = Front(regs.a7)
      /\ regs'.pc = regs.pc /\ regs'.intmask = regs.intmask
  BY <1>1, <1>4 DEF RegType
<1>8. /\ context' = [context EXCEPT ![c].call68k_retval = regs.d0]
      /\ switch_to_trap_sem' = [switch_to_trap_sem EXCEPT ![c] = @ + 1]
      /\ emu' = Switched(c)
  OBVIOUS
<1>9. \A d \in Contexts : context'[d].task = context[d].task /\ context'[d].saved = context[d].saved
                          /\ context'[d].trap_retval = context[d].trap_retval
  BY <1>2, <1>8 DEF IInv, TypeOK, ContextType
<1>10. context' \in [Contexts -> ContextType]
  <2>1. regs.d0 \in Vals
    BY <1>1 DEF RegType
  <2>2. [context[c] EXCEPT !.call68k_retval = regs.d0] \in ContextType
    BY <1>2, <2>1 DEF IInv, TypeOK, ContextType
  <2>3. context' = [context EXCEPT ![c] = [context[c] EXCEPT !.call68k_retval = regs.d0]]
    BY <1>8
  <2> QED
    BY <1>2, <2>2, <2>3 DEF IInv, TypeOK
<1>11. TypeOK'
  BY <1>2, <1>6, <1>7, <1>8, <1>10 DEF IInv, TypeOK
<1>12. \A d \in Contexts : d = c => Active(d)'
  <2>1. context'[c].task = running' /\ context'[c].saved.a7 = regs'.a7
    BY <1>2, <1>5, <1>7, <1>9
  <2>2. /\ thread'[c] = "called"
        /\ switch_to_trap_sem'[c] = 1 /\ switch_to_emu_sem'[c] = 0
    BY <1>2, <1>5, <1>6, <1>8 DEF IInv, TypeOK
  <2> QED
    BY <2>1, <2>2 DEF Active
<1>13. Control'
  <2>1. \A d \in Contexts : d # c => Quiet(d)'
    BY <1>2, <1>8, Values DEF IInv, Control, Quiet, TypeOK
  <2> QED
    BY <1>2, <1>8, <1>12, <2>1, Values DEF Control
<1>14. Stacks'
  <2> SUFFICES ASSUME NEW p \in Programs, NEW k \in 1 .. Len(RegsOf(p).a7')
               PROVE  OnStack(RegsOf(p).a7[k], p, RegsOf(p).a7, k)'
    BY DEF Stacks
  <2> DEFINE s == RegsOf(p).a7
  <2>1. s \in Seq(Contexts)
    BY DEF IInv, TypeOK, RegType, RegsOf
  <2>2. /\ k \in 1 .. Len(s) /\ s'[k] = s[k] /\ SubSeq(s', 1, k - 1) = SubSeq(s, 1, k - 1)
        /\ p = running => k # n
    <3>1. CASE p = running
      <4>1. s = regs.a7 /\ s' = Front(regs.a7)
        BY <1>7, <3>1 DEF RegsOf
      <4>2. k \in 1 .. n - 1
        BY <1>4, <4>1
      <4> QED
        BY <1>1, <1>2, <1>3, <4>1, <4>2
    <3>2. CASE p # running
      BY <3>2 DEF RegsOf
    <3> QED
      BY <3>1, <3>2
  <2>3. s[k] \in Contexts
    BY <2>1, <2>2
  <2>4. OnStack(s[k], p, s, k)
    BY <2>2 DEF IInv, Stacks
  <2>5. s[k] # c
    <3>1. CASE p = running
      <4>1. SubSeq(s, 1, k - 1) # SubSeq(s, 1, n - 1)
        <5>1. s = regs.a7 /\ n = Len(s)
          BY <3>1 DEF RegsOf
        <5>2. Len(SubSeq(s, 1, k - 1)) = k - 1 /\ Len(SubSeq(s, 1, n - 1)) = n - 1
          BY <1>2, <2>1, <2>2, <5>1
        <5> QED
          BY <1>2, <2>2, <3>1, <5>2
      <4> QED
        BY <1>3, <1>5, <2>4, <3>1, <4>1 DEF OnStack, RegsOf
    <3>2. CASE p # running
      BY <1>5, <2>4, <3>2 DEF OnStack
    <3> QED
      BY <3>1, <3>2
  <2> QED
    BY <1>2, <1>8, <1>9, <2>2, <2>3, <2>4, <2>5, Values DEF OnStack
<1>15. Saved'
  BY <1>9 DEF IInv, Saved, TypeOK
<1>16. Mutex'
  BY <1>2, <1>5, <1>8 DEF IInv, Mutex, Locked, TypeOK
<1> QED
  BY <1>11, <1>13, <1>14, <1>15, <1>16 DEF IInv

LEMMA ExitTrapHandlerKeeps ==
  ASSUME IInv, ExitTrapHandler
  PROVE  IInv'
<1> USE DEF ExitTrapHandler, At
<1> DEFINE c   == current_context
           ctx == context[c]
<1>1. c \in Contexts /\ Handed(c) /\ thread[c] = "ended"
  BY DEF IInv, Control
<1>2. ctx \in ContextType /\ ctx.saved \in RegType /\ ctx.trap_retval \in Vals
  BY <1>1 DEF IInv, TypeOK, ContextType, Saved
<1>3. /\ regs' \in RegType /\ regs'.pc = "code" /\ regs'.a7 = regs.a7
      /\ regs'.intmask = Mask(running)
  <2>1. ctx.saved.pc = "code" /\ ctx.saved.a7 = regs.a7 /\ ctx.saved.intmask = Mask(running)
    BY <1>1 DEF IInv, Saved, Handed
  <2>2. regs' = [ctx.saved EXCEPT !.d0 = ctx.trap_retval] \/ regs' = ctx.saved
    OBVIOUS
  <2> QED
    BY <1>2, <2>1, <2>2 DEF RegType
<1>4. trap_mutex = 0
  BY DEF IInv, Mutex, Locked
<1>5. context' = [context EXCEPT ![c] = Free] /\ thread' = [thread EXCEPT ![c] = "none"]
  OBVIOUS
<1>6. TypeOK'
  BY <1>1, <1>3, <1>4, <1>5, Values DEF IInv, TypeOK
<1>7. Control'
  BY <1>1, <1>3, <1>5, Values DEF IInv, Control, Quiet, TypeOK
<1>8. Stacks'
  BY <1>1, <1>3, <1>5, StacksKept DEF IInv, RegsOf, TypeOK
<1>9. Saved'
  BY <1>1, <1>5 DEF IInv, Saved, TypeOK
<1>10. Mutex'
  BY <1>3, <1>4, Values DEF Mutex, Locked
<1> QED
  BY <1>6, <1>7, <1>8, <1>9, <1>10 DEF IInv

LEMMA RtsKeeps ==
  ASSUME IInv, NEW v \in Vals, Rts(v)
  PROVE  IInv'
<1> USE DEF Rts, At, sems
<1>1. regs \in RegType
  BY DEF IInv, TypeOK
<1>2. /\ regs' \in RegType /\ regs'.pc = "m68k_return"
      /\ regs'.a7 = regs.a7 /\ regs'.intmask = regs.intmask
  BY <1>1 DEF RegType
<1>3. TypeOK'
  BY <1>2 DEF IInv, TypeOK
<1>4. Control'
  BY <1>2, Values DEF IInv, Control, Quiet
<1>5. Stacks'
  BY <1>2, StacksKept DEF IInv, RegsOf, TypeOK
<1>6. Saved'
  BY DEF IInv, Saved, TypeOK
<1>7. Mutex'
  BY <1>2, Values DEF IInv, Mutex, Locked
<1> QED
  BY <1>3, <1>4, <1>5, <1>6, <1>7 DEF IInv

(* Another program goes on where it was left.                              *)
LEMMA ResumeKeeps ==
  ASSUME IInv, emu = Cpu, regs.pc \in {"code", "m68k_return"},
         NEW p \in Programs, p # running, Resume(p, Mask(p)),
         interrupted' \in Tasks \cup {None}, p \in Servers => interrupted' \in Tasks
  PROVE  IInv'
<1> USE DEF Resume, sems
<1>1. running \in Programs /\ regs \in RegType /\ tcb \in [Programs -> RegType]
  BY DEF IInv, TypeOK
<1>2. /\ regs' \in RegType /\ regs'.pc = tcb[p].pc /\ regs'.a7 = tcb[p].a7
      /\ regs'.intmask = Mask(p)
  BY <1>1 DEF RegType, Mask
<1>3. /\ regs'.pc \in {"code", "m68k_return"}
      /\ regs'.pc = "m68k_return" => regs'.a7 # <<>>
  BY <1>2 DEF IInv, Saved
<1>4. TypeOK'
  BY <1>1, <1>2 DEF IInv, TypeOK
<1>5. Control'
  BY <1>2, <1>3, Values DEF IInv, Control, Quiet
<1>6. Stacks'
  <2>1. \A q \in Programs : RegsOf(q).a7' = RegsOf(q).a7
    BY <1>1, <1>2 DEF RegsOf
  <2> QED
    BY <2>1, StacksKept DEF IInv
<1>7. Saved'
  BY <1>1 DEF IInv, Saved, Control
<1>8. Mutex'
  BY <1>3, Values DEF IInv, Mutex, Locked
<1> QED
  BY <1>4, <1>5, <1>6, <1>7, <1>8 DEF IInv

LEMMA DispatchKeeps ==
  ASSUME IInv, NEW t \in Tasks, Dispatch(t)
  PROVE  IInv'
<1>1. emu = Cpu /\ regs.intmask = 0 /\ t # running /\ Resume(t, 0)
  BY DEF Dispatch
<1>2. regs.pc \in {"code", "m68k_return"} /\ running \notin Servers
  BY <1>1 DEF IInv, Control, Handed, TypeOK, RegType, Mask
<1>3. t \in Programs /\ t \notin Servers /\ Mask(t) = 0
  BY TrapsAssumption DEF Programs, Mask
<1>4. interrupted' \in Tasks \cup {None}
  BY DEF Dispatch, IInv, TypeOK
<1> QED
  BY <1>1, <1>2, <1>3, <1>4, ResumeKeeps

LEMMA InterruptKeeps ==
  ASSUME IInv, NEW s \in Servers, Interrupt(s)
  PROVE  IInv'
<1>1. emu = Cpu /\ regs.intmask = 0 /\ Resume(s, 2) /\ interrupted' = running
  BY DEF Interrupt
<1>2. regs.pc \in {"code", "m68k_return"} /\ running \notin Servers
  BY <1>1 DEF IInv, Control, Handed, TypeOK, RegType, Mask
<1>3. running \in Tasks /\ s # running /\ s \in Programs /\ Mask(s) = 2
  BY <1>2 DEF IInv, TypeOK, Programs, Mask
<1> QED
  BY <1>1, <1>2, <1>3, ResumeKeeps

LEMMA RteKeeps ==
  ASSUME IInv, Rte
  PROVE  IInv'
<1>1. emu = Cpu /\ regs.pc = "code" /\ running \in Servers
      /\ Resume(interrupted, 0) /\ interrupted' = None
  BY DEF Rte, At
<1>2. interrupted \in Tasks
  BY <1>1 DEF IInv, Saved
<1>3. /\ interrupted \in Programs /\ interrupted # running
      /\ interrupted \notin Servers /\ Mask(interrupted) = 0
  BY <1>1, <1>2, TrapsAssumption DEF Programs, Mask
<1> QED
  BY <1>1, <1>3, ResumeKeeps

LEMMA ResetKeeps ==
  ASSUME IInv, Reset
  PROVE  IInv'
<1> USE DEF Reset, sems
<1>1. Boot \in Programs /\ Boot \notin Servers
  BY TrapsAssumption DEF Programs
<1>2. /\ regs' = Regs /\ Regs.pc = "code" /\ Regs.a7 = <<>> /\ Regs.intmask = 0
      /\ Mask(Boot) = 0
  BY <1>1 DEF Regs, Mask
<1>3. TypeOK'
  BY <1>1, <1>2, Values DEF IInv, TypeOK
<1>4. Control'
  BY <1>2, Values DEF IInv, Control, Quiet
<1>5. Stacks'
  BY <1>2 DEF Stacks, RegsOf
<1>6. Saved'
  BY <1>1, <1>2 DEF IInv, Saved
<1>7. Mutex'
  BY <1>2, Values DEF IInv, Mutex, Locked
<1> QED
  BY <1>3, <1>4, <1>5, <1>6, <1>7 DEF IInv

----------------------------------------------------------------------------
(* The invariant holds at the start, and every step preserves it.          *)
LEMMA InitHolds == Init => IInv
<1> SUFFICES ASSUME Init PROVE IInv
  OBVIOUS
<1> USE DEF Init
<1>1. Boot \in Programs /\ Boot \notin Servers
  BY TrapsAssumption DEF Programs
<1>2. Regs.pc = "code" /\ Regs.a7 = <<>> /\ Regs.intmask = 0 /\ Mask(Boot) = 0
  BY <1>1 DEF Regs, Mask
<1>3. TypeOK
  BY <1>1, Values DEF TypeOK
<1>4. Control
  BY <1>2, Values DEF Control, Quiet
<1>5. Stacks
  BY <1>2 DEF Stacks, RegsOf
<1>6. Saved
  BY <1>1, <1>2 DEF Saved
<1>7. Mutex
  BY <1>2, Values DEF Mutex, Locked
<1> QED
  BY <1>3, <1>4, <1>5, <1>6, <1>7 DEF IInv

LEMMA NextKeeps == IInv /\ [Next]_vars => IInv'
<1> SUFFICES ASSUME IInv, [Next]_vars PROVE IInv'
  OBVIOUS
<1>1. ASSUME NEW c \in Contexts, TrapThread(c) PROVE IInv'
  BY <1>1, ThreadStartsKeeps, CallEntersKeeps, CallSwitchesKeeps, CalledKeeps, CallLeavesKeeps,
     ExitEntersKeeps, ExitSwitchesKeeps, ThreadEndsKeeps DEF TrapThread
<1>2. ASSUME NEW c \in Contexts, Handles(c) PROVE IInv'
  BY <1>2, HandlerCallsKeeps, HandlerDoneKeeps DEF Handles
<1>3. ASSUME NEW c \in Contexts, NEW has_retval \in BOOLEAN, HandleExtendedTrap(c, has_retval)
      PROVE  IInv'
  BY <1>3, HandleExtendedTrapKeeps
<1>4. CASE EmulationThread
  BY <1>4, SwitchedBackKeeps, M68kCallHandlerKeeps, M68kReturnHandlerKeeps, M68kReturnsKeeps,
     ExitTrapHandlerKeeps DEF EmulationThread
<1>5. ASSUME NEW v \in Vals, Rts(v) PROVE IInv'
  BY <1>5, RtsKeeps
<1>6. ASSUME NEW t \in Tasks, Dispatch(t) PROVE IInv'
  BY <1>6, DispatchKeeps
<1>7. ASSUME NEW s \in Servers, Interrupt(s) PROVE IInv'
  BY <1>7, InterruptKeeps
<1>8. CASE Rte
  BY <1>8, RteKeeps
<1>9. CASE Reset
  BY <1>9, ResetKeeps
<1>10. CASE UNCHANGED vars
  BY <1>10 DEF vars, amiga, sems, IInv, TypeOK, Control, Quiet, Active, Handed, Stacks, OnStack,
     RegsOf, Saved, Mutex, Locked
<1> QED
  BY <1>1, <1>2, <1>3, <1>4, <1>5, <1>6, <1>7, <1>8, <1>9, <1>10 DEF Next

LEMMA Invariant == Spec => []IInv
<1> QED
  BY InitHolds, NextKeeps, PTL DEF Spec

(***************************************************************************)
(* The theorems                                                            *)
(***************************************************************************)

(* Every variable keeps its type; so the semaphores of a trap and          *)
(* trap_mutex never go above 1, reset or not.                              *)
THEOREM TypeCorrect == Spec => []TypeOK
<1>1. IInv => TypeOK
  BY DEF IInv
<1> QED
  BY <1>1, Invariant, PTL

(* m68k_call_handler and exit_trap_handler find in the one global          *)
(* current_context the trap of the program that runs, whatever other       *)
(* programs have traps under way.                                          *)
THEOREM CallerIsRunningHolds == Spec => []CallerIsRunning
<1>1. IInv => CallerIsRunning
  BY DEF IInv, Control, Handed, CallerIsRunning
<1> QED
  BY <1>1, Invariant, PTL

(* Raising the interrupt mask for a hand-over is undone before any other   *)
(* code runs.                                                              *)
THEOREM MaskRestoredHolds == Spec => []MaskRestored
<1>1. IInv => MaskRestored
  BY DEF IInv, Control, Mask, MaskRestored, At
<1> QED
  BY <1>1, Invariant, PTL

(* The invariant leaves no second thread to run, if trap_mutex is not lost.*)
LEMMA OneThreadRuns == IInv /\ ~MayReset => OneRuns
<1> SUFFICES ASSUME IInv, ~MayReset PROVE OneRuns
  OBVIOUS
<1> DEFINE Running == {c \in Contexts : TrapRuns(c)}
<1>1. CASE EmuRuns /\ Running = {}
  BY <1>1, FS_EmptySet DEF OneRuns
<1>2. CASE ~EmuRuns /\ \E c \in Contexts : Running = {c}
  <2>1. PICK c \in Contexts : Running = {c}
    BY <1>2
  <2>2. Cardinality(Running) = 1
    BY <2>1, FS_Singleton
  <2> QED
    BY <1>2, <2>2 DEF OneRuns
<1>3. \A c \in Contexts : Quiet(c) => ~TrapRuns(c)
  BY DEF Quiet, TrapRuns
<1>4. CASE emu = Cpu
  BY <1>1, <1>3, <1>4, Values DEF IInv, Control, EmuRuns, Cpu
<1>5. CASE emu = Returning
  <2>1. trap_mutex = 1
    BY <1>5, Values DEF IInv, Mutex, Locked
  <2>2. Running = {}
    BY <1>3, <1>5, Values DEF IInv, Control
  <2> QED
    BY <1>1, <1>5, <2>1, <2>2 DEF EmuRuns, Returning
<1>6. ASSUME NEW c \in Contexts, emu = Switched(c) PROVE OneRuns
  <2>1. \A d \in Contexts : d # c => ~TrapRuns(d)
    BY <1>3, <1>6, Values DEF IInv, Control
  <2>2. emu.at = "switched" /\ emu.ctx = c
    BY <1>6 DEF Switched
  <2>3. Active(c)
    BY <1>6 DEF IInv, Control
  <2>4. CASE switch_to_emu_sem[c] = 1
    <3>1. EmuRuns
      BY <2>2, <2>4 DEF EmuRuns
    <3>2. ~TrapRuns(c)
      BY <2>3, <2>4 DEF Active, Handed, TrapRuns
    <3> QED
      BY <1>1, <2>1, <3>1, <3>2
  <2>5. CASE switch_to_emu_sem[c] = 0
    <3>1. ~EmuRuns
      BY <2>2, <2>5 DEF EmuRuns
    <3>2. thread[c] \in {"call", "exit"} => trap_mutex = 1
      BY <1>6, Values DEF IInv, Mutex, Locked
    <3>3. TrapRuns(c)
      BY <2>3, <2>5, <3>2 DEF Active, TrapRuns
    <3>4. Running = {c}
      BY <2>1, <3>3
    <3> QED
      BY <1>2, <3>1, <3>4
  <2> QED
    BY <2>3, <2>4, <2>5 DEF Active
<1> QED
  BY <1>4, <1>5, <1>6 DEF IInv, TypeOK

(* Without a reset, the emulation thread and the trap threads run as       *)
(* coroutines: always exactly one of them, so that what they share needs   *)
(* no lock and none waits for another that waits.                          *)
THEOREM OneRunsHolds == ASSUME ~MayReset PROVE Spec => []OneRuns
<1>1. IInv => OneRuns
  BY OneThreadRuns
<1> QED
  BY <1>1, Invariant, PTL

(***************************************************************************)
(* Traps and 68k calls are procedure calls                                 *)
(***************************************************************************)

(* The trap whose handler has control, or has its next trap in the         *)
(* registers.                                                              *)
Current(c) ==
  \/ emu = Switched(c)
  \/ emu = Cpu /\ regs.pc \in {"m68k_call", "exit_trap"} /\ current_context = c

(* Every other trap under way is on the stack of its program, and only one *)
(* whose handler is done has a result.                                     *)
Lies(c, s)   == \E k \in 1 .. Len(s) : s[k] = c
Accounted(c) == thread[c] # "none" => Current(c) \/ Lies(c, RegsOf(context[c].task).a7)
Early        == {"start", "handler", "call", "calling", "called", "leaving"}
Unfinished(c) == thread[c] \in Early => context[c].trap_retval = None

CallsInv == IInv /\ \A c \in Contexts : Accounted(c) /\ Unfinished(c)

(* Sequences of no and of one element.                                     *)
LEMMA SeqOfSet ==
  /\ SetToSeq({}) = <<>>
  /\ \A c : SetToSeq({c}) = <<c>>
<1>1. SetToSeq({}) = <<>>
  <2>1. SetToSeq({}) = CHOOSE f \in [1 .. 0 -> {}] : IsInjective(f)
    BY FS_EmptySet DEF SetToSeq
  <2>2. 1 .. 0 = {}
    OBVIOUS
  <2>3. <<>> \in [1 .. 0 -> {}] /\ IsInjective(<<>>)
    BY <2>2 DEF IsInjective
  <2>4. \A f \in [1 .. 0 -> {}] : f = <<>>
    BY <2>2
  <2> QED
    BY <2>1, <2>3, <2>4
<1>2. ASSUME NEW c PROVE SetToSeq({c}) = <<c>>
  <2>1. Cardinality({c}) = 1
    BY FS_Singleton
  <2>2. SetToSeq({c}) = CHOOSE f \in [1 .. 1 -> {c}] : IsInjective(f)
    BY <2>1 DEF SetToSeq
  <2>3. <<c>> \in [1 .. 1 -> {c}] /\ IsInjective(<<c>>)
    BY DEF IsInjective
  <2>4. \A f \in [1 .. 1 -> {c}] : f = <<c>>
    OBVIOUS
  <2> QED
    BY <2>2, <2>3, <2>4
<1> QED
  BY <1>1, <1>2

(* What the programs of the abstract specification see.                    *)
Handling(c) ==
  /\ running \in Programs /\ HandlerOf(running) = {c}
  /\ CallFrames(running) = Append(regs.a7, c)
Plain(p) == HandlerOf(p) = {} /\ CallFrames(p) = RegsOf(p).a7
View ==
  /\ \A c \in Contexts : Current(c) =>
       Handling(c) /\ \A p \in Programs : p # running => Plain(p)
  /\ (\A c \in Contexts : ~Current(c)) => \A p \in Programs : Plain(p)

LEMMA ViewHolds == CallsInv => View
<1> SUFFICES ASSUME CallsInv PROVE View
  OBVIOUS
<1>0. /\ running \in Programs /\ \A p \in Programs : RegsOf(p).a7 \in Seq(Contexts)
      /\ regs.a7 \in Seq(Contexts) /\ RegsOf(running) = regs
  BY DEF CallsInv, IInv, TypeOK, RegsOf, RegType
<1>1. ASSUME NEW p \in Programs, NEW c \in Contexts
      PROVE  c \in ToSet(RegsOf(p).a7) <=> Lies(c, RegsOf(p).a7)
  <2>1. DOMAIN RegsOf(p).a7 = 1 .. Len(RegsOf(p).a7)
    BY <1>0
  <2> QED
    BY <2>1 DEF ToSet, Lies
<1>2. ASSUME NEW c \in Contexts, Current(c)
      PROVE  /\ thread[c] # "none" /\ context[c].task = running
             /\ context[c].saved.a7 = regs.a7
  BY <1>2, Values DEF Current, CallsInv, IInv, Control, Active, Handed
<1>3. ASSUME NEW c \in Contexts, Current(c) PROVE ~Lies(c, regs.a7)
  <2> SUFFICES ASSUME NEW k \in 1 .. Len(regs.a7), regs.a7[k] = c PROVE FALSE
    BY DEF Lies
  <2>1. context[c].saved.a7 = SubSeq(regs.a7, 1, k - 1)
    BY <1>0 DEF CallsInv, IInv, Stacks, OnStack
  <2>2. Len(SubSeq(regs.a7, 1, k - 1)) = k - 1
    BY <1>0
  <2>3. Len(context[c].saved.a7) = k - 1 /\ Len(context[c].saved.a7) = Len(regs.a7)
    BY <1>2, <1>3, <2>1, <2>2
  <2>4. k - 1 < Len(regs.a7)
    BY <1>0
  <2> QED
    BY <1>0, <2>3, <2>4
<1>4. ASSUME NEW p \in Programs, NEW c \in HandlerOf(p) PROVE Current(c) /\ p = running
  <2>1. thread[c] # "none" /\ context[c].task = p /\ c \notin ToSet(RegsOf(p).a7)
    BY DEF HandlerOf
  <2>2. c \in Contexts
    BY DEF HandlerOf
  <2>3. ~Lies(c, RegsOf(p).a7)
    BY <1>1, <2>1, <2>2
  <2>4. Current(c)
    BY <2>1, <2>2, <2>3 DEF CallsInv, Accounted
  <2> QED
    BY <1>2, <2>1, <2>2, <2>4
<1>5. ASSUME NEW c \in Contexts, NEW d \in Contexts, Current(c), Current(d) PROVE c = d
  BY <1>5, Values DEF Current
<1>6. ASSUME NEW p \in Programs, HandlerOf(p) = {} PROVE Plain(p)
  <2>1. RegsOf(p).a7 \o <<>> = RegsOf(p).a7
    BY <1>0
  <2> QED
    BY <1>6, <2>1, SeqOfSet DEF Plain, CallFrames
<1>7. ASSUME NEW c \in Contexts, Current(c)
      PROVE  Handling(c) /\ \A p \in Programs : p # running => Plain(p)
  <2>1. c \in HandlerOf(running)
    BY <1>0, <1>1, <1>2, <1>3, <1>7 DEF HandlerOf
  <2>2. HandlerOf(running) = {c}
    <3>1. \A d \in HandlerOf(running) : d \in Contexts
      BY DEF HandlerOf
    <3> QED
      BY <1>0, <1>4, <1>5, <1>7, <2>1, <3>1
  <2>3. CallFrames(running) = Append(regs.a7, c)
    <3>1. regs.a7 \o <<c>> = Append(regs.a7, c)
      BY <1>0
    <3> QED
      BY <1>0, <2>2, <3>1, SeqOfSet DEF CallFrames
  <2>4. ASSUME NEW p \in Programs, p # running PROVE Plain(p)
    <3>1. HandlerOf(p) = {}
      BY <1>4, <2>4
    <3> QED
      BY <1>6, <3>1
  <2> QED
    BY <1>0, <2>2, <2>3, <2>4 DEF Handling
<1>8. ASSUME \A c \in Contexts : ~Current(c), NEW p \in Programs PROVE Plain(p)
  <2>1. \A c \in HandlerOf(p) : c \in Contexts
    BY DEF HandlerOf
  <2>2. HandlerOf(p) = {}
    BY <1>4, <1>8, <2>1
  <2> QED
    BY <1>6, <2>2
<1> QED
  BY <1>7, <1>8 DEF View

(* A step that neither calls nor returns.                                  *)
Inside ==
  /\ UNCHANGED context
  /\ \A c \in Contexts : /\ thread'[c] = "none" <=> thread[c] = "none"
                         /\ thread'[c] \in Early => thread[c] \in Early
                         /\ Current(c) => Current(c)'
  /\ \A p \in Programs : /\ RegsOf(p).a7' = RegsOf(p).a7
                         /\ RegsOf(p).d0' = RegsOf(p).d0 \/ HandlerOf(p) # {}

(* The steps of a trap's thread, but for the end of its handler.           *)
LEMMA ThreadInside ==
  ASSUME CallsInv, View, NEW c \in Contexts, TrapThread(c) \/ HandlerCalls(c)
  PROVE  Inside
<1> USE DEF Goes, Early
<1>0. /\ thread \in [Contexts -> {"none", "start", "handler", "call", "calling", "called",
                                  "leaving", "exit", "exiting", "ending", "ended"}]
      /\ regs \in RegType /\ context[c].saved \in RegType
  BY DEF CallsInv, IInv, TypeOK, ContextType
<1>1. ASSUME ThreadEnds(c) PROVE Inside
  BY <1>0, <1>1 DEF ThreadEnds, Inside, Current, RegsOf, amiga
<1>2. ASSUME ~ThreadEnds(c) PROVE emu = Switched(c)
  BY <1>2 DEF CallsInv, IInv, Control, Quiet, TrapThread, ThreadStarts, HandlerCalls, CallEnters,
     ExitEnters, Enters, CallSwitches, ExitSwitches, Called, CallLeaves
<1>3. ASSUME emu = Switched(c)
      PROVE  /\ UNCHANGED emu => \A d \in Contexts : Current(d) => Current(d)'
             /\ HandlerOf(running) # {}
  <2>1. Current(c)
    BY <1>3 DEF Current
  <2> QED
    BY <1>3, <2>1, Values DEF View, Handling, Current
<1>4. ASSUME emu = Switched(c), ThreadStarts(c) \/ HandlerCalls(c) \/ CallEnters(c) \/ ExitEnters(c)
               \/ Called(c) \/ CallLeaves(c)
      PROVE  Inside
  BY <1>0, <1>3, <1>4 DEF ThreadStarts, HandlerCalls, CallEnters, ExitEnters, Enters, Called,
     CallLeaves, Inside, RegsOf, amiga
<1>5. ASSUME emu = Switched(c), CallSwitches(c)
      PROVE  Inside
  <2>1. regs'.a7 = regs.a7 /\ UNCHANGED <<running, tcb, emu, context>>
    BY <1>0, <1>5 DEF CallSwitches, SwitchToEmu, Masked, RegType
  <2> QED
    BY <1>0, <1>3, <1>5, <2>1 DEF CallSwitches, Inside, RegsOf
<1>6. ASSUME emu = Switched(c), ExitSwitches(c)
      PROVE  Inside
  <2>1. context[c].saved.a7 = regs.a7
    BY <1>6 DEF CallsInv, IInv, Control, Active
  <2>2. regs'.a7 = regs.a7 /\ UNCHANGED <<running, tcb, emu, context>>
    BY <1>0, <1>6, <2>1 DEF ExitSwitches, SwitchToEmu, Masked, RegType
  <2> QED
    BY <1>0, <1>3, <1>6, <2>2 DEF ExitSwitches, Inside, RegsOf
<1> QED
  BY <1>1, <1>2, <1>4, <1>5, <1>6 DEF TrapThread

(* Another program goes on.                                                *)
LEMMA ResumeInside ==
  ASSUME CallsInv, emu = Cpu, regs.pc \in {"code", "m68k_return"},
         NEW p \in Programs, p # running, NEW intmask, Resume(p, intmask)
  PROVE  Inside
<1>1. running \in Programs /\ regs \in RegType /\ tcb \in [Programs -> RegType]
  BY DEF CallsInv, IInv, TypeOK
<1>2. /\ regs'.a7 = tcb[p].a7 /\ regs'.d0 = tcb[p].d0
      /\ running' = p /\ tcb' = [tcb EXCEPT ![running] = regs]
      /\ UNCHANGED <<thread, context>>
  BY <1>1 DEF Resume, RegType
<1>3. \A q \in Programs : RegsOf(q).a7' = RegsOf(q).a7 /\ RegsOf(q).d0' = RegsOf(q).d0
  BY <1>1, <1>2 DEF RegsOf
<1>4. \A c \in Contexts : ~Current(c)
  BY Values DEF Current
<1> QED
  BY <1>2, <1>3, <1>4 DEF Inside

(* The emulation thread gets control back, or waits for trap_mutex.        *)
LEMMA EmulationInside ==
  ASSUME CallsInv, SwitchedBack \/ M68kReturnHandler
  PROVE  Inside
<1>1. CASE SwitchedBack
  <2>1. PICK c \in Contexts : emu = Switched(c)
    BY <1>1 DEF CallsInv, IInv, TypeOK, SwitchedBack, Cpu, Returning
  <2>2. switch_to_emu_sem[c] > 0
    BY <1>1, <2>1 DEF SwitchedBack, Switched
  <2>3. Handed(c)
    BY <2>1, <2>2 DEF CallsInv, IInv, Control, Active
  <2>4. \A d \in Contexts : Current(d) => d = c
    BY <2>1, Values DEF Current
  <2>5. Current(c)'
    BY <1>1, <2>3 DEF SwitchedBack, Handed, Current, amiga
  <2> QED
    BY <1>1, <2>4, <2>5 DEF SwitchedBack, Inside, RegsOf, amiga
<1>2. CASE M68kReturnHandler
  <2>1. \A c \in Contexts : ~Current(c)
    BY <1>2, Values DEF M68kReturnHandler, At, Current
  <2> QED
    BY <1>2, <2>1 DEF M68kReturnHandler, Inside, RegsOf, amiga
<1> QED
  BY <1>1, <1>2

(* Exec switches tasks and interrupts.                                     *)
LEMMA SwitchInside ==
  ASSUME CallsInv, (\E t \in Tasks : Dispatch(t)) \/ (\E s \in Servers : Interrupt(s)) \/ Rte
  PROVE  Inside
<1>1. emu = Cpu /\ regs.pc \in {"code", "m68k_return"}
  <2>1. emu = Cpu /\ (regs.intmask = 0 \/ regs.pc = "code")
    BY DEF Dispatch, Interrupt, Rte, At
  <2> QED
    BY <2>1 DEF CallsInv, IInv, Control, Handed, TypeOK, RegType
<1>2. ASSUME NEW t \in Tasks, Dispatch(t) PROVE Inside
  <2>1. t \in Programs /\ t # running /\ Resume(t, 0)
    BY <1>2 DEF Dispatch, Programs
  <2> QED
    BY <1>1, <2>1, ResumeInside
<1>3. ASSUME NEW s \in Servers, Interrupt(s) PROVE Inside
  <2>1. regs.intmask = 0 /\ running \notin Servers
    BY <1>1, <1>3 DEF Interrupt, CallsInv, IInv, Control, Mask
  <2>2. s \in Programs /\ s # running /\ Resume(s, 2)
    BY <1>3, <2>1 DEF Interrupt, Programs
  <2> QED
    BY <1>1, <2>2, ResumeInside
<1>4. CASE Rte
  <2>1. running \in Servers /\ Resume(interrupted, 0) /\ interrupted \in Tasks
    BY <1>4 DEF Rte, CallsInv, IInv, Saved
  <2>2. interrupted \in Programs /\ interrupted # running
    BY <2>1, TrapsAssumption DEF Programs
  <2> QED
    BY <1>1, <2>1, <2>2, ResumeInside
<1> QED
  BY <1>2, <1>3, <1>4

Calls == \A c \in Contexts : Accounted(c) /\ Unfinished(c)

LEMMA InsideKeeps ==
  ASSUME CallsInv, Inside
  PROVE  Calls'
<1> SUFFICES ASSUME NEW c \in Contexts PROVE Accounted(c)' /\ Unfinished(c)'
  BY DEF Calls
<1>1. Unfinished(c)'
  BY DEF CallsInv, Unfinished, Inside
<1>2. Accounted(c)'
  <2> SUFFICES ASSUME thread'[c] # "none", ~Current(c)'
               PROVE  Lies(c, RegsOf(context[c].task).a7)'
    BY DEF Accounted
  <2>1. thread[c] # "none" /\ ~Current(c) /\ UNCHANGED context
    BY DEF Inside
  <2>2. context[c].task \in Programs /\ Lies(c, RegsOf(context[c].task).a7)
    BY <2>1 DEF CallsInv, IInv, Saved, Accounted
  <2>3. RegsOf(context[c].task).a7' = RegsOf(context[c].task).a7
    BY <2>1, <2>2 DEF Inside
  <2> QED
    BY <2>2, <2>3 DEF Lies
<1> QED
  BY <1>1, <1>2

(* A handler is done.                                                      *)
LEMMA DoneKeeps ==
  ASSUME CallsInv, NEW c \in Contexts, HandlerDone(c)
  PROVE  Calls'
<1>1. /\ context \in [Contexts -> ContextType] /\ thread[c] = "handler"
      /\ \A d \in Contexts : thread'[d] = IF d = c THEN "exit" ELSE thread[d]
      /\ UNCHANGED <<regs, running, tcb, emu, current_context>>
  BY DEF CallsInv, IInv, TypeOK, HandlerDone, Goes, amiga
<1>2. \A d \in Contexts : /\ context'[d].task = context[d].task
                          /\ d # c => context'[d] = context[d]
  BY <1>1 DEF HandlerDone, ContextType
<1> SUFFICES ASSUME NEW d \in Contexts PROVE Accounted(d)' /\ Unfinished(d)'
  BY DEF Calls
<1>3. Unfinished(d)'
  BY <1>1, <1>2 DEF CallsInv, Unfinished, Early
<1>4. Current(d)' <=> Current(d)
  BY <1>1 DEF Current
<1>5. thread'[d] # "none" => thread[d] # "none"
  BY <1>1
<1>6. \A p : RegsOf(p)' = RegsOf(p)
  BY <1>1 DEF RegsOf
<1>7. Accounted(d)'
  <2>1. Lies(d, RegsOf(context[d].task).a7)' <=> Lies(d, RegsOf(context[d].task).a7)
    BY <1>2, <1>6 DEF Lies
  <2> QED
    BY <1>4, <1>5, <2>1 DEF CallsInv, Accounted
<1> QED
  BY <1>3, <1>7

(* A trap is entered.                                                      *)
LEMMA TrapKeeps ==
  ASSUME CallsInv, NEW c \in Contexts, NEW has_retval \in BOOLEAN, HandleExtendedTrap(c, has_retval)
  PROVE  Calls'
<1> DEFINE new == [Free EXCEPT !.task = running, !.saved = regs, !.has_retval = has_retval]
<1>1. /\ \A d \in Contexts : thread'[d] = IF d = c THEN "start" ELSE thread[d]
      /\ context' = [context EXCEPT ![c] = new]
      /\ emu' = Switched(c) /\ emu = Cpu /\ regs.pc = "code"
      /\ UNCHANGED <<regs, running, tcb>>
      /\ context \in [Contexts -> ContextType]
  BY DEF CallsInv, IInv, TypeOK, HandleExtendedTrap, Goes, At, amiga
<1>2. new.trap_retval = None
  BY DEF Free
<1> HIDE DEF new
<1> SUFFICES ASSUME NEW d \in Contexts PROVE Accounted(d)' /\ Unfinished(d)'
  BY DEF Calls
<1>3. CASE d = c
  BY <1>1, <1>2, <1>3 DEF Accounted, Unfinished, Current
<1>4. CASE d # c
  <2>1. thread'[d] = thread[d] /\ context'[d] = context[d] /\ ~Current(d)
    BY <1>1, <1>4, Values DEF Current
  <2>2. \A p : RegsOf(p)' = RegsOf(p)
    BY <1>1 DEF RegsOf
  <2>3. Lies(d, RegsOf(context[d].task).a7)' <=> Lies(d, RegsOf(context[d].task).a7)
    BY <2>1, <2>2 DEF Lies
  <2> QED
    BY <2>1, <2>3 DEF CallsInv, Accounted, Unfinished
<1> QED
  BY <1>3, <1>4

(* m68k_call_handler pushes the trap that is current.                      *)
LEMMA CallKeeps ==
  ASSUME CallsInv, M68kCallHandler
  PROVE  Calls'
<1> DEFINE c == current_context
<1>1. /\ emu = Cpu /\ regs.pc = "m68k_call" /\ regs \in RegType /\ c \in Contexts
      /\ context[c].task = running /\ running \in Programs
      /\ UNCHANGED <<running, tcb, emu, thread, context>>
  BY DEF M68kCallHandler, At, CallsInv, IInv, TypeOK, Control, Handed
<1>2. regs'.a7 = Append(regs.a7, c) /\ regs.a7 \in Seq(Contexts)
  BY <1>1 DEF M68kCallHandler, RegType
<1>3. \A p : RegsOf(p)' = IF p = running THEN regs' ELSE RegsOf(p)
  BY <1>1 DEF RegsOf
<1> SUFFICES ASSUME NEW d \in Contexts, thread[d] # "none"
             PROVE  Lies(d, RegsOf(context[d].task).a7)'
  BY <1>1 DEF CallsInv, Calls, Accounted, Unfinished
<1>4. Len(regs'.a7) = Len(regs.a7) + 1 /\ regs'.a7[Len(regs.a7) + 1] = c
      /\ \A k \in 1 .. Len(regs.a7) : regs'.a7[k] = regs.a7[k]
  BY <1>1, <1>2
<1>5. CASE d = c
  <2>1. Lies(c, regs'.a7)
    BY <1>2, <1>4 DEF Lies
  <2> QED
    BY <1>1, <1>3, <1>5, <2>1 DEF Lies
<1>6. CASE d # c
  <2>1. ~Current(d)
    BY <1>1, <1>6, Values DEF Current
  <2>2. Lies(d, RegsOf(context[d].task).a7)
    BY <2>1 DEF CallsInv, Accounted
  <2>3. CASE context[d].task = running
    <3>1. Lies(d, regs.a7)
      BY <2>2, <2>3 DEF RegsOf
    <3>2. Lies(d, regs'.a7)
      BY <1>2, <1>4, <3>1 DEF Lies
    <3> QED
      BY <1>1, <1>3, <2>3, <3>2 DEF Lies
  <2>4. CASE context[d].task # running
    BY <1>1, <1>3, <2>2, <2>4 DEF Lies
  <2> QED
    BY <2>3, <2>4
<1> QED
  BY <1>5, <1>6

(* m68k_return_handler takes the last trap of the stack off it.            *)
LEMMA ReturnKeeps ==
  ASSUME CallsInv, M68kReturns
  PROVE  Calls'
<1> DEFINE c == Last(regs.a7)
           n == Len(regs.a7)
<1>1. /\ emu = Returning /\ regs \in RegType /\ regs.a7 \in Seq(Contexts) /\ regs.a7 # <<>>
      /\ UNCHANGED <<running, tcb, thread>> /\ running \in Programs
      /\ context \in [Contexts -> ContextType]
  BY DEF M68kReturns, CallsInv, IInv, TypeOK, Control, RegType
<1>2. n \in Nat /\ n >= 1 /\ c = regs.a7[n] /\ c \in Contexts
  BY <1>1 DEF Last
<1>3. /\ context' = [context EXCEPT ![c].call68k_retval = regs.d0] /\ emu' = Switched(c)
      /\ regs'.a7 = Front(regs.a7)
  BY <1>1 DEF M68kReturns, RegType
<1>4. \A d \in Contexts : context'[d].task = context[d].task
                         /\ context'[d].trap_retval = context[d].trap_retval
  BY <1>1, <1>2, <1>3 DEF ContextType
<1>5. Len(regs'.a7) = n - 1 /\ \A k \in 1 .. n - 1 : regs'.a7[k] = regs.a7[k]
  BY <1>1, <1>2, <1>3 DEF Front
<1>6. \A p : RegsOf(p)' = IF p = running THEN regs' ELSE RegsOf(p)
  BY <1>1 DEF RegsOf
<1> HIDE DEF c, n
<1> SUFFICES ASSUME NEW d \in Contexts PROVE Accounted(d)' /\ Unfinished(d)'
  BY DEF Calls
<1>7. Unfinished(d)'
  BY <1>1, <1>4 DEF CallsInv, Unfinished
<1>8. CASE d = c
  BY <1>3, <1>7, <1>8 DEF Accounted, Current
<1>9. CASE d # c /\ thread[d] # "none"
  <2>1. ~Current(d)
    BY <1>1, Values DEF Current
  <2>2. Lies(d, RegsOf(context[d].task).a7)
    BY <1>9, <2>1 DEF CallsInv, Accounted
  <2>3. CASE context[d].task = running
    <3>1. PICK k \in 1 .. n : regs.a7[k] = d
      BY <2>2, <2>3 DEF RegsOf, Lies, n
    <3>2. k \in 1 .. n - 1
      BY <1>2, <1>9, <3>1
    <3>3. Lies(d, regs'.a7)
      BY <1>5, <3>1, <3>2 DEF Lies
    <3> QED
      BY <1>4, <1>6, <1>7, <2>3, <3>3 DEF Accounted, Lies
  <2>4. CASE context[d].task # running
    BY <1>4, <1>6, <1>7, <2>2, <2>4 DEF Accounted, Lies
  <2> QED
    BY <2>3, <2>4
<1>10. CASE thread[d] = "none"
  BY <1>1, <1>7, <1>10 DEF Accounted
<1> QED
  BY <1>7, <1>8, <1>9, <1>10

(* A trap returns.                                                         *)
LEMMA ExitKeeps ==
  ASSUME CallsInv, ExitTrapHandler
  PROVE  Calls'
<1> DEFINE c == current_context
<1>1. /\ emu = Cpu /\ regs.pc = "exit_trap" /\ c \in Contexts /\ running \in Programs
      /\ context[c].saved.a7 = regs.a7 /\ context[c].saved \in RegType
      /\ UNCHANGED <<running, tcb, emu>>
      /\ \A d \in Contexts : thread'[d] = IF d = c THEN "none" ELSE thread[d]
      /\ context \in [Contexts -> ContextType]
  BY DEF ExitTrapHandler, At, CallsInv, IInv, TypeOK, Control, Handed, ContextType
<1>2. /\ context' = [context EXCEPT ![c] = Free]
      /\ regs'.a7 = regs.a7
  BY <1>1 DEF ExitTrapHandler, RegType
<1>3. \A p : RegsOf(p).a7' = RegsOf(p).a7
  BY <1>1, <1>2 DEF RegsOf
<1> HIDE DEF c
<1> SUFFICES ASSUME NEW d \in Contexts PROVE Accounted(d)' /\ Unfinished(d)'
  BY DEF Calls
<1>4. CASE d = c
  BY <1>1, <1>2, <1>4 DEF Accounted, Unfinished, Early
<1>5. CASE d # c
  <2>1. thread'[d] = thread[d] /\ context'[d] = context[d] /\ ~Current(d)
    BY <1>1, <1>2, <1>5, Values DEF Current, c
  <2>2. Lies(d, RegsOf(context[d].task).a7)' <=> Lies(d, RegsOf(context[d].task).a7)
    BY <1>3, <2>1 DEF Lies
  <2> QED
    BY <2>1, <2>2 DEF CallsInv, Accounted, Unfinished
<1> QED
  BY <1>4, <1>5

(* A called function has its result.                                       *)
LEMMA RtsKeepsCalls ==
  ASSUME CallsInv, NEW v \in Vals, Rts(v)
  PROVE  Calls' /\ \A p \in Programs : RegsOf(p).a7' = RegsOf(p).a7
<1>1. /\ emu = Cpu /\ regs.pc = "code" /\ regs \in RegType
      /\ UNCHANGED <<running, tcb, thread, context>>
  BY DEF Rts, At, CallsInv, IInv, TypeOK
<1>2. regs'.a7 = regs.a7
  BY <1>1 DEF Rts, RegType
<1>3. \A p : RegsOf(p).a7' = RegsOf(p).a7
  BY <1>1, <1>2 DEF RegsOf
<1>4. \A c \in Contexts : ~Current(c)
  BY <1>1, Values DEF Current
<1>5. ASSUME NEW d \in Contexts PROVE Accounted(d)' /\ Unfinished(d)'
  <2>1. Lies(d, RegsOf(context[d].task).a7)' <=> Lies(d, RegsOf(context[d].task).a7)
    BY <1>1, <1>3 DEF Lies
  <2> QED
    BY <1>1, <1>4, <2>1 DEF CallsInv, Accounted, Unfinished
<1> QED
  BY <1>3, <1>5 DEF Calls

(* The variables of the abstract specification.                            *)
Frames    == [p \in Programs |-> CallFrames(p)]
Handlings == [p \in Programs |-> HandlerOf(p) # {}]
D0s       == [p \in Programs |-> IF HandlerOf(p) # {} THEN None ELSE RegsOf(p).d0]
CallOf(c) == [d0         |-> IF thread[c] = "none" THEN None ELSE context[c].saved.d0,
              has_retval |-> context[c].has_retval,
              got        |-> context[c].call68k_retval,
              result     |-> context[c].trap_retval]
CallsNow  == [c \in Contexts |-> CallOf(c)]

(* Steps that neither call nor return are not seen.                        *)
LEMMA InsideUnseen ==
  ASSUME Inside
  PROVE  UNCHANGED Procedures!vars
<1>1. ASSUME NEW p \in Programs
      PROVE  HandlerOf(p)' = HandlerOf(p) /\ RegsOf(p).a7' = RegsOf(p).a7
             /\ (RegsOf(p).d0' = RegsOf(p).d0 \/ HandlerOf(p) # {})
  <2>1. /\ RegsOf(p).a7' = RegsOf(p).a7 /\ UNCHANGED context
        /\ RegsOf(p).d0' = RegsOf(p).d0 \/ HandlerOf(p) # {}
        /\ \A c \in Contexts : thread'[c] = "none" <=> thread[c] = "none"
    BY DEF Inside
  <2>2. ToSet(RegsOf(p).a7)' = ToSet(RegsOf(p).a7)
    BY <2>1 DEF ToSet
  <2> QED
    BY <2>1, <2>2 DEF HandlerOf
<1>2. ASSUME NEW p \in Programs
      PROVE  CallFrames(p)' = CallFrames(p)
  BY <1>1 DEF CallFrames
<1>3. UNCHANGED <<Frames, Handlings, D0s>>
  BY <1>1, <1>2 DEF Frames, Handlings, D0s
<1>4. UNCHANGED CallsNow
  BY DEF Inside, CallsNow, CallOf
<1> QED
  BY <1>3, <1>4 DEF Procedures!vars, Frames, Handlings, D0s, CallsNow, CallOf

(* What is seen of the program that runs; of the others nothing changes.   *)
LEMMA OthersStay ==
  ASSUME View, View', UNCHANGED <<running, tcb>>, NEW p \in Programs, p # running
  PROVE  /\ HandlerOf(p) = {} /\ HandlerOf(p)' = {} /\ CallFrames(p)' = CallFrames(p)
         /\ RegsOf(p)' = RegsOf(p)
<1>1. Plain(p) /\ Plain(p)'
  BY DEF View
<1>2. RegsOf(p)' = RegsOf(p)
  BY DEF RegsOf
<1> QED
  BY <1>1, <1>2 DEF Plain

LEMMA HandlesNow ==
  ASSUME View, View', UNCHANGED <<running, tcb>>, NEW c \in Contexts, Current(c)'
  PROVE  /\ Frames' = [Frames EXCEPT ![running] = Append(regs'.a7, c)]
         /\ Handlings' = [Handlings EXCEPT ![running] = TRUE]
         /\ D0s' = [D0s EXCEPT ![running] = None]
<1>1. Handling(c)'
  BY DEF View
<1>2. /\ running \in Programs /\ HandlerOf(running)' = {c}
      /\ CallFrames(running)' = Append(regs'.a7, c)
  BY <1>1 DEF Handling
<1>3. \A p \in Programs : p # running =>
        /\ HandlerOf(p) = {} /\ HandlerOf(p)' = {} /\ CallFrames(p)' = CallFrames(p)
        /\ RegsOf(p)' = RegsOf(p)
  BY OthersStay
<1> QED
  BY <1>2, <1>3 DEF Frames, Handlings, D0s

LEMMA RunsNow ==
  ASSUME View, View', UNCHANGED <<running, tcb>>, running \in Programs,
         \A c \in Contexts : ~Current(c)'
  PROVE  /\ Frames' = [Frames EXCEPT ![running] = regs'.a7]
         /\ Handlings' = [Handlings EXCEPT ![running] = FALSE]
         /\ D0s' = [D0s EXCEPT ![running] = regs'.d0]
<1>1. Plain(running)'
  BY DEF View
<1>2. RegsOf(running)' = regs'
  BY DEF RegsOf
<1>3. HandlerOf(running)' = {} /\ CallFrames(running)' = regs'.a7
  BY <1>1, <1>2 DEF Plain
<1>4. \A p \in Programs : p # running =>
        /\ HandlerOf(p) = {} /\ HandlerOf(p)' = {} /\ CallFrames(p)' = CallFrames(p)
        /\ RegsOf(p)' = RegsOf(p)
  BY OthersStay
<1> QED
  BY <1>2, <1>3, <1>4 DEF Frames, Handlings, D0s

(* Before a step: a handler has control, or code of the program.           *)
LEMMA HandledBefore ==
  ASSUME CallsInv, View, NEW c \in Contexts, Current(c)
  PROVE  /\ running \in Programs /\ regs.a7 \in Seq(Contexts)
         /\ Frames[running] = Append(regs.a7, c) /\ Last(Frames[running]) = c
         /\ Front(Frames[running]) = regs.a7
         /\ Handlings[running] = TRUE /\ D0s[running] = None
<1>1. Handling(c) /\ regs.a7 \in Seq(Contexts)
  BY DEF View, CallsInv, IInv, TypeOK, RegType
<1>2. running \in Programs /\ HandlerOf(running) = {c} /\ CallFrames(running) = Append(regs.a7, c)
  BY <1>1 DEF Handling
<1>3. Last(Append(regs.a7, c)) = c /\ Front(Append(regs.a7, c)) = regs.a7
  BY <1>1 DEF Last, Front
<1> QED
  BY <1>1, <1>2, <1>3 DEF Frames, Handlings, D0s

LEMMA CodeBefore ==
  ASSUME CallsInv, View, \A c \in Contexts : ~Current(c)
  PROVE  /\ running \in Programs /\ regs.a7 \in Seq(Contexts) /\ Frames[running] = regs.a7
         /\ Handlings[running] = FALSE /\ D0s[running] = regs.d0
<1>1. running \in Programs /\ regs.a7 \in Seq(Contexts)
  BY DEF CallsInv, IInv, TypeOK, RegType
<1>2. Plain(running) /\ RegsOf(running) = regs
  BY <1>1 DEF View, RegsOf
<1> QED
  BY <1>1, <1>2 DEF Plain, Frames, Handlings, D0s

LEMMA SameSequences ==
  \A s : Procedures!Last(s) = Last(s) /\ Procedures!Front(s) = Front(s)
         /\ Procedures!ToSet(s) = ToSet(s)
<1> QED
  BY DEF Procedures!Last, Last, Procedures!Front, Front, Procedures!ToSet, ToSet

(* A call that has just been made.                                         *)
LEMMA NewCall ==
  ASSUME NEW x, NEW r \in BOOLEAN
  PROVE  [Procedures!Unused EXCEPT !.d0 = x, !.has_retval = r]
           = [d0 |-> x, has_retval |-> r, got |-> None, result |-> None]
<1>1. PICK y : y = [Procedures!Unused EXCEPT !.d0 = x, !.has_retval = r]
  OBVIOUS
<1>2. y \in [d0 : {x}, has_retval : {r}, got : {None}, result : {None}]
  BY <1>1 DEF Procedures!Unused
<1>3. y = [d0 |-> x, has_retval |-> r, got |-> None, result |-> None]
  BY <1>2
<1> QED
  BY <1>1, <1>3

LEMMA NewContext ==
  ASSUME NEW t, NEW s, NEW r \in BOOLEAN
  PROVE  [Free EXCEPT !.task = t, !.saved = s, !.has_retval = r]
           = [task |-> t, saved |-> s, has_retval |-> r,
              call68k_retval |-> None, trap_retval |-> None]
<1>1. PICK y : y = [Free EXCEPT !.task = t, !.saved = s, !.has_retval = r]
  OBVIOUS
<1>2. y \in [task : {t}, saved : {s}, has_retval : {r},
             call68k_retval : {None}, trap_retval : {None}]
  BY <1>1 DEF Free
<1>3. y = [task |-> t, saved |-> s, has_retval |-> r,
           call68k_retval |-> None, trap_retval |-> None]
  BY <1>2
<1> QED
  BY <1>1, <1>3

(* The steps that are seen: a trap, ...                                    *)
LEMMA TrapIs ==
  ASSUME CallsInv, View, View', NEW c \in Contexts, NEW has_retval \in BOOLEAN,
         HandleExtendedTrap(c, has_retval)
  PROVE  Procedures!Trap(running, c, has_retval)
<1> DEFINE new == [Free EXCEPT !.task = running, !.saved = regs, !.has_retval = has_retval]
           entry == [Procedures!Unused EXCEPT !.d0 = D0s[running], !.has_retval = has_retval]
<1>1. /\ emu = Cpu /\ regs.pc = "code" /\ thread[c] = "none"
      /\ \A d \in Contexts : thread'[d] = IF d = c THEN "start" ELSE thread[d]
      /\ context' = [context EXCEPT ![c] = new]
      /\ emu' = Switched(c)
      /\ UNCHANGED <<regs, running, tcb>>
      /\ context \in [Contexts -> ContextType]
  BY DEF CallsInv, IInv, TypeOK, HandleExtendedTrap, Goes, At, amiga
<1>2. \A d \in Contexts : ~Current(d)
  BY <1>1, Values DEF Current
<1>3. /\ running \in Programs /\ regs.a7 \in Seq(Contexts) /\ Frames[running] = regs.a7
      /\ Handlings[running] = FALSE /\ D0s[running] = regs.d0
  BY <1>2, CodeBefore
<1>4. /\ Frames' = [Frames EXCEPT ![running] = Append(regs'.a7, c)]
      /\ Handlings' = [Handlings EXCEPT ![running] = TRUE]
      /\ D0s' = [D0s EXCEPT ![running] = None]
  <2>1. Current(c)'
    BY <1>1 DEF Current
  <2> QED
    BY <1>1, <2>1, HandlesNow
<1>5. \A q \in Programs : c \notin Procedures!ToSet(Frames[q])
  <2> SUFFICES ASSUME NEW q \in Programs, c \in ToSet(Frames[q]) PROVE FALSE
    BY SameSequences
  <2>1. Frames[q] = RegsOf(q).a7
    BY <1>2 DEF View, Plain, Frames
  <2>2. RegsOf(q).a7 \in Seq(Contexts)
    BY DEF CallsInv, IInv, TypeOK, RegsOf, RegType
  <2>3. PICK k \in 1 .. Len(RegsOf(q).a7) : RegsOf(q).a7[k] = c
    BY <2>1, <2>2 DEF ToSet
  <2>4. thread[c] = "called"
    BY <2>3 DEF CallsInv, IInv, Stacks, OnStack
  <2> QED
    BY <1>1, <2>4
<1>6. CallsNow' = [CallsNow EXCEPT ![c] = entry]
  <2>1. new = [task |-> running, saved |-> regs, has_retval |-> has_retval,
               call68k_retval |-> None, trap_retval |-> None]
    BY NewContext
  <2>2. entry = [d0 |-> regs.d0, has_retval |-> has_retval, got |-> None, result |-> None]
    BY <1>3, NewCall
  <2> HIDE DEF new, entry
  <2>3. CallOf(c)' = entry
    BY <1>1, <2>1, <2>2 DEF CallOf
  <2>4. \A d \in Contexts : d # c => CallOf(d)' = CallOf(d)
    BY <1>1 DEF CallOf
  <2> QED
    BY <2>3, <2>4 DEF CallsNow
<1>7. Frames' = [Frames EXCEPT ![running] = Append(@, c)]
  BY <1>1, <1>3, <1>4
<1>8. ~Handlings[running]
  BY <1>3
<1> QED
  BY <1>4, <1>5, <1>6, <1>7, <1>8
  DEF Procedures!Trap, Frames, Handlings, D0s, CallsNow, CallOf

(* ... a 68k call, ...                                                     *)
LEMMA CallIs ==
  ASSUME CallsInv, View, View', M68kCallHandler
  PROVE  Procedures!Call68k(running, regs.d0)
<1>0. PICK c \in Contexts : current_context = c
  BY DEF M68kCallHandler, At, CallsInv, IInv, Control
<1>1. /\ emu = Cpu /\ regs.pc = "m68k_call" /\ regs \in RegType
      /\ thread[c] = "called"
      /\ UNCHANGED <<running, tcb, emu, thread, context>>
  BY <1>0 DEF M68kCallHandler, At, CallsInv, IInv, TypeOK, Control, Handed
<1>2. regs'.a7 = Append(regs.a7, c) /\ regs'.pc = "code" /\ regs'.d0 = regs.d0
  BY <1>0, <1>1 DEF M68kCallHandler, RegType
<1>3. Current(c)
  BY <1>0, <1>1 DEF Current
<1>4. /\ running \in Programs /\ Frames[running] = Append(regs.a7, c) /\ Last(Frames[running]) = c
      /\ Handlings[running] = TRUE
  BY <1>1, <1>3, HandledBefore
<1>5. /\ Frames' = [Frames EXCEPT ![running] = regs'.a7]
      /\ Handlings' = [Handlings EXCEPT ![running] = FALSE]
      /\ D0s' = [D0s EXCEPT ![running] = regs.d0]
  <2>1. \A d \in Contexts : ~Current(d)'
    BY <1>1, <1>2, Values DEF Current
  <2> QED
    BY <1>1, <1>2, <1>4, <2>1, RunsNow
<1>6. Frames' = Frames
  BY <1>2, <1>4, <1>5 DEF Frames
<1>7. CallsNow' = CallsNow
  BY <1>1 DEF CallsNow, CallOf
<1>8. Handlings[running] /\ CallsNow[Procedures!Last(Frames[running])].result = None
  BY <1>1, <1>4, SameSequences DEF CallsNow, CallOf, CallsInv, Unfinished, Early
<1> QED
  BY <1>5, <1>6, <1>7, <1>8
  DEF Procedures!Call68k, Procedures!Latest, Frames, Handlings, D0s, CallsNow, CallOf

(* ... its return, ...                                                     *)
LEMMA ReturnIs ==
  ASSUME CallsInv, View, View', M68kReturns
  PROVE  Procedures!Return68k(running)
<1>1. /\ emu = Returning /\ regs \in RegType /\ regs.a7 \in Seq(Contexts) /\ regs.a7 # <<>>
      /\ UNCHANGED <<running, tcb, thread>>
      /\ context \in [Contexts -> ContextType]
  BY DEF M68kReturns, CallsInv, IInv, TypeOK, Control, RegType
<1>2. PICK c \in Contexts : c = Last(regs.a7)
  BY <1>1 DEF Last
<1>3. /\ context' = [context EXCEPT ![c].call68k_retval = regs.d0] /\ emu' = Switched(c)
      /\ regs'.a7 = Front(regs.a7)
  BY <1>1, <1>2 DEF M68kReturns, RegType
<1>4. regs.a7 = Append(Front(regs.a7), c)
  BY <1>1, <1>2 DEF Front, Last
<1>5. \A d \in Contexts : ~Current(d)
  BY <1>1, Values DEF Current
<1>6. /\ running \in Programs /\ Frames[running] = regs.a7 /\ Last(Frames[running]) = c
      /\ Handlings[running] = FALSE /\ D0s[running] = regs.d0
  BY <1>2, <1>5, CodeBefore
<1>7. /\ Frames' = [Frames EXCEPT ![running] = Append(regs'.a7, c)]
      /\ Handlings' = [Handlings EXCEPT ![running] = TRUE]
      /\ D0s' = [D0s EXCEPT ![running] = None]
  <2>1. Current(c)'
    BY <1>3 DEF Current
  <2> QED
    BY <1>1, <1>2, <2>1, HandlesNow
<1>8. Frames' = Frames
  BY <1>3, <1>4, <1>6, <1>7 DEF Frames
<1>9. CallsNow' = [CallsNow EXCEPT ![Procedures!Last(Frames[running])].got = D0s[running]]
  <2>1. CallOf(c)' = [CallOf(c) EXCEPT !.got = regs.d0]
    <3>1. /\ context'[c].has_retval = context[c].has_retval
          /\ context'[c].call68k_retval = regs.d0
          /\ context'[c].trap_retval = context[c].trap_retval
          /\ context'[c].saved = context[c].saved
      BY <1>1, <1>3 DEF ContextType
    <3> QED
      BY <1>1, <3>1 DEF CallOf
  <2>2. \A d \in Contexts : d # c => CallOf(d)' = CallOf(d)
    BY <1>1, <1>3 DEF CallOf
  <2>3. CallsNow[c] = CallOf(c)
    BY DEF CallsNow
  <2>4. CallsNow' = [CallsNow EXCEPT ![c] = CallOf(c)']
    BY <2>2 DEF CallsNow
  <2>5. CallsNow' = [CallsNow EXCEPT ![c] = [CallsNow[c] EXCEPT !.got = regs.d0]]
    BY <2>1, <2>3, <2>4
  <2> QED
    BY <1>6, <2>5, SameSequences
<1>10. ~Handlings[running] /\ Frames[running] # <<>>
  BY <1>1, <1>6
<1> QED
  BY <1>6, <1>7, <1>8, <1>9, <1>10
  DEF Procedures!Return68k, Procedures!Latest, Frames, Handlings, D0s, CallsNow, CallOf

(* ... the end of a handler, ...                                           *)
LEMMA DoneIs ==
  ASSUME CallsInv, View, View', NEW c \in Contexts, HandlerDone(c)
  PROVE  \E v \in Vals : Procedures!HandlerDone(running, v)
<1>1. PICK v \in Vals : context' = [context EXCEPT ![c].trap_retval = v]
  BY DEF HandlerDone
<1>2. /\ thread[c] = "handler" /\ context \in [Contexts -> ContextType]
      /\ \A d \in Contexts : thread'[d] = IF d = c THEN "exit" ELSE thread[d]
      /\ UNCHANGED <<regs, running, tcb, emu>>
  BY DEF CallsInv, IInv, TypeOK, HandlerDone, Goes, amiga
<1>3. emu = Switched(c) /\ Current(c) /\ Current(c)'
  <2>1. emu = Switched(c)
    BY <1>2 DEF CallsInv, IInv, Control, Quiet
  <2> QED
    BY <1>2, <2>1 DEF Current
<1>4. /\ running \in Programs /\ Frames[running] = Append(regs.a7, c) /\ Last(Frames[running]) = c
      /\ Handlings[running] = TRUE /\ D0s[running] = None
  BY <1>3, HandledBefore
<1>5. /\ Frames' = [Frames EXCEPT ![running] = Append(regs'.a7, c)]
      /\ Handlings' = [Handlings EXCEPT ![running] = TRUE]
      /\ D0s' = [D0s EXCEPT ![running] = None]
  BY <1>2, <1>3, HandlesNow
<1>6. Frames' = Frames /\ Handlings' = Handlings /\ D0s' = D0s
  BY <1>2, <1>4, <1>5 DEF Frames, Handlings, D0s
<1>7. CallsNow[c] = CallOf(c) /\ CallOf(c).result = None
  BY <1>2 DEF CallsNow, CallOf, CallsInv, Unfinished, Early
<1>8. CallsNow' = [CallsNow EXCEPT ![Procedures!Last(Frames[running])].result = v]
  <2>1. /\ context'[c].has_retval = context[c].has_retval
        /\ context'[c].call68k_retval = context[c].call68k_retval
        /\ context'[c].trap_retval = v
        /\ context'[c].saved = context[c].saved
    BY <1>1, <1>2 DEF ContextType
  <2>2. CallOf(c)' = [CallOf(c) EXCEPT !.result = v]
    BY <1>2, <2>1 DEF CallOf
  <2>3. \A d \in Contexts : d # c => CallOf(d)' = CallOf(d)
    BY <1>1, <1>2 DEF CallOf
  <2>4. CallsNow' = [CallsNow EXCEPT ![c] = CallOf(c)']
    BY <2>3 DEF CallsNow
  <2>5. CallsNow' = [CallsNow EXCEPT ![c] = [CallsNow[c] EXCEPT !.result = v]]
    BY <1>7, <2>2, <2>4
  <2> QED
    BY <1>4, <2>5, SameSequences
<1>9. Handlings[running] /\ CallsNow[Procedures!Last(Frames[running])].result = None
  BY <1>4, <1>7, SameSequences
<1>10. Procedures!HandlerDone(running, v)
  BY <1>6, <1>8, <1>9
  DEF Procedures!HandlerDone, Procedures!Latest, Frames, Handlings, D0s, CallsNow, CallOf
<1> QED
  BY <1>1, <1>10

(* ... the return of the trap, ...                                         *)
LEMMA ExitIs ==
  ASSUME CallsInv, View, View', ExitTrapHandler
  PROVE  Procedures!Exit(running)
<1>0. PICK c \in Contexts : current_context = c
  BY DEF ExitTrapHandler, At, CallsInv, IInv, Control
<1>1. /\ emu = Cpu /\ regs.pc = "exit_trap" /\ running \in Programs
      /\ context[c].saved.a7 = regs.a7 /\ context[c].saved \in RegType
      /\ context[c].saved.pc = "code"
      /\ context[c].trap_retval \in Vals
      /\ thread[c] = "ended"
      /\ UNCHANGED <<running, tcb, emu, current_context>>
      /\ \A d \in Contexts : thread'[d] = IF d = c THEN "none" ELSE thread[d]
      /\ context \in [Contexts -> ContextType]
  BY <1>0 DEF ExitTrapHandler, At, CallsInv, IInv, TypeOK, Control, Handed, Saved, ContextType
<1>2. /\ context' = [context EXCEPT ![c] = Free]
      /\ regs'.a7 = regs.a7 /\ regs'.pc = "code"
      /\ regs'.d0 = IF context[c].has_retval THEN context[c].trap_retval
                                              ELSE context[c].saved.d0
  BY <1>0, <1>1 DEF ExitTrapHandler, RegType
<1>3. Current(c)
  BY <1>0, <1>1 DEF Current
<1>4. /\ Frames[running] = Append(regs.a7, c) /\ Last(Frames[running]) = c
      /\ Front(Frames[running]) = regs.a7
      /\ Handlings[running] = TRUE
  BY <1>3, HandledBefore
<1>5. /\ Frames' = [Frames EXCEPT ![running] = regs'.a7]
      /\ Handlings' = [Handlings EXCEPT ![running] = FALSE]
      /\ D0s' = [D0s EXCEPT ![running] = regs'.d0]
  <2>1. \A d \in Contexts : ~Current(d)'
    BY <1>1, <1>2, Values DEF Current
  <2> QED
    BY <1>1, <2>1, RunsNow
<1>6. Frames' = [Frames EXCEPT ![running] = Procedures!Front(Frames[running])]
  BY <1>2, <1>4, <1>5, SameSequences
<1>7. /\ CallsNow[c] = CallOf(c) /\ CallOf(c).result = context[c].trap_retval
      /\ CallOf(c).d0 = context[c].saved.d0
      /\ CallOf(c).has_retval = context[c].has_retval
  BY <1>1 DEF CallsNow, CallOf
<1>8. CallsNow' = [CallsNow EXCEPT ![Procedures!Last(Frames[running])] = Procedures!Unused]
  <2>1. CallOf(c)' = Procedures!Unused
    BY <1>1, <1>2 DEF CallOf, Free, Procedures!Unused
  <2>2. \A d \in Contexts : d # c => CallOf(d)' = CallOf(d)
    BY <1>1, <1>2 DEF CallOf
  <2>3. CallsNow' = [CallsNow EXCEPT ![c] = CallOf(c)']
    BY <2>2 DEF CallsNow
  <2> QED
    BY <1>4, <2>1, <2>3, SameSequences
<1>9. /\ Handlings[running] /\ CallsNow[Procedures!Last(Frames[running])].result # None
      /\ D0s' = [D0s EXCEPT ![running] =
                   IF CallsNow[Procedures!Last(Frames[running])].has_retval
                   THEN CallsNow[Procedures!Last(Frames[running])].result
                   ELSE CallsNow[Procedures!Last(Frames[running])].d0]
  <2>1. Procedures!Last(Frames[running]) = c
    BY <1>4, SameSequences
  <2> QED
    BY <1>1, <1>2, <1>4, <1>5, <1>7, <2>1, TrapsAssumption
<1> QED
  BY <1>5, <1>6, <1>8, <1>9
  DEF Procedures!Exit, Procedures!Latest, Frames, Handlings, D0s, CallsNow, CallOf

(* ... and the result of a called function, or of any code before it.      *)
LEMMA RtsIs ==
  ASSUME CallsInv, View, View', NEW v \in Vals, Rts(v)
  PROVE  Procedures!Compute(running, v)
<1>1. /\ emu = Cpu /\ regs.pc = "code" /\ regs \in RegType
      /\ UNCHANGED <<running, tcb, emu, thread, context>>
  BY DEF Rts, At, CallsInv, IInv, TypeOK
<1>2. regs'.a7 = regs.a7 /\ regs'.d0 = v /\ regs'.pc = "m68k_return"
  BY <1>1 DEF Rts, RegType
<1>3. /\ running \in Programs /\ Frames[running] = regs.a7
      /\ Handlings[running] = FALSE
  <2>1. \A c \in Contexts : ~Current(c)
    BY <1>1, Values DEF Current
  <2> QED
    BY <2>1, CodeBefore
<1>4. /\ Frames' = [Frames EXCEPT ![running] = regs'.a7]
      /\ Handlings' = [Handlings EXCEPT ![running] = FALSE]
      /\ D0s' = [D0s EXCEPT ![running] = v]
  <2>1. \A d \in Contexts : ~Current(d)'
    BY <1>1, <1>2, Values DEF Current
  <2> QED
    BY <1>1, <1>2, <1>3, <2>1, RunsNow
<1>5. Frames' = Frames /\ Handlings' = Handlings
  BY <1>2, <1>3, <1>4 DEF Frames, Handlings
<1>6. CallsNow' = CallsNow
  BY <1>1 DEF CallsNow, CallOf
<1>7. ~Handlings[running]
  BY <1>3
<1> QED
  BY <1>4, <1>5, <1>6, <1>7
  DEF Procedures!Compute, Frames, Handlings, D0s, CallsNow, CallOf

LEMMA CallsNext == ~MayReset /\ CallsInv /\ View /\ [Next]_vars => CallsInv'
<1> SUFFICES ASSUME ~MayReset, CallsInv, View, [Next]_vars PROVE Calls'
  <2>1. CallsInv => IInv
    BY DEF CallsInv
  <2> QED
    BY <2>1, NextKeeps DEF CallsInv, Calls
<1>2. ASSUME NEW c \in Contexts, TrapThread(c) \/ Handles(c) PROVE Calls'
  BY <1>2, ThreadInside, InsideKeeps, DoneKeeps DEF Handles
<1>3. ASSUME NEW c \in Contexts, NEW has_retval \in BOOLEAN, HandleExtendedTrap(c, has_retval)
      PROVE  Calls'
  BY <1>3, TrapKeeps
<1>4. CASE EmulationThread
  <2>1. CASE SwitchedBack \/ M68kReturnHandler
    <3>1. Inside
      BY <2>1, EmulationInside
    <3> QED
      BY <3>1, InsideKeeps
  <2>2. CASE M68kCallHandler
    BY <2>2, CallKeeps
  <2>3. CASE M68kReturns
    BY <2>3, ReturnKeeps
  <2>4. CASE ExitTrapHandler
    BY <2>4, ExitKeeps
  <2> QED
    BY <1>4, <2>1, <2>2, <2>3, <2>4 DEF EmulationThread
<1>5. ASSUME NEW v \in Vals, Rts(v) PROVE Calls'
  BY <1>5, RtsKeepsCalls
<1>6. CASE (\E t \in Tasks : Dispatch(t)) \/ (\E s \in Servers : Interrupt(s)) \/ Rte
  <2>1. Inside
    BY <1>6, SwitchInside
  <2> QED
    BY <2>1, InsideKeeps
<1>7. ~Reset
  BY DEF Reset
<1>8. CASE UNCHANGED vars
  <2>1. Inside
    BY <1>8 DEF vars, amiga, Inside, Current, RegsOf
  <2> QED
    BY <2>1, InsideKeeps
<1> QED
  BY <1>2, <1>3, <1>4, <1>5, <1>6, <1>7, <1>8 DEF Next

LEMMA CallsInit == Init => CallsInv
<1>1. Init => IInv
  BY InitHolds
<1>2. Init => \A c \in Contexts : thread[c] = "none"
  BY DEF Init
<1> QED
  BY <1>1, <1>2 DEF CallsInv, Accounted, Unfinished, Early

LEMMA ProceduresInit == Init => Procedures!Init
<1> SUFFICES ASSUME Init PROVE Procedures!Init
  OBVIOUS
<1>1. CallsInv /\ View
  BY CallsInit, ViewHolds
<1>2. /\ running \in Programs /\ regs = Regs /\ tcb = [p \in Programs |-> Regs]
      /\ \A c \in Contexts : thread[c] = "none" /\ context[c] = Free
      /\ emu = Cpu
  BY <1>1 DEF Init, CallsInv, IInv, TypeOK
<1>3. Regs.a7 = <<>> /\ Regs.pc = "code" /\ Regs.d0 \in Vals
  BY <1>1, <1>2 DEF Regs, CallsInv, IInv, TypeOK, RegType
<1>4. \A p \in Programs : RegsOf(p) = Regs /\ HandlerOf(p) = {} /\ CallFrames(p) = <<>>
  <2>1. \A c \in Contexts : ~Current(c)
    BY <1>2, <1>3, Values DEF Current
  <2>2. \A p \in Programs : RegsOf(p) = Regs
    BY <1>2 DEF RegsOf
  <2> QED
    BY <1>1, <1>3, <2>1, <2>2 DEF View, Plain
<1>5. /\ Frames = [p \in Programs |-> <<>>]
      /\ Handlings = [p \in Programs |-> FALSE]
      /\ D0s \in [Programs -> Vals]
  BY <1>3, <1>4 DEF Frames, Handlings, D0s
<1>6. CallsNow = [c \in Contexts |-> Procedures!Unused]
  <2>1. ASSUME NEW c \in Contexts PROVE CallOf(c) = Procedures!Unused
    <3>1. /\ context[c].has_retval = FALSE /\ context[c].call68k_retval = None
          /\ context[c].trap_retval = None /\ thread[c] = "none"
      BY <1>2 DEF Free
    <3> QED
      BY <3>1, Zenon DEF CallOf, Procedures!Unused
  <2> QED
    BY <2>1 DEF CallsNow
<1> QED
  BY <1>5, <1>6 DEF Procedures!Init, Frames, Handlings, D0s, CallsNow, CallOf

LEMMA SomeProgram ==
  ASSUME NEW p \in Programs, Procedures!Return68k(p) \/ Procedures!Exit(p)
  PROVE  Procedures!Next
<1> QED
  BY DEF Procedures!Next

LEMMA ProceduresNext ==
  ~MayReset /\ CallsInv /\ View /\ View' /\ [Next]_vars => [Procedures!Next]_(Procedures!vars)
<1> SUFFICES ASSUME ~MayReset, CallsInv, View, View', [Next]_vars
             PROVE  Procedures!Next \/ UNCHANGED Procedures!vars
  OBVIOUS
<1>0. running \in Programs /\ regs.d0 \in Vals
  BY DEF CallsInv, IInv, TypeOK, RegType
<1>1. ASSUME NEW c \in Contexts, TrapThread(c) \/ Handles(c)
      PROVE  Procedures!Next \/ UNCHANGED Procedures!vars
  <2>1. CASE TrapThread(c) \/ HandlerCalls(c)
    BY <2>1, ThreadInside, InsideUnseen
  <2>2. CASE HandlerDone(c)
    <3>1. \E v \in Vals : Procedures!HandlerDone(running, v)
      BY <2>2, DoneIs
    <3> QED
      BY <1>0, <3>1 DEF Procedures!Next
  <2> QED
    BY <1>1, <2>1, <2>2 DEF Handles
<1>2. ASSUME NEW c \in Contexts, NEW has_retval \in BOOLEAN, HandleExtendedTrap(c, has_retval)
      PROVE  Procedures!Next
  <2>1. Procedures!Trap(running, c, has_retval)
    BY <1>2, TrapIs
  <2> QED
    BY <1>0, <2>1 DEF Procedures!Next
<1>3. CASE SwitchedBack \/ M68kReturnHandler
  BY <1>3, EmulationInside, InsideUnseen
<1>4. CASE M68kCallHandler
  BY <1>0, <1>4, CallIs DEF Procedures!Next
<1>5. CASE M68kReturns
  <2>1. Procedures!Return68k(running)
    BY <1>5, ReturnIs
  <2>2. \E p \in Programs : Procedures!Return68k(p)
    <3>1. PICK q \in Programs : q = running
      BY <1>0
    <3>2. Procedures!Return68k(q)
      BY <2>1, <3>1 DEF Procedures!Return68k
    <3> QED
      BY <3>2
  <2> QED
    BY <2>2, SomeProgram
<1>6. CASE ExitTrapHandler
  <2>1. Procedures!Exit(running)
    BY <1>6, ExitIs
  <2>2. \E p \in Programs : Procedures!Exit(p)
    <3>1. PICK q \in Programs : q = running
      BY <1>0
    <3>2. Procedures!Exit(q)
      BY <2>1, <3>1 DEF Procedures!Exit
    <3> QED
      BY <3>2
  <2> QED
    BY <2>2, SomeProgram
<1>7. ASSUME NEW v \in Vals, Rts(v) PROVE Procedures!Next
  <2>1. Procedures!Compute(running, v)
    BY <1>7, RtsIs
  <2> QED
    BY <1>0, <2>1 DEF Procedures!Next
<1>8. CASE (\E t \in Tasks : Dispatch(t)) \/ (\E s \in Servers : Interrupt(s)) \/ Rte
  BY <1>8, SwitchInside, InsideUnseen
<1>9. ~Reset
  BY DEF Reset
<1>10. CASE UNCHANGED vars
  <2>1. Inside
    BY <1>10 DEF vars, amiga, Inside, Current, RegsOf
  <2> QED
    BY <2>1, InsideUnseen
<1> QED
  BY <1>1, <1>2, <1>3, <1>4, <1>5, <1>6, <1>7, <1>8, <1>9, <1>10 DEF Next, EmulationThread

(* Without a reset the extended traps are procedure calls: the traps and   *)
(* the 68k calls of each program nest, a 68k function is run for the       *)
(* program whose trap has called it, and every value goes to its caller.   *)
THEOREM CallsReturn == ASSUME ~MayReset PROVE Spec => ImplementsCalls
<1>1. Spec => [](CallsInv /\ View)
  BY CallsInit, CallsNext, ViewHolds, PTL DEF Spec
<1>2. Init => Procedures!Init
  BY ProceduresInit
<1>3. ~MayReset /\ CallsInv /\ View /\ View' /\ [Next]_vars
        => [Procedures!Next]_(Procedures!vars)
  BY ProceduresNext
<1> QED
  BY <1>1, <1>2, <1>3, PTL DEF Spec, ImplementsCalls, Procedures!Spec
============================================================================
