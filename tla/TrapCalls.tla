----------------------------- MODULE TrapCalls -----------------------------
(***************************************************************************)
(* What the extended traps promise to the programs of the Amiga and to the *)
(* host's trap handlers: a trap is a procedure call from a program to a    *)
(* handler, a 68k call one from a handler to code of the same program, the *)
(* calls of a program nest, and each returns its value to its caller.      *)
(***************************************************************************)
EXTENDS Sequences, SequencesExt

CONSTANTS Programs, Calls, Vals, None

VARIABLES
  frames,    \* program -> the trap calls under way, the latest last
  handling,  \* program -> the handler of the latest is running
  d0,        \* program -> the value in D0, None while a handler is running
  call       \* [d0 at entry, has_retval, got: last 68k result, result]

vars == <<frames, handling, d0, call>>

Unused == [d0 |-> None, has_retval |-> FALSE, got |-> None, result |-> None]

Init ==
  /\ frames = [p \in Programs |-> <<>>]
  /\ handling = [p \in Programs |-> FALSE]
  /\ d0 \in [Programs -> Vals]
  /\ call = [c \in Calls |-> Unused]

Latest(p) == Last(frames[p])

Compute(p, v) ==
  /\ ~handling[p]
  /\ d0' = [d0 EXCEPT ![p] = v]
  /\ UNCHANGED <<frames, handling, call>>

Trap(p, c, has_retval) ==
  /\ ~handling[p]
  /\ \A q \in Programs : c \notin ToSet(frames[q])
  /\ frames' = [frames EXCEPT ![p] = Append(@, c)]
  /\ handling' = [handling EXCEPT ![p] = TRUE]
  /\ d0' = [d0 EXCEPT ![p] = None]
  /\ call' = [call EXCEPT ![c] = [Unused EXCEPT !.d0 = d0[p], !.has_retval = has_retval]]

Call68k(p, v) ==
  /\ handling[p] /\ call[Latest(p)].result = None
  /\ handling' = [handling EXCEPT ![p] = FALSE]
  /\ d0' = [d0 EXCEPT ![p] = v]
  /\ UNCHANGED <<frames, call>>

Return68k(p) ==
  /\ ~handling[p] /\ frames[p] # <<>>
  /\ handling' = [handling EXCEPT ![p] = TRUE]
  /\ call' = [call EXCEPT ![Latest(p)].got = d0[p]]
  /\ d0' = [d0 EXCEPT ![p] = None]
  /\ UNCHANGED frames

HandlerDone(p, v) ==
  /\ handling[p] /\ call[Latest(p)].result = None
  /\ call' = [call EXCEPT ![Latest(p)].result = v]
  /\ UNCHANGED <<frames, handling, d0>>

Exit(p) ==
  /\ handling[p] /\ call[Latest(p)].result # None
  /\ LET c == call[Latest(p)]
     IN  d0' = [d0 EXCEPT ![p] = IF c.has_retval THEN c.result ELSE c.d0]
  /\ frames' = [frames EXCEPT ![p] = Front(@)]
  /\ handling' = [handling EXCEPT ![p] = FALSE]
  /\ call' = [call EXCEPT ![Latest(p)] = Unused]

Next ==
  \E p \in Programs :
    \/ \E v \in Vals : Compute(p, v) \/ Call68k(p, v) \/ HandlerDone(p, v)
    \/ \E c \in Calls, has_retval \in BOOLEAN : Trap(p, c, has_retval)
    \/ Return68k(p) \/ Exit(p)

Spec == Init /\ [][Next]_vars
============================================================================
