---------------------------- MODULE EventAgenda ----------------------------
(***************************************************************************)
(* What the event tables promise to the emulated hardware: a handler asked *)
(* for at a time runs then.  An entry of the agenda is one bit of data for *)
(* one handler, so that entries for one handler and time can be delivered  *)
(* together.                                                               *)
(***************************************************************************)
EXTENDS Integers

CONSTANTS Entries,      \* [time, func, bit] records
          Cancellable,  \* the handlers whose entries may be taken back
          Punctual,     \* FALSE: a handler may also run late
          MayReset      \* TRUE: a reset may clear the agenda

VARIABLES now, agenda

vars == <<now, agenda>>

Of(funcs) == {e \in agenda : e.func \in funcs}

Soonest == {e \in agenda : \A f \in agenda : e.time <= f.time}

Init == now = 0 /\ agenda = {}

(* Ask for a handler at a later time, in place of what had been asked of a *)
(* cancellable handler or in addition to it.                               *)
Ask ==
  /\ agenda' \subseteq Entries
  /\ \E f \in {e.func : e \in Entries} :
     \E kept \in {agenda, agenda \ Of({f} \cap Cancellable)} :
       /\ kept \subseteq agenda'
       /\ \A e \in agenda' \ kept : e.func = f /\ e.time > now
  /\ UNCHANGED now

Cancel ==
  /\ \E f \in Cancellable : agenda' = agenda \ Of({f})
  /\ UNCHANGED now

CancelAll ==
  /\ MayReset
  /\ agenda' = {}
  /\ UNCHANGED now

Deliver ==
  /\ \E due \in SUBSET {e \in agenda : e.time = now} : agenda' = agenda \ due
  /\ UNCHANGED now

(* There is room for so many entries only: to make room the soonest are    *)
(* delivered early.                                                        *)
DeliverEarly ==
  /\ \E due \in SUBSET Soonest : agenda' = agenda \ due
  /\ UNCHANGED now

Pass ==
  /\ now' \in Int
  /\ Punctual => now' > now /\ \A e \in agenda : e.time >= now'
  /\ UNCHANGED agenda

Next == Ask \/ Cancel \/ CancelAll \/ Deliver \/ DeliverEarly \/ Pass

Spec == Init /\ [][Next]_vars
============================================================================
