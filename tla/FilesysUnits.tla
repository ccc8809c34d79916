---------------------------- MODULE FilesysUnits ----------------------------
(***************************************************************************)
(* Mounted host directories (filesys.cpp, filesys.asm).  Each is a process *)
(* of the Amiga with a message port and a thread of the host.  The process *)
(* hands AmigaDOS packets to the thread through unit_pipe and queues their *)
(* messages.  The thread marks a message when its packet is done, counts   *)
(* it in cmds_sent and requests the EXTER interrupt.  The interrupt's      *)
(* helper then sends the unit's dummy message to the process, which        *)
(* answers every queued message that is marked.                            *)
(*                                                                         *)
(* unit_pipe is CommPipe's queue, one entry per packet: its only writer is *)
(* the process, or the reset, which has stopped it.  Left out: what a      *)
(* packet does, locks on records (the threads' lists of waiting records    *)
(* and their timeouts), changes of media, and deterministic mode.          *)
(***************************************************************************)
EXTENDS Integers, Sequences, SequencesExt

CONSTANTS
  NUnits,      \* mounted directories, in the order of mountinfo.ui
  Packets, UnitOf,
  Dummy,       \* unit->dummy_message
  Death,       \* the null packet that ends a thread
  MaxStarted,  \* packets a process hands over at a time (20)
  BackSize,    \* words that back_pipe holds (99)
  MaxCmds,     \* bound on the packets sent to each unit
  MaxResets,   \* bound on the resets of the Amiga
  SendResets   \* bound: nothing is sent after more resets than this

Units == 1 .. NUnits

ASSUME FilesysAssumption ==
  /\ NUnits \in Nat \ {0} /\ MaxStarted \in Nat \ {0} /\ BackSize \in Nat \ {0}
  /\ MaxCmds \in [Units -> Nat] /\ MaxResets \in Nat /\ SendResets \in Nat
  /\ UnitOf \in [Packets -> Units]
  /\ Dummy \notin Packets /\ Death \notin Packets

VARIABLES
  self,           \* whether the unit has got its startup packet
  cmds_sent, cmds_acked, cmds_complete,
  port,           \* the process's message port
  queue,          \* its chain of messages not yet answered
  mark,           \* longword 4 of a packet's message
  d5,             \* how many of them are handed over
  at,             \* the place in the queue it looks at (a2), 0 when it does not
  unit_pipe, back_pipe,
  ppc, pck,       \* the unit's thread and its packet
  reset_state,
  int_req, signalled, singlethread_int_sem,
  hpc, unit_no,   \* the exter task's calls of exter_int_helper
  rpc,            \* the unit the reset is at, 0 when there is none
  resets,
  handled         \* the packets that have been carried out since they were sent

(* The history rides with the counter that the thread moves.               *)
counters == <<handled, self, cmds_sent, cmds_acked, cmds_complete>>
process  == <<queue, d5, at>>
thread   == <<ppc, pck>>
exter    == <<signalled, singlethread_int_sem, hpc, unit_no>>
reset    == <<reset_state, rpc, resets>>
vars     == <<counters, process, thread, exter, reset, port, mark, unit_pipe,
              back_pipe, int_req>>

Marks == {"handed", "unstarted", "done"}

TypeOK ==
  /\ self \in [Units -> BOOLEAN] /\ handled \subseteq Packets
  /\ {cmds_sent, cmds_acked, cmds_complete} \subseteq [Units -> Nat]
  /\ port \in [Units -> Seq(Packets \cup {Dummy})]
  /\ queue \in [Units -> Seq(Packets)] /\ at \in [Units -> Nat]
  /\ mark \in [Packets -> Marks]
  /\ d5 \in [Units -> 0 .. MaxStarted]
  /\ unit_pipe \in [Units -> Seq(Packets \cup {Death})]
  /\ back_pipe \in [Units -> 0 .. BackSize]
  /\ ppc \in [Units -> {"read", "handle", "mark", "request", "dead"}]
  /\ pck \in [Units -> Packets \cup {Death}]
  /\ reset_state \in [Units -> {"STARTUP", "GO_DOWN"}]
  /\ {int_req, signalled, singlethread_int_sem} \subseteq {0, 1}
  /\ hpc \in {"off", "helper", "put"} /\ unit_no \in 1 .. (NUnits + 1)
  /\ rpc \in 0 .. NUnits /\ resets \in 0 .. MaxResets

Everywhere(v) == [u \in Units |-> v]

(* initialize_mountinfo: new pipes and threads, no startup packet yet.     *)
Init ==
  /\ self = Everywhere(FALSE)
  /\ cmds_sent = Everywhere(0) /\ cmds_acked = Everywhere(0) /\ cmds_complete = Everywhere(0)
  /\ port = Everywhere(<<>>) /\ mark = [p \in Packets |-> "done"]
  /\ queue = Everywhere(<<>>) /\ d5 = Everywhere(0) /\ at = Everywhere(0)
  /\ unit_pipe = Everywhere(<<>>) /\ back_pipe = Everywhere(0)
  /\ ppc = Everywhere("read") /\ pck = Everywhere(Death)
  /\ reset_state = Everywhere("STARTUP")
  /\ int_req = 0 /\ signalled = 0 /\ singlethread_int_sem = 1
  /\ hpc = "off" /\ unit_no = 1
  /\ rpc = 0 /\ resets = 0 /\ handled = {}

Running  == rpc = 0
Outstanding(u) == (Range(port[u]) \cup Range(queue[u])) \ {Dummy}

----------------------------------------------------------------------------
(* The process: filesys_mainloop                                           *)

SendPacket(p) ==
  LET u == UnitOf[p] IN
  /\ Running /\ self[u]
  /\ p \notin Outstanding(u) /\ resets <= SendResets
  /\ cmds_sent[u] + Cardinality(Outstanding(u)) < MaxCmds[u]
  /\ port' = [port EXCEPT ![u] = Append(@, p)]
  /\ handled' = handled \ {p}
  /\ UNCHANGED <<self, cmds_sent, cmds_acked, cmds_complete, process, thread, exter, reset, mark, unit_pipe, back_pipe, int_req>>

(* The startup packet: startup_create_unit.                                *)
Startup(u) ==
  /\ Running /\ ~self[u]
  /\ self' = [self EXCEPT ![u] = TRUE]
  /\ cmds_sent' = [cmds_sent EXCEPT ![u] = 0]
  /\ cmds_acked' = [cmds_acked EXCEPT ![u] = 0]
  /\ cmds_complete' = [cmds_complete EXCEPT ![u] = 0]
  /\ UNCHANGED <<handled, process, thread, exter, reset, port, mark, unit_pipe, back_pipe, int_req>>

GetMsg(u) ==
  /\ Running /\ self[u]
  /\ at[u] = 0 /\ port[u] # <<>>
  /\ port' = [port EXCEPT ![u] = Tail(@)]

(* FSML_Enqueue: the process's own list and count.                         *)
Enqueue(u, p) == queue' = [queue EXCEPT ![u] = <<p>> \o @]

HandOver(u, p) ==
  /\ mark' = [mark EXCEPT ![p] = "handed"]
  /\ unit_pipe' = [unit_pipe EXCEPT ![u] = Append(@, p)]
  /\ Enqueue(u, p) /\ d5' = [d5 EXCEPT ![u] = @ + 1]

(* Fault: a command is handed over however many are.                       *)
DoCommandAlways(u) ==
  LET p == Head(port[u]) IN
  /\ GetMsg(u) /\ p # Dummy
  /\ HandOver(u, p)
  /\ UNCHANGED <<counters, at, thread, exter, reset, back_pipe, int_req>>

(* FSML_DoCommand: filesys_handler gives the packet to the thread.         *)
DoCommand(u) ==
  LET p == Head(port[u]) IN
  /\ GetMsg(u) /\ p # Dummy
  /\ d5[u] < MaxStarted
  /\ HandOver(u, p)
  /\ UNCHANGED <<counters, at, thread, exter, reset, back_pipe, int_req>>

(* Fault: a message that is only queued keeps its old mark.                *)
EnqueueUnmarked(u) ==
  LET p == Head(port[u]) IN
  /\ GetMsg(u) /\ p # Dummy
  /\ d5[u] >= MaxStarted
  /\ Enqueue(u, p)
  /\ UNCHANGED <<counters, d5, at, thread, exter, reset, mark, unit_pipe,
                 back_pipe, int_req>>

(* FSML_FromDOS with too many commands queued.                             *)
EnqueueUnstarted(u) ==
  LET p == Head(port[u]) IN
  /\ GetMsg(u) /\ p # Dummy
  /\ d5[u] >= MaxStarted
  /\ mark' = [mark EXCEPT ![p] = "unstarted"]
  /\ Enqueue(u, p)
  /\ UNCHANGED <<counters, d5, at, thread, exter, reset, unit_pipe,
                 back_pipe, int_req>>

(* The dummy message: exter_int_helper (1), which takes back all the locks *)
(* there are, and then a look at the queue.                                *)
GetDummy(u) ==
  /\ GetMsg(u) /\ Head(port[u]) = Dummy
  /\ cmds_complete' = [cmds_complete EXCEPT ![u] = cmds_acked[u]]
  /\ back_pipe' = [back_pipe EXCEPT ![u] = 0]
  /\ at' = [at EXCEPT ![u] = IF queue[u] = <<>> THEN 0 ELSE 1]
  /\ UNCHANGED <<handled, self, cmds_sent, cmds_acked, queue, d5, thread, exter, reset,
                 mark, unit_pipe, int_req>>

(* FSML_check_old, one message of the queue, and on to the one behind it.  *)
CheckOld(u) ==
  LET done == mark[queue[u][at[u]]] = "done" IN
  /\ Running /\ at[u] # 0
  /\ queue' = IF done THEN [queue EXCEPT ![u] = RemoveAt(@, at[u])] ELSE queue
  /\ d5' = IF done THEN [d5 EXCEPT ![u] = @ - 1] ELSE d5
  /\ at' = [at EXCEPT ![u] = IF @ = Len(queue[u]) THEN 0 ELSE IF done THEN @ ELSE @ + 1]
  /\ UNCHANGED <<counters, thread, exter, reset, port, mark, unit_pipe, back_pipe, int_req>>

Process(u) == \/ Startup(u) \/ DoCommand(u) \/ EnqueueUnstarted(u)
              \/ GetDummy(u) \/ CheckOld(u)

----------------------------------------------------------------------------
(* The unit's thread: filesys_iteration                                    *)

(* Fault: the thread takes every packet for one of the Amiga's.            *)
ReadPipeOn(u) ==
  /\ ppc[u] = "read" /\ unit_pipe[u] # <<>>
  /\ unit_pipe' = [unit_pipe EXCEPT ![u] = Tail(@)]
  /\ pck' = [pck EXCEPT ![u] = Head(unit_pipe[u])]
  /\ ppc' = [ppc EXCEPT ![u] = IF pck'[u] = Death THEN "read" ELSE "handle"]
  /\ UNCHANGED <<counters, process, exter, reset, port, mark, back_pipe, int_req>>

(* Once the unit goes down packets are dropped, up to the death message.   *)
ReadPipe(u) ==
  /\ ppc[u] = "read" /\ unit_pipe[u] # <<>>
  /\ unit_pipe' = [unit_pipe EXCEPT ![u] = Tail(@)]
  /\ pck' = [pck EXCEPT ![u] = Head(unit_pipe[u])]
  /\ ppc' = [ppc EXCEPT ![u] =
       IF reset_state[u] # "GO_DOWN" THEN "handle"
       ELSE IF pck'[u] = Death THEN "dead" ELSE "read"]
  /\ UNCHANGED <<counters, process, exter, reset, port, mark, back_pipe, int_req>>

(* handle_packet is over: the thread counts the packet ...                 *)
Handle(u) ==
  /\ ppc[u] = "handle"
  /\ cmds_sent' = [cmds_sent EXCEPT ![u] = @ + 1]
  /\ handled' = handled \cup {pck[u]}
  /\ ppc' = [ppc EXCEPT ![u] = "mark"]
  /\ UNCHANGED <<self, cmds_acked, cmds_complete, process, pck, exter, reset, port, mark,
                 unit_pipe, back_pipe, int_req>>

(* ... and only then marks its message (trap_multi).                       *)
Mark(u) ==
  /\ ppc[u] = "mark"
  /\ mark' = [mark EXCEPT ![pck[u]] = "done"]
  /\ ppc' = [ppc EXCEPT ![u] = "request"]
  /\ UNCHANGED <<counters, process, pck, exter, reset, port, unit_pipe, back_pipe, int_req>>

(* Fault: no interrupt is requested.                                       *)
NoInterrupt(u) ==
  /\ ppc[u] = "request"
  /\ back_pipe[u] < BackSize
  /\ back_pipe' = [back_pipe EXCEPT ![u] = @ + 1]
  /\ ppc' = [ppc EXCEPT ![u] = "read"]
  /\ UNCHANGED <<counters, process, pck, exter, reset, port, mark, unit_pipe, int_req>>

(* The thread sends its list of locks, which holds what is left of the two *)
(* that came with the packet, of which it takes one at most: there is      *)
(* always one to send.  Then it calls do_uae_int_requested.                *)
RequestInterrupt(u) ==
  /\ ppc[u] = "request"
  /\ back_pipe[u] < BackSize
  /\ back_pipe' = [back_pipe EXCEPT ![u] = @ + 1]
  /\ int_req' = 1
  /\ ppc' = [ppc EXCEPT ![u] = "read"]
  /\ UNCHANGED <<counters, process, pck, exter, reset, port, mark, unit_pipe>>

Thread(u) == ReadPipe(u) \/ Handle(u) \/ Mark(u) \/ RequestInterrupt(u)

----------------------------------------------------------------------------
(* The EXTER interrupt: exter_server_new, exter_task, exter_int_helper     *)

(* Any other use of native2amiga requests the same interrupt.              *)
OtherRequest ==
  /\ int_req' = 1
  /\ UNCHANGED <<counters, process, thread, exter, reset, port, mark, unit_pipe, back_pipe>>

ExterServer ==
  /\ Running /\ int_req = 1
  /\ int_req' = 0 /\ signalled' = 1
  /\ UNCHANGED <<counters, process, thread, reset, port, mark, unit_pipe, back_pipe,
                 singlethread_int_sem, hpc, unit_no>>

HelperFirst ==
  /\ Running /\ hpc = "off" /\ signalled = 1
  /\ signalled' = 0
  /\ IF singlethread_int_sem > 0
     THEN /\ singlethread_int_sem' = 0 /\ hpc' = "helper" /\ unit_no' = 1
          /\ UNCHANGED int_req
     ELSE int_req' = 1 /\ UNCHANGED <<singlethread_int_sem, hpc, unit_no>>
  /\ UNCHANGED <<counters, process, thread, reset, port, mark, unit_pipe, back_pipe>>

(* Fault: the last dummy message may still be under way.                   *)
NeedsMessageAtOnce(u) == self[u] /\ cmds_acked[u] # cmds_sent[u]

NeedsMessage(u) ==
  self[u] /\ cmds_acked[u] = cmds_complete[u] /\ cmds_acked[u] # cmds_sent[u]

(* The next unit that needs a message sent.                                *)
HelperFindsUnit ==
  /\ Running /\ hpc = "helper"
  /\ \E u \in unit_no .. NUnits :
       /\ NeedsMessage(u) /\ \A v \in unit_no .. (u - 1) : ~NeedsMessage(v)
       /\ cmds_acked' = [cmds_acked EXCEPT ![u] = cmds_sent[u]]
       /\ unit_no' = u + 1
  /\ hpc' = "put"
  /\ UNCHANGED <<handled, self, cmds_sent, cmds_complete, process, thread, reset, port, mark,
                 unit_pipe, back_pipe, int_req, signalled, singlethread_int_sem>>

(* exter_task puts it, and calls the helper again (11).                    *)
PutMsg ==
  /\ Running /\ hpc = "put"
  /\ port' = [port EXCEPT ![unit_no - 1] = Append(@, Dummy)]
  /\ hpc' = "helper"
  /\ UNCHANGED <<counters, process, thread, reset, mark, unit_pipe, back_pipe, int_req,
                 signalled, singlethread_int_sem, unit_no>>

HelperDone ==
  /\ Running /\ hpc = "helper"
  /\ \A u \in unit_no .. NUnits : ~NeedsMessage(u)
  /\ singlethread_int_sem' = singlethread_int_sem + 1
  /\ hpc' = "off"
  /\ unit_no' = NUnits + 1
  /\ UNCHANGED <<counters, process, thread, reset, port, mark, unit_pipe, back_pipe, int_req,
                 signalled>>

Helper == HelperFirst \/ HelperFindsUnit \/ PutMsg \/ HelperDone

----------------------------------------------------------------------------
(* devices_reset: filesys_prepare_reset ends the threads one after the     *)
(* other, then filesys_reset starts again.  The Amiga stands still.        *)

GoDown(u) ==
  /\ reset_state' = [reset_state EXCEPT ![u] = "GO_DOWN"]
  /\ unit_pipe' = [unit_pipe EXCEPT ![u] = Append(@, Death)]
  /\ rpc' = u
  /\ UNCHANGED <<counters, process, thread, exter, port, mark, back_pipe, int_req>>

PrepareReset ==
  /\ Running /\ resets < MaxResets
  /\ resets' = resets + 1
  /\ GoDown(1)

NextGoesDown ==
  /\ ~Running /\ ppc[rpc] = "dead" /\ rpc < NUnits
  /\ GoDown(rpc + 1)
  /\ UNCHANGED resets

(* Everything begins again, but singlethread_int_sem is left as it is.    *)
Reset ==
  /\ rpc = NUnits /\ ppc[rpc] = "dead"
  /\ self' = Everywhere(FALSE)
  /\ cmds_sent' = Everywhere(0) /\ cmds_acked' = Everywhere(0)
  /\ cmds_complete' = Everywhere(0)
  /\ port' = Everywhere(<<>>) /\ mark' = [p \in Packets |-> "done"]
  /\ queue' = Everywhere(<<>>) /\ d5' = Everywhere(0) /\ at' = Everywhere(0)
  /\ unit_pipe' = Everywhere(<<>>) /\ back_pipe' = Everywhere(0)
  /\ ppc' = Everywhere("read") /\ pck' = Everywhere(Death)
  /\ reset_state' = Everywhere("STARTUP")
  /\ int_req' = 0 /\ signalled' = 0 /\ hpc' = "off" /\ unit_no' = 1
  /\ rpc' = 0 /\ handled' = {}
  /\ UNCHANGED <<singlethread_int_sem, resets>>

----------------------------------------------------------------------------
Next ==
  \/ \E p \in Packets : SendPacket(p)
  \/ \E u \in Units : Process(u) \/ Thread(u)
  \/ OtherRequest \/ ExterServer \/ Helper
  \/ PrepareReset \/ NextGoesDown \/ Reset

Spec == Init /\ [][Next]_vars

(* The Amiga takes its interrupts and runs its tasks, a thread does not    *)
(* stop over a packet, and the reset goes on.  Nobody is obliged to send.  *)
Fairness ==
  /\ WF_vars(ExterServer) /\ WF_vars(Helper) /\ WF_vars(NextGoesDown \/ Reset)
  /\ \A u \in Units : WF_vars(Process(u)) /\ WF_vars(Thread(u))

FairSpec == Spec /\ Fairness

----------------------------------------------------------------------------
(* Properties                                                              *)

(* There is one dummy message per unit, and one message can be in one port *)
(* once: it is put there exactly when the counters begin to say that it is *)
(* under way, and it is gone when they say it is not.                      *)
Putting(u) == hpc = "put" /\ unit_no = u + 1
Dummies(u) == {i \in DOMAIN port[u] : port[u][i] = Dummy}
OneDummy ==
  \A u \in Units :
    /\ cmds_acked[u] # cmds_complete[u] <=> Putting(u) \/ Dummies(u) # {}
    /\ Putting(u) => Dummies(u) = {}
    /\ \A i, j \in Dummies(u) : i = j

(* Every packet is carried out once and only then answered, whatever its   *)
(* message was marked with the last time it was used.                      *)
StateOf(p) ==
  IF rpc # 0 \/ p \notin Outstanding(UnitOf[p]) THEN "client"
  ELSE IF p \in handled THEN "handled" ELSE "sent"
Service == INSTANCE PacketService WITH state <- [p \in Packets |-> StateOf(p)]
ImplementsService == Service!Spec

(* The limit on started commands keeps both pipes from filling up, with    *)
(* unit_pipe of 99 packets and back_pipe of 99 words for 20 of them: the   *)
(* process, which is also the reader of back_pipe, never waits for room.   *)
PipesNeverFull ==
  \A u \in Units :
    /\ Cardinality({i \in DOMAIN unit_pipe[u] : unit_pipe[u][i] # Death}) <= MaxStarted
    /\ back_pipe[u] <= 2 * MaxStarted + 1

(* A packet that is done is answered, as long as the unit's dummy message  *)
(* is under way or will be: also if several are done before the process    *)
(* looks, and behind the back of a helper that has passed the unit.        *)
Announced(u) == cmds_sent[u] # cmds_acked[u] \/ cmds_acked[u] # cmds_complete[u]
Answered ==
  \A p \in Packets :
    (StateOf(p) = "handled" /\ mark[p] = "done" /\ Announced(UnitOf[p]))
      ~> (StateOf(p) # "handled" \/ resets > 0)

(* The reset does not wait for a thread for ever.                          *)
ResetEnds == (rpc # 0) ~> (rpc = 0)

(* When nothing is left to do for a unit no packet waits for its answer.   *)
Idle(u) ==
  /\ Running /\ resets = 0
  /\ port[u] = <<>> /\ at[u] = 0
  /\ ppc[u] = "read" /\ unit_pipe[u] = <<>>
  /\ cmds_sent[u] = cmds_acked[u] /\ cmds_acked[u] = cmds_complete[u]
NoneForgotten == \A u \in Units : Idle(u) => queue[u] = <<>>
============================================================================
