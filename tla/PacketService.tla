--------------------------- MODULE PacketService ---------------------------
(***************************************************************************)
(* What a mounted host directory promises to the programs that use it: a   *)
(* packet that was sent is carried out, once, and then goes back to its    *)
(* sender, in whatever order.  A reset of the Amiga takes all the senders  *)
(* away.                                                                   *)
(***************************************************************************)
CONSTANT Packets

VARIABLE state   \* per packet: whose it is, and whether it has been done

States == {"client", "sent", "handled"}

Init == state = [p \in Packets |-> "client"]

Goes(p, from, to) == state[p] = from /\ state' = [state EXCEPT ![p] = to]

Send(p)   == Goes(p, "client", "sent")
Handle(p) == Goes(p, "sent", "handled")
Reply(p)  == Goes(p, "handled", "client")
Forget    == state' = [p \in Packets |-> "client"]

Next == Forget \/ \E p \in Packets : Send(p) \/ Handle(p) \/ Reply(p)

Spec == Init /\ [][Next]_state
============================================================================
