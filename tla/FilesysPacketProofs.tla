------------------------ MODULE FilesysPacketProofs ------------------------
(* Proofs that a mounted directory serves packets as PacketService says,   *)
(* that its two pipes do not fill up, and that its only dummy message is   *)
(* never put twice, for any number of directories, packets and resets and  *)
(* any limit on the packets handed over at a time.                         *)
EXTENDS FilesysUnits, FiniteSetTheorems, TLAPS

----------------------------------------------------------------------------
(* Sequences, seen as sets of distinct elements                            *)

(* No element but x, a message that is not a packet, occurs twice.         *)
Distinct(s, x) == \A i, j \in DOMAIN s : s[i] = s[j] => i = j \/ s[i] = x

LEMMA SeqFacts ==
  ASSUME NEW S, NEW s \in Seq(S)
  PROVE  /\ DOMAIN s = 1 .. Len(s) /\ Len(s) \in Nat
         /\ Range(s) \subseteq S
         /\ s = <<>> <=> Len(s) = 0
BY DEF Range

LEMMA AppendRange ==
  ASSUME NEW S, NEW s \in Seq(S), NEW e \in S, NEW x
  PROVE  /\ Append(s, e) \in Seq(S)
         /\ Range(Append(s, e)) = Range(s) \cup {e}
         /\ Distinct(s, x) /\ (e = x \/ e \notin Range(s)) => Distinct(Append(s, e), x)
<1> DEFINE t == Append(s, e)
<1>1. /\ DOMAIN s = 1 .. Len(s) /\ Len(s) \in Nat
      /\ DOMAIN t = 1 .. (Len(s) + 1) /\ t \in Seq(S)
  OBVIOUS
<1>2. t[Len(s) + 1] = e /\ \A i \in DOMAIN s : t[i] = s[i]
  OBVIOUS
<1>3. \A i : i \in DOMAIN t <=> i \in DOMAIN s \/ i = Len(s) + 1
  BY <1>1
<1>4. Len(s) + 1 \notin DOMAIN s
  BY <1>1
<1> HIDE DEF t
<1>5. Range(t) = Range(s) \cup {e}
  BY <1>2, <1>3 DEF Range
<1>6. Distinct(s, x) /\ (e = x \/ e \notin Range(s)) => Distinct(t, x)
  BY <1>2, <1>3, <1>4 DEF Distinct, Range
<1> QED BY <1>1, <1>5, <1>6 DEF t

LEMMA TailRange ==
  ASSUME NEW S, NEW s \in Seq(S), s # <<>>, NEW x, Distinct(s, x)
  PROVE  /\ Tail(s) \in Seq(S) /\ Head(s) \in Range(s)
         /\ Range(Tail(s)) \subseteq Range(s)
         /\ Range(Tail(s)) \ {x} = (Range(s) \ {x}) \ {Head(s)}
         /\ Distinct(Tail(s), x)
<1> DEFINE t == Tail(s)
<1>1. /\ DOMAIN s = 1 .. Len(s) /\ Len(s) \in Nat \ {0}
      /\ DOMAIN t = 1 .. (Len(s) - 1) /\ t \in Seq(S) /\ Head(s) = s[1]
  OBVIOUS
<1>2. \A i \in 1 .. (Len(s) - 1) : t[i] = s[i + 1]
  OBVIOUS
<1>3. \A i \in DOMAIN t : i + 1 \in DOMAIN s /\ t[i] = s[i + 1] /\ i \in Nat /\ i + 1 # 1
  BY <1>1, <1>2
<1>4. \A i \in DOMAIN s : i # 1 => i - 1 \in DOMAIN t /\ t[i - 1] = s[i]
  BY <1>1, <1>2
<1>5. 1 \in DOMAIN s /\ Head(s) = s[1]
  BY <1>1
<1> HIDE DEF t
<1>6. Range(t) \subseteq Range(s) /\ Head(s) \in Range(s)
  BY <1>3, <1>5 DEF Range
<1>7. ASSUME NEW y \in Range(s), y # x, y # Head(s) PROVE y \in Range(t)
  BY <1>4, <1>5, <1>7 DEF Range
<1>8. ASSUME NEW y \in Range(t), y # x PROVE y # Head(s)
  BY <1>3, <1>5, <1>8 DEF Range, Distinct
<1>9. Distinct(t, x)
  BY <1>3 DEF Distinct
<1>10. Range(t) \ {x} = (Range(s) \ {x}) \ {Head(s)}
  BY <1>6, <1>7, <1>8
<1> QED BY <1>1, <1>6, <1>9, <1>10 DEF t

LEMMA ConsRange ==
  ASSUME NEW S, NEW s \in Seq(S), NEW e \in S
  PROVE  /\ <<e>> \o s \in Seq(S) /\ Len(<<e>> \o s) = Len(s) + 1
         /\ Range(<<e>> \o s) = Range(s) \cup {e}
         /\ IsInjective(s) /\ e \notin Range(s) => IsInjective(<<e>> \o s)
<1> DEFINE t == <<e>> \o s
<1>1. /\ DOMAIN s = 1 .. Len(s) /\ Len(s) \in Nat
      /\ DOMAIN t = 1 .. (Len(s) + 1) /\ t \in Seq(S) /\ Len(t) = Len(s) + 1
  OBVIOUS
<1>2. t[1] = e /\ \A i \in 2 .. (Len(s) + 1) : t[i] = s[i - 1]
  OBVIOUS
<1>3. \A i \in DOMAIN t : i # 1 => i - 1 \in DOMAIN s /\ t[i] = s[i - 1] /\ i \in Nat
  BY <1>1, <1>2
<1>4. \A i \in DOMAIN s : i + 1 \in DOMAIN t /\ t[i + 1] = s[i] /\ i \in Nat
  <2>1. \A i \in DOMAIN s : i + 1 \in 2 .. (Len(s) + 1) /\ i + 1 - 1 = i
    BY <1>1
  <2> QED BY <1>1, <1>2, <2>1
<1>5. 1 \in DOMAIN t /\ t[1] = e
  BY <1>1, <1>2
<1> HIDE DEF t
<1>6. Range(t) = Range(s) \cup {e}
  BY <1>3, <1>4, <1>5 DEF Range
<1>7. IsInjective(s) /\ e \notin Range(s) => IsInjective(t)
  BY <1>3, <1>5 DEF IsInjective, Range
<1> QED BY <1>1, <1>6, <1>7 DEF t

LEMMA RemoveAtRange ==
  ASSUME NEW S, NEW s \in Seq(S), NEW k \in 1 .. Len(s), IsInjective(s)
  PROVE  /\ RemoveAt(s, k) \in Seq(S) /\ Len(RemoveAt(s, k)) = Len(s) - 1
         /\ Range(RemoveAt(s, k)) = Range(s) \ {s[k]}
         /\ IsInjective(RemoveAt(s, k))
<1> DEFINE t == RemoveAt(s, k)
<1>1. DOMAIN s = 1 .. Len(s) /\ Len(s) \in Nat
  OBVIOUS
<1>2. /\ t \in Seq(S) /\ Len(t) = Len(s) - 1
      /\ \A i \in 1 .. (Len(s) - 1) : t[i] = IF i < k THEN s[i] ELSE s[i + 1]
  <2> DEFINE a == SubSeq(s, 1, k - 1)
  <2> DEFINE b == SubSeq(s, k + 1, Len(s))
  <2>1. a \in Seq(S) /\ Len(a) = k - 1 /\ \A i \in 1 .. (k - 1) : a[i] = s[i]
    BY <1>1
  <2>2. b \in Seq(S) /\ Len(b) = Len(s) - k /\ \A i \in 1 .. (Len(s) - k) : b[i] = s[k + i]
    <3>1. /\ k \in Nat /\ Len(s) \in Nat /\ k <= Len(s) /\ k + 1 \in 1 .. (Len(s) + 1)
          /\ \A i \in (k + 1) .. Len(s) : s[i] \in S
      BY <1>1
    <3>2. b \in Seq(S) /\ Len(b) = Len(s) - k
      BY <3>1
    <3>3. \A i \in 1 .. (Len(s) - k) : b[i] = s[k + i]
      BY <3>1
    <3> QED BY <3>2, <3>3
  <2>3. t = a \o b
    BY DEF RemoveAt
  <2> HIDE DEF a, b, t
  <2>4. t \in Seq(S) /\ Len(t) = Len(s) - 1
    <3>1. a \in Seq(S) /\ b \in Seq(S)
      BY <2>1, <2>2
    <3>2. t \in Seq(S) /\ Len(t) = Len(a) + Len(b)
      BY <2>3, <3>1
    <3> QED BY <1>1, <2>1, <2>2, <3>2
  <2>5. ASSUME NEW i \in 1 .. (Len(s) - 1), i < k PROVE t[i] = s[i]
    BY <1>1, <2>1, <2>2, <2>3, <2>5
  <2>6. ASSUME NEW i \in 1 .. (Len(s) - 1), ~(i < k) PROVE t[i] = s[i + 1]
    <3>1. i - (k - 1) \in 1 .. (Len(s) - k) /\ k + (i - (k - 1)) = i + 1
      BY <1>1, <2>6
    <3>2. t[i] = b[i - (k - 1)]
      BY <1>1, <2>1, <2>2, <2>3, <2>6
    <3> QED BY <2>2, <3>1, <3>2
  <2> QED BY <2>4, <2>5, <2>6
<1>3. DOMAIN t = 1 .. (Len(s) - 1)
  BY <1>2
<1> HIDE DEF t
<1>4. ASSUME NEW i \in DOMAIN t
      PROVE  /\ i \in Nat
             /\ i < k => i \in DOMAIN s /\ t[i] = s[i]
             /\ ~(i < k) => i + 1 \in DOMAIN s /\ t[i] = s[i + 1] /\ i + 1 > k
  BY <1>1, <1>2, <1>3
<1>5. ASSUME NEW i \in DOMAIN s, i # k
      PROVE  \E j \in DOMAIN t : t[j] = s[i]
  <2>1. CASE i < k
    BY <1>1, <1>2, <1>3, <2>1
  <2>2. CASE i > k
    <3>1. i - 1 \in DOMAIN t /\ ~(i - 1 < k) /\ i - 1 + 1 = i
      BY <1>1, <1>3, <2>2
    <3> QED BY <1>2, <1>3, <3>1
  <2> QED BY <1>1, <1>5, <2>1, <2>2
<1>6. Range(t) = Range(s) \ {s[k]}
  <2>1. ASSUME NEW y \in Range(t) PROVE y \in Range(s) /\ y # s[k]
    <3>1. PICK i \in DOMAIN t : y = t[i]
      BY DEF Range
    <3>2. CASE i < k
      BY <1>1, <1>4, <3>1, <3>2 DEF Range, IsInjective
    <3>3. CASE ~(i < k)
      BY <1>1, <1>4, <3>1, <3>3 DEF Range, IsInjective
    <3> QED BY <3>2, <3>3
  <2>2. ASSUME NEW y \in Range(s), y # s[k] PROVE y \in Range(t)
    BY <1>5, <2>2 DEF Range
  <2> QED BY <2>1, <2>2
<1>7. IsInjective(t)
  <2> SUFFICES ASSUME NEW i \in DOMAIN t, NEW j \in DOMAIN t, t[i] = t[j] PROVE i = j
    BY DEF IsInjective
  <2>1. CASE i < k /\ j < k
    BY <1>4, <2>1 DEF IsInjective
  <2>2. CASE ~(i < k) /\ ~(j < k)
    <3>1. i + 1 = j + 1
      BY <1>4, <2>2 DEF IsInjective
    <3> QED BY <1>4, <3>1
  <2>3. CASE i < k /\ ~(j < k)
    <3>1. i = j + 1
      BY <1>4, <2>3 DEF IsInjective
    <3> QED BY <1>4, <2>3, <3>1
  <2>4. CASE ~(i < k) /\ j < k
    <3>1. i + 1 = j
      BY <1>4, <2>4 DEF IsInjective
    <3> QED BY <1>4, <2>4, <3>1
  <2> QED BY <2>1, <2>2, <2>3, <2>4
<1> QED BY <1>2, <1>6, <1>7 DEF t

----------------------------------------------------------------------------
(* The invariant, of one directory                                         *)

Sent(u)    == Range(port[u]) \ {Dummy}
Queued(u)  == Range(queue[u])
Piped(u)   == Range(unit_pipe[u]) \ {Death}
Started(u) == {p \in Queued(u) : mark[p] # "unstarted"}
Handed(u)  == {p \in Queued(u) : mark[p] = "handed"}

(* Its packets are its own; none is in two places.                         *)
Apart(u) ==
  /\ \A p \in Sent(u) \cup Queued(u) : UnitOf[p] = u
  /\ Distinct(port[u], Dummy) /\ IsInjective(queue[u])
  /\ \A p \in Sent(u) : p \notin Queued(u) /\ p \notin handled
  /\ at[u] <= Len(queue[u])

(* What the thread has before it, and what is under its hands.             *)
Working(u) ==
  /\ Distinct(unit_pipe[u], Death)
  /\ \A p \in Piped(u) : p \in Handed(u) /\ p \notin handled
  /\ Death \in Range(unit_pipe[u]) => reset_state[u] = "GO_DOWN"
  /\ ppc[u] = "handle" => /\ pck[u] \in Handed(u) /\ pck[u] \notin handled
                          /\ pck[u] \notin Piped(u)
  /\ ppc[u] = "mark" => pck[u] \in Handed(u) /\ pck[u] \in handled

(* Only a packet that was carried out is marked done.                      *)
Marked(u) == \A p \in Queued(u) : mark[p] = "done" => p \in handled

(* d5 counts the packets that were handed over and not yet answered.       *)
Counted(u) ==
  /\ IsFiniteSet(Queued(u))
  /\ d5[u] = Cardinality(Started(u)) /\ d5[u] <= MaxStarted

(* The words that back_pipe holds or will get before it is read again: one *)
(* of the packets handed over, one of the packet marked last, and those of *)
(* packets that took the place of what the process has answered since.     *)
ToSend(u) == Cardinality(Handed(u)) + (IF ppc[u] = "request" THEN 1 ELSE 0)
Bounded(u) ==
  back_pipe[u] + ToSend(u) <= MaxStarted + 1 + (IF at[u] = 0 THEN d5[u] ELSE 0)

UnitInv(u) == Apart(u) /\ Working(u) /\ Marked(u) /\ Counted(u) /\ Bounded(u)

(* TypeOK, but for the range of d5, and where the helper is.               *)
Types ==
  /\ self \in [Units -> BOOLEAN] /\ handled \subseteq Packets
  /\ cmds_sent \in [Units -> Nat] /\ cmds_acked \in [Units -> Nat]
  /\ cmds_complete \in [Units -> Nat]
  /\ port \in [Units -> Seq(Packets \cup {Dummy})]
  /\ queue \in [Units -> Seq(Packets)] /\ at \in [Units -> Nat]
  /\ mark \in [Packets -> Marks]
  /\ d5 \in [Units -> Int]
  /\ unit_pipe \in [Units -> Seq(Packets \cup {Death})]
  /\ back_pipe \in [Units -> 0 .. BackSize]
  /\ ppc \in [Units -> {"read", "handle", "mark", "request", "dead"}]
  /\ pck \in [Units -> Packets \cup {Death}]
  /\ reset_state \in [Units -> {"STARTUP", "GO_DOWN"}]
  /\ int_req \in {0, 1} /\ signalled \in {0, 1} /\ singlethread_int_sem \in {0, 1}
  /\ hpc \in {"off", "helper", "put"} /\ unit_no \in 1 .. (NUnits + 1)
  /\ hpc = "put" => unit_no - 1 \in Units
  /\ hpc # "off" => singlethread_int_sem = 0
  /\ rpc \in 0 .. NUnits /\ resets \in 0 .. MaxResets

IInv == Types /\ \A u \in Units : UnitInv(u)

LEMMA InitInv == Init => IInv
<1> SUFFICES ASSUME Init PROVE IInv
  OBVIOUS
<1>1. Types
  BY FilesysAssumption DEF Init, Types, Everywhere, Units, Marks
<1>2. ASSUME NEW u \in Units PROVE UnitInv(u)
  <2>1. /\ port[u] = <<>> /\ queue[u] = <<>> /\ unit_pipe[u] = <<>> /\ at[u] = 0
        /\ d5[u] = 0 /\ back_pipe[u] = 0 /\ ppc[u] = "read"
    BY <1>2 DEF Init, Everywhere
  <2>2. \A s : s = <<>> => Range(s) = {} /\ Distinct(s, Dummy) /\ Distinct(s, Death)
                            /\ IsInjective(s) /\ Len(s) = 0
    BY DEF Range, Distinct, IsInjective
  <2>3. Queued(u) = {} /\ Started(u) = {} /\ Handed(u) = {} /\ Sent(u) = {} /\ Piped(u) = {}
    BY <2>1, <2>2 DEF Queued, Started, Handed, Sent, Piped
  <2>4. Counted(u) /\ Bounded(u)
    BY <2>1, <2>3, FS_EmptySet, FilesysAssumption DEF Counted, Bounded, ToSend
  <2> QED BY <2>1, <2>2, <2>3, <2>4 DEF UnitInv, Apart, Working, Marked
<1> QED BY <1>1, <1>2 DEF IInv

----------------------------------------------------------------------------
(* What a step leaves alone                                                *)

(* The directory u is not touched by a step; another's packet may be.      *)
Untouched(u) ==
  /\ port'[u] = port[u] /\ queue'[u] = queue[u] /\ at'[u] = at[u] /\ d5'[u] = d5[u]
  /\ unit_pipe'[u] = unit_pipe[u] /\ back_pipe'[u] = back_pipe[u]
  /\ ppc'[u] = ppc[u] /\ pck'[u] = pck[u] /\ reset_state'[u] = reset_state[u]
  /\ \A p \in Packets : UnitOf[p] = u => /\ mark'[p] = mark[p]
                                         /\ p \in handled' <=> p \in handled

LEMMA PacketsOf ==
  ASSUME Types, NEW u \in Units
  PROVE  Queued(u) \subseteq Packets /\ Sent(u) \subseteq Packets /\ Piped(u) \subseteq Packets
<1>1. /\ port[u] \in Seq(Packets \cup {Dummy}) /\ queue[u] \in Seq(Packets)
      /\ unit_pipe[u] \in Seq(Packets \cup {Death})
  BY DEF Types
<1>2. /\ Range(port[u]) \subseteq Packets \cup {Dummy} /\ Range(queue[u]) \subseteq Packets
      /\ Range(unit_pipe[u]) \subseteq Packets \cup {Death}
  BY <1>1, SeqFacts
<1> QED BY <1>2 DEF Queued, Sent, Piped

LEMMA UntouchedKept ==
  ASSUME Types, NEW u \in Units, UnitInv(u), Untouched(u)
  PROVE  UnitInv(u)'
<1>1. /\ Queued(u)' = Queued(u) /\ Sent(u)' = Sent(u) /\ Piped(u)' = Piped(u)
      /\ Queued(u) \subseteq Packets /\ Sent(u) \subseteq Packets
  BY PacketsOf DEF Untouched, Queued, Sent, Piped
<1>2. \A p \in Queued(u) \cup Sent(u) : /\ UnitOf[p] = u /\ mark'[p] = mark[p]
                                        /\ p \in handled' <=> p \in handled
  BY <1>1 DEF Untouched, UnitInv, Apart
<1>3. Started(u)' = Started(u) /\ Handed(u)' = Handed(u)
  BY <1>1, <1>2 DEF Started, Handed
<1>4. Apart(u)'
  BY <1>1, <1>2 DEF Untouched, UnitInv, Apart
<1>5. Working(u)'
  <2>1. Handed(u) \subseteq Queued(u)
    BY DEF Handed
  <2> QED BY <1>1, <1>2, <1>3, <2>1 DEF Untouched, UnitInv, Working
<1>6. Marked(u)'
  BY <1>1, <1>2 DEF UnitInv, Marked
<1>7. Counted(u)' /\ Bounded(u)'
  BY <1>1, <1>3 DEF Untouched, UnitInv, Counted, Bounded, ToSend
<1> QED BY <1>4, <1>5, <1>6, <1>7 DEF UnitInv

----------------------------------------------------------------------------
(* The programs and the process                                            *)

LEMMA SendPacketKept ==
  ASSUME IInv, NEW p \in Packets, SendPacket(p), NEW v \in Units
  PROVE  UnitInv(v)'
<1> DEFINE u == UnitOf[p]
<1>1. /\ u \in Units /\ UnitInv(u) /\ UnitInv(v) /\ Types
      /\ port[u] \in Seq(Packets \cup {Dummy})
  BY FilesysAssumption DEF IInv, Types
<1>2. /\ port' = [port EXCEPT ![u] = Append(@, p)] /\ handled' = handled \ {p}
      /\ UNCHANGED <<process, thread, reset, mark, unit_pipe, back_pipe>>
      /\ p \notin Outstanding(u)
  BY DEF SendPacket
<1>3. p \notin Range(port[u]) /\ p \notin Queued(u)
  BY <1>2, FilesysAssumption DEF Outstanding, Queued
<1>4. CASE v # u
  <2>1. Untouched(v)
    BY <1>1, <1>2, <1>4 DEF Untouched, Types, process, thread, reset
  <2> QED BY <1>1, <2>1, UntouchedKept
<1>5. CASE v = u
  <2>1. port'[u] = Append(port[u], p) /\ Distinct(port[u], Dummy) /\ p \in Packets \cup {Dummy}
    BY <1>1, <1>2 DEF Types, UnitInv, Apart
  <2>2. Range(port[u])' = Range(port[u]) \cup {p} /\ Distinct(port[u], Dummy)'
    BY <1>1, <1>3, <2>1, AppendRange
  <2>3. /\ Queued(u)' = Queued(u) /\ Piped(u)' = Piped(u) /\ Handed(u)' = Handed(u)
        /\ Started(u)' = Started(u) /\ Sent(u)' = Sent(u) \cup {p}
    BY <1>2, <2>2, FilesysAssumption
       DEF Queued, Piped, Handed, Started, Sent, process, thread, reset
  <2>4. Handed(u) \subseteq Queued(u)
    BY DEF Handed
  <2>5. Apart(u)'
    BY <1>1, <1>2, <1>3, <2>2, <2>3 DEF UnitInv, Apart, process
  <2>6. Working(u)'
    BY <1>1, <1>2, <1>3, <2>3, <2>4 DEF UnitInv, Working, thread, reset
  <2>7. Marked(u)' /\ Counted(u)' /\ Bounded(u)'
    BY <1>1, <1>2, <1>3, <2>3 DEF UnitInv, Marked, Counted, Bounded, ToSend, process, thread
  <2> QED BY <1>5, <2>5, <2>6, <2>7 DEF UnitInv
<1> QED BY <1>4, <1>5

(* The process takes the message m from its port.                          *)
LEMMA PortTaken ==
  ASSUME IInv, NEW u \in Units, port[u] # <<>>,
         port' = [port EXCEPT ![u] = Tail(@)]
  PROVE  /\ Head(port[u]) \in Packets \cup {Dummy} /\ Distinct(port[u], Dummy)'
         /\ Sent(u)' = Sent(u) \ {Head(port[u])}
         /\ Head(port[u]) # Dummy => Head(port[u]) \in Sent(u)
<1>1. port[u] \in Seq(Packets \cup {Dummy}) /\ Distinct(port[u], Dummy)
  BY DEF IInv, Types, UnitInv, Apart
<1>2. port'[u] = Tail(port[u])
  BY DEF IInv, Types
<1>3. /\ Head(port[u]) \in Range(port[u]) /\ Distinct(Tail(port[u]), Dummy)
      /\ Range(Tail(port[u])) \ {Dummy} = (Range(port[u]) \ {Dummy}) \ {Head(port[u])}
  BY <1>1, TailRange
<1>4. Head(port[u]) \in Packets \cup {Dummy}
  BY <1>1, <1>3, SeqFacts
<1> QED BY <1>2, <1>3, <1>4 DEF Sent

LEMMA DoCommandKept ==
  ASSUME IInv, NEW u \in Units, DoCommand(u), NEW v \in Units
  PROVE  UnitInv(v)'
<1> DEFINE p == Head(port[u])
<1>1. UnitInv(u) /\ UnitInv(v) /\ Types
  BY DEF IInv
<1>2. /\ port[u] # <<>> /\ at[u] = 0 /\ d5[u] < MaxStarted /\ p # Dummy
      /\ port' = [port EXCEPT ![u] = Tail(@)]
      /\ mark' = [mark EXCEPT ![p] = "handed"]
      /\ unit_pipe' = [unit_pipe EXCEPT ![u] = Append(@, p)]
      /\ queue' = [queue EXCEPT ![u] = <<p>> \o @]
      /\ d5' = [d5 EXCEPT ![u] = @ + 1]
      /\ UNCHANGED <<handled, at, ppc, pck, reset_state, back_pipe>>
  BY DEF DoCommand, GetMsg, HandOver, Enqueue, counters, thread, reset
<1>3. /\ p \in Packets /\ p \in Sent(u) /\ Sent(u)' = Sent(u) \ {p}
      /\ Distinct(port[u], Dummy)'
  BY <1>2, PortTaken
<1> HIDE DEF p
<1>4. UnitOf[p] = u /\ p \notin Queued(u) /\ p \notin handled
  BY <1>1, <1>3 DEF UnitInv, Apart
<1>5. CASE v # u
  <2>1. \A q \in Packets : UnitOf[q] = v => mark'[q] = mark[q]
    BY <1>1, <1>2, <1>4, <1>5 DEF Types
  <2>2. Untouched(v)
    BY <1>1, <1>2, <1>5, <2>1 DEF Untouched, Types
  <2> QED BY <1>1, <2>2, UntouchedKept
<1>6. CASE v = u
  <2>1. /\ queue[u] \in Seq(Packets) /\ unit_pipe[u] \in Seq(Packets \cup {Death})
        /\ queue'[u] = <<p>> \o queue[u] /\ unit_pipe'[u] = Append(unit_pipe[u], p)
        /\ d5'[u] = d5[u] + 1 /\ d5[u] \in Int /\ p \in Packets \cup {Death}
        /\ back_pipe[u] \in Int
    <3>1. back_pipe[u] \in 0 .. BackSize
      BY <1>1 DEF Types
    <3>2. /\ queue[u] \in Seq(Packets) /\ unit_pipe[u] \in Seq(Packets \cup {Death})
          /\ d5[u] \in Int
      BY <1>1 DEF Types
    <3>3. /\ queue'[u] = <<p>> \o queue[u] /\ unit_pipe'[u] = Append(unit_pipe[u], p)
          /\ d5'[u] = d5[u] + 1
      BY <1>1, <1>2 DEF Types
    <3> QED BY <1>3, <3>1, <3>2, <3>3
  <2>2. Handed(u) \subseteq Queued(u) /\ Started(u) \subseteq Queued(u)
    BY DEF Handed, Started
  <2>3. Piped(u) \subseteq Handed(u) /\ p \notin Range(unit_pipe[u])
    BY <1>1, <1>3, <1>4, <2>2, FilesysAssumption DEF UnitInv, Working, Piped
  <2>4. Range(queue[u])' = Range(queue[u]) \cup {p} /\ Len(queue'[u]) = Len(queue[u]) + 1
    BY <1>3, <2>1, ConsRange
  <2>5. IsInjective(queue[u])'
    BY <1>1, <1>3, <1>4, <2>1, ConsRange DEF UnitInv, Apart, Queued
  <2>6. Range(unit_pipe[u])' = Range(unit_pipe[u]) \cup {p} /\ Distinct(unit_pipe[u], Death)'
    <3>1. Distinct(unit_pipe[u], Death)
      BY <1>1 DEF UnitInv, Working
    <3> QED BY <2>1, <2>3, <3>1, AppendRange
  <2>7. /\ Queued(u)' = Queued(u) \cup {p} /\ Piped(u)' = Piped(u) \cup {p}
        /\ mark'[p] = "handed" /\ \A q \in Queued(u) : mark'[q] = mark[q]
    <3>1. Queued(u) \subseteq Packets
      BY <1>1, PacketsOf
    <3> QED BY <1>1, <1>2, <1>3, <1>4, <2>4, <2>6, <3>1, FilesysAssumption
          DEF Queued, Piped, Types
  <2>8. Handed(u)' = Handed(u) \cup {p} /\ Started(u)' = Started(u) \cup {p}
    BY <2>7 DEF Handed, Started
  <2>9. /\ IsFiniteSet(Queued(u)) /\ IsFiniteSet(Handed(u)) /\ IsFiniteSet(Started(u))
        /\ p \notin Handed(u) /\ p \notin Started(u)
    BY <1>1, <1>4, <2>2, FS_Subset DEF UnitInv, Counted
  <2>10. /\ IsFiniteSet(Queued(u))' /\ Cardinality(Handed(u))' = Cardinality(Handed(u)) + 1
         /\ Cardinality(Started(u))' = Cardinality(Started(u)) + 1
         /\ Cardinality(Handed(u)) \in Nat
    <3>1. IsFiniteSet(Queued(u) \cup {p})
      BY <2>9, FS_AddElement
    <3>2. Cardinality(Handed(u) \cup {p}) = Cardinality(Handed(u)) + 1
      BY <2>9, FS_AddElement
    <3>3. Cardinality(Started(u) \cup {p}) = Cardinality(Started(u)) + 1
      BY <2>9, FS_AddElement
    <3>4. Cardinality(Handed(u)) \in Nat
      BY <2>9, FS_CardinalityType
    <3> QED BY <2>7, <2>8, <3>1, <3>2, <3>3, <3>4
  <2>11. Apart(u)'
    <3>1. at'[u] <= Len(queue'[u])
      BY <1>2, <2>1, <2>4
    <3> QED BY <1>1, <1>2, <1>3, <1>4, <2>5, <2>7, <3>1 DEF UnitInv, Apart
  <2>12. Working(u)'
    <3>1. ppc[u] = "handle" => pck[u] \in Queued(u)
      BY <1>1, <2>2 DEF UnitInv, Working
    <3>2. Death \in Range(unit_pipe[u])' => Death \in Range(unit_pipe[u])
      BY <1>3, <2>6, FilesysAssumption
    <3> QED BY <1>1, <1>2, <1>4, <2>6, <2>7, <2>8, <3>1, <3>2 DEF UnitInv, Working
  <2>13. Marked(u)'
    BY <1>1, <1>2, <2>7 DEF UnitInv, Marked
  <2>14. Counted(u)'
    BY <1>1, <1>2, <2>1, <2>10, FilesysAssumption DEF UnitInv, Counted
  <2>15. Bounded(u)'
    <3>1. /\ Bounded(u) /\ back_pipe'[u] = back_pipe[u] /\ at'[u] = at[u] /\ ppc'[u] = ppc[u]
          /\ at[u] = 0
      BY <1>1, <1>2 DEF UnitInv
    <3>2. ToSend(u) \in Int /\ ToSend(u)' = ToSend(u) + 1
      BY <2>10, <3>1 DEF ToSend
    <3>3. back_pipe[u] + ToSend(u) <= MaxStarted + 1 + d5[u]
      BY <3>1 DEF Bounded
    <3>4. back_pipe'[u] + ToSend(u)' <= MaxStarted + 1 + d5'[u]
      BY <2>1, <3>1, <3>2, <3>3, FilesysAssumption
    <3> QED BY <3>1, <3>4 DEF Bounded
  <2> QED BY <1>6, <2>11, <2>12, <2>13, <2>14, <2>15 DEF UnitInv
<1> QED BY <1>5, <1>6

LEMMA EnqueueUnstartedKept ==
  ASSUME IInv, NEW u \in Units, EnqueueUnstarted(u), NEW v \in Units
  PROVE  UnitInv(v)'
<1> DEFINE p == Head(port[u])
<1>1. UnitInv(u) /\ UnitInv(v) /\ Types
  BY DEF IInv
<1>2. /\ port[u] # <<>> /\ at[u] = 0 /\ p # Dummy
      /\ port' = [port EXCEPT ![u] = Tail(@)]
      /\ mark' = [mark EXCEPT ![p] = "unstarted"]
      /\ queue' = [queue EXCEPT ![u] = <<p>> \o @]
      /\ UNCHANGED <<handled, d5, at, ppc, pck, reset_state, unit_pipe, back_pipe>>
  BY DEF EnqueueUnstarted, GetMsg, Enqueue, counters, thread, reset
<1>3. /\ p \in Packets /\ p \in Sent(u) /\ Sent(u)' = Sent(u) \ {p}
      /\ Distinct(port[u], Dummy)'
  BY <1>2, PortTaken
<1> HIDE DEF p
<1>4. UnitOf[p] = u /\ p \notin Queued(u) /\ p \notin handled
  BY <1>1, <1>3 DEF UnitInv, Apart
<1>5. CASE v # u
  <2>1. \A q \in Packets : UnitOf[q] = v => mark'[q] = mark[q]
    BY <1>1, <1>2, <1>4, <1>5 DEF Types
  <2>2. Untouched(v)
    BY <1>1, <1>2, <1>5, <2>1 DEF Untouched, Types
  <2> QED BY <1>1, <2>2, UntouchedKept
<1>6. CASE v = u
  <2>1. queue[u] \in Seq(Packets) /\ queue'[u] = <<p>> \o queue[u]
    BY <1>1, <1>2 DEF Types
  <2>2. Handed(u) \subseteq Queued(u)
    BY DEF Handed
  <2>3. Range(queue[u])' = Range(queue[u]) \cup {p} /\ Len(queue'[u]) = Len(queue[u]) + 1
    BY <1>3, <2>1, ConsRange
  <2>4. IsInjective(queue[u])'
    BY <1>1, <1>3, <1>4, <2>1, ConsRange DEF UnitInv, Apart, Queued
  <2>5. /\ Queued(u)' = Queued(u) \cup {p} /\ Piped(u)' = Piped(u)
        /\ mark'[p] = "unstarted" /\ \A q \in Queued(u) : mark'[q] = mark[q]
    <3>1. Queued(u) \subseteq Packets
      BY <1>1, PacketsOf
    <3> QED BY <1>1, <1>2, <1>3, <1>4, <2>3, <3>1 DEF Queued, Piped, Types
  <2>6. Handed(u)' = Handed(u) /\ Started(u)' = Started(u)
    BY <2>5 DEF Handed, Started
  <2>7. Apart(u)'
    <3>1. at'[u] <= Len(queue'[u])
      BY <1>2, <2>1, <2>3
    <3> QED BY <1>1, <1>2, <1>3, <1>4, <2>4, <2>5, <3>1 DEF UnitInv, Apart
  <2>8. Working(u)'
    BY <1>1, <1>2, <2>5, <2>6 DEF UnitInv, Working
  <2>9. Marked(u)'
    BY <1>1, <1>2, <2>5 DEF UnitInv, Marked
  <2>10. Counted(u)' /\ Bounded(u)'
    <3>1. IsFiniteSet(Queued(u) \cup {p})
      BY <1>1, FS_AddElement DEF UnitInv, Counted
    <3> QED BY <1>1, <1>2, <2>5, <2>6, <3>1 DEF UnitInv, Counted, Bounded, ToSend
  <2> QED BY <1>6, <2>7, <2>8, <2>9, <2>10 DEF UnitInv
<1> QED BY <1>5, <1>6

LEMMA GetDummyKept ==
  ASSUME IInv, NEW u \in Units, GetDummy(u), NEW v \in Units
  PROVE  UnitInv(v)'
<1>1. UnitInv(u) /\ UnitInv(v) /\ Types
  BY DEF IInv
<1>2. /\ port[u] # <<>> /\ Head(port[u]) = Dummy
      /\ port' = [port EXCEPT ![u] = Tail(@)]
      /\ back_pipe' = [back_pipe EXCEPT ![u] = 0]
      /\ at' = [at EXCEPT ![u] = IF queue[u] = <<>> THEN 0 ELSE 1]
      /\ UNCHANGED <<handled, queue, d5, ppc, pck, reset_state, mark, unit_pipe>>
  BY DEF GetDummy, GetMsg, thread, reset
<1>3. CASE v # u
  <2>1. Untouched(v)
    BY <1>1, <1>2, <1>3 DEF Untouched, Types
  <2> QED BY <1>1, <2>1, UntouchedKept
<1>4. CASE v = u
  <2>1. Sent(u)' = Sent(u) \ {Dummy} /\ Distinct(port[u], Dummy)'
    BY <1>2, PortTaken
  <2>2. /\ Queued(u)' = Queued(u) /\ Piped(u)' = Piped(u) /\ Handed(u)' = Handed(u)
        /\ Started(u)' = Started(u) /\ Sent(u)' = Sent(u)
    BY <1>2, <2>1 DEF Queued, Piped, Handed, Started, Sent
  <2>3. Apart(u)'
    <3>1. at'[u] = IF queue[u] = <<>> THEN 0 ELSE 1
      BY <1>1, <1>2 DEF Types
    <3>2. queue[u] \in Seq(Packets)
      BY <1>1 DEF Types
    <3>3. at'[u] <= Len(queue'[u])
      BY <1>2, <3>1, <3>2, SeqFacts
    <3> QED BY <1>1, <1>2, <2>1, <2>2, <3>3 DEF UnitInv, Apart
  <2>4. Working(u)' /\ Marked(u)' /\ Counted(u)'
    BY <1>1, <1>2, <2>2 DEF UnitInv, Working, Marked, Counted
  <2>5. Bounded(u)'
    <3>1. back_pipe'[u] = 0
      BY <1>1, <1>2 DEF Types
    <3>2. IsFiniteSet(Started(u))
      <4>1. Started(u) \subseteq Queued(u)
        BY DEF Started
      <4> QED BY <1>1, <4>1, FS_Subset DEF UnitInv, Counted
    <3>3. Handed(u) \subseteq Started(u)
      BY DEF Handed, Started
    <3>4. IsFiniteSet(Handed(u)) /\ Cardinality(Handed(u)) <= Cardinality(Started(u))
      BY <3>2, <3>3, FS_Subset
    <3>5. Cardinality(Handed(u)) \in Nat /\ Cardinality(Started(u)) \in Nat
      BY <3>2, <3>4, FS_CardinalityType
    <3>6. Cardinality(Handed(u)) <= d5[u] /\ d5[u] <= MaxStarted /\ d5[u] \in Nat
      BY <1>1, <3>4, <3>5 DEF UnitInv, Counted
    <3>7. /\ ToSend(u)' \in Nat /\ ToSend(u)' <= MaxStarted + 1
      BY <1>2, <2>2, <3>5, <3>6, FilesysAssumption DEF ToSend
    <3>8. d5'[u] \in Nat
      BY <1>2, <3>6
    <3> QED BY <3>1, <3>7, <3>8, FilesysAssumption DEF Bounded
  <2> QED BY <1>4, <2>3, <2>4, <2>5 DEF UnitInv
<1> QED BY <1>3, <1>4

LEMMA CheckOldKept ==
  ASSUME IInv, NEW u \in Units, CheckOld(u), NEW v \in Units
  PROVE  UnitInv(v)'
<1> DEFINE p == queue[u][at[u]]
<1>1. /\ UnitInv(u) /\ UnitInv(v) /\ Types
      /\ queue[u] \in Seq(Packets) /\ at[u] \in Nat /\ d5[u] \in Int
      /\ back_pipe[u] \in Int
  <2>1. UnitInv(u) /\ UnitInv(v) /\ Types
    BY DEF IInv
  <2>2. queue[u] \in Seq(Packets) /\ at[u] \in Nat /\ d5[u] \in Int
    BY <2>1 DEF Types
  <2>3. back_pipe[u] \in 0 .. BackSize
    BY <2>1 DEF Types
  <2>4. back_pipe[u] \in Int
    BY <2>3, FilesysAssumption
  <2> QED BY <2>1, <2>2, <2>4
<1>2. /\ at[u] # 0
      /\ queue' = IF mark[p] = "done" THEN [queue EXCEPT ![u] = RemoveAt(@, at[u])] ELSE queue
      /\ d5' = IF mark[p] = "done" THEN [d5 EXCEPT ![u] = @ - 1] ELSE d5
      /\ at' = [at EXCEPT ![u] = IF @ = Len(queue[u]) THEN 0
                                 ELSE IF mark[p] = "done" THEN @ ELSE @ + 1]
      /\ UNCHANGED <<handled, port, ppc, pck, reset_state, mark, unit_pipe, back_pipe>>
  BY DEF CheckOld, counters, thread, reset
<1>3. at[u] \in 1 .. Len(queue[u]) /\ p \in Queued(u)
  <2>1. at[u] \in 1 .. Len(queue[u])
    BY <1>1, <1>2, SeqFacts DEF UnitInv, Apart
  <2> QED BY <1>1, <2>1, SeqFacts DEF Queued, Range
<1> HIDE DEF p
<1>7. back_pipe[u] + ToSend(u) <= MaxStarted + 1
  <2>1. Bounded(u)
    BY <1>1 DEF UnitInv
  <2>2. back_pipe[u] + ToSend(u) <= MaxStarted + 1 + 0
    BY <1>2, <2>1 DEF Bounded
  <2> QED BY <2>2, FilesysAssumption
<1>4. CASE v # u
  <2>1. Untouched(v)
    BY <1>1, <1>2, <1>4 DEF Untouched, Types
  <2> QED BY <1>1, <2>1, UntouchedKept
<1>5. CASE v = u /\ mark[p] # "done"
  <2>1. /\ Queued(u)' = Queued(u) /\ Piped(u)' = Piped(u) /\ Handed(u)' = Handed(u)
        /\ Started(u)' = Started(u) /\ Sent(u)' = Sent(u)
    BY <1>2, <1>5 DEF Queued, Piped, Handed, Started, Sent
  <2>2. at'[u] = IF at[u] = Len(queue[u]) THEN 0 ELSE at[u] + 1
    BY <1>1, <1>2, <1>5 DEF Types
  <2>3. Apart(u)'
    <3>1. at'[u] <= Len(queue'[u])
      BY <1>1, <1>2, <1>3, <1>5, <2>2, SeqFacts
    <3> QED BY <1>1, <1>2, <1>5, <2>1, <3>1 DEF UnitInv, Apart
  <2>4. Working(u)' /\ Marked(u)' /\ Counted(u)'
    BY <1>1, <1>2, <1>5, <2>1 DEF UnitInv, Working, Marked, Counted
  <2>5. Bounded(u)'
    <3>1. back_pipe[u] + ToSend(u) <= MaxStarted + 1
      BY <1>7
    <3>2. ToSend(u)' = ToSend(u) /\ back_pipe'[u] = back_pipe[u] /\ d5'[u] = d5[u]
      BY <1>2, <1>5, <2>1 DEF ToSend
    <3>3. /\ d5[u] \in Nat /\ ToSend(u) \in Int
      <4>1. Handed(u) \subseteq Queued(u) /\ Started(u) \subseteq Queued(u)
        BY DEF Handed, Started
      <4>2. IsFiniteSet(Handed(u)) /\ IsFiniteSet(Started(u))
        BY <1>1, <4>1, FS_Subset DEF UnitInv, Counted
      <4> QED BY <1>1, <4>2, FS_CardinalityType DEF UnitInv, Counted, ToSend
    <3>4. back_pipe[u] + ToSend(u) <= MaxStarted + 1 + d5[u]
      BY <1>1, <3>1, <3>3, FilesysAssumption
    <3>5. back_pipe[u] + ToSend(u) <= MaxStarted + 1 + 0
      BY <3>1, FilesysAssumption
    <3> QED BY <3>2, <3>4, <3>5 DEF Bounded
  <2> QED BY <1>5, <2>3, <2>4, <2>5 DEF UnitInv
<1>6. CASE v = u /\ mark[p] = "done"
  <2>1. /\ queue'[u] = RemoveAt(queue[u], at[u]) /\ d5'[u] = d5[u] - 1
        /\ at'[u] = IF at[u] = Len(queue[u]) THEN 0 ELSE at[u]
    BY <1>1, <1>2, <1>6 DEF Types
  <2>2. /\ Len(queue'[u]) = Len(queue[u]) - 1 /\ IsInjective(queue[u])'
        /\ Range(queue[u])' = Range(queue[u]) \ {p}
    <3>1. IsInjective(queue[u])
      BY <1>1 DEF UnitInv, Apart
    <3>2. LET r == RemoveAt(queue[u], at[u]) IN
            Len(r) = Len(queue[u]) - 1 /\ IsInjective(r) /\ Range(r) = Range(queue[u]) \ {p}
      BY <1>1, <1>3, <3>1, RemoveAtRange DEF p
    <3> QED BY <2>1, <3>2
  <2>3. /\ Queued(u)' = Queued(u) \ {p} /\ Piped(u)' = Piped(u) /\ Sent(u)' = Sent(u)
        /\ Handed(u)' = Handed(u) /\ Started(u)' = Started(u) \ {p}
        /\ p \in Started(u)
    BY <1>2, <1>3, <1>6, <2>2 DEF Queued, Piped, Handed, Started, Sent
  <2>4. Apart(u)'
    <3>1. at'[u] <= Len(queue'[u])
      BY <1>1, <1>3, <2>1, <2>2, SeqFacts
    <3> QED BY <1>1, <1>2, <1>6, <2>2, <2>3, <3>1 DEF UnitInv, Apart
  <2>5. Working(u)' /\ Marked(u)'
    BY <1>1, <1>2, <1>6, <2>3 DEF UnitInv, Working, Marked
  <2>6. /\ IsFiniteSet(Queued(u)) /\ IsFiniteSet(Handed(u)) /\ IsFiniteSet(Started(u))
    <3>1. Handed(u) \subseteq Queued(u) /\ Started(u) \subseteq Queued(u)
      BY DEF Handed, Started
    <3> QED BY <1>1, <3>1, FS_Subset DEF UnitInv, Counted
  <2>7. Cardinality(Started(u))' = Cardinality(Started(u)) - 1
    BY <2>3, <2>6, FS_RemoveElement
  <2>8. IsFiniteSet(Queued(u))'
    BY <2>3, <2>6, FS_RemoveElement
  <2>9. d5'[u] = Cardinality(Started(u))' /\ d5'[u] <= MaxStarted /\ d5'[u] \in Nat
    <3>1. IsFiniteSet(Started(u))'
      BY <2>3, <2>6, FS_RemoveElement
    <3>2. Cardinality(Started(u))' \in Nat
      BY <3>1, FS_CardinalityType
    <3> QED BY <1>1, <2>1, <2>7, <3>2, FilesysAssumption DEF UnitInv, Counted
  <2>10. Bounded(u)'
    <3>1. back_pipe[u] + ToSend(u) <= MaxStarted + 1
      BY <1>7
    <3>2. ToSend(u)' = ToSend(u) /\ back_pipe'[u] = back_pipe[u]
      BY <1>2, <2>3 DEF ToSend
    <3>3. ToSend(u) \in Int
      BY <2>6, FS_CardinalityType DEF ToSend
    <3>4. back_pipe[u] + ToSend(u) <= MaxStarted + 1 + d5'[u]
      BY <1>1, <2>9, <3>1, <3>3, FilesysAssumption
    <3>5. back_pipe[u] + ToSend(u) <= MaxStarted + 1 + 0
      BY <3>1, FilesysAssumption
    <3> QED BY <3>2, <3>4, <3>5 DEF Bounded
  <2> QED BY <1>6, <2>4, <2>5, <2>8, <2>9, <2>10 DEF UnitInv, Counted
<1> QED BY <1>4, <1>5, <1>6

(* The helper's message is none of the packets.                            *)
LEMMA PutMsgKept ==
  ASSUME IInv, PutMsg, NEW v \in Units
  PROVE  UnitInv(v)'
<1>0. PICK u \in Units : u = unit_no - 1
  BY DEF IInv, Types, PutMsg
<1>1. UnitInv(u) /\ UnitInv(v) /\ Types
  BY DEF IInv
<1>2. /\ port' = [port EXCEPT ![u] = Append(@, Dummy)]
      /\ UNCHANGED <<handled, queue, d5, at, ppc, pck, reset_state, mark, unit_pipe, back_pipe>>
  BY <1>0 DEF PutMsg, counters, process, thread, reset
<1>3. CASE v # u
  <2>1. Untouched(v)
    BY <1>1, <1>2, <1>3 DEF Untouched, Types
  <2> QED BY <1>1, <2>1, UntouchedKept
<1>4. CASE v = u
  <2>1. /\ port[u] \in Seq(Packets \cup {Dummy}) /\ port'[u] = Append(port[u], Dummy)
        /\ Dummy \in Packets \cup {Dummy} /\ Distinct(port[u], Dummy)
    BY <1>1, <1>2 DEF Types, UnitInv, Apart
  <2>2. Range(port[u])' = Range(port[u]) \cup {Dummy} /\ Distinct(port[u], Dummy)'
    BY <2>1, AppendRange
  <2>3. /\ Queued(u)' = Queued(u) /\ Handed(u)' = Handed(u) /\ Piped(u)' = Piped(u)
        /\ Started(u)' = Started(u) /\ Sent(u)' = Sent(u)
    BY <1>2, <2>2 DEF Queued, Handed, Started, Sent, Piped
  <2>4. Apart(u)' /\ Working(u)' /\ Marked(u)' /\ Counted(u)' /\ Bounded(u)'
    BY <1>1, <1>2, <2>2, <2>3
       DEF UnitInv, Apart, Working, Marked, Counted, Bounded, ToSend
  <2> QED BY <1>4, <2>4 DEF UnitInv
<1> QED BY <1>3, <1>4

----------------------------------------------------------------------------
(* The thread                                                              *)

LEMMA ReadPipeKept ==
  ASSUME IInv, NEW u \in Units, ReadPipe(u), NEW v \in Units
  PROVE  UnitInv(v)'
<1> DEFINE p == Head(unit_pipe[u])
<1>1. UnitInv(u) /\ UnitInv(v) /\ Types
  BY DEF IInv
<1>2. /\ ppc[u] = "read" /\ unit_pipe[u] # <<>>
      /\ unit_pipe' = [unit_pipe EXCEPT ![u] = Tail(@)]
      /\ pck' = [pck EXCEPT ![u] = p]
      /\ ppc' = [ppc EXCEPT ![u] =
           IF reset_state[u] # "GO_DOWN" THEN "handle"
           ELSE IF pck'[u] = Death THEN "dead" ELSE "read"]
      /\ UNCHANGED <<handled, queue, d5, at, reset_state, port, mark, back_pipe>>
  BY DEF ReadPipe, counters, process, reset
<1>3. CASE v # u
  <2>1. Untouched(v)
    BY <1>1, <1>2, <1>3 DEF Untouched, Types
  <2> QED BY <1>1, <2>1, UntouchedKept
<1>4. CASE v = u
  <2>1. /\ unit_pipe[u] \in Seq(Packets \cup {Death}) /\ Distinct(unit_pipe[u], Death)
        /\ unit_pipe'[u] = Tail(unit_pipe[u]) /\ pck'[u] = p
        /\ reset_state[u] # "GO_DOWN" => ppc'[u] = "handle"
        /\ reset_state[u] = "GO_DOWN" => ppc'[u] \in {"dead", "read"}
    BY <1>1, <1>2 DEF Types, UnitInv, Working
  <2>2. /\ p \in Range(unit_pipe[u]) /\ Range(unit_pipe[u])' \subseteq Range(unit_pipe[u])
        /\ Piped(u)' = Piped(u) \ {p} /\ Distinct(unit_pipe[u], Death)'
    <3>1. /\ p \in Range(unit_pipe[u])
          /\ Range(Tail(unit_pipe[u])) \subseteq Range(unit_pipe[u])
          /\ Range(Tail(unit_pipe[u])) \ {Death} = (Range(unit_pipe[u]) \ {Death}) \ {p}
          /\ Distinct(Tail(unit_pipe[u]), Death)
      BY <1>2, <2>1, TailRange
    <3> QED BY <2>1, <3>1 DEF Piped
  <2> HIDE DEF p
  <2>3. /\ Queued(u)' = Queued(u) /\ Handed(u)' = Handed(u)
        /\ Started(u)' = Started(u) /\ Sent(u)' = Sent(u)
    BY <1>2 DEF Queued, Handed, Started, Sent
  <2>4. Apart(u)' /\ Marked(u)' /\ Counted(u)'
    BY <1>1, <1>2, <2>3 DEF UnitInv, Apart, Marked, Counted
  <2>5. Working(u)'
    <3>1. Death \in Range(unit_pipe[u]) => reset_state[u] = "GO_DOWN"
      BY <1>1 DEF UnitInv, Working
    <3>2. ppc'[u] = "handle" => p \in Piped(u)
      BY <2>1, <2>2, <3>1 DEF Piped
    <3>3. \A q \in Piped(u) : q \in Handed(u) /\ q \notin handled
      BY <1>1 DEF UnitInv, Working
    <3>4. ppc'[u] # "mark" /\ reset_state'[u] = reset_state[u] /\ handled' = handled
      BY <1>2, <2>1
    <3> QED BY <2>1, <2>2, <2>3, <3>1, <3>2, <3>3, <3>4 DEF Working
  <2>6. Bounded(u)'
    <3>1. ToSend(u)' = ToSend(u)
      BY <1>2, <2>1, <2>3 DEF ToSend
    <3> QED BY <1>1, <1>2, <3>1 DEF UnitInv, Bounded
  <2> QED BY <1>4, <2>4, <2>5, <2>6 DEF UnitInv
<1> QED BY <1>3, <1>4

LEMMA HandleKept ==
  ASSUME IInv, NEW u \in Units, Handle(u), NEW v \in Units
  PROVE  UnitInv(v)'
<1>1. UnitInv(u) /\ UnitInv(v) /\ Types
  BY DEF IInv
<1>2. /\ ppc[u] = "handle" /\ handled' = handled \cup {pck[u]}
      /\ ppc' = [ppc EXCEPT ![u] = "mark"]
      /\ UNCHANGED <<queue, d5, at, pck, reset_state, port, mark, unit_pipe, back_pipe>>
  BY DEF Handle, process, reset
<1>3. /\ pck[u] \in Handed(u) /\ pck[u] \in Queued(u) /\ pck[u] \notin Piped(u)
      /\ UnitOf[pck[u]] = u
  BY <1>1, <1>2 DEF UnitInv, Working, Apart, Handed
<1>4. CASE v # u
  <2>1. Untouched(v)
    BY <1>1, <1>2, <1>3, <1>4 DEF Untouched, Types
  <2> QED BY <1>1, <2>1, UntouchedKept
<1>5. CASE v = u
  <2>1. ppc'[u] = "mark"
    BY <1>1, <1>2 DEF Types
  <2>2. /\ Queued(u)' = Queued(u) /\ Handed(u)' = Handed(u) /\ Piped(u)' = Piped(u)
        /\ Started(u)' = Started(u) /\ Sent(u)' = Sent(u)
    BY <1>2 DEF Queued, Handed, Started, Sent, Piped
  <2>3. Apart(u)'
    BY <1>1, <1>2, <1>3, <2>2 DEF UnitInv, Apart
  <2>4. Working(u)'
    BY <1>1, <1>2, <1>3, <2>1, <2>2 DEF UnitInv, Working
  <2>5. Marked(u)' /\ Counted(u)'
    BY <1>1, <1>2, <2>2 DEF UnitInv, Marked, Counted
  <2>6. Bounded(u)'
    <3>1. ToSend(u)' = ToSend(u)
      BY <1>2, <2>1, <2>2 DEF ToSend
    <3> QED BY <1>1, <1>2, <3>1 DEF UnitInv, Bounded
  <2> QED BY <1>5, <2>3, <2>4, <2>5, <2>6 DEF UnitInv
<1> QED BY <1>4, <1>5

LEMMA MarkKept ==
  ASSUME IInv, NEW u \in Units, Mark(u), NEW v \in Units
  PROVE  UnitInv(v)'
<1> DEFINE p == pck[u]
<1>1. UnitInv(u) /\ UnitInv(v) /\ Types
  BY DEF IInv
<1>2. /\ ppc[u] = "mark" /\ mark' = [mark EXCEPT ![p] = "done"]
      /\ ppc' = [ppc EXCEPT ![u] = "request"]
      /\ UNCHANGED <<handled, queue, d5, at, pck, reset_state, port, unit_pipe, back_pipe>>
  BY DEF Mark, counters, process, reset
<1>3. p \in Handed(u) /\ p \in Queued(u) /\ p \in handled /\ UnitOf[p] = u
  BY <1>1, <1>2 DEF UnitInv, Working, Apart, Handed
<1>4. /\ \A q \in Packets : q # p => mark'[q] = mark[q]
      /\ mark'[p] = "done" /\ mark[p] = "handed"
  <2>1. p \in Packets
    BY <1>1, <1>3, PacketsOf
  <2> QED BY <1>1, <1>2, <1>3, <2>1 DEF Types, Handed
<1>5. CASE v # u
  <2>1. \A q \in Packets : UnitOf[q] = v => mark'[q] = mark[q]
    BY <1>3, <1>4, <1>5
  <2>2. Untouched(v)
    BY <1>1, <1>2, <1>5, <2>1 DEF Untouched, Types
  <2> QED BY <1>1, <2>2, UntouchedKept
<1>6. CASE v = u
  <2>1. ppc'[u] = "request"
    BY <1>1, <1>2 DEF Types
  <2>2. /\ Queued(u)' = Queued(u) /\ Piped(u)' = Piped(u) /\ Sent(u)' = Sent(u)
        /\ \A q \in Queued(u) : q # p => mark'[q] = mark[q]
    <3>1. Queued(u) \subseteq Packets
      BY <1>1, PacketsOf
    <3> QED BY <1>2, <1>4, <3>1 DEF Queued, Piped, Sent
  <2>3. Handed(u)' = Handed(u) \ {p} /\ Started(u)' = Started(u)
    BY <1>3, <1>4, <2>2 DEF Handed, Started
  <2>4. Apart(u)'
    BY <1>1, <1>2, <2>2 DEF UnitInv, Apart
  <2>5. Working(u)'
    <3>1. p \notin Piped(u)
      BY <1>1, <1>3 DEF UnitInv, Working
    <3> QED BY <1>1, <1>2, <2>1, <2>2, <2>3, <3>1 DEF UnitInv, Working
  <2>6. Marked(u)'
    BY <1>1, <1>2, <1>3, <2>2 DEF UnitInv, Marked
  <2>7. Counted(u)'
    BY <1>1, <1>2, <2>2, <2>3 DEF UnitInv, Counted
  <2>8. Bounded(u)'
    <3>1. IsFiniteSet(Handed(u))
      <4>1. Handed(u) \subseteq Queued(u)
        BY DEF Handed
      <4> QED BY <1>1, <4>1, FS_Subset DEF UnitInv, Counted
    <3>2. /\ Cardinality(Handed(u))' = Cardinality(Handed(u)) - 1
          /\ Cardinality(Handed(u)) \in Nat
      BY <1>3, <2>3, <3>1, FS_RemoveElement, FS_CardinalityType
    <3>3. ToSend(u)' = ToSend(u)
      BY <1>2, <2>1, <3>2 DEF ToSend
    <3> QED BY <1>1, <1>2, <3>3 DEF UnitInv, Bounded
  <2> QED BY <1>6, <2>4, <2>5, <2>6, <2>7, <2>8 DEF UnitInv
<1> QED BY <1>5, <1>6

LEMMA RequestInterruptKept ==
  ASSUME IInv, NEW u \in Units, RequestInterrupt(u), NEW v \in Units
  PROVE  UnitInv(v)'
<1>1. UnitInv(u) /\ UnitInv(v) /\ Types
  BY DEF IInv
<1>2. /\ ppc[u] = "request"
      /\ back_pipe' = [back_pipe EXCEPT ![u] = @ + 1]
      /\ ppc' = [ppc EXCEPT ![u] = "read"]
      /\ UNCHANGED <<handled, queue, d5, at, pck, reset_state, port, mark, unit_pipe>>
  BY DEF RequestInterrupt, counters, process, reset
<1>3. CASE v # u
  <2>1. Untouched(v)
    BY <1>1, <1>2, <1>3 DEF Untouched, Types
  <2> QED BY <1>1, <2>1, UntouchedKept
<1>4. CASE v = u
  <2>1. ppc'[u] = "read" /\ back_pipe'[u] = back_pipe[u] + 1
    BY <1>1, <1>2 DEF Types
  <2>2. /\ Queued(u)' = Queued(u) /\ Handed(u)' = Handed(u) /\ Piped(u)' = Piped(u)
        /\ Started(u)' = Started(u) /\ Sent(u)' = Sent(u)
    BY <1>2 DEF Queued, Handed, Started, Sent, Piped
  <2>3. Apart(u)' /\ Working(u)' /\ Marked(u)' /\ Counted(u)'
    BY <1>1, <1>2, <2>1, <2>2 DEF UnitInv, Apart, Working, Marked, Counted
  <2>4. Bounded(u)'
    <3>1. back_pipe[u] \in Int
      <4>1. back_pipe[u] \in 0 .. BackSize
        BY <1>1 DEF Types
      <4> QED BY <4>1, FilesysAssumption
    <3>2. Cardinality(Handed(u)) \in Nat
      <4>1. Handed(u) \subseteq Queued(u)
        BY DEF Handed
      <4> QED BY <1>1, <4>1, FS_Subset, FS_CardinalityType DEF UnitInv, Counted
    <3>3. back_pipe'[u] + ToSend(u)' = back_pipe[u] + ToSend(u)
      BY <1>2, <2>1, <2>2, <3>1, <3>2 DEF ToSend
    <3> QED BY <1>1, <1>2, <3>3 DEF UnitInv, Bounded
  <2> QED BY <1>4, <2>3, <2>4 DEF UnitInv
<1> QED BY <1>3, <1>4

----------------------------------------------------------------------------
(* The reset                                                               *)

LEMMA GoDownKept ==
  ASSUME IInv, NEW u \in Units, GoDown(u), NEW v \in Units
  PROVE  UnitInv(v)'
<1>1. UnitInv(u) /\ UnitInv(v) /\ Types
  BY DEF IInv
<1>2. /\ reset_state' = [reset_state EXCEPT ![u] = "GO_DOWN"]
      /\ unit_pipe' = [unit_pipe EXCEPT ![u] = Append(@, Death)]
      /\ UNCHANGED <<handled, queue, d5, at, ppc, pck, port, mark, back_pipe>>
  BY DEF GoDown, counters, process, thread
<1>3. CASE v # u
  <2>1. Untouched(v)
    BY <1>1, <1>2, <1>3 DEF Untouched, Types
  <2> QED BY <1>1, <2>1, UntouchedKept
<1>4. CASE v = u
  <2>1. /\ unit_pipe[u] \in Seq(Packets \cup {Death}) /\ Distinct(unit_pipe[u], Death)
        /\ unit_pipe'[u] = Append(unit_pipe[u], Death) /\ reset_state'[u] = "GO_DOWN"
    BY <1>1, <1>2 DEF Types, UnitInv, Working
  <2>2. Range(unit_pipe[u])' = Range(unit_pipe[u]) \cup {Death} /\ Distinct(unit_pipe[u], Death)'
    BY <2>1, AppendRange
  <2>3. /\ Queued(u)' = Queued(u) /\ Handed(u)' = Handed(u) /\ Piped(u)' = Piped(u)
        /\ Started(u)' = Started(u) /\ Sent(u)' = Sent(u)
    BY <1>2, <2>2 DEF Queued, Handed, Started, Sent, Piped
  <2>4. Apart(u)' /\ Marked(u)' /\ Counted(u)'
    BY <1>1, <1>2, <2>3 DEF UnitInv, Apart, Marked, Counted
  <2>5. Working(u)'
    BY <1>1, <1>2, <2>1, <2>2, <2>3 DEF UnitInv, Working
  <2>6. Bounded(u)'
    BY <1>1, <1>2, <2>3 DEF UnitInv, Bounded, ToSend
  <2> QED BY <1>4, <2>4, <2>5, <2>6 DEF UnitInv
<1> QED BY <1>3, <1>4

LEMMA ResetKept ==
  ASSUME Reset, NEW u \in Units
  PROVE  UnitInv(u)'
<1>1. /\ port'[u] = <<>> /\ queue'[u] = <<>> /\ unit_pipe'[u] = <<>> /\ at'[u] = 0
      /\ d5'[u] = 0 /\ back_pipe'[u] = 0 /\ ppc'[u] = "read"
  BY DEF Reset, Everywhere
<1>2. \A s : s = <<>> => Range(s) = {} /\ Distinct(s, Dummy) /\ Distinct(s, Death)
                          /\ IsInjective(s) /\ Len(s) = 0
  BY DEF Range, Distinct, IsInjective
<1>3. /\ Queued(u)' = {} /\ Started(u)' = {} /\ Handed(u)' = {}
      /\ Sent(u)' = {} /\ Piped(u)' = {}
  BY <1>1, <1>2 DEF Queued, Started, Handed, Sent, Piped
<1>4. Counted(u)' /\ Bounded(u)'
  BY <1>1, <1>3, FS_EmptySet, FilesysAssumption DEF Counted, Bounded, ToSend
<1> QED BY <1>1, <1>2, <1>3, <1>4 DEF UnitInv, Apart, Working, Marked

----------------------------------------------------------------------------
(* The types of the variables                                              *)

LEMMA ProcessTypes ==
  ASSUME IInv, NEW u \in Units, Process(u)
  PROVE  Types'
<1>1. UnitInv(u) /\ Types /\ port[u] \in Seq(Packets \cup {Dummy}) /\ queue[u] \in Seq(Packets)
      /\ at[u] \in Nat /\ d5[u] \in Int
  BY DEF IInv, Types
<1>2. CASE Startup(u)
  BY <1>1, <1>2 DEF Startup, Types, process, thread, exter, reset
<1>3. ASSUME port[u] # <<>>
      PROVE  Tail(port[u]) \in Seq(Packets \cup {Dummy})
  BY <1>1, <1>3
<1>4. ASSUME port[u] # <<>>, Head(port[u]) # Dummy
      PROVE  Head(port[u]) \in Packets /\ <<Head(port[u])>> \o queue[u] \in Seq(Packets)
  <2>1. Head(port[u]) \in Packets
    BY <1>1, <1>4
  <2> QED BY <1>1, <2>1, ConsRange
<1>5. CASE DoCommand(u)
  <2>1. /\ port[u] # <<>> /\ Head(port[u]) # Dummy
        /\ Append(unit_pipe[u], Head(port[u])) \in Seq(Packets \cup {Death})
    <3>1. unit_pipe[u] \in Seq(Packets \cup {Death})
      BY <1>1 DEF Types
    <3>2. port[u] # <<>> /\ Head(port[u]) # Dummy
      BY <1>5 DEF DoCommand, GetMsg
    <3>3. PICK e \in Packets \cup {Death} : e = Head(port[u])
      BY <1>4, <3>2
    <3>4. Append(unit_pipe[u], e) \in Seq(Packets \cup {Death})
      BY <3>1, AppendRange
    <3> QED BY <3>2, <3>3, <3>4
  <2>2. port' \in [Units -> Seq(Packets \cup {Dummy})] /\ queue' \in [Units -> Seq(Packets)]
    BY <1>1, <1>3, <1>4, <1>5, <2>1 DEF DoCommand, GetMsg, HandOver, Enqueue, Types
  <2>3. /\ unit_pipe' \in [Units -> Seq(Packets \cup {Death})]
        /\ mark' \in [Packets -> Marks] /\ d5' \in [Units -> Int]
    <3>1. /\ unit_pipe' = [unit_pipe EXCEPT ![u] = Append(@, Head(port[u]))]
          /\ mark' = [mark EXCEPT ![Head(port[u])] = "handed"] /\ d5' = [d5 EXCEPT ![u] = @ + 1]
      BY <1>5 DEF DoCommand, HandOver
    <3>2. unit_pipe' \in [Units -> Seq(Packets \cup {Death})]
      <4>1. PICK e \in Seq(Packets \cup {Death}) : e = Append(unit_pipe[u], Head(port[u]))
        BY <2>1
      <4>2. unit_pipe \in [Units -> Seq(Packets \cup {Death})]
        BY <1>1 DEF Types
      <4> QED BY <3>1, <4>1, <4>2
    <3>3. mark' \in [Packets -> Marks]
      BY <1>1, <3>1 DEF Types, Marks
    <3>4. d5' \in [Units -> Int]
      BY <1>1, <3>1 DEF Types
    <3> QED BY <3>2, <3>3, <3>4
  <2> QED BY <1>1, <1>5, <2>2, <2>3 DEF DoCommand, Types, counters, thread, exter, reset
<1>6. CASE EnqueueUnstarted(u)
  BY <1>1, <1>3, <1>4, <1>6
     DEF EnqueueUnstarted, GetMsg, Enqueue, Types, Marks, counters, thread, exter, reset
<1>7. CASE GetDummy(u)
  <2>1. 0 \in 0 .. BackSize
    BY FilesysAssumption
  <2> QED BY <1>1, <1>3, <1>7, <2>1 DEF GetDummy, GetMsg, Types, thread, exter, reset
<1>8. CASE CheckOld(u)
  <2>1. at[u] \in 1 .. Len(queue[u]) /\ IsInjective(queue[u])
    BY <1>1, <1>8, SeqFacts DEF CheckOld, UnitInv, Apart
  <2>2. RemoveAt(queue[u], at[u]) \in Seq(Packets)
    BY <1>1, <2>1, RemoveAtRange
  <2>3. queue' \in [Units -> Seq(Packets)] /\ d5' \in [Units -> Int] /\ at' \in [Units -> Nat]
    BY <1>1, <1>8, <2>2 DEF CheckOld, Types
  <2> QED BY <1>1, <1>8, <2>3 DEF CheckOld, Types, counters, thread, exter, reset
<1> QED BY <1>2, <1>5, <1>6, <1>7, <1>8 DEF Process

LEMMA ThreadTypes ==
  ASSUME IInv, NEW u \in Units, Thread(u)
  PROVE  Types'
<1>1. /\ UnitInv(u) /\ Types /\ unit_pipe[u] \in Seq(Packets \cup {Death})
      /\ back_pipe[u] \in 0 .. BackSize
  BY DEF IInv, Types
<1>2. CASE ReadPipe(u)
  <2>1. /\ Tail(unit_pipe[u]) \in Seq(Packets \cup {Death})
        /\ Head(unit_pipe[u]) \in Packets \cup {Death}
    BY <1>1, <1>2 DEF ReadPipe
  <2> QED BY <1>1, <1>2, <2>1 DEF ReadPipe, Types, counters, process, exter, reset
<1>3. ASSUME ppc[u] \in {"handle", "mark"}
      PROVE  pck[u] \in Packets
  <2>1. pck[u] \in Queued(u)
    BY <1>1, <1>3 DEF UnitInv, Working, Handed
  <2> QED BY <1>1, <2>1, PacketsOf
<1>4. CASE Handle(u)
  <2>1. handled' \subseteq Packets
    BY <1>1, <1>3, <1>4 DEF Handle, Types
  <2>2. cmds_sent' \in [Units -> Nat] /\ ppc' \in [Units -> {"read", "handle", "mark", "request", "dead"}]
    BY <1>1, <1>4 DEF Handle, Types
  <2> QED BY <1>1, <1>4, <2>1, <2>2 DEF Handle, Types, process, exter, reset
<1>5. CASE Mark(u)
  BY <1>1, <1>3, <1>5 DEF Mark, Types, Marks, counters, process, exter, reset
<1>6. CASE RequestInterrupt(u)
  <2>1. back_pipe[u] + 1 \in 0 .. BackSize
    BY <1>1, <1>6, FilesysAssumption DEF RequestInterrupt
  <2> QED BY <1>1, <1>6, <2>1 DEF RequestInterrupt, Types, counters, process, exter, reset
<1> QED BY <1>2, <1>4, <1>5, <1>6 DEF Thread

LEMMA ExterTypes ==
  ASSUME Types, OtherRequest \/ ExterServer \/ Helper
  PROVE  Types'
<1>1. /\ unit_no \in 1 .. (NUnits + 1) /\ NUnits \in Nat \ {0}
  BY FilesysAssumption DEF Types
<1>2. CASE OtherRequest
  BY <1>2 DEF OtherRequest, Types, counters, process, thread, exter, reset
<1>3. CASE ExterServer
  BY <1>3 DEF ExterServer, Types, counters, process, thread, reset
<1>4. CASE HelperFirst
  BY <1>1, <1>4 DEF HelperFirst, Types, counters, process, thread, reset
<1>5. CASE HelperFindsUnit
  <2>1. PICK u \in unit_no .. NUnits : /\ cmds_acked' = [cmds_acked EXCEPT ![u] = cmds_sent[u]]
                                       /\ unit_no' = u + 1
    BY <1>5 DEF HelperFindsUnit
  <2>2. u \in Units /\ u + 1 \in 1 .. (NUnits + 1) /\ u + 1 - 1 = u
    BY <1>1 DEF Units
  <2>3. cmds_acked' \in [Units -> Nat]
    BY <2>1, <2>2 DEF Types
  <2>4. unit_no' \in 1 .. (NUnits + 1) /\ unit_no' - 1 \in Units
    BY <2>1, <2>2
  <2>5. hpc' = "put" /\ singlethread_int_sem' = 0
    BY <1>5 DEF HelperFindsUnit, Types
  <2> QED BY <1>5, <2>3, <2>4, <2>5 DEF HelperFindsUnit, Types, process, thread, reset
<1>6. CASE PutMsg
  <2>1. port[unit_no - 1] \in Seq(Packets \cup {Dummy}) /\ unit_no - 1 \in Units
    BY <1>6 DEF PutMsg, Types
  <2>2. Append(port[unit_no - 1], Dummy) \in Seq(Packets \cup {Dummy})
    BY <2>1
  <2> QED BY <1>6, <2>1, <2>2 DEF PutMsg, Types, counters, process, thread, reset
<1>7. CASE HelperDone
  BY <1>1, <1>7 DEF HelperDone, Types, counters, process, thread, reset
<1> QED BY <1>2, <1>3, <1>4, <1>5, <1>6, <1>7 DEF Helper

LEMMA ResetTypes ==
  ASSUME Types, PrepareReset \/ NextGoesDown \/ Reset
  PROVE  Types'
<1>1. NUnits \in Nat \ {0} /\ MaxResets \in Nat /\ rpc \in 0 .. NUnits /\ resets \in 0 .. MaxResets
  BY FilesysAssumption DEF Types
<1>2. ASSUME NEW u \in Units, GoDown(u), resets' \in 0 .. MaxResets PROVE Types'
  <2>1. Append(unit_pipe[u], Death) \in Seq(Packets \cup {Death}) /\ u \in 0 .. NUnits
    <3>1. unit_pipe[u] \in Seq(Packets \cup {Death})
      BY DEF Types
    <3> QED BY <1>1, <3>1 DEF Units
  <2> QED BY <1>2, <2>1 DEF GoDown, Types, counters, process, thread, exter
<1>3. CASE PrepareReset
  <2>1. 1 \in Units /\ resets' \in 0 .. MaxResets
    BY <1>1, <1>3 DEF PrepareReset, Units
  <2> QED BY <1>2, <1>3, <2>1 DEF PrepareReset
<1>4. CASE NextGoesDown
  <2>1. rpc + 1 \in Units /\ resets' \in 0 .. MaxResets
    BY <1>1, <1>4 DEF NextGoesDown, Units
  <2> QED BY <1>2, <1>4, <2>1 DEF NextGoesDown
<1>5. CASE Reset
  BY <1>1, <1>5, FilesysAssumption DEF Reset, Types, Everywhere, Units, Marks
<1> QED BY <1>3, <1>4, <1>5

----------------------------------------------------------------------------
LEMMA NextInv == IInv /\ [Next]_vars => IInv'
<1> SUFFICES ASSUME IInv, [Next]_vars PROVE IInv'
  OBVIOUS
<1> USE DEF IInv
<1>1. ASSUME NEW u \in Units, UNCHANGED vars PROVE UnitInv(u)'
  <2>1. Untouched(u)
    BY <1>1 DEF Untouched, vars, counters, process, thread, reset
  <2> QED BY <2>1, UntouchedKept
<1>2. CASE UNCHANGED vars
  <2>1. Types'
    BY <1>2 DEF Types, vars, counters, process, thread, exter, reset
  <2> QED BY <1>1, <1>2, <2>1
<1>3. ASSUME NEW p \in Packets, SendPacket(p) PROVE IInv'
  <2> DEFINE u == UnitOf[p]
  <2>1. Append(port[u], p) \in Seq(Packets \cup {Dummy}) /\ u \in Units
    <3>1. u \in Units /\ port[u] \in Seq(Packets \cup {Dummy}) /\ p \in Packets \cup {Dummy}
      BY FilesysAssumption DEF Types
    <3> QED BY <3>1, AppendRange
  <2>2. Types'
    BY <1>3, <2>1 DEF SendPacket, Types, process, thread, exter, reset
  <2> QED BY <1>3, <2>2, SendPacketKept
<1>4. ASSUME NEW u \in Units, Process(u) PROVE IInv'
  <2>1. ASSUME Startup(u), NEW v \in Units PROVE UnitInv(v)'
    <3>1. Untouched(v)
      BY <2>1 DEF Startup, Untouched, process, thread, reset
    <3> QED BY <3>1, UntouchedKept
  <2> QED BY <1>4, <2>1, ProcessTypes, DoCommandKept, EnqueueUnstartedKept, GetDummyKept,
             CheckOldKept DEF Process
<1>5. ASSUME NEW u \in Units, Thread(u) PROVE IInv'
  BY <1>5, ThreadTypes, ReadPipeKept, HandleKept, MarkKept, RequestInterruptKept DEF Thread
<1>6. CASE OtherRequest \/ ExterServer \/ Helper
  <2>1. ASSUME NEW v \in Units PROVE UnitInv(v)'
    <3>1. CASE ~PutMsg
      <4>1. Untouched(v)
        BY <1>6, <3>1 DEF OtherRequest, ExterServer, Helper, HelperFirst, HelperFindsUnit,
             HelperDone, Untouched, counters, process, thread, reset
      <4> QED BY <4>1, UntouchedKept
    <3>2. CASE PutMsg
      BY <3>2, PutMsgKept
    <3> QED BY <3>1, <3>2
  <2> QED BY <1>6, <2>1, ExterTypes
<1>7. CASE PrepareReset \/ NextGoesDown \/ Reset
  <2>1. ASSUME NEW v \in Units PROVE UnitInv(v)'
    <3>1. CASE PrepareReset
      <4>1. 1 \in Units /\ GoDown(1)
        BY <3>1, FilesysAssumption DEF PrepareReset, Units
      <4> QED BY <4>1, GoDownKept
    <3>2. CASE NextGoesDown
      <4>1. rpc + 1 \in Units /\ GoDown(rpc + 1)
        BY <3>2, FilesysAssumption DEF NextGoesDown, Types, Units
      <4> QED BY <4>1, GoDownKept
    <3> QED BY <1>7, <3>1, <3>2, ResetKept
  <2> QED BY <1>7, <2>1, ResetTypes
<1> QED BY <1>2, <1>3, <1>4, <1>5, <1>6, <1>7 DEF Next

THEOREM InvTheorem == Spec => []IInv
<1>1. Init => IInv
  BY InitInv
<1>2. IInv /\ [Next]_vars => IInv'
  BY NextInv
<1> QED BY <1>1, <1>2, PTL DEF Spec

(* The state of every directory keeps its type.  What is not immediate is  *)
(* that the count of started packets (d5 of filesys_mainloop) stays within *)
(* 0 .. 20: the process counts up and down in different branches, on marks *)
(* that another thread changes.                                            *)
THEOREM TypeCorrect == Spec => []TypeOK
<1>1. IInv => TypeOK
  <2> SUFFICES ASSUME IInv PROVE TypeOK
    OBVIOUS
  <2>1. ASSUME NEW u \in Units PROVE d5[u] \in 0 .. MaxStarted
    <3>1. UnitInv(u) /\ d5[u] \in Int
      BY DEF IInv, Types
    <3>2. Started(u) \subseteq Queued(u)
      BY DEF Started
    <3>3. Cardinality(Started(u)) \in Nat
      BY <3>1, <3>2, FS_Subset, FS_CardinalityType DEF UnitInv, Counted
    <3> QED BY <3>1, <3>3, FilesysAssumption DEF UnitInv, Counted
  <2>2. Types /\ d5 \in [Units -> 0 .. MaxStarted]
    BY <2>1 DEF IInv, Types
  <2> QED BY <2>2 DEF Types, TypeOK
<1> QED BY <1>1, InvTheorem, PTL

(* The limit on started packets bounds both pipes of a directory, so that  *)
(* neither the process nor the thread waits for room in them               *)
(* (filesys_mainloop, filesys.asm; put_back_locks, filesys.cpp).           *)
THEOREM PipesBounded == Spec => []PipesNeverFull
<1>1. IInv => PipesNeverFull
  <2> SUFFICES ASSUME IInv, NEW u \in Units
               PROVE  /\ Cardinality({i \in DOMAIN unit_pipe[u] : unit_pipe[u][i] # Death})
                           <= MaxStarted
                      /\ back_pipe[u] <= 2 * MaxStarted + 1
    BY DEF PipesNeverFull
  <2> DEFINE D == {i \in DOMAIN unit_pipe[u] : unit_pipe[u][i] # Death}
  <2>1. UnitInv(u) /\ Types
    BY DEF IInv
  <2>2. Handed(u) \subseteq Started(u) /\ Started(u) \subseteq Queued(u)
    BY DEF Handed, Started
  <2>3. IsFiniteSet(Started(u)) /\ IsFiniteSet(Handed(u))
    BY <2>1, <2>2, FS_Subset DEF UnitInv, Counted
  <2>4. /\ Cardinality(Handed(u)) <= Cardinality(Started(u)) /\ Cardinality(Handed(u)) \in Nat
        /\ Cardinality(Started(u)) \in Nat
    BY <2>2, <2>3, FS_Subset, FS_CardinalityType
  <2>5. Cardinality(Handed(u)) <= MaxStarted /\ d5[u] <= MaxStarted /\ d5[u] \in Nat
    BY <2>1, <2>4, FilesysAssumption DEF UnitInv, Counted
  <2>6. Cardinality(D) <= MaxStarted
    <3> DEFINE f == [i \in D |-> unit_pipe[u][i]]
    <3>1. Distinct(unit_pipe[u], Death) /\ Piped(u) \subseteq Handed(u)
      BY <2>1 DEF UnitInv, Working
    <3>2. \A i \in D : unit_pipe[u][i] \in Handed(u)
      BY <3>1 DEF Piped, Range
    <3>3. f \in Injection(D, Handed(u))
      BY <3>1, <3>2 DEF Distinct, Injection, IsInjective
    <3>4. IsFiniteSet(D) /\ Cardinality(D) <= Cardinality(Handed(u))
      BY <2>3, <3>3, FS_Injection
    <3>5. Cardinality(D) \in Nat
      BY <3>4, FS_CardinalityType
    <3> QED BY <2>4, <2>5, <3>4, <3>5, FilesysAssumption
  <2>7. back_pipe[u] <= 2 * MaxStarted + 1
    <3>1. back_pipe[u] \in 0 .. BackSize
      BY <2>1 DEF Types
    <3>2. ToSend(u) \in Nat
      BY <2>4 DEF ToSend
    <3>3. back_pipe[u] + ToSend(u) <= MaxStarted + 1 + d5[u]
      <4>1. Bounded(u)
        BY <2>1 DEF UnitInv
      <4>2. CASE at[u] = 0
        BY <4>1, <4>2 DEF Bounded
      <4>3. CASE at[u] # 0
        <5>1. back_pipe[u] + ToSend(u) <= MaxStarted + 1 + 0
          BY <4>1, <4>3 DEF Bounded
        <5> QED BY <2>5, <3>1, <3>2, <5>1, FilesysAssumption
      <4> QED BY <4>2, <4>3
    <3> QED BY <2>5, <3>1, <3>2, <3>3, FilesysAssumption
  <2> QED BY <2>6, <2>7
<1> QED BY <1>1, InvTheorem, PTL

----------------------------------------------------------------------------
(* The service                                                             *)

States == [p \in Packets |-> StateOf(p)]

LEMMA OutstandingAre ==
  ASSUME Types, NEW u \in Units
  PROVE  Outstanding(u) = Sent(u) \cup Queued(u)
BY PacketsOf, FilesysAssumption DEF Outstanding, Sent, Queued

LEMMA Stutters ==
  ASSUME rpc' = rpc,
         rpc # 0 \/ (/\ handled' = handled
                     /\ \A u \in Units : Outstanding(u)' = Outstanding(u))
  PROVE  States' = States
<1>1. \A p \in Packets : StateOf(p)' = StateOf(p)
  BY FilesysAssumption DEF StateOf
<1> QED BY <1>1 DEF States

LEMMA OneMoves ==
  ASSUME NEW p \in Packets, rpc = 0, rpc' = 0,
         \A q \in Packets \ {p} :
           /\ q \in handled' <=> q \in handled
           /\ q \in Outstanding(UnitOf[q])' <=> q \in Outstanding(UnitOf[q])
  PROVE  States' = [States EXCEPT ![p] = StateOf(p)']
<1>1. \A q \in Packets : q # p => StateOf(q)' = StateOf(q)
  BY DEF StateOf
<1> QED BY <1>1 DEF States

(* A message that goes from the port to the queue stays outstanding.       *)
LEMMA Enqueued ==
  ASSUME IInv, NEW u \in Units, GetMsg(u), Enqueue(u, Head(port[u])), Head(port[u]) # Dummy,
         NEW v \in Units
  PROVE  Outstanding(v)' = Outstanding(v)
<1> DEFINE p == Head(port[u])
<1>1. Types /\ queue[u] \in Seq(Packets)
  BY DEF IInv, Types
<1>2. /\ port[u] # <<>> /\ port' = [port EXCEPT ![u] = Tail(@)]
      /\ queue' = [queue EXCEPT ![u] = <<p>> \o @]
  BY DEF GetMsg, Enqueue
<1>3. p \in Packets /\ p \in Sent(u) /\ Sent(u)' = Sent(u) \ {p}
  BY <1>2, PortTaken
<1> HIDE DEF p
<1>4. CASE v # u
  BY <1>1, <1>2, <1>4 DEF Outstanding, Types
<1>5. CASE v = u
  <2>1. queue'[u] = <<p>> \o queue[u]
    BY <1>1, <1>2 DEF Types
  <2>2. Queued(u)' = Queued(u) \cup {p}
    BY <1>1, <1>3, <2>1, ConsRange DEF Queued
  <2>3. /\ Outstanding(u) = Sent(u) \cup (Queued(u) \ {Dummy})
        /\ Outstanding(u)' = Sent(u)' \cup (Queued(u)' \ {Dummy})
    BY DEF Outstanding, Sent, Queued
  <2> QED BY <1>3, <1>5, <2>2, <2>3, FilesysAssumption
<1> QED BY <1>4, <1>5

LEMMA ProcessServes ==
  ASSUME IInv, NEW u \in Units, Process(u)
  PROVE  States' = States \/ \E p \in Packets : Service!Reply(p)
<1>1. Types /\ UnitInv(u)
  BY DEF IInv
<1>2. CASE Startup(u)
  BY <1>2, Stutters DEF Startup, Outstanding, process, reset
<1>3. CASE DoCommand(u) \/ EnqueueUnstarted(u)
  <2>1. /\ GetMsg(u) /\ Enqueue(u, Head(port[u])) /\ Head(port[u]) # Dummy
        /\ handled' = handled /\ rpc' = rpc
    BY <1>3 DEF DoCommand, EnqueueUnstarted, HandOver, counters, reset
  <2> QED BY <2>1, Enqueued, Stutters
<1>4. CASE GetDummy(u)
  <2>1. /\ port[u] # <<>> /\ port' = [port EXCEPT ![u] = Tail(@)] /\ Head(port[u]) = Dummy
        /\ handled' = handled /\ rpc' = rpc /\ queue' = queue
    BY <1>4 DEF GetDummy, GetMsg, reset
  <2>2. Sent(u)' = Sent(u) \ {Dummy}
    BY <2>1, PortTaken
  <2>3. Sent(u)' = Sent(u)
    BY <2>2 DEF Sent
  <2>4. ASSUME NEW v \in Units, v # u PROVE Sent(v)' = Sent(v)
    BY <1>1, <2>1, <2>4 DEF Sent, Types
  <2>5. ASSUME NEW v \in Units PROVE Outstanding(v)' = Outstanding(v)
    <3>1. Sent(v)' = Sent(v)
      BY <2>3, <2>4
    <3> QED BY <2>1, <3>1 DEF Outstanding, Sent
  <2> QED BY <2>1, <2>5, Stutters
<1>5. CASE CheckOld(u)
  <2>0. at[u] \in 1 .. Len(queue[u]) /\ queue[u] \in Seq(Packets) /\ IsInjective(queue[u])
    BY <1>1, <1>5, SeqFacts DEF CheckOld, Types, UnitInv, Apart
  <2>p. PICK p \in Packets : p = queue[u][at[u]]
    BY <2>0
  <2>1. /\ at[u] # 0 /\ rpc = 0
        /\ queue' = IF mark[p] = "done" THEN [queue EXCEPT ![u] = RemoveAt(@, at[u])] ELSE queue
        /\ UNCHANGED <<handled, port, rpc>>
    BY <1>5, <2>p DEF CheckOld, counters, reset, Running
  <2>2. CASE mark[p] # "done"
    BY <2>1, <2>2, Stutters DEF Outstanding
  <2>3. CASE mark[p] = "done"
    <3>2. p \in Queued(u)
      BY <2>0, <2>p, SeqFacts DEF Queued, Range
    <3>3. Range(RemoveAt(queue[u], at[u])) = Range(queue[u]) \ {p}
      BY <2>0, <2>p, RemoveAtRange
    <3>4. queue' = [queue EXCEPT ![u] = RemoveAt(queue[u], at[u])]
      BY <2>1, <2>3
    <3>5. /\ Queued(u)' = Queued(u) \ {p}
          /\ \A v \in Units : v # u => Queued(v)' = Queued(v)
      BY <1>1, <3>3, <3>4 DEF Queued, Types
    <3>6. UnitOf[p] = u /\ p \notin Sent(u) /\ p \in handled
      BY <1>1, <2>3, <3>2 DEF UnitInv, Apart, Marked
    <3>7. \A v \in Units : /\ Outstanding(v) = Sent(v) \cup (Queued(v) \ {Dummy})
                            /\ Outstanding(v)' = Sent(v)' \cup (Queued(v)' \ {Dummy})
                            /\ Sent(v)' = Sent(v)
      BY <2>1 DEF Outstanding, Sent, Queued
    <3>8. \A q \in Packets \ {p} :
             q \in Outstanding(UnitOf[q])' <=> q \in Outstanding(UnitOf[q])
      BY <3>5, <3>7, FilesysAssumption
    <3>9. States' = [States EXCEPT ![p] = StateOf(p)']
      BY <2>1, <3>2, <3>8, OneMoves
    <3>10. StateOf(p) = "handled" /\ StateOf(p)' = "client"
      <4>1. p \in Outstanding(u) /\ p \notin Outstanding(u)'
        BY <3>2, <3>5, <3>6, <3>7, FilesysAssumption
      <4> QED BY <2>1, <3>6, <4>1 DEF StateOf
    <3>11. States[p] = StateOf(p)
      BY <3>2 DEF States
    <3> QED BY <3>2, <3>9, <3>10, <3>11 DEF Service!Reply, Service!Goes, States
  <2> QED BY <2>2, <2>3
<1> QED BY <1>2, <1>3, <1>4, <1>5 DEF Process

LEMMA ThreadServes ==
  ASSUME IInv, NEW u \in Units, Thread(u)
  PROVE  States' = States \/ \E p \in Packets : Service!Handle(p)
<1>1. Types /\ UnitInv(u)
  BY DEF IInv
<1>2. CASE ~Handle(u)
  BY <1>2, Stutters
     DEF Thread, ReadPipe, Mark, RequestInterrupt, Outstanding, counters, process, reset
<1>3. CASE Handle(u) /\ rpc # 0
  BY <1>3, Stutters DEF Handle, reset
<1>4. CASE Handle(u) /\ rpc = 0
  <2>0. pck[u] \in Queued(u) /\ pck[u] \notin handled
    BY <1>1, <1>4 DEF Handle, UnitInv, Working, Handed
  <2>p. PICK p \in Packets : p = pck[u]
    BY <1>1, <2>0, PacketsOf
  <2>1. handled' = handled \cup {p} /\ rpc' = 0 /\ UNCHANGED <<port, queue>>
    BY <1>4, <2>p DEF Handle, process, reset
  <2>2. p \in Queued(u) /\ p \notin handled
    BY <2>0, <2>p
  <2>3. UnitOf[p] = u /\ p \in Outstanding(u)
    BY <1>1, <2>2, OutstandingAre DEF UnitInv, Apart
  <2>4. \A v : Outstanding(v)' = Outstanding(v)
    BY <2>1 DEF Outstanding
  <2>5. States' = [States EXCEPT ![p] = StateOf(p)']
    BY <1>4, <2>1, <2>3, <2>4, OneMoves
  <2>6. StateOf(p) = "sent" /\ StateOf(p)' = "handled"
    BY <1>4, <2>1, <2>2, <2>3, <2>4 DEF StateOf
  <2>7. States[p] = StateOf(p)
    BY <2>3 DEF States
  <2> QED BY <2>3, <2>5, <2>6, <2>7 DEF Service!Handle, Service!Goes, States
<1> QED BY <1>2, <1>3, <1>4

LEMMA ResetForgets ==
  ASSUME Types, PrepareReset \/ NextGoesDown \/ Reset
  PROVE  States' = States \/ Service!Forget
<1>1. CASE PrepareReset
  <2>1. rpc' # 0
    BY <1>1 DEF PrepareReset, GoDown
  <2> QED BY <2>1 DEF Service!Forget, States, StateOf
<1>2. CASE NextGoesDown
  <2>1. rpc # 0 /\ rpc' # 0
    BY <1>2, FilesysAssumption DEF NextGoesDown, GoDown, Running, Types
  <2> QED BY <2>1 DEF States, StateOf
<1>3. CASE Reset
  <2>1. ASSUME NEW u \in Units PROVE Outstanding(u)' = {}
    BY <1>3 DEF Reset, Everywhere, Outstanding, Range
  <2> QED BY <2>1, FilesysAssumption DEF Service!Forget, States, StateOf
<1> QED BY <1>1, <1>2, <1>3

(* What the programs see of a mounted directory is PacketService: a packet *)
(* is carried out exactly once between its sending and its answer, whether *)
(* it was handed over when it came or only queued, and whatever mark its   *)
(* message still has from the last time (FSML_check_old, filesys.asm;      *)
(* filesys_handler and filesys_iteration, filesys.cpp).                    *)
THEOREM ServesPackets == Spec => ImplementsService
<1>1. Init => Service!Init
  <2> SUFFICES ASSUME Init PROVE Service!Init
    OBVIOUS
  <2>1. ASSUME NEW u \in Units PROVE Outstanding(u) = {}
    BY DEF Init, Everywhere, Outstanding, Range
  <2> QED BY <2>1, FilesysAssumption DEF Service!Init, StateOf
<1>2. IInv /\ [Next]_vars => [Service!Next]_States
  <2> SUFFICES ASSUME IInv, [Next]_vars PROVE Service!Next \/ States' = States
    OBVIOUS
  <2>1. CASE UNCHANGED vars
    BY <2>1, Stutters DEF vars, counters, process, reset, Outstanding
  <2>2. ASSUME NEW p \in Packets, SendPacket(p) PROVE Service!Send(p)
    <3> DEFINE u == UnitOf[p]
    <3>1. /\ u \in Units /\ rpc = 0 /\ rpc' = 0 /\ p \notin Outstanding(u)
          /\ port' = [port EXCEPT ![u] = Append(@, p)] /\ handled' = handled \ {p}
          /\ queue' = queue
      BY <2>2, FilesysAssumption DEF SendPacket, Running, process, reset
    <3>2. port[u] \in Seq(Packets \cup {Dummy}) /\ p \in Packets \cup {Dummy}
      BY <3>1 DEF IInv, Types
    <3>3. /\ Range(port[u])' = Range(port[u]) \cup {p}
          /\ \A v \in Units : v # u => port'[v] = port[v]
      <4>1. port'[u] = Append(port[u], p)
        BY <3>1 DEF IInv, Types
      <4>2. Range(Append(port[u], p)) = Range(port[u]) \cup {p}
        <5>1. PICK s \in Seq(Packets \cup {Dummy}) : s = port[u]
          BY <3>2
        <5>2. Range(Append(s, p)) = Range(s) \cup {p}
          BY <3>2, AppendRange
        <5> QED BY <5>1, <5>2
      <4> QED BY <3>1, <4>1, <4>2 DEF IInv, Types
    <3>4. \A q \in Packets \ {p} : q \in Outstanding(UnitOf[q])' <=> q \in Outstanding(UnitOf[q])
      BY <3>1, <3>3, FilesysAssumption DEF Outstanding
    <3>5. States' = [States EXCEPT ![p] = StateOf(p)']
      BY <3>1, <3>4, OneMoves
    <3>6. StateOf(p) = "client" /\ StateOf(p)' = "sent"
      BY <3>1, <3>3, FilesysAssumption DEF StateOf, Outstanding
    <3>7. States[p] = StateOf(p)
      BY DEF States
    <3> QED BY <3>5, <3>6, <3>7 DEF Service!Send, Service!Goes, States
  <2>3. ASSUME NEW u \in Units, Process(u) \/ Thread(u)
        PROVE  \/ States' = States
               \/ \E p \in Packets : Service!Handle(p) \/ Service!Reply(p)
    BY <2>3, ProcessServes, ThreadServes
  <2>4. CASE OtherRequest \/ ExterServer \/ Helper
    <3>1. CASE PutMsg
      <4>1. PICK w \in Units : w = unit_no - 1
        BY <3>1 DEF PutMsg, IInv, Types
      <4>2. /\ port' = [port EXCEPT ![w] = Append(@, Dummy)]
            /\ UNCHANGED <<handled, rpc, queue>>
        BY <3>1, <4>1 DEF PutMsg, counters, process, reset
      <4>3. /\ port'[w] = Append(port[w], Dummy) /\ port[w] \in Seq(Packets \cup {Dummy})
            /\ \A u \in Units : u # w => port'[u] = port[u]
        BY <4>2 DEF IInv, Types
      <4>4. Range(port[w])' = Range(port[w]) \cup {Dummy}
        <5>1. Dummy \in Packets \cup {Dummy}
          OBVIOUS
        <5> QED BY <4>3, <5>1, AppendRange
      <4>5. \A u \in Units : Outstanding(u)' = Outstanding(u)
        BY <4>2, <4>3, <4>4 DEF Outstanding
      <4> QED BY <4>2, <4>5, Stutters
    <3>2. CASE ~PutMsg
      BY <2>4, <3>2, Stutters DEF OtherRequest, ExterServer, Helper, HelperFirst,
         HelperFindsUnit, HelperDone, Outstanding, counters, process, reset
    <3> QED BY <3>1, <3>2
  <2>5. CASE PrepareReset \/ NextGoesDown \/ Reset
    BY <2>5, ResetForgets DEF IInv, Service!Next
  <2> QED BY <2>1, <2>2, <2>3, <2>4, <2>5 DEF Next, Service!Next
<1> QED BY <1>1, <1>2, InvTheorem, PTL DEF Spec, ImplementsService, Service!Spec, States

----------------------------------------------------------------------------
(* The dummy message                                                       *)


DummyTypes ==
  /\ self \in [Units -> BOOLEAN]
  /\ cmds_sent \in [Units -> Nat] /\ cmds_acked \in [Units -> Nat]
  /\ cmds_complete \in [Units -> Nat]
  /\ port \in [Units -> Seq(Packets \cup {Dummy})]
  /\ hpc \in {"off", "helper", "put"} /\ unit_no \in Nat \ {0}
  /\ hpc = "put" => unit_no - 1 \in Units

(* OneDummy alone is not kept: a unit gets its startup packet while its    *)
(* dummy message must be at rest.                                          *)
DummyInv ==
  /\ DummyTypes
  /\ OneDummy
  /\ \A u \in Units : ~self[u] => cmds_acked[u] = cmds_complete[u]

(* What the unit u has to do with its dummy message.                       *)
OneDummyOf(u) ==
  /\ cmds_acked[u] # cmds_complete[u] <=> Putting(u) \/ Dummies(u) # {}
  /\ Putting(u) => Dummies(u) = {}
  /\ \A i, j \in Dummies(u) : i = j

dummyVars == <<self, cmds_acked, cmds_complete, port, hpc, unit_no>>

LEMMA InitDummy == Init => DummyInv
<1> SUFFICES ASSUME Init PROVE DummyInv
  OBVIOUS
<1>1. DummyTypes
  BY FilesysAssumption DEF Init, DummyTypes, Everywhere, Units
<1>2. OneDummy /\ \A u \in Units : cmds_acked[u] = cmds_complete[u]
  BY DEF Init, OneDummy, Everywhere, Putting, Dummies
<1> QED BY <1>1, <1>2 DEF DummyInv

(* A step that only moves the thread, the queue or the interrupt.          *)
LEMMA DummyUntouched ==
  ASSUME DummyInv, UNCHANGED dummyVars, cmds_sent' \in [Units -> Nat]
  PROVE  DummyInv'
BY DEF DummyInv, DummyTypes, OneDummy, Putting, Dummies, dummyVars

(* Where an element is in a sequence without its head ...                  *)
LEMMA TailPlaces ==
  ASSUME NEW S, NEW s \in Seq(S), s # <<>>, NEW d
  PROVE  /\ s[1] = Head(s) /\ 1 \in DOMAIN s /\ DOMAIN s \subseteq Nat \ {0}
         /\ Tail(s) \in Seq(S) /\ DOMAIN Tail(s) \subseteq Nat \ {0}
         /\ \A i \in Nat : (i \in DOMAIN Tail(s) /\ Tail(s)[i] = d)
                           <=> (i # 0 /\ i + 1 \in DOMAIN s /\ s[i + 1] = d)
<1>1. /\ DOMAIN s = 1 .. Len(s) /\ Len(s) \in Nat \ {0}
      /\ DOMAIN Tail(s) = 1 .. (Len(s) - 1) /\ Tail(s) \in Seq(S) /\ Head(s) = s[1]
  OBVIOUS
<1>2. \A i \in 1 .. (Len(s) - 1) : Tail(s)[i] = s[i + 1]
  OBVIOUS
<1>3. \A i \in Nat : i \in 1 .. (Len(s) - 1) <=> i # 0 /\ i + 1 \in 1 .. Len(s)
  BY <1>1
<1> QED BY <1>1, <1>2, <1>3

(* ... and in one with another element at its end.                         *)
LEMMA AppendPlaces ==
  ASSUME NEW S, NEW s \in Seq(S), NEW e, NEW d
  PROVE  \A i : (i \in DOMAIN Append(s, e) /\ Append(s, e)[i] = d)
               <=> ((i \in DOMAIN s /\ s[i] = d) \/ (i = Len(s) + 1 /\ e = d))
<1>1. /\ DOMAIN s = 1 .. Len(s) /\ Len(s) \in Nat
      /\ DOMAIN Append(s, e) = 1 .. (Len(s) + 1)
  OBVIOUS
<1>2. Append(s, e)[Len(s) + 1] = e /\ \A i \in 1 .. Len(s) : Append(s, e)[i] = s[i]
  OBVIOUS
<1>3. \A i : i \in 1 .. (Len(s) + 1) <=> i \in 1 .. Len(s) \/ i = Len(s) + 1
  BY <1>1
<1>4. Len(s) + 1 \notin 1 .. Len(s)
  BY <1>1
<1> QED BY <1>1, <1>2, <1>3, <1>4

(* A packet put at the end of a port, or taken from its beginning.         *)
LEMMA DummyPackets ==
  ASSUME DummyInv, UNCHANGED <<self, cmds_sent, cmds_acked, cmds_complete, hpc, unit_no>>,
         NEW u \in Units, NEW s \in Seq(Packets \cup {Dummy}),
         port' = [port EXCEPT ![u] = s],
         \/ \E p \in Packets : s = Append(port[u], p)
         \/ port[u] # <<>> /\ Head(port[u]) # Dummy /\ s = Tail(port[u])
  PROVE  DummyInv'
<1>1. DummyTypes'
  BY DEF DummyInv, DummyTypes
<1>2. ASSUME NEW v \in Units, v # u PROVE OneDummyOf(v)'
  BY <1>2 DEF DummyInv, DummyTypes, OneDummy, OneDummyOf, Putting, Dummies
<1>3. port[u] \in Seq(Packets \cup {Dummy}) /\ port'[u] = s
  BY DEF DummyInv, DummyTypes
<1>4. OneDummyOf(u)'
  <2>1. OneDummyOf(u)
    BY DEF DummyInv, OneDummy, OneDummyOf
  <2>2. CASE \E p \in Packets : s = Append(port[u], p)
    <3>1. Dummies(u)' = Dummies(u)
      BY <1>3, <2>2, FilesysAssumption DEF Dummies
    <3> QED BY <2>1, <3>1 DEF OneDummyOf, Putting
  <2>3. CASE port[u] # <<>> /\ Head(port[u]) # Dummy /\ s = Tail(port[u])
    <3>1. \A i \in Nat : i \in Dummies(u)' <=> i + 1 \in Dummies(u) /\ i # 0
      <4>1. \A i \in Nat : (i \in DOMAIN s /\ s[i] = Dummy)
              <=> (i # 0 /\ i + 1 \in DOMAIN port[u] /\ port[u][i + 1] = Dummy)
        BY <1>3, <2>3, TailPlaces
      <4> QED BY <1>3, <4>1 DEF Dummies
    <3>2. Dummies(u) \subseteq Nat \ {0, 1} /\ Dummies(u)' \subseteq Nat
      <4>1. /\ DOMAIN port[u] \subseteq Nat \ {0} /\ DOMAIN s \subseteq Nat \ {0}
            /\ port[u][1] # Dummy
        BY <1>3, <2>3, TailPlaces
      <4> QED BY <1>3, <4>1 DEF Dummies
    <3>3. Dummies(u)' # {} <=> Dummies(u) # {}
      <4>1. ASSUME NEW i \in Dummies(u) PROVE i - 1 \in Dummies(u)'
        BY <3>1, <3>2
      <4> QED BY <3>1, <3>2, <4>1
    <3>4. \A i, j \in Dummies(u)' : i = j
      BY <2>1, <3>1, <3>2 DEF OneDummyOf
    <3> QED BY <2>1, <3>3, <3>4 DEF OneDummyOf, Putting
  <2> QED BY <2>2, <2>3
<1> QED BY <1>1, <1>2, <1>4 DEF DummyInv, OneDummy, OneDummyOf

LEMMA ProcessDummy ==
  ASSUME DummyInv, NEW u \in Units, Process(u) PROVE DummyInv'
<1>t. port[u] \in Seq(Packets \cup {Dummy})
  BY DEF DummyInv, DummyTypes
<1>1. CASE Startup(u)
  <2>1. DummyTypes'
    BY <1>1 DEF DummyInv, DummyTypes, Startup, exter
  <2>2. ASSUME NEW v \in Units
        PROVE  /\ (cmds_acked[v] # cmds_complete[v])' <=> cmds_acked[v] # cmds_complete[v]
               /\ ~self'[v] => ~self[v]
    BY <1>1 DEF DummyInv, DummyTypes, Startup
  <2>3. UNCHANGED <<port, hpc, unit_no>>
    BY <1>1 DEF Startup, exter
  <2> QED BY <2>1, <2>2, <2>3 DEF DummyInv, OneDummy, Putting, Dummies
<1>2. CASE DoCommand(u) \/ EnqueueUnstarted(u)
  <2>1. /\ port[u] # <<>> /\ Head(port[u]) # Dummy
        /\ port' = [port EXCEPT ![u] = Tail(port[u])]
    BY <1>2 DEF DoCommand, EnqueueUnstarted, GetMsg
  <2>2. Tail(port[u]) \in Seq(Packets \cup {Dummy})
    BY <1>t, <2>1
  <2>3. UNCHANGED <<self, cmds_sent, cmds_acked, cmds_complete, hpc, unit_no>>
    BY <1>2 DEF DoCommand, EnqueueUnstarted, counters, exter
  <2> QED BY <2>1, <2>2, <2>3, DummyPackets
<1>3. CASE GetDummy(u)
  <2>1. /\ port[u] # <<>> /\ Head(port[u]) = Dummy
        /\ port' = [port EXCEPT ![u] = Tail(port[u])]
        /\ cmds_complete' = [cmds_complete EXCEPT ![u] = cmds_acked[u]]
    BY <1>3 DEF GetDummy, GetMsg
  <2>2. UNCHANGED <<self, cmds_sent, cmds_acked, hpc, unit_no>>
    BY <1>3 DEF GetDummy, exter
  <2>3. DummyTypes'
    BY <1>t, <2>1, <2>2 DEF DummyInv, DummyTypes
  <2>4. ASSUME NEW v \in Units, v # u PROVE OneDummyOf(v)'
    BY <2>1, <2>2, <2>4 DEF DummyInv, DummyTypes, OneDummy, OneDummyOf, Putting, Dummies
  <2>5. OneDummyOf(u)'
    <3>1. 1 \in Dummies(u)
      BY <1>t, <2>1 DEF Dummies
    <3>2. ~Putting(u) /\ \A i \in Dummies(u) : i = 1
      BY <3>1 DEF DummyInv, OneDummy
    <3>3. Dummies(u)' = {}
      <4>1. port'[u] = Tail(port[u])
        BY <2>1 DEF DummyInv, DummyTypes
      <4>2. ASSUME NEW i \in Dummies(u)' PROVE FALSE
        <5>1. i \in Nat \ {0} /\ i + 1 \in Dummies(u)
          <6>1. i \in DOMAIN Tail(port[u]) /\ Tail(port[u])[i] = Dummy
            BY <4>1, <4>2 DEF Dummies
          <6>2. i \in Nat \ {0}
            BY <1>t, <2>1, <6>1, TailPlaces
          <6>3. i + 1 \in DOMAIN port[u] /\ port[u][i + 1] = Dummy
            BY <1>t, <2>1, <6>1, <6>2, TailPlaces
          <6> QED BY <6>2, <6>3 DEF Dummies
        <5> QED BY <3>2, <5>1
      <4> QED BY <4>2
    <3>4. cmds_acked'[u] = cmds_complete'[u]
      BY <2>1, <2>2 DEF DummyInv, DummyTypes
    <3> QED BY <2>2, <3>2, <3>3, <3>4 DEF OneDummyOf, Putting
  <2>6. \A v \in Units : ~self'[v] => cmds_acked'[v] = cmds_complete'[v]
    BY <2>1, <2>2 DEF DummyInv, DummyTypes
  <2> QED BY <2>3, <2>4, <2>5, <2>6 DEF DummyInv, OneDummy, OneDummyOf
<1>4. CASE CheckOld(u)
  BY <1>4, DummyUntouched DEF CheckOld, counters, exter, dummyVars, DummyInv, DummyTypes
<1> QED BY <1>1, <1>2, <1>3, <1>4 DEF Process

LEMMA HelperDummy ==
  ASSUME DummyInv, Helper PROVE DummyInv'
<1>1. CASE HelperFirst
  BY <1>1 DEF HelperFirst, counters, DummyInv, DummyTypes, OneDummy, Putting, Dummies
<1>2. CASE HelperFindsUnit
  <2>1. PICK u \in unit_no .. NUnits :
           /\ NeedsMessage(u)
           /\ cmds_acked' = [cmds_acked EXCEPT ![u] = cmds_sent[u]]
           /\ unit_no' = u + 1
    BY <1>2 DEF HelperFindsUnit
  <2>2. /\ hpc = "helper" /\ hpc' = "put"
        /\ UNCHANGED <<self, cmds_sent, cmds_complete, port>>
    BY <1>2 DEF HelperFindsUnit
  <2>3. u \in Units
    BY <2>1, FilesysAssumption DEF DummyInv, DummyTypes, Units
  <2>4. DummyTypes'
    BY <2>1, <2>2, <2>3 DEF DummyInv, DummyTypes, Units
  <2>5. ASSUME NEW v \in Units, v # u PROVE OneDummyOf(v)'
    BY <2>1, <2>2, <2>3, <2>5 DEF DummyInv, DummyTypes, OneDummy, OneDummyOf, Putting, Dummies,
       Units
  <2>6. OneDummyOf(u)'
    BY <2>1, <2>2, <2>3 DEF DummyInv, DummyTypes, OneDummy, OneDummyOf, Putting, Dummies,
       NeedsMessage
  <2>7. \A v \in Units : ~self'[v] => cmds_acked'[v] = cmds_complete'[v]
    BY <2>1, <2>2, <2>3 DEF DummyInv, DummyTypes, NeedsMessage
  <2> QED BY <2>4, <2>5, <2>6, <2>7 DEF DummyInv, OneDummy, OneDummyOf
<1>3. CASE PutMsg
  <2>1. PICK u \in Units : unit_no = u + 1
    <3>1. hpc = "put"
      BY <1>3 DEF PutMsg
    <3> QED BY <3>1 DEF DummyInv, DummyTypes
  <2>2. u = unit_no - 1 /\ port[u] \in Seq(Packets \cup {Dummy})
    BY <2>1 DEF DummyInv, DummyTypes, Units
  <2>3. /\ hpc = "put" /\ hpc' = "helper"
        /\ port' = [port EXCEPT ![u] = Append(@, Dummy)]
        /\ UNCHANGED <<self, cmds_sent, cmds_acked, cmds_complete, unit_no>>
    BY <1>3, <2>2 DEF PutMsg, counters
  <2>4. DummyTypes'
    BY <2>2, <2>3, <2>1 DEF DummyInv, DummyTypes
  <2>5. ASSUME NEW v \in Units, v # u PROVE OneDummyOf(v)'
    BY <2>3, <2>1, <2>5 DEF DummyInv, DummyTypes, OneDummy, OneDummyOf, Putting, Dummies, Units
  <2>6. OneDummyOf(u)'
    <3>1. Dummies(u) = {} /\ cmds_acked[u] # cmds_complete[u]
      BY <2>3, <2>1 DEF DummyInv, OneDummy, Putting
    <3>2. Dummies(u)' = {Len(port[u]) + 1}
      <4>1. port'[u] = Append(port[u], Dummy)
        BY <2>3 DEF DummyInv, DummyTypes
      <4>2. \A i : (i \in DOMAIN port'[u] /\ port'[u][i] = Dummy)
                   <=> ((i \in DOMAIN port[u] /\ port[u][i] = Dummy) \/ i = Len(port[u]) + 1)
        BY <2>2, <4>1, AppendPlaces
      <4> QED BY <3>1, <4>2 DEF Dummies
    <3> QED BY <2>3, <3>1, <3>2 DEF OneDummyOf, Putting
  <2>7. \A v \in Units : ~self'[v] => cmds_acked'[v] = cmds_complete'[v]
    BY <2>3 DEF DummyInv
  <2> QED BY <2>4, <2>5, <2>6, <2>7 DEF DummyInv, OneDummy, OneDummyOf
<1>4. CASE HelperDone
  BY <1>4, FilesysAssumption
     DEF HelperDone, counters, DummyInv, DummyTypes, OneDummy, Putting, Dummies
<1> QED BY <1>1, <1>2, <1>3, <1>4 DEF Helper

LEMMA ThreadDummy ==
  ASSUME DummyInv, NEW u \in Units, Thread(u) PROVE DummyInv'
<1>1. UNCHANGED dummyVars
  BY DEF Thread, ReadPipe, Handle, Mark, RequestInterrupt, counters, exter, dummyVars
<1>2. cmds_sent' \in [Units -> Nat]
  <2>1. cmds_sent \in [Units -> Nat] /\ cmds_sent[u] + 1 \in Nat
    BY DEF DummyInv, DummyTypes
  <2>2. cmds_sent' = cmds_sent \/ cmds_sent' = [cmds_sent EXCEPT ![u] = cmds_sent[u] + 1]
    BY DEF Thread, ReadPipe, Handle, Mark, RequestInterrupt, counters
  <2> QED BY <2>1, <2>2
<1> QED BY <1>1, <1>2, DummyUntouched

LEMMA ResetDummy == Reset => DummyInv'
BY FilesysAssumption
   DEF Reset, DummyInv, DummyTypes, OneDummy, Everywhere, Putting, Dummies, Units

LEMMA NextDummy ==
  ASSUME DummyInv, [Next]_vars PROVE DummyInv'
<1> USE DEF counters, exter
<1>1. ASSUME NEW p \in Packets, SendPacket(p) PROVE DummyInv'
  <2> DEFINE u == UnitOf[p]
  <2>1. u \in Units /\ port[u] \in Seq(Packets \cup {Dummy})
    BY FilesysAssumption DEF DummyInv, DummyTypes
  <2>2. /\ port' = [port EXCEPT ![u] = Append(port[u], p)]
        /\ UNCHANGED <<self, cmds_sent, cmds_acked, cmds_complete, hpc, unit_no>>
    BY <1>1 DEF SendPacket
  <2>3. Append(port[u], p) \in Seq(Packets \cup {Dummy})
    BY <2>1
  <2> HIDE DEF u
  <2> QED BY <2>1, <2>2, <2>3, DummyPackets
<1>2. ASSUME NEW u \in Units, Process(u) \/ Thread(u) PROVE DummyInv'
  BY <1>2, ProcessDummy, ThreadDummy
<1>3. CASE OtherRequest \/ ExterServer \/ PrepareReset \/ NextGoesDown
  BY <1>3, DummyUntouched DEF OtherRequest, ExterServer, PrepareReset, NextGoesDown, GoDown,
     dummyVars, DummyInv, DummyTypes
<1>4. CASE Helper
  BY <1>4, HelperDummy
<1>5. CASE Reset
  BY <1>5, ResetDummy
<1>6. CASE UNCHANGED vars
  BY <1>6, DummyUntouched DEF vars, dummyVars, DummyInv, DummyTypes
<1> QED BY <1>1, <1>2, <1>3, <1>4, <1>5, <1>6 DEF Next

(* The dummy message of a directory is in its port at most once, and is    *)
(* under way exactly while cmds_acked and cmds_complete differ: AmigaDOS   *)
(* lists hold a message once (exter_int_helper, filesys.cpp 7103-7109).    *)
THEOREM DummyPutOnce == Spec => []OneDummy
<1>1. Spec => []DummyInv
  BY InitDummy, NextDummy, PTL DEF Spec
<1>2. DummyInv => OneDummy
  BY DEF DummyInv
<1> QED BY <1>1, <1>2, PTL
=============================================================================
