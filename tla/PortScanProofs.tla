--------------------------- MODULE PortScanProofs ---------------------------
(* Proofs about the port scan detector.                                     *)
EXTENDS PortScan, FiniteSetTheorems, SequenceTheorems, TLAPS

(* A Host that is new, or that has just raised the alarm, is below the     *)
(* limit.                                                                  *)
LEMMA NewHostType == NewHost \in Host
<1>1. Cardinality({}) = 0
  BY FS_EmptySet
<1>2. Cardinality({}) < MaxNumPorts
  BY <1>1, PortLimit
<1> QED
  BY <1>2, Bounds DEF NewHost, Host

(* A Host that takes a packet and does not raise the alarm is below the    *)
(* limit.                                                                  *)
LEMMA UpdatedType ==
  ASSUME NEW host \in Host, NEW port \in Ports, now \in 0 .. MaxTime,
         ~Full(Updated(host, port))
  PROVE  Updated(host, port) \in Host
<1> DEFINE s == (IF Paused(host) THEN {} ELSE host.ports) \cup {port}
<1>1. s \in SUBSET Ports
  BY DEF Host
<1>2. IsFiniteSet(s)
  BY <1>1, PortNumbers, FS_Subset
<1>3. Cardinality(s) < MaxNumPorts
  BY <1>2, FS_CardinalityType, PortLimit DEF Full, Updated
<1> QED
  BY <1>1, <1>3 DEF Host, Updated

(* One packet keeps the types, whether it raises the alarm or not.         *)
LEMMA PacketType ==
  ASSUME TypeOK, NEW h \in Hosts, NEW port \in Ports,
         Packet(h, port)
  PROVE  TypeOK'
<1> DEFINE host == Updated(hosts[h], port)
           packet == [host |-> h, port |-> port, time |-> now]
<1> USE DEF TypeOK
<1>1. /\ now' = now /\ psd' = psd
      /\ history' = Append(history, packet)
      /\ packet \in [host : Hosts, port : Ports, time : 0 .. MaxTime]
  BY DEF Packet
<1>2. /\ history' \in Seq([host : Hosts, port : Ports, time : 0 .. MaxTime])
      /\ DOMAIN history' = DOMAIN history \cup {Len(history) + 1}
  BY <1>1
<1>3. CASE Full(host)
  <2>1. /\ hosts' = [hosts EXCEPT ![h] = NewHost]
        /\ scanDetected' = TRUE /\ alerts' = alerts \cup {Len(history) + 1}
    BY <1>3 DEF Packet, Cleared
  <2> QED
    BY <1>1, <1>2, <2>1, NewHostType
<1>4. CASE ~Full(host)
  <2>1. /\ hosts' = [hosts EXCEPT ![h] = host]
        /\ scanDetected' = scanDetected /\ alerts' = alerts
    BY <1>4 DEF Packet
  <2>2. host \in Host
    BY <1>4, UpdatedType
  <2> QED
    BY <1>1, <1>2, <2>1, <2>2
<1> QED
  BY <1>3, <1>4

LEMMA InitType == Init => TypeOK
<1> SUFFICES ASSUME Init PROVE TypeOK
  OBVIOUS
<1>1. hosts \in [Hosts -> Host] /\ now \in 0 .. MaxTime
  BY NewHostType, Bounds DEF Init
<1>2. \A S : <<>> \in Seq(S)
  OBVIOUS
<1> QED
  BY <1>1, <1>2 DEF Init, TypeOK

(* Every variable keeps its type; in particular no Host ever keeps as many *)
(* ports as the limit, whatever the packets, their times and the limits    *)
(* are, and whenever detection is turned off and on (sniff.cpp:50-64,      *)
(* 264-267).                                                               *)
THEOREM TypeCorrect == Spec => []TypeOK
<1>1. Init => TypeOK
  BY InitType
<1>2. TypeOK /\ [Next]_vars => TypeOK'
  <2> SUFFICES ASSUME TypeOK, [Next]_vars
               PROVE  TypeOK'
    OBVIOUS
  <2>1. CASE StartPsd \/ StopPsd \/ UNCHANGED vars
    BY <2>1 DEF StartPsd, StopPsd, vars, TypeOK
  <2>2. CASE Tick
    BY <2>2, Bounds DEF Tick, TypeOK
  <2>3. CASE \E h \in Hosts, port \in Ports : Packet(h, port)
    BY <2>3, PacketType
  <2> QED
    BY <2>1, <2>2, <2>3 DEF Next
<1> QED
  BY <1>1, <1>2, PTL DEF Spec

-----------------------------------------------------------------------------
(* The two conditions of a streak, by name.                                *)
Unalarmed(h, n, i) == \A j \in alerts : j < i \/ j >= n \/ history[j].host # h

Unbroken(h, n, i) ==
    \A j, k \in Of(h, n) :
        (i <= j /\ j < k /\ ~\E l \in Of(h, n) : j < l /\ l < k) => Close(j, k)

LEMMA StreakIs ==
  ASSUME NEW h, NEW n
  PROVE  Streak(h, n) = {i \in Of(h, n) : Unalarmed(h, n, i) /\ Unbroken(h, n, i)}
BY DEF Streak, Unalarmed, Unbroken

(* What one packet adds to the history.                                    *)
Added(h, port) ==
  /\ Len(history) \in Nat /\ Len(history)' = Len(history) + 1
  /\ \A i \in 1 .. Len(history) :
        history[i]' = history[i] /\ history[i].time \in Int
  /\ history'[Len(history) + 1].host = h
  /\ history'[Len(history) + 1].port = port
  /\ history'[Len(history) + 1].time = now
  /\ now \in Int
  /\ alerts \subseteq 1 .. Len(history)
  /\ alerts' = alerts \/ alerts' = alerts \cup {Len(history) + 1}

LEMMA PacketAdds ==
  ASSUME TypeOK, NEW h \in Hosts, NEW port \in Ports, Packet(h, port)
  PROVE  Added(h, port)
<1> DEFINE packet == [host |-> h, port |-> port, time |-> now]
           P == [host : Hosts, port : Ports, time : 0 .. MaxTime]
<1>1. history \in Seq(P) /\ packet \in P /\ history' = Append(history, packet)
      /\ alerts \subseteq DOMAIN history
  BY DEF TypeOK, Packet
<1>2. Len(history) \in Nat /\ DOMAIN history = 1 .. Len(history)
      /\ \A i \in 1 .. Len(history) : history[i] \in P
  BY <1>1, LenProperties, ElementOfSeq
<1>3. Len(history') = Len(history) + 1
      /\ (\A i \in 1 .. Len(history) : history'[i] = history[i])
      /\ history'[Len(history) + 1] = packet
  BY <1>1, AppendProperties
<1>4. \A i \in 1 .. Len(history) : history[i].time \in Int
  BY <1>2, Bounds
<1>5. now \in Int
  BY Bounds DEF TypeOK
<1>6. alerts' = alerts \/ alerts' = alerts \cup {Len(history) + 1}
  BY DEF Packet
<1> QED
  BY <1>1, <1>2, <1>3, <1>4, <1>5, <1>6 DEF Added

(* A packet changes nothing about the streaks that were there before.      *)
LEMMA SameStreak ==
  ASSUME NEW h, NEW port, Added(h, port), NEW g, NEW n \in 0 .. Len(history)
  PROVE  /\ Of(g, n)' = Of(g, n) /\ Streak(g, n)' = Streak(g, n)
         /\ PortsOf(Streak(g, n))' = PortsOf(Streak(g, n))
<1>1. Of(g, n)' = Of(g, n) /\ Of(g, n) \subseteq 1 .. Len(history)
  BY DEF Added, Of
<1>2. \A i \in Of(g, n) : Unbroken(g, n, i)' = Unbroken(g, n, i)
  <2>1. \A j, k \in Of(g, n) : Close(j, k)' = Close(j, k)
    BY <1>1 DEF Added, Close
  <2> QED
    BY <1>1, <2>1 DEF Unbroken
<1>3. \A i \in Of(g, n) : Unalarmed(g, n, i)' <=> Unalarmed(g, n, i)
  <2>1. \A j \in alerts : history[j]' = history[j] /\ j \in alerts'
    BY DEF Added
  <2>2. \A j \in alerts' : j \in alerts \/ j >= n
    BY DEF Added
  <2> QED
    BY <2>1, <2>2 DEF Unalarmed
<1>4. Streak(g, n)' = {i \in Of(g, n)' : Unalarmed(g, n, i)' /\ Unbroken(g, n, i)'}
  BY DEF Streak, Unalarmed, Unbroken
<1>5. Streak(g, n)' = Streak(g, n)
  BY <1>1, <1>2, <1>3, <1>4, StreakIs
<1>6. \A i \in Streak(g, n) : history[i]' = history[i]
  BY <1>1 DEF Added, Streak
<1> QED
  BY <1>1, <1>5, <1>6 DEF PortsOf

(* The last packet of h so far.                                            *)
IsLast(h, m) == m \in Of(h, Len(history)) /\ \A j \in Of(h, Len(history)) : j <= m

(* What a Host remembers, with the time of its last packet, which decides  *)
(* whether the next one comes after a pause.                               *)
Remembers(h) ==
  /\ Of(h, Len(history)) = {} \/ \E m \in Of(h, Len(history)) : IsLast(h, m)
  /\ Of(h, Len(history)) = {} => hosts[h].ports = {}
  /\ \A m \in Of(h, Len(history)) : IsLast(h, m) /\ m \in alerts => hosts[h].ports = {}
  /\ \A m \in Of(h, Len(history)) : IsLast(h, m) /\ m \notin alerts =>
        /\ hosts[h].timestamp = history[m].time
        /\ hosts[h].ports = PortsOf(Streak(h, Len(history)))

PortScanInv ==
  TypeOK /\ AlarmsAreScans /\ \A h \in Hosts : Remembers(h)

(* The packets of h after one more packet of h.                            *)
LEMMA OfGrows ==
  ASSUME NEW h, NEW port, Added(h, port), NEW N, N = Len(history)
  PROVE  /\ N \in Nat /\ N + 1 # N /\ Of(h, N) \subseteq 1 .. N
         /\ Of(h, N + 1)' = Of(h, N) \cup {N + 1}
         /\ \A g : g # h => Of(g, N + 1)' = Of(g, N)
         /\ \A i \in Of(h, N) : i < N + 1 /\ i <= N
<1>1. N \in Nat /\ \A i \in 1 .. N : history'[i] = history[i]
  BY DEF Added
<1>2. history'[N + 1].host = h
  BY DEF Added
<1>3. Of(h, N) \subseteq 1 .. N /\ \A i \in Of(h, N) : i < N + 1 /\ i <= N
  BY <1>1 DEF Of
<1>4. \A i : i \in 1 .. N + 1 <=> i \in 1 .. N \/ i = N + 1
  BY <1>1
<1>5. Of(h, N + 1)' = Of(h, N) \cup {N + 1}
  BY <1>1, <1>2, <1>4 DEF Of
<1>6. \A g : g # h => Of(g, N + 1)' = Of(g, N)
  BY <1>1, <1>2, <1>4 DEF Of
<1> QED
  BY <1>1, <1>3, <1>5, <1>6

(* The packet itself is always in its streak.                              *)
LEMMA InStreak ==
  ASSUME NEW h, NEW port, Added(h, port), NEW N, N = Len(history)
  PROVE  Unalarmed(h, N + 1, N + 1)' /\ Unbroken(h, N + 1, N + 1)'
<1>1. N \in Nat /\ \A j \in alerts' : j <= N + 1 /\ j \in Int
  BY DEF Added
<1>2. Unalarmed(h, N + 1, N + 1)'
  BY <1>1 DEF Unalarmed
<1>3. \A j, k \in Of(h, N + 1)' : ~(N + 1 <= j /\ j < k)
  BY <1>1, OfGrows
<1> QED
  BY <1>2, <1>3 DEF Unbroken

(* A packet that is the first, or the first since an alarm, begins a new   *)
(* streak.                                                                 *)
LEMMA NewStreak ==
  ASSUME NEW h, NEW port, Added(h, port), NEW N, N = Len(history),
         \A i \in Of(h, N) : \E m \in alerts : i <= m /\ history[m].host = h
  PROVE  Streak(h, N + 1)' = {N + 1}
<1>1. \A i \in Of(h, N) : ~Unalarmed(h, N + 1, i)'
  <2> SUFFICES ASSUME NEW i \in Of(h, N) PROVE ~Unalarmed(h, N + 1, i)'
    OBVIOUS
  <2>1. PICK m \in alerts : i <= m /\ history[m].host = h
    OBVIOUS
  <2>2. m \in alerts' /\ m \in 1 .. N /\ history'[m].host = h /\ N \in Nat /\ i \in Int
    BY <2>1, OfGrows DEF Added
  <2> QED
    BY <2>1, <2>2 DEF Unalarmed
<1>2. Streak(h, N + 1)' =
        {i \in Of(h, N + 1)' : Unalarmed(h, N + 1, i)' /\ Unbroken(h, N + 1, i)'}
  BY DEF Streak, Unalarmed, Unbroken
<1> QED
  BY <1>1, <1>2, OfGrows, InStreak

(* Any other packet goes on with the streak, or begins one after a pause.  *)
LEMMA GrownStreak ==
  ASSUME NEW h, NEW port, Added(h, port), NEW N, N = Len(history),
         NEW m \in Of(h, N), IsLast(h, m), m \notin alerts
  PROVE  Streak(h, N + 1)' =
           {N + 1} \cup (IF now - history[m].time < MaxDelay THEN Streak(h, N) ELSE {})
<1>0. /\ N \in Nat /\ Of(h, N) \subseteq 1 .. N /\ m \in 1 .. N
      /\ Of(h, N + 1)' = Of(h, N) \cup {N + 1}
      /\ \A i \in Of(h, N) : i <= m
  BY OfGrows DEF IsLast
<1>1. \A i \in Of(h, N) : Unalarmed(h, N + 1, i)' <=> Unalarmed(h, N, i)
  <2>1. \A j \in alerts : /\ history'[j] = history[j] /\ j \in alerts' /\ j \in 1 .. N
                          /\ history[j].host = h => j < m
    <3>1. \A j \in alerts : j \in 1 .. N /\ history'[j] = history[j] /\ j \in alerts'
      BY DEF Added
    <3>2. \A j \in alerts : history[j].host = h => j \in Of(h, N)
      BY <3>1 DEF Of
    <3> QED
      BY <1>0, <3>1, <3>2
  <2>2. \A j \in alerts' : j \in alerts \/ j = N + 1
    BY DEF Added
  <2>3. ASSUME NEW i \in Of(h, N), Unalarmed(h, N, i) PROVE Unalarmed(h, N + 1, i)'
    BY <1>0, <2>1, <2>2, <2>3 DEF Unalarmed
  <2>4. ASSUME NEW i \in Of(h, N), Unalarmed(h, N + 1, i)' PROVE Unalarmed(h, N, i)
    BY <1>0, <2>1, <2>4 DEF Unalarmed
  <2> QED
    BY <2>3, <2>4
<1>2. /\ \A j, k \in Of(h, N) : Close(j, k)' <=> Close(j, k)
      /\ Close(m, N + 1)' <=> now - history[m].time < MaxDelay
  BY <1>0 DEF Close, Added
<1>3. \A i \in Of(h, N) :
        Unbroken(h, N + 1, i)' <=> Unbroken(h, N, i) /\ Close(m, N + 1)'
  <2>1. ASSUME NEW i \in Of(h, N), Unbroken(h, N, i), Close(m, N + 1)'
        PROVE  Unbroken(h, N + 1, i)'
    <3> SUFFICES ASSUME NEW j \in Of(h, N + 1)', NEW k \in Of(h, N + 1)', i <= j, j < k,
                        ~\E l \in Of(h, N + 1)' : j < l /\ l < k
                 PROVE  Close(j, k)'
      BY DEF Unbroken
    <3>1. CASE k = N + 1
      <4>1. j \in Of(h, N) /\ ~(j < m)
        BY <1>0, <3>1
      <4>2. j = m
        BY <1>0, <4>1
      <4> QED
        BY <2>1, <3>1, <4>2
    <3>2. CASE k \in Of(h, N)
      <4>1. j \in Of(h, N) /\ ~\E l \in Of(h, N) : j < l /\ l < k
        BY <1>0, <3>2
      <4>2. Close(j, k)
        BY <2>1, <3>2, <4>1 DEF Unbroken
      <4> QED
        BY <1>2, <3>2, <4>1, <4>2
    <3> QED
      BY <1>0, <3>1, <3>2
  <2>2. ASSUME NEW i \in Of(h, N), Unbroken(h, N + 1, i)'
        PROVE  Unbroken(h, N, i) /\ Close(m, N + 1)'
    <3>1. Close(m, N + 1)'
      <4>1. i <= m /\ m < N + 1 /\ ~\E l \in Of(h, N + 1)' : m < l /\ l < N + 1
        BY <1>0
      <4>2. m \in Of(h, N + 1)' /\ N + 1 \in Of(h, N + 1)'
        BY <1>0
      <4> QED
        BY <2>2, <4>1, <4>2 DEF Unbroken
    <3>2. Unbroken(h, N, i)
      <4> SUFFICES ASSUME NEW j \in Of(h, N), NEW k \in Of(h, N), i <= j, j < k,
                          ~\E l \in Of(h, N) : j < l /\ l < k
                   PROVE  Close(j, k)
        BY DEF Unbroken
      <4>1. /\ j \in Of(h, N + 1)' /\ k \in Of(h, N + 1)'
            /\ ~\E l \in Of(h, N + 1)' : j < l /\ l < k
        BY <1>0
      <4>2. Close(j, k)'
        BY <2>2, <4>1 DEF Unbroken
      <4> QED
        BY <1>2, <4>2
    <3> QED
      BY <3>1, <3>2
  <2> QED
    BY <2>1, <2>2
<1>4. Streak(h, N + 1)' =
        {i \in Of(h, N + 1)' : Unalarmed(h, N + 1, i)' /\ Unbroken(h, N + 1, i)'}
  BY DEF Streak, Unalarmed, Unbroken
<1>5. Unalarmed(h, N + 1, N + 1)' /\ Unbroken(h, N + 1, N + 1)'
  BY InStreak
<1>6. \A i \in Of(h, N) : i \in Streak(h, N + 1)' <=>
        Unalarmed(h, N, i) /\ Unbroken(h, N, i) /\ now - history[m].time < MaxDelay
  BY <1>0, <1>1, <1>2, <1>3, <1>4
<1>7. \A i \in Of(h, N) : i \in Streak(h, N) <=> Unalarmed(h, N, i) /\ Unbroken(h, N, i)
  BY StreakIs
<1>8. N + 1 \in Streak(h, N + 1)' /\ Streak(h, N + 1)' \subseteq Of(h, N) \cup {N + 1}
      /\ Streak(h, N) \subseteq Of(h, N)
  BY <1>0, <1>4, <1>5, StreakIs
<1> QED
  BY <1>6, <1>7, <1>8

(* A packet of another pair does not disturb a streak.                     *)
LEMMA OtherStreak ==
  ASSUME NEW h, NEW port, Added(h, port), NEW N, N = Len(history),
         NEW g, g # h, NEW m \in Of(g, N), IsLast(g, m), m \notin alerts
  PROVE  Streak(g, N + 1)' = Streak(g, N)
<1>a. N \in Nat /\ \A x : x # h => Of(x, N + 1)' = Of(x, N)
  BY OfGrows
<1>b. Of(g, N) \subseteq 1 .. N /\ \A i \in Of(g, N) : i <= m
  BY DEF IsLast, Of
<1>0. /\ N \in Nat /\ Of(g, N) \subseteq 1 .. N /\ Of(g, N + 1)' = Of(g, N)
      /\ \A i \in Of(g, N) : i <= m
  BY <1>a, <1>b
<1>1. \A i \in Of(g, N) : Unalarmed(g, N + 1, i)' <=> Unalarmed(g, N, i)
  <2>1. \A j \in alerts : /\ history'[j] = history[j] /\ j \in alerts' /\ j \in 1 .. N
                          /\ history[j].host = g => j < m
    <3>1. \A j \in alerts : j \in 1 .. N /\ history'[j] = history[j] /\ j \in alerts'
      BY DEF Added
    <3>2. \A j \in alerts : history[j].host = g => j \in Of(g, N)
      BY <3>1 DEF Of
    <3> QED
      BY <1>0, <3>1, <3>2
  <2>2. \A j \in alerts' : j \in alerts \/ j = N + 1
    BY DEF Added
  <2>3. ASSUME NEW i \in Of(g, N), Unalarmed(g, N, i) PROVE Unalarmed(g, N + 1, i)'
    BY <1>0, <2>1, <2>2, <2>3 DEF Unalarmed
  <2>4. ASSUME NEW i \in Of(g, N), Unalarmed(g, N + 1, i)' PROVE Unalarmed(g, N, i)
    BY <1>0, <2>1, <2>4 DEF Unalarmed
  <2> QED
    BY <2>3, <2>4
<1>2. \A j, k \in Of(g, N) : Close(j, k)' <=> Close(j, k)
  BY <1>0 DEF Close, Added
<1>3. \A i \in Of(g, N) : Unbroken(g, N + 1, i)' <=> Unbroken(g, N, i)
  BY <1>0, <1>2 DEF Unbroken
<1>4. Streak(g, N + 1)' =
        {i \in Of(g, N + 1)' : Unalarmed(g, N + 1, i)' /\ Unbroken(g, N + 1, i)'}
  BY DEF Streak, Unalarmed, Unbroken
<1> QED
  BY <1>0, <1>1, <1>3, <1>4, StreakIs

(* What the Host has after newPacket are the ports of the new streak.      *)
LEMMA UpdatedRemembers ==
  ASSUME NEW h, NEW port, Added(h, port), NEW N, N = Len(history), Remembers(h)
  PROVE  PortsOf(Streak(h, N + 1))' = Updated(hosts[h], port).ports
<1> DEFINE host == hosts[h]
<1>0. /\ history'[N + 1].port = port /\ now \in Int /\ N \in Nat
      /\ \A i \in 1 .. N : history'[i] = history[i] /\ history[i].time \in Int
  BY DEF Added
<1>1. Updated(host, port).ports = (IF Paused(host) THEN {} ELSE host.ports) \cup {port}
  BY DEF Updated
<1>2. \A i \in Of(h, N) : i \in 1 .. N /\ history[i].host = h
  BY DEF Of
<1>3. CASE \/ Of(h, N) = {}
           \/ \E m \in Of(h, N) : IsLast(h, m) /\ m \in alerts
  <2>1. host.ports = {}
    BY <1>3 DEF Remembers
  <2>2. \A i \in Of(h, N) : \E m \in alerts : i <= m /\ history[m].host = h
    BY <1>2, <1>3 DEF IsLast
  <2>3. Streak(h, N + 1)' = {N + 1}
    BY <2>2, NewStreak
  <2> QED
    BY <1>0, <1>1, <2>1, <2>3 DEF PortsOf
<1>4. ASSUME NEW m \in Of(h, N), IsLast(h, m), m \notin alerts
      PROVE  PortsOf(Streak(h, N + 1))' = Updated(hosts[h], port).ports
  <2>1. host.timestamp = history[m].time /\ host.ports = PortsOf(Streak(h, N))
    BY <1>4 DEF Remembers
  <2>2. Paused(host) <=> ~(now - history[m].time < MaxDelay)
    BY <1>0, <1>2, <2>1, DelayLimit DEF Paused
  <2>3. Streak(h, N + 1)' =
          {N + 1} \cup (IF now - history[m].time < MaxDelay THEN Streak(h, N) ELSE {})
    BY <1>4, GrownStreak
  <2>4. \A i \in Streak(h, N) : history'[i] = history[i]
    BY <1>0, <1>2 DEF Streak
  <2>5. {history'[i].port : i \in Streak(h, N)} = PortsOf(Streak(h, N))
    BY <2>4 DEF PortsOf
  <2>6. CASE Paused(host)
    BY <1>0, <1>1, <2>2, <2>3, <2>6 DEF PortsOf
  <2>7. CASE ~Paused(host)
    <3>1. Streak(h, N + 1)' = {N + 1} \cup Streak(h, N)
      BY <2>2, <2>3, <2>7
    <3>2. PortsOf(Streak(h, N + 1))' = {port} \cup {history'[i].port : i \in Streak(h, N)}
      BY <1>0, <3>1 DEF PortsOf
    <3> QED
      BY <1>1, <2>1, <2>5, <2>7, <3>2
  <2> QED
    BY <2>6, <2>7
<1> QED
  BY <1>3, <1>4 DEF Remembers

(* One packet keeps the alarms exact and every Host up to date.            *)
LEMMA PacketStep ==
  ASSUME PortScanInv, NEW h \in Hosts, NEW port \in Ports, Packet(h, port)
  PROVE  PortScanInv'
<1>0. TypeOK /\ AlarmsAreScans /\ \A g \in Hosts : Remembers(g)
  BY DEF PortScanInv
<1>1. Added(h, port)
  BY <1>0, PacketAdds
<1>2. TypeOK'
  BY <1>0, PacketType
<1>a. PICK N : N = Len(history)
  OBVIOUS
<1>b. PICK host : host = Updated(hosts[h], port)
  OBVIOUS
<1>3. /\ N \in Nat /\ Len(history)' = N + 1
      /\ \A i \in 1 .. N : history'[i] = history[i]
      /\ history'[N + 1].host = h /\ history'[N + 1].time = now
      /\ alerts \subseteq 1 .. N
  BY <1>1, <1>a DEF Added
<1>4. /\ hosts' = [hosts EXCEPT ![h] = IF Full(host) THEN NewHost ELSE host]
      /\ alerts' = IF Full(host) THEN alerts \cup {N + 1} ELSE alerts
  <2>1. CASE Full(host)
    BY <1>a, <1>b, <2>1 DEF Packet, Cleared
  <2>2. CASE ~Full(host)
    BY <1>a, <1>b, <2>2 DEF Packet
  <2> QED
    BY <2>1, <2>2
<1>5. PortsOf(Streak(h, N + 1))' = host.ports
  BY <1>0, <1>1, <1>a, <1>b, UpdatedRemembers
<1>6. N + 1 \in alerts' <=> Full(host)
  BY <1>3, <1>4
<1>7. AlarmsAreScans'
  <2>1. ASSUME NEW n \in 1 .. N, NEW g, g = history[n].host
        PROVE  n \in alerts' <=> Cardinality(PortsOf(Streak(g, n))') >= MaxNumPorts
    <3>1. n \in alerts' <=> n \in alerts
      BY <1>3, <1>4
    <3>2. n \in 0 .. Len(history) /\ n \in 1 .. Len(history)
      BY <1>3, <1>a
    <3>3. PortsOf(Streak(g, n))' = PortsOf(Streak(g, n))
      BY <1>1, <3>2, SameStreak
    <3>4. n \in alerts <=> Cardinality(PortsOf(Streak(g, n))) >= MaxNumPorts
      BY <1>0, <2>1, <3>2 DEF AlarmsAreScans
    <3> QED
      BY <3>1, <3>3, <3>4
  <2>2. N + 1 \in alerts' <=> Cardinality(PortsOf(Streak(h, N + 1))') >= MaxNumPorts
    BY <1>5, <1>6 DEF Full
  <2>3. ASSUME NEW n \in (1 .. Len(history))', NEW g, g = history'[n].host
        PROVE  n \in alerts' <=> Cardinality(PortsOf(Streak(g, n))') >= MaxNumPorts
    <3>1. n \in 1 .. N \/ n = N + 1
      BY <1>3
    <3>2. CASE n \in 1 .. N
      BY <1>3, <2>1, <2>3, <3>2
    <3>3. CASE n = N + 1
      BY <1>3, <2>2, <2>3, <3>3
    <3> QED
      BY <3>1, <3>2, <3>3
  <2> QED
    BY <2>3 DEF AlarmsAreScans
<1>8. Remembers(h)'
  <2>1. Of(h, N + 1)' = Of(h, N) \cup {N + 1} /\ Of(h, N) \subseteq 1 .. N
        /\ \A i \in Of(h, N) : i <= N + 1 /\ i # N + 1
    BY <1>1, <1>a, OfGrows
  <2>2. hosts'[h] = IF Full(host) THEN NewHost ELSE host
    BY <1>0, <1>4 DEF TypeOK
  <2>3. \A m \in Of(h, N + 1)' : (\A j \in Of(h, N + 1)' : j <= m) <=> m = N + 1
    BY <1>3, <2>1
  <2>4. Full(host) => hosts'[h].ports = {}
    BY <2>2 DEF NewHost
  <2>5. ~Full(host) => /\ hosts'[h].timestamp = history'[N + 1].time
                       /\ hosts'[h].ports = PortsOf(Streak(h, N + 1))'
    BY <1>3, <1>5, <1>b, <2>2 DEF Updated
  <2> QED
    BY <1>3, <1>6, <2>1, <2>3, <2>4, <2>5 DEF Remembers, IsLast
<1>9. ASSUME NEW g \in Hosts, g # h PROVE Remembers(g)'
  <2>1. Of(g, N + 1)' = Of(g, N)
    BY <1>1, <1>9, <1>a, OfGrows
  <2>2. hosts'[g] = hosts[g]
    BY <1>0, <1>4, <1>9 DEF TypeOK
  <2>3. Of(g, N) \subseteq 1 .. N
    BY DEF Of
  <2>4. \A m \in Of(g, N) : history'[m] = history[m] /\ (m \in alerts' <=> m \in alerts)
    BY <1>3, <1>4, <2>3
  <2>5. ASSUME NEW m \in Of(g, N), IsLast(g, m), m \notin alerts
        PROVE  PortsOf(Streak(g, N + 1))' = PortsOf(Streak(g, N))
    <3>1. Streak(g, N + 1)' = Streak(g, N)
      BY <1>1, <1>9, <1>a, <2>5, OtherStreak
    <3>2. \A i \in Streak(g, N) : history'[i] = history[i]
      BY <1>3, <2>3 DEF Streak
    <3> QED
      BY <3>1, <3>2 DEF PortsOf
  <2> QED
    BY <1>0, <1>3, <1>a, <2>1, <2>2, <2>4, <2>5 DEF Remembers, IsLast
<1> QED
  BY <1>2, <1>7, <1>8, <1>9 DEF PortScanInv

(* Every other step leaves the packets, the alarms and the Hosts alone.    *)
LEMMA QuietStep ==
  ASSUME PortScanInv, TypeOK', UNCHANGED <<hosts, history, alerts>>
  PROVE  PortScanInv'
<1>1. AlarmsAreScans' <=> AlarmsAreScans
  BY DEF AlarmsAreScans, PortsOf, Streak, Of, Close
<1>2. \A h \in Hosts : Remembers(h)' <=> Remembers(h)
  BY DEF Remembers, IsLast, PortsOf, Streak, Of, Close
<1> QED
  BY <1>1, <1>2 DEF PortScanInv

LEMMA InvStep == PortScanInv /\ [Next]_vars => PortScanInv'
<1> SUFFICES ASSUME PortScanInv, [Next]_vars PROVE PortScanInv'
  OBVIOUS
<1>1. TypeOK
  BY DEF PortScanInv
<1>2. CASE StartPsd \/ StopPsd \/ UNCHANGED vars
  <2>1. TypeOK'
    BY <1>1, <1>2 DEF StartPsd, StopPsd, vars, TypeOK
  <2> QED
    BY <1>2, <2>1, QuietStep DEF StartPsd, StopPsd, vars
<1>3. CASE Tick
  <2>1. TypeOK'
    BY <1>1, <1>3, Bounds DEF Tick, TypeOK
  <2> QED
    BY <1>3, <2>1, QuietStep DEF Tick
<1>4. CASE \E h \in Hosts, port \in Ports : Packet(h, port)
  BY <1>4, PacketStep
<1> QED
  BY <1>2, <1>3, <1>4 DEF Next

LEMMA InitInv == Init => PortScanInv
<1> SUFFICES ASSUME Init PROVE PortScanInv
  OBVIOUS
<1>1. TypeOK
  BY InitType
<1>2. Len(history) = 0
  BY DEF Init
<1>3. AlarmsAreScans
  BY <1>2 DEF AlarmsAreScans
<1>4. ASSUME NEW h \in Hosts PROVE Remembers(h)
  <2>1. Of(h, Len(history)) = {}
    BY <1>2 DEF Of
  <2>2. hosts[h].ports = {}
    BY DEF Init, NewHost
  <2> QED
    BY <2>1, <2>2 DEF Remembers
<1> QED
  BY <1>1, <1>3, <1>4 DEF PortScanInv

(* An alarm is raised by just those packets that bring the ports of their  *)
(* pair since its last pause or alarm to the limit (sniff.cpp:50-59,       *)
(* 264-267).                                                               *)
THEOREM AlarmsExact == Spec => []AlarmsAreScans
<1>1. PortScanInv => AlarmsAreScans
  BY DEF PortScanInv
<1> QED
  BY InitInv, InvStep, <1>1, PTL DEF Spec

(* Between packets a Host holds the ports of its streak, however its       *)
(* packets are mixed with those of other pairs, and also while detection   *)
(* is off (sniff.cpp:61-64, 265).                                          *)
THEOREM StreaksRemembered == Spec => []HostsRememberStreaks
<1>1. PortScanInv => HostsRememberStreaks
  <2> SUFFICES ASSUME PortScanInv, NEW h \in Hosts, NEW n, n = Len(history)
               PROVE  hosts[h].ports =
                        IF \E i \in alerts : history[i].host = h /\ \A j \in Of(h, n) : j <= i
                        THEN {} ELSE PortsOf(Streak(h, n))
    BY DEF HostsRememberStreaks
  <2>1. Remembers(h) /\ alerts \subseteq 1 .. n
    BY DEF PortScanInv, TypeOK
  <2>2. \A i \in alerts : history[i].host = h => i \in Of(h, n)
    BY <2>1 DEF Of
  <2>3. CASE Of(h, n) = {}
    <3>1. Streak(h, n) = {}
      BY <2>3 DEF Streak
    <3> QED
      BY <2>1, <2>3, <3>1 DEF Remembers, PortsOf
  <2>4. CASE \E m \in Of(h, n) : IsLast(h, m)
    <3>1. PICK m \in Of(h, n) : IsLast(h, m)
      BY <2>4
    <3>2. history[m].host = h /\ \A j \in Of(h, n) : j <= m
      BY <3>1 DEF IsLast, Of
    <3>3. CASE m \in alerts
      BY <2>1, <3>1, <3>2, <3>3 DEF Remembers
    <3>4. CASE m \notin alerts
      <4>1. Of(h, n) \subseteq 1 .. n
        BY DEF Of
      <4>2. ~\E i \in alerts : history[i].host = h /\ \A j \in Of(h, n) : j <= i
        BY <2>1, <2>2, <3>1, <3>2, <3>4, <4>1
      <4> QED
        BY <2>1, <3>1, <3>4, <4>2 DEF Remembers
    <3> QED
      BY <3>3, <3>4
  <2> QED
    BY <2>1, <2>3, <2>4 DEF Remembers
<1> QED
  BY InitInv, InvStep, <1>1, PTL DEF Spec
=============================================================================
