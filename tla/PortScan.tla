------------------------------ MODULE PortScan ------------------------------
(***************************************************************************)
(* The port scan detector (psdProcessPacket, alertScan and class Host of   *)
(* sniff.cpp): what it remembers of each pair of hosts, and when it raises *)
(* the alarm.                                                              *)
(*                                                                         *)
(* A packet is a TCP packet over IPv4; all others are passed over.  Time   *)
(* is in the unit of MaxDelay, and does not run backwards.  The header of  *)
(* TCP is looked for sizeof(ip) * sizeof(ip) bytes behind that of IP, not  *)
(* sizeof(ip): the port the detector counts is whatever is in memory there.*)
(*                                                                         *)
(* A definition marked "variant" is not the code: it is a mistake that the *)
(* definition after it could have, and that a property has to notice.      *)
(***************************************************************************)
EXTENDS Naturals, FiniteSets, Sequences

CONSTANTS
    Hosts,        \* pairs of a source and a destination
    Ports,
    MaxNumPorts,  \* MAX_NUM_PORTS
    MaxDelay,     \* MAX_DELAY_TIME
    MaxTime,      \* bound: the clock
    MaxPackets    \* bound: packets

ASSUME PortLimit == MaxNumPorts \in Nat /\ MaxNumPorts > 1
ASSUME PortNumbers == IsFiniteSet(Ports)
ASSUME DelayLimit == MaxDelay \in Nat
ASSUME Bounds == MaxTime \in Nat /\ MaxPackets \in Nat

VARIABLES
    now,
    psd,
    hosts,         \* hosts[h]: the Host object of the pair
    scanDetected,
    history,       \* the packets the detector was given, for the properties
    alerts         \* the positions in history of those that raised the alarm

vars == <<now, psd, hosts, scanDetected, history, alerts>>

(* A Host is made when its first packet comes; before that there is none.  *)
(* Its timestamp starts uninitialised, which cannot be told from 0, as     *)
(* there are no ports yet.  It never keeps as many ports as the limit.     *)
Host == [timestamp : 0 .. MaxTime,
         ports : {s \in SUBSET Ports : Cardinality(s) < MaxNumPorts}]
NewHost == [timestamp |-> 0, ports |-> {}]

TypeOK ==
    /\ now \in 0 .. MaxTime
    /\ psd \in BOOLEAN /\ scanDetected \in BOOLEAN
    /\ hosts \in [Hosts -> Host]
    /\ history \in Seq([host : Hosts, port : Ports, time : 0 .. MaxTime])
    /\ alerts \subseteq DOMAIN history

Init ==
    /\ now = 0 /\ psd = FALSE /\ scanDetected = FALSE
    /\ hosts = [h \in Hosts |-> NewHost]
    /\ history = <<>> /\ alerts = {}

-----------------------------------------------------------------------------
(* Host::newPacket.  variant: the pause is not looked at.                  *)
NoPause(host) == FALSE
Paused(host) == now - host.timestamp >= MaxDelay

(* variant: the timestamp is that of the first packet.                     *)
UpdatedOnce(host, port) ==
    [timestamp |-> IF host.ports = {} THEN now ELSE host.timestamp,
     ports |-> (IF Paused(host) THEN {} ELSE host.ports) \cup {port}]
Updated(host, port) ==
    [timestamp |-> now,
     ports |-> (IF Paused(host) THEN {} ELSE host.ports) \cup {port}]

Full(host) == Cardinality(host.ports) >= MaxNumPorts

(* Host::clear.                                                            *)
Cleared(host) == NewHost

(* psdProcessPacket.                                                       *)
Packet(h, port) ==
    LET host == Updated(hosts[h], port) IN
    /\ psd /\ Len(history) < MaxPackets
    /\ history' = Append(history, [host |-> h, port |-> port, time |-> now])
    /\ \/ /\ Full(host)
          /\ hosts' = [hosts EXCEPT ![h] = Cleared(host)]
          /\ scanDetected' = TRUE
          /\ alerts' = alerts \cup {Len(history) + 1}
       \/ /\ ~Full(host)
          /\ hosts' = [hosts EXCEPT ![h] = host]
          /\ UNCHANGED <<scanDetected, alerts>>
    /\ UNCHANGED <<now, psd>>

StartPsd ==
    /\ ~psd /\ psd' = TRUE
    /\ UNCHANGED <<now, hosts, scanDetected, history, alerts>>

(* What the detector remembers outlives a stop.                            *)
StopPsd ==
    /\ psd /\ psd' = FALSE /\ scanDetected' = FALSE
    /\ UNCHANGED <<now, hosts, history, alerts>>

Tick ==
    /\ now < MaxTime /\ now' = now + 1
    /\ UNCHANGED <<psd, hosts, scanDetected, history, alerts>>

Next ==
    \/ StartPsd \/ StopPsd \/ Tick
    \/ \E h \in Hosts, port \in Ports : Packet(h, port)

Spec == Init /\ [][Next]_vars

-----------------------------------------------------------------------------
(* What the detector should have in mind after the first n packets: those  *)
(* of h since its last pause or alarm.                                     *)
Of(h, n) == {i \in 1 .. n : history[i].host = h}

Close(i, j) == history[j].time - history[i].time < MaxDelay

Streak(h, n) ==
    {i \in Of(h, n) :
        /\ \A j \in alerts : j < i \/ j >= n \/ history[j].host # h
        /\ \A j, k \in Of(h, n) :
              (i <= j /\ j < k /\ ~\E l \in Of(h, n) : j < l /\ l < k) => Close(j, k)}

PortsOf(s) == {history[i].port : i \in s}

(* The alarm is raised by exactly the packets that bring the ports counted *)
(* for their pair since its last pause or alarm to the limit               *)
(* (sniff.cpp:50-59, 264-267).                                             *)
AlarmsAreScans ==
    \A n \in 1 .. Len(history) :
        n \in alerts <=>
            Cardinality(PortsOf(Streak(history[n].host, n))) >= MaxNumPorts

(* Between packets a Host holds just the ports of its streak, and none     *)
(* after an alarm, which starts the count afresh (sniff.cpp:61-64, 265).   *)
HostsRememberStreaks ==
    \A h \in Hosts :
        LET n == Len(history) IN
        hosts[h].ports =
            IF \E i \in alerts : history[i].host = h /\ \A j \in Of(h, n) : j <= i
            THEN {} ELSE PortsOf(Streak(h, n))
=============================================================================
