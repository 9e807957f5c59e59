----------------------------- MODULE PacketRing -----------------------------
(***************************************************************************)
(* The recent packets of the sniffer (sniff.cpp): capture threads shift    *)
(* them, put the newest into slot 0 and print it to the text log, while    *)
(* the display thread prints all the slots.  Nothing is locked, every      *)
(* pointer is read and written on its own, in the order of the source (the *)
(* tool is compiled without optimisation).  What comes of two capture      *)
(* threads in the middle of a packet at once, one cancelled and one just   *)
(* started, is undefined and not modelled: the model ends where it begins. *)
(* localtime returns a pointer to the one struct tm of the process, which  *)
(* any other thread that asks for a time overwrites.                       *)
(*                                                                         *)
(* A packet is its number, and a pointer to its header or its bytes too;   *)
(* 0 is NULL.  Printing an IPv6 packet turns four of its bytes around, in  *)
(* which the source address begins: printed again they are right again.    *)
(*                                                                         *)
(* A definition marked "variant" is not the code: it is a mistake that the *)
(* definition after it could have, and that a property has to notice.      *)
(***************************************************************************)
EXTENDS Naturals

CONSTANTS
    Slots,      \* recent packets kept (5 in the code)
    IPv6,       \* which packets are IPv6
    Threads,    \* bound: capture threads, each created by a start
    MaxPackets, \* bound: packets captured
    Display     \* the display thread

ASSUME Numbers == Slots \in Nat \ {0} /\ MaxPackets \in Nat /\ IPv6 \subseteq Nat
ASSUME Apart == Display \notin Threads

VARIABLES
    recentHdrs, recentPkts,
    captured,      \* packets captured so far
    hdrBlock, pktBlock,   \* what is in the memory allocated for a packet
    turned,        \* packets in memory with four bytes turned around
    at,            \* where a thread is
    packet, i,     \* the packet a capture thread stores, its and display's i
    hdr, pkt,      \* pkthdr and packet of printPacket
    cancelled,
    crashed,       \* threads that brought the process down
    misprinted,    \* packets whose row in the text log is not theirs
    tm,            \* the packet whose time localtime's struct tm holds
    mistimed,      \* packets whose row in the text log has another time
    retimed,       \* history: packets whose time was overwritten before it
                   \* was formatted
    mixed,         \* two capture threads were about to store at once
    peeked,        \* history: packets displayed before they were logged
    before         \* history: packets stored when the display began a frame

ring    == <<recentHdrs, recentPkts>>
blocks  == <<hdrBlock, pktBlock, turned>>
print   == <<hdr, pkt>>
threads == <<at, packet, i, print, cancelled>>
time    == <<tm, mistimed, retimed>>
history == <<mixed, peeked, before>>
vars == <<ring, captured, blocks, threads, crashed, misprinted, time, history>>

Packets == 1 .. MaxPackets
Index == 0 .. Slots - 1
Pointer == Packets \cup {0}
All == Threads \cup {Display}

Storing == {"shiftHdr", "shiftPkt", "newHdr", "newPkt", "copyHdr", "copyPkt",
            "hdr", "pkt", "time", "format"}

TypeOK ==
    /\ recentHdrs \in [Index -> Pointer] /\ recentPkts \in [Index -> Pointer]
    /\ captured \in 0 .. MaxPackets
    /\ hdrBlock \in [Packets -> Pointer] /\ pktBlock \in [Packets -> Pointer]
    /\ turned \subseteq Packets
    /\ at \in [All -> Storing \cup {"off", "wait", "dead"}]
    /\ packet \in [Threads -> Pointer] /\ i \in [All -> Index]
    /\ hdr \in [All -> Pointer] /\ pkt \in [All -> Pointer]
    /\ cancelled \subseteq Threads /\ crashed \subseteq All
    /\ misprinted \subseteq Packets /\ peeked \subseteq Packets
    /\ tm \in Pointer /\ mistimed \subseteq Packets /\ retimed \subseteq Pointer
    /\ mixed \in BOOLEAN /\ before \in 0 .. MaxPackets

Init ==
    /\ recentHdrs = [k \in Index |-> 0] /\ recentPkts = [k \in Index |-> 0]
    /\ captured = 0 /\ turned = {}
    /\ hdrBlock = [p \in Packets |-> 0] /\ pktBlock = [p \in Packets |-> 0]
    /\ at = [x \in All |-> IF x = Display THEN "wait" ELSE "off"]
    /\ packet = [t \in Threads |-> 0] /\ i = [x \in All |-> 0]
    /\ hdr = [x \in All |-> 0] /\ pkt = [x \in All |-> 0]
    /\ cancelled = {} /\ crashed = {} /\ misprinted = {}
    /\ tm = 0 /\ mistimed = {} /\ retimed = {}
    /\ mixed = FALSE /\ peeked = {} /\ before = 0

goto(x, label) == at' = [at EXCEPT ![x] = label]
Runs == crashed = {} /\ ~mixed
IsAt(x, label) == Runs /\ at[x] = label

-----------------------------------------------------------------------------
(* start_sniff, when no sniffer runs; the capture thread of the last start *)
(* may not have ended yet.                                                 *)
Start(t) ==
    /\ IsAt(t, "off")
    /\ \A u \in Threads : at[u] \in {"off", "dead"} \/ u \in cancelled
    /\ goto(t, "wait")
    /\ UNCHANGED <<ring, captured, blocks, packet, i, print, cancelled,
                   crashed, misprinted, time, history>>

(* stop_sniff does not wait for the thread it cancels.                     *)
Stop(t) ==
    /\ Runs /\ at[t] \notin {"off", "dead"} /\ t \notin cancelled
    /\ cancelled' = cancelled \cup {t}
    /\ UNCHANGED <<ring, captured, blocks, at, packet, i, print, crashed,
                   misprinted, time, history>>

(* A thread ends at a cancellation point; processPacket has none.          *)
EndThread(t) ==
    /\ IsAt(t, "wait") /\ t \in cancelled
    /\ goto(t, "dead")
    /\ UNCHANGED <<ring, captured, blocks, packet, i, print, cancelled,
                   crashed, misprinted, time, history>>

-----------------------------------------------------------------------------
(* processPacket.  libpcap hands on what it has before it comes to a       *)
(* cancellation point, so a cancelled thread may still get packets.        *)
Receive(t) ==
    /\ IsAt(t, "wait") /\ captured < MaxPackets
    /\ captured' = captured + 1
    /\ packet' = [packet EXCEPT ![t] = captured + 1]
    /\ i' = [i EXCEPT ![t] = Slots - 1]
    /\ goto(t, IF Slots > 1 THEN "shiftHdr" ELSE "newHdr")
    /\ mixed' = (\E u \in Threads \ {t} : at[u] \in Storing)
    /\ UNCHANGED <<ring, blocks, print, cancelled, crashed, misprinted, time,
                   peeked, before>>

(* variant: the slots are shifted from slot 1 on, each over the next.      *)
Ascending(t) == Slots - i[t]
Descending(t) == i[t]

ShiftHdr(t) ==
    LET k == Descending(t) IN
    /\ IsAt(t, "shiftHdr")
    /\ goto(t, "shiftPkt")
    /\ recentHdrs' = [recentHdrs EXCEPT ![k] = recentHdrs[k - 1]]
    /\ UNCHANGED <<recentPkts, blocks, i>>

ShiftPkt(t) ==
    LET k == Descending(t) IN
    /\ IsAt(t, "shiftPkt")
    /\ goto(t, IF i[t] > 1 THEN "shiftHdr" ELSE "newHdr")
    /\ recentPkts' = [recentPkts EXCEPT ![k] = recentPkts[k - 1]]
    /\ i' = [i EXCEPT ![t] = @ - 1]
    /\ UNCHANGED <<recentHdrs, blocks>>

NewHdr(t) ==
    /\ IsAt(t, "newHdr")
    /\ goto(t, "newPkt")
    /\ recentHdrs' = [recentHdrs EXCEPT ![0] = packet[t]]
    /\ UNCHANGED <<recentPkts, blocks, i>>

NewPkt(t) ==
    /\ IsAt(t, "newPkt")
    /\ goto(t, "copyHdr")
    /\ recentPkts' = [recentPkts EXCEPT ![0] = packet[t]]
    /\ UNCHANGED <<recentHdrs, blocks, i>>

(* malloc leaves the memory as it was; memcpy fills what slot 0 points to  *)
(* by then.                                                                *)
CopyHdr(t) ==
    /\ IsAt(t, "copyHdr")
    /\ goto(t, "copyPkt")
    /\ hdrBlock' = [hdrBlock EXCEPT ![recentHdrs[0]] = packet[t]]
    /\ UNCHANGED <<ring, pktBlock, turned, i>>

(* variant: the row is printed before the bytes are copied.                *)
PrintsFirst(t) == goto(t, "hdr") /\ UNCHANGED pktBlock
CopyBytes(t) ==
    /\ goto(t, "hdr")
    /\ pktBlock' = [pktBlock EXCEPT ![recentPkts[0]] = packet[t]]

CopyPkt(t) ==
    /\ IsAt(t, "copyPkt")
    /\ CopyBytes(t)
    /\ turned' = turned \ {recentPkts[0]}
    /\ UNCHANGED <<ring, hdrBlock, i>>

Store(t) ==
    /\ \/ ShiftHdr(t) \/ ShiftPkt(t) \/ NewHdr(t) \/ NewPkt(t)
       \/ CopyHdr(t) \/ CopyPkt(t)
    /\ UNCHANGED <<captured, packet, print, cancelled, crashed, misprinted, time,
                   history>>

-----------------------------------------------------------------------------
(* printPacket(state, i), of any thread x: it reads the two pointers ...   *)
ReadHdr(x) ==
    /\ IsAt(x, "hdr")
    /\ goto(x, "pkt")
    /\ hdr' = [hdr EXCEPT ![x] = recentHdrs[i[x]]]
    /\ UNCHANGED <<ring, captured, blocks, packet, i, pkt, cancelled,
                   crashed, misprinted, time, history>>

ReadPkt(x) ==
    /\ IsAt(x, "pkt")
    /\ goto(x, "time")
    /\ pkt' = [pkt EXCEPT ![x] = recentPkts[i[x]]]
    /\ UNCHANGED <<ring, captured, blocks, packet, i, hdr, cancelled,
                   crashed, misprinted, time, history>>

(* ... then has localtime put the time of the header into the struct tm,   *)
(* under whatever another thread was about to format ...                   *)
SetTime(x, p) ==
    /\ tm' = p
    /\ retimed' = retimed \cup
         {packet[t] : t \in {u \in Threads \ {x} : at[u] = "format"}}

TakeTime(x) ==
    /\ IsAt(x, "time")
    /\ goto(x, "format")
    /\ IF hdr[x] = 0 THEN UNCHANGED <<tm, retimed>> ELSE SetTime(x, hdrBlock[hdr[x]])
    /\ UNCHANGED <<ring, captured, blocks, packet, i, print, cancelled,
                   crashed, misprinted, mistimed, history>>

(* The alert of a scan, and every entry of a case's log, take a time too,  *)
(* which is no packet's.                                                   *)
OtherTime ==
    /\ Runs /\ \E t \in Threads : at[t] = "format"
    /\ SetTime(Display, 0)
    /\ UNCHANGED <<ring, captured, blocks, threads, crashed, misprinted, mistimed,
                   history>>

(* ... and formats it, with the rest.  Without a header the row is blank;  *)
(* a header without bytes is a null pointer, and the time in a header not  *)
(* yet copied may be one that localtime has no answer for.                 *)
Fails(x) == hdr[x] # 0 /\ pkt[x] = 0
NoAnswer(x) == hdr[x] # 0 /\ hdrBlock[hdr[x]] = 0

Fail(x) ==
    /\ \/ IsAt(x, "time") /\ NoAnswer(x)
       \/ IsAt(x, "format") /\ Fails(x)
    /\ crashed' = {x}
    /\ UNCHANGED <<ring, captured, blocks, threads, misprinted, time, history>>

(* nextHeader is converted where it stands in the packet.                  *)
Turn(x) ==
    turned' = IF hdr[x] # 0 /\ pktBlock[pkt[x]] \in IPv6
              THEN (turned \ {pkt[x]}) \cup ({pkt[x]} \ turned) ELSE turned

Genuine(x, p) ==
    /\ hdr[x] # 0 /\ hdrBlock[hdr[x]] = p
    /\ pktBlock[pkt[x]] = p /\ pkt[x] \notin turned

(* The local variables of printPacket are gone when it returns.            *)
Return(x) == hdr' = [hdr EXCEPT ![x] = 0] /\ pkt' = [pkt EXCEPT ![x] = 0]

(* The row of a capture thread goes to the text log.                       *)
LogRow(t) ==
    /\ IsAt(t, "format") /\ ~Fails(t)
    /\ Turn(t) /\ Return(t)
    /\ goto(t, "wait")
    /\ packet' = [packet EXCEPT ![t] = 0]
    /\ misprinted' = IF Genuine(t, packet[t]) THEN misprinted
                     ELSE misprinted \cup {packet[t]}
    /\ mistimed' = IF tm = packet[t] THEN mistimed ELSE mistimed \cup {packet[t]}
    /\ UNCHANGED <<ring, captured, hdrBlock, pktBlock, i, cancelled,
                   crashed, tm, retimed, history>>

(* updateDisplay: a frame is a row for every slot, the oldest first.       *)
Stored == captured - (IF \E t \in Threads : at[t] \in Storing THEN 1 ELSE 0)

BeginFrame ==
    /\ IsAt(Display, "wait")
    /\ goto(Display, "hdr")
    /\ i' = [i EXCEPT ![Display] = Slots - 1]
    /\ before' = Stored
    /\ UNCHANGED <<ring, captured, blocks, packet, print, cancelled,
                   crashed, misprinted, time, mixed, peeked>>

DisplayRow ==
    /\ IsAt(Display, "format") /\ ~Fails(Display)
    /\ Turn(Display) /\ Return(Display)
    /\ IF i[Display] > 0
       THEN goto(Display, "hdr") /\ i' = [i EXCEPT ![Display] = @ - 1]
       ELSE goto(Display, "wait") /\ UNCHANGED i
    /\ peeked' = peeked \cup
         {packet[t] : t \in {u \in Threads : packet[u] # 0 /\ packet[u] = pkt[Display]}}
    /\ UNCHANGED <<ring, captured, hdrBlock, pktBlock, packet, cancelled,
                   crashed, misprinted, time, mixed, before>>

PrintStep(x) == ReadHdr(x) \/ ReadPkt(x) \/ TakeTime(x) \/ Fail(x)

Next ==
    \/ \E t \in Threads : \/ Start(t) \/ Stop(t) \/ EndThread(t)
                          \/ Receive(t) \/ Store(t) \/ LogRow(t)
    \/ \E x \in All : PrintStep(x)
    \/ BeginFrame \/ DisplayRow \/ OtherTime

Spec == Init /\ [][Next]_vars

-----------------------------------------------------------------------------
(* "Write text packet to packet log file" (sniff.cpp:294): until two       *)
(* capture threads store at once, the text log has for every packet its    *)
(* own row, unless the display printed the packet before it was logged,    *)
(* and its own time, unless another thread asked for one before this one   *)
(* was formatted; and writing it never brings the tool down (sniff.cpp:    *)
(* 108-110, 284-297, 382, 540, case.cpp:166).                              *)
LogTellsPackets ==
    misprinted \subseteq peeked /\ mistimed \subseteq retimed /\ crashed \subseteq {Display}

(* "Latest packets sniffed" (sniff.cpp:379): row k of a frame is of a      *)
(* packet that was k-th latest at some time between the beginning of the   *)
(* frame and now, header and bytes each; if no packet came meanwhile the   *)
(* frame is exactly the latest packets.  (Its time may be another's, as    *)
(* LogTellsPackets says of the log.)                                       *)
RowsAreLatest ==
    LET Within(p) ==
          /\ p + i[Display] >= before
          /\ p = 0 => before <= i[Display]
          /\ p # 0 => p + i[Display] <= captured
    IN  /\ at[Display] \in {"pkt", "time", "format"} => Within(hdr[Display])
        /\ at[Display] \in {"time", "format"} => Within(pkt[Display])
=============================================================================
