-------------------------- MODULE PacketRingProofs --------------------------
(* Proofs about the recent packets of the sniffer.                          *)
EXTENDS PacketRing, TLAPS

(* The packet in slot k after the first n, or none.                        *)
Latest(n, k) == IF n > k THEN n - k ELSE 0

(* The slots from a on hold what they should after n packets, those before *)
(* it what they did one packet earlier.                                    *)
Column(f, n, a) ==
    \A k \in Index : f[k] = Latest(IF k >= a THEN n ELSE n - 1, k)

(* How many slots a capture thread still has to write.                     *)
HdrsLeft(t) ==
    CASE at[t] \in {"shiftHdr", "newHdr"} -> i[t] + 1
      [] at[t] = "shiftPkt" -> i[t]
      [] OTHER -> 0

PktsLeft(t) ==
    IF at[t] \in {"shiftHdr", "shiftPkt", "newHdr", "newPkt"} THEN i[t] + 1 ELSE 0

(* Which slots and which memory a thread has to do with where it is.       *)
Slot(t) ==
    /\ packet[t] = captured /\ captured >= 1
    /\ at[t] \in {"shiftHdr", "shiftPkt"} => i[t] >= 1
    /\ at[t] \notin {"shiftHdr", "shiftPkt"} => i[t] = 0

Ring(t) ==
    /\ Column(recentHdrs, captured, HdrsLeft(t))
    /\ Column(recentPkts, captured, PktsLeft(t))

Copied(t) ==
    /\ at[t] \in {"copyPkt", "hdr", "pkt", "time", "format"} =>
          hdrBlock[captured] = captured
    /\ at[t] \in {"hdr", "pkt", "time", "format"} =>
          pktBlock[captured] = captured /\ (captured \in turned => captured \in peeked)
    /\ at[t] \in {"pkt", "time", "format"} => hdr[t] = captured
    /\ at[t] \in {"time", "format"} => pkt[t] = captured
    /\ at[t] = "format" => tm = captured \/ captured \in retimed

Stores(t) == at[t] \in Storing
StoringInv(t) == Stores(t) => Slot(t) /\ Ring(t) /\ Copied(t)

OneStores == \A t, u \in Threads : Stores(t) /\ Stores(u) => t = u

RestInv ==
    (\A t \in Threads : ~Stores(t)) =>
        Column(recentHdrs, captured, 0) /\ Column(recentPkts, captured, 0)

FrameInv ==
    /\ before <= captured
    /\ \A t \in Threads : Stores(t) => before <= captured - 1

(* Where nothing is undefined yet: one thread stores at most.              *)
Defined ==
    OneStores /\ RestInv /\ FrameInv /\ \A t \in Threads : StoringInv(t)

RingInv == TypeOK /\ LogTellsPackets /\ RowsAreLatest /\ (~mixed => Defined)

(* Slot a is written from the slot before it, slot 0 with the packet.      *)
LEMMA WriteSlot ==
  ASSUME NEW f \in [Index -> Pointer], NEW n \in 1 .. MaxPackets, NEW a \in Index,
         Column(f, n, a + 1), NEW v, a = 0 => v = n, a # 0 => v = f[a - 1]
  PROVE  [f EXCEPT ![a] = v] \in [Index -> Pointer] /\ Column([f EXCEPT ![a] = v], n, a)
<1> DEFINE g == [f EXCEPT ![a] = v]
<1>0. /\ n \in Nat /\ n >= 1 /\ a \in Nat /\ Slots \in Nat \ {0}
      /\ \A k \in Index : k \in Nat
      /\ a # 0 => a - 1 \in Index
  BY Numbers DEF Index
<1>1. v = Latest(n, a)
  <2>1. CASE a = 0
    BY <1>0, <2>1 DEF Latest
  <2>2. CASE a # 0
    <3>1. a - 1 \in Nat /\ ~(a - 1 >= a + 1)
      BY <1>0, <2>2
    <3>2. f[a - 1] = Latest(n - 1, a - 1)
      BY <1>0, <2>2, <3>1 DEF Column
    <3> QED
      BY <1>0, <2>2, <3>1, <3>2 DEF Latest
  <2> QED
    BY <2>1, <2>2
<1>2. v \in Pointer
  BY <1>0, <1>1, Numbers DEF Latest, Pointer, Packets
<1>3. g \in [Index -> Pointer]
  BY <1>2
<1>4. ASSUME NEW k \in Index PROVE g[k] = Latest(IF k >= a THEN n ELSE n - 1, k)
  <2>1. CASE k = a
    BY <1>0, <1>1, <2>1
  <2>2. CASE k # a
    <3>1. g[k] = f[k] /\ (k >= a <=> k >= a + 1)
      BY <1>0, <2>2
    <3> QED
      BY <3>1 DEF Column
  <2> QED
    BY <2>1, <2>2
<1> QED
  BY <1>3, <1>4 DEF Column

LEMMA ShiftSlot ==
  ASSUME NEW f \in [Index -> Pointer], NEW n \in 1 .. MaxPackets, NEW a \in Index,
         a \in Nat, a >= 1, Column(f, n, a + 1)
  PROVE  /\ [f EXCEPT ![a] = f[a - 1]] \in [Index -> Pointer]
         /\ Column([f EXCEPT ![a] = f[a - 1]], n, a)
<1>1. PICK v : v = f[a - 1]
  OBVIOUS
<1>2. a # 0
  OBVIOUS
<1> QED
  BY <1>1, <1>2, WriteSlot

LEMMA FillSlot ==
  ASSUME NEW f \in [Index -> Pointer], NEW n \in 1 .. MaxPackets, 0 \in Index,
         Column(f, n, 0 + 1)
  PROVE  /\ [f EXCEPT ![0] = n] \in [Index -> Pointer]
         /\ Column([f EXCEPT ![0] = n], n, 0)
BY WriteSlot

-----------------------------------------------------------------------------
(* The steps of a thread that stores a packet.                             *)
LEMMA Undefined ==
  ASSUME RingInv, Runs
  PROVE  TypeOK /\ ~mixed /\ Defined
BY DEF RingInv, Runs

(* The thread that stores is the only one, and its steps touch nothing     *)
(* that the display or the log depends on.                                 *)
LEMMA StoreFrame ==
  ASSUME RingInv, NEW t \in Threads, Stores(t), Runs,
         NEW label \in Storing, goto(t, label),
         UNCHANGED <<captured, crashed, misprinted, mistimed, retimed, history>>,
         i'[Display] = i[Display], hdr'[Display] = hdr[Display],
         pkt'[Display] = pkt[Display],
         TypeOK', Slot(t)', Ring(t)', Copied(t)'
  PROVE  RingInv'
<1>1. TypeOK /\ Defined /\ ~mixed
  BY Undefined
<1>2. /\ captured' = captured /\ crashed' = crashed /\ misprinted' = misprinted
      /\ mistimed' = mistimed /\ retimed' = retimed
      /\ mixed' = mixed /\ peeked' = peeked /\ before' = before
  BY DEF history
<1>3. at'[t] = label /\ \A x \in All \ {t} : at'[x] = at[x]
  BY <1>1 DEF goto, TypeOK, All
<1>4. \A u \in Threads : u # t => ~Stores(u) /\ ~Stores(u)'
  BY <1>1, <1>3 DEF Defined, OneStores, Stores, All
<1>5. Stores(t)'
  BY <1>3 DEF Stores
<1>6. LogTellsPackets' /\ RowsAreLatest'
  <2>1. at'[Display] = at[Display]
    BY <1>3, Apart DEF All
  <2> QED
    BY <1>2, <2>1 DEF RingInv, LogTellsPackets, RowsAreLatest
<1>7. OneStores' /\ RestInv'
  BY <1>4, <1>5 DEF OneStores, RestInv
<1>8. FrameInv'
  BY <1>1, <1>2, <1>4 DEF Defined, FrameInv
<1>9. \A u \in Threads : StoringInv(u)'
  BY <1>4 DEF StoringInv
<1> QED
  BY <1>6, <1>7, <1>8, <1>9 DEF RingInv, Defined

(* What holds of a thread that stores, in numbers.                         *)
LEMMA StoringFacts ==
  ASSUME RingInv, Runs, NEW t \in Threads, Stores(t)
  PROVE  /\ TypeOK /\ ~mixed /\ Defined /\ t # Display /\ t \in All
         /\ Slot(t) /\ Ring(t) /\ Copied(t)
         /\ captured \in 1 .. MaxPackets /\ captured \in Nat
         /\ i[t] \in Nat /\ i[t] \in Index /\ Slots \in Nat \ {0}
<1>1. TypeOK /\ ~mixed /\ Defined
  BY Undefined
<1>2. Slot(t) /\ Ring(t) /\ Copied(t)
  BY <1>1 DEF Defined, StoringInv
<1>3. t # Display /\ t \in All
  BY Apart DEF All
<1>4. captured \in 1 .. MaxPackets /\ captured \in Nat
  BY <1>1, <1>2, Numbers DEF TypeOK, Slot
<1>5. i[t] \in Nat /\ i[t] \in Index
  BY <1>1, <1>3, Numbers DEF TypeOK, Index
<1> QED
  BY <1>1, <1>2, <1>3, <1>4, <1>5, Numbers

(* The header of slot i takes the place of the one it shifts out.          *)
LEMMA ShiftHdrStep ==
  ASSUME RingInv, NEW t \in Threads, Store(t), ShiftHdr(t)
  PROVE  RingInv'
<1>1. Stores(t) /\ Runs /\ at[t] = "shiftHdr"
  BY DEF ShiftHdr, IsAt, Stores, Storing
<1>2. /\ TypeOK /\ t \in All /\ Slot(t) /\ Ring(t) /\ i[t] >= 1 /\ i[t] \in Index
      /\ captured \in 1 .. MaxPackets /\ i[t] \in Nat
  BY <1>1, StoringFacts DEF Slot
<1>3. /\ recentHdrs' = [recentHdrs EXCEPT ![i[t]] = recentHdrs[i[t] - 1]]
      /\ recentPkts' = recentPkts /\ blocks' = blocks /\ i' = i
      /\ at' = [at EXCEPT ![t] = "shiftPkt"] /\ goto(t, "shiftPkt")
      /\ captured' = captured /\ packet' = packet
      /\ UNCHANGED <<print, cancelled, crashed, misprinted, time, history>>
  <2>1. goto(t, "shiftPkt") => at' = [at EXCEPT ![t] = "shiftPkt"]
    BY DEF goto
  <2> QED
    BY <2>1 DEF ShiftHdr, Store, Descending
<1>4. at'[t] = "shiftPkt"
  BY <1>2, <1>3 DEF TypeOK
<1>5. recentHdrs' \in [Index -> Pointer] /\ Column(recentHdrs', captured, i[t])
  <2>1. recentHdrs \in [Index -> Pointer] /\ Column(recentHdrs, captured, i[t] + 1)
    BY <1>1, <1>2 DEF Ring, HdrsLeft, TypeOK
  <2> QED
    BY <1>2, <1>3, <2>1, ShiftSlot
<1>6. Slot(t)' /\ Copied(t)'
  BY <1>2, <1>3, <1>4 DEF Slot, Copied
<1>7. Ring(t)'
  <2>1. HdrsLeft(t)' = i[t] /\ PktsLeft(t)' = i[t] + 1 /\ PktsLeft(t) = i[t] + 1
    BY <1>1, <1>3, <1>4 DEF HdrsLeft, PktsLeft
  <2> QED
    BY <1>2, <1>3, <1>5, <2>1 DEF Ring
<1>8. TypeOK'
  BY <1>2, <1>3, <1>5 DEF TypeOK, Storing, blocks, print, time, history
<1> QED
  BY <1>1, <1>3, <1>6, <1>7, <1>8, StoreFrame DEF Storing, print, time

(* And so does its packet; then i goes on to the slot before.              *)
LEMMA ShiftPktStep ==
  ASSUME RingInv, NEW t \in Threads, Store(t), ShiftPkt(t)
  PROVE  RingInv'
<1>1. Stores(t) /\ Runs /\ at[t] = "shiftPkt"
  BY DEF ShiftPkt, IsAt, Stores, Storing
<1>2. /\ TypeOK /\ t \in All /\ t # Display /\ Slot(t) /\ Ring(t)
      /\ i[t] >= 1 /\ i[t] \in Index /\ captured \in 1 .. MaxPackets /\ i[t] \in Nat
  BY <1>1, StoringFacts DEF Slot
<1>a. PICK label : label = IF i[t] > 1 THEN "shiftHdr" ELSE "newHdr"
  OBVIOUS
<1>3. /\ recentPkts' = [recentPkts EXCEPT ![i[t]] = recentPkts[i[t] - 1]]
      /\ recentHdrs' = recentHdrs /\ blocks' = blocks /\ i' = [i EXCEPT ![t] = i[t] - 1]
      /\ at' = [at EXCEPT ![t] = label] /\ goto(t, label)
      /\ captured' = captured /\ packet' = packet
      /\ UNCHANGED <<print, cancelled, crashed, misprinted, time, history>>
  <2>1. goto(t, label) => at' = [at EXCEPT ![t] = label]
    BY DEF goto
  <2> QED
    BY <1>a, <2>1 DEF ShiftPkt, Store, Descending
<1>4. /\ at'[t] = label /\ i'[t] = i[t] - 1 /\ i'[Display] = i[Display]
      /\ i[t] - 1 \in Index
  <2>1. i[t] - 1 \in Index
    BY <1>2, Numbers DEF Index
  <2>2. Display \in All
    BY DEF All
  <2> QED
    BY <1>2, <1>3, <2>1, <2>2 DEF TypeOK
<1>5. recentPkts' \in [Index -> Pointer] /\ Column(recentPkts', captured, i[t])
  <2>1. recentPkts \in [Index -> Pointer] /\ Column(recentPkts, captured, i[t] + 1)
    BY <1>1, <1>2 DEF Ring, PktsLeft, TypeOK
  <2> QED
    BY <1>2, <1>3, <2>1, ShiftSlot
<1>6. Slot(t)' /\ Copied(t)'
  BY <1>2, <1>3, <1>4, <1>a DEF Slot, Copied
<1>7. Ring(t)'
  <2>1. HdrsLeft(t)' = i[t] /\ PktsLeft(t)' = i[t] /\ HdrsLeft(t) = i[t]
    BY <1>1, <1>2, <1>4, <1>a DEF HdrsLeft, PktsLeft
  <2> QED
    BY <1>2, <1>3, <1>5, <2>1 DEF Ring
<1>8. TypeOK'
  BY <1>2, <1>3, <1>4, <1>5, <1>a DEF TypeOK, Storing, blocks, print, time, history
<1> QED
  BY <1>1, <1>3, <1>4, <1>6, <1>7, <1>8, <1>a, StoreFrame DEF Storing, print, time

(* The new packet takes slot 0: first its header ...                       *)
LEMMA NewHdrStep ==
  ASSUME RingInv, NEW t \in Threads, Store(t), NewHdr(t)
  PROVE  RingInv'
<1>1. Stores(t) /\ Runs /\ at[t] = "newHdr"
  BY DEF NewHdr, IsAt, Stores, Storing
<1>2. /\ TypeOK /\ t \in All /\ Slot(t) /\ Ring(t) /\ i[t] = 0 /\ 0 \in Index
      /\ captured \in 1 .. MaxPackets /\ packet[t] = captured
  BY <1>1, StoringFacts DEF Slot
<1>3. /\ recentHdrs' = [recentHdrs EXCEPT ![0] = captured]
      /\ recentPkts' = recentPkts /\ blocks' = blocks /\ i' = i
      /\ at' = [at EXCEPT ![t] = "newPkt"] /\ goto(t, "newPkt")
      /\ captured' = captured /\ packet' = packet
      /\ UNCHANGED <<print, cancelled, crashed, misprinted, time, history>>
  <2>1. goto(t, "newPkt") => at' = [at EXCEPT ![t] = "newPkt"]
    BY DEF goto
  <2> QED
    BY <1>2, <2>1 DEF NewHdr, Store
<1>4. at'[t] = "newPkt"
  BY <1>2, <1>3 DEF TypeOK
<1>5. recentHdrs' \in [Index -> Pointer] /\ Column(recentHdrs', captured, 0)
  <2>1. recentHdrs \in [Index -> Pointer] /\ Column(recentHdrs, captured, 0 + 1)
    BY <1>1, <1>2 DEF Ring, HdrsLeft, TypeOK
  <2> QED
    BY <1>2, <1>3, <2>1, FillSlot
<1>6. Slot(t)' /\ Copied(t)'
  BY <1>2, <1>3, <1>4 DEF Slot, Copied
<1>7. Ring(t)'
  <2>1. HdrsLeft(t)' = 0 /\ PktsLeft(t)' = i[t] + 1 /\ PktsLeft(t) = i[t] + 1
    BY <1>1, <1>3, <1>4 DEF HdrsLeft, PktsLeft
  <2> QED
    BY <1>2, <1>3, <1>5, <2>1 DEF Ring
<1>8. TypeOK'
  BY <1>2, <1>3, <1>5 DEF TypeOK, Storing, blocks, print, time, history
<1> QED
  BY <1>1, <1>3, <1>6, <1>7, <1>8, StoreFrame DEF Storing, print, time

(* ... then its bytes, both not yet copied.                                *)
LEMMA NewPktStep ==
  ASSUME RingInv, NEW t \in Threads, Store(t), NewPkt(t)
  PROVE  RingInv'
<1>1. Stores(t) /\ Runs /\ at[t] = "newPkt"
  BY DEF NewPkt, IsAt, Stores, Storing
<1>2. /\ TypeOK /\ t \in All /\ Slot(t) /\ Ring(t) /\ i[t] = 0 /\ 0 \in Index
      /\ captured \in 1 .. MaxPackets /\ packet[t] = captured
  BY <1>1, StoringFacts DEF Slot
<1>3. /\ recentPkts' = [recentPkts EXCEPT ![0] = captured]
      /\ recentHdrs' = recentHdrs /\ blocks' = blocks /\ i' = i
      /\ at' = [at EXCEPT ![t] = "copyHdr"] /\ goto(t, "copyHdr")
      /\ captured' = captured /\ packet' = packet
      /\ UNCHANGED <<print, cancelled, crashed, misprinted, time, history>>
  <2>1. goto(t, "copyHdr") => at' = [at EXCEPT ![t] = "copyHdr"]
    BY DEF goto
  <2> QED
    BY <1>2, <2>1 DEF NewPkt, Store
<1>4. at'[t] = "copyHdr"
  BY <1>2, <1>3 DEF TypeOK
<1>5. recentPkts' \in [Index -> Pointer] /\ Column(recentPkts', captured, 0)
  <2>1. recentPkts \in [Index -> Pointer] /\ Column(recentPkts, captured, 0 + 1)
    BY <1>1, <1>2 DEF Ring, PktsLeft, TypeOK
  <2> QED
    BY <1>2, <1>3, <2>1, FillSlot
<1>6. Slot(t)' /\ Copied(t)'
  BY <1>2, <1>3, <1>4 DEF Slot, Copied
<1>7. Ring(t)'
  <2>1. HdrsLeft(t)' = 0 /\ PktsLeft(t)' = 0 /\ HdrsLeft(t) = 0
    BY <1>1, <1>3, <1>4 DEF HdrsLeft, PktsLeft
  <2> QED
    BY <1>2, <1>3, <1>5, <2>1 DEF Ring
<1>8. TypeOK'
  BY <1>2, <1>3, <1>5 DEF TypeOK, Storing, blocks, print, time, history
<1> QED
  BY <1>1, <1>3, <1>6, <1>7, <1>8, StoreFrame DEF Storing, print, time

(* The header and the bytes are copied to what slot 0 points to, which is  *)
(* the packet's own memory.                                                *)
LEMMA Slot0 ==
  ASSUME NEW f, NEW n \in 1 .. MaxPackets, Column(f, n, 0)
  PROVE  f[0] = n
BY Numbers DEF Column, Latest, Index

LEMMA CopyHdrStep ==
  ASSUME RingInv, NEW t \in Threads, Store(t), CopyHdr(t)
  PROVE  RingInv'
<1>1. Stores(t) /\ Runs /\ at[t] = "copyHdr"
  BY DEF CopyHdr, IsAt, Stores, Storing
<1>2. /\ TypeOK /\ t \in All /\ Slot(t) /\ Ring(t) /\ i[t] = 0
      /\ captured \in Packets /\ captured \in 1 .. MaxPackets /\ packet[t] = captured
  BY <1>1, StoringFacts DEF Slot, Packets
<1>3. recentHdrs[0] = captured
  BY <1>1, <1>2, Slot0 DEF Ring, HdrsLeft
<1>4. /\ hdrBlock' = [hdrBlock EXCEPT ![captured] = captured]
      /\ ring' = ring /\ pktBlock' = pktBlock /\ turned' = turned /\ i' = i
      /\ at' = [at EXCEPT ![t] = "copyPkt"] /\ goto(t, "copyPkt")
      /\ captured' = captured /\ packet' = packet
      /\ UNCHANGED <<print, cancelled, crashed, misprinted, time, history>>
  <2>1. goto(t, "copyPkt") => at' = [at EXCEPT ![t] = "copyPkt"]
    BY DEF goto
  <2> QED
    BY <1>2, <1>3, <2>1 DEF CopyHdr, Store
<1>5. at'[t] = "copyPkt"
  BY <1>2, <1>4 DEF TypeOK
<1>6. hdrBlock' \in [Packets -> Pointer] /\ hdrBlock'[captured] = captured
  BY <1>2, <1>4 DEF TypeOK, Pointer
<1>7. Slot(t)' /\ Copied(t)'
  BY <1>2, <1>4, <1>5, <1>6 DEF Slot, Copied
<1>8. Ring(t)'
  <2>1. HdrsLeft(t)' = 0 /\ PktsLeft(t)' = 0 /\ HdrsLeft(t) = 0 /\ PktsLeft(t) = 0
    BY <1>1, <1>5 DEF HdrsLeft, PktsLeft
  <2> QED
    BY <1>2, <1>4, <2>1 DEF Ring, ring
<1>9. TypeOK'
  BY <1>2, <1>4, <1>6 DEF TypeOK, Storing, ring, print, time, history
<1> QED
  BY <1>1, <1>4, <1>7, <1>8, <1>9, StoreFrame DEF Storing, print, time

LEMMA CopyPktStep ==
  ASSUME RingInv, NEW t \in Threads, Store(t), CopyPkt(t)
  PROVE  RingInv'
<1>1. Stores(t) /\ Runs /\ at[t] = "copyPkt"
  BY DEF CopyPkt, IsAt, Stores, Storing
<1>2. /\ TypeOK /\ t \in All /\ Slot(t) /\ Ring(t) /\ Copied(t) /\ i[t] = 0
      /\ captured \in Packets /\ captured \in 1 .. MaxPackets /\ packet[t] = captured
  BY <1>1, StoringFacts DEF Slot, Packets
<1>3. recentPkts[0] = captured
  BY <1>1, <1>2, Slot0 DEF Ring, PktsLeft
<1>4. /\ pktBlock' = [pktBlock EXCEPT ![captured] = captured]
      /\ turned' = turned \ {captured}
      /\ ring' = ring /\ hdrBlock' = hdrBlock /\ i' = i
      /\ at' = [at EXCEPT ![t] = "hdr"] /\ goto(t, "hdr")
      /\ captured' = captured /\ packet' = packet
      /\ UNCHANGED <<print, cancelled, crashed, misprinted, time, history>>
  <2>1. goto(t, "hdr") => at' = [at EXCEPT ![t] = "hdr"]
    BY DEF goto
  <2> QED
    BY <1>2, <1>3, <2>1 DEF CopyPkt, CopyBytes, Store
<1>5. at'[t] = "hdr"
  BY <1>2, <1>4 DEF TypeOK
<1>6. pktBlock' \in [Packets -> Pointer] /\ pktBlock'[captured] = captured
  BY <1>2, <1>4 DEF TypeOK, Pointer
<1>7. Slot(t)' /\ Copied(t)'
  BY <1>1, <1>2, <1>4, <1>5, <1>6 DEF Slot, Copied
<1>8. Ring(t)'
  <2>1. HdrsLeft(t)' = 0 /\ PktsLeft(t)' = 0 /\ HdrsLeft(t) = 0 /\ PktsLeft(t) = 0
    BY <1>1, <1>5 DEF HdrsLeft, PktsLeft
  <2> QED
    BY <1>2, <1>4, <2>1 DEF Ring, ring
<1>9. TypeOK'
  BY <1>2, <1>4, <1>6 DEF TypeOK, Storing, ring, print, time, history
<1> QED
  BY <1>1, <1>4, <1>7, <1>8, <1>9, StoreFrame DEF Storing, print, time

(* printPacket of a capture thread reads the pointers to its own packet.   *)
LEMMA LogReadsHdr ==
  ASSUME RingInv, NEW t \in Threads, ReadHdr(t)
  PROVE  RingInv'
<1>1. Stores(t) /\ Runs /\ at[t] = "hdr"
  BY DEF ReadHdr, IsAt, Stores, Storing
<1>2. /\ TypeOK /\ t \in All /\ t # Display /\ Slot(t) /\ Ring(t) /\ Copied(t)
      /\ i[t] = 0 /\ captured \in 1 .. MaxPackets /\ captured \in Pointer
  BY <1>1, StoringFacts DEF Slot, Packets, Pointer
<1>3. recentHdrs[0] = captured
  BY <1>1, <1>2, Slot0 DEF Ring, HdrsLeft
<1>4. /\ hdr' = [hdr EXCEPT ![t] = captured] /\ goto(t, "pkt")
      /\ at' = [at EXCEPT ![t] = "pkt"]
      /\ UNCHANGED <<ring, captured, blocks, packet, i, pkt, cancelled,
                     crashed, misprinted, time, history>>
  <2>1. goto(t, "pkt") => at' = [at EXCEPT ![t] = "pkt"]
    BY DEF goto
  <2> QED
    BY <1>2, <1>3, <2>1 DEF ReadHdr
<1>5. at'[t] = "pkt" /\ hdr'[t] = captured /\ hdr'[Display] = hdr[Display]
  BY <1>2, <1>4, Apart DEF TypeOK, All
<1>6. Slot(t)' /\ Copied(t)'
  BY <1>1, <1>2, <1>4, <1>5 DEF Slot, Copied, blocks, time, history
<1>7. Ring(t)'
  <2>1. HdrsLeft(t)' = 0 /\ PktsLeft(t)' = 0 /\ HdrsLeft(t) = 0 /\ PktsLeft(t) = 0
    BY <1>1, <1>5 DEF HdrsLeft, PktsLeft
  <2> QED
    BY <1>2, <1>4, <2>1 DEF Ring, ring
<1>8. TypeOK'
  BY <1>2, <1>4 DEF TypeOK, Storing, ring, blocks, time, history
<1> QED
  BY <1>1, <1>4, <1>5, <1>6, <1>7, <1>8, StoreFrame DEF Storing, time

LEMMA LogReadsPkt ==
  ASSUME RingInv, NEW t \in Threads, ReadPkt(t)
  PROVE  RingInv'
<1>1. Stores(t) /\ Runs /\ at[t] = "pkt"
  BY DEF ReadPkt, IsAt, Stores, Storing
<1>2. /\ TypeOK /\ t \in All /\ t # Display /\ Slot(t) /\ Ring(t) /\ Copied(t)
      /\ i[t] = 0 /\ captured \in 1 .. MaxPackets /\ captured \in Pointer
  BY <1>1, StoringFacts DEF Slot, Packets, Pointer
<1>3. recentPkts[0] = captured
  BY <1>1, <1>2, Slot0 DEF Ring, PktsLeft
<1>4. /\ pkt' = [pkt EXCEPT ![t] = captured] /\ goto(t, "time")
      /\ at' = [at EXCEPT ![t] = "time"]
      /\ UNCHANGED <<ring, captured, blocks, packet, i, hdr, cancelled,
                     crashed, misprinted, time, history>>
  <2>1. goto(t, "time") => at' = [at EXCEPT ![t] = "time"]
    BY DEF goto
  <2> QED
    BY <1>2, <1>3, <2>1 DEF ReadPkt
<1>5. at'[t] = "time" /\ pkt'[t] = captured /\ pkt'[Display] = pkt[Display]
  BY <1>2, <1>4, Apart DEF TypeOK, All
<1>6. Slot(t)' /\ Copied(t)'
  BY <1>1, <1>2, <1>4, <1>5 DEF Slot, Copied, blocks, time, history
<1>7. Ring(t)'
  <2>1. HdrsLeft(t)' = 0 /\ PktsLeft(t)' = 0 /\ HdrsLeft(t) = 0 /\ PktsLeft(t) = 0
    BY <1>1, <1>5 DEF HdrsLeft, PktsLeft
  <2> QED
    BY <1>2, <1>4, <2>1 DEF Ring, ring
<1>8. TypeOK'
  BY <1>2, <1>4 DEF TypeOK, Storing, ring, blocks, time, history
<1> QED
  BY <1>1, <1>4, <1>5, <1>6, <1>7, <1>8, StoreFrame DEF Storing, time

(* localtime gives it the time of its own packet.                          *)
LEMMA LogTakesTime ==
  ASSUME RingInv, NEW t \in Threads, TakeTime(t)
  PROVE  RingInv'
<1>1. Stores(t) /\ Runs /\ at[t] = "time"
  BY DEF TakeTime, IsAt, Stores, Storing
<1>2. /\ TypeOK /\ Defined /\ t \in All /\ t # Display
      /\ Slot(t) /\ Ring(t) /\ Copied(t)
      /\ captured \in 1 .. MaxPackets /\ captured \in Pointer /\ captured # 0
  BY <1>1, StoringFacts DEF Slot, Packets, Pointer
<1>3. \A u \in Threads \ {t} : at[u] # "format"
  BY <1>1, <1>2 DEF Defined, OneStores, Stores, Storing
<1>4. hdr[t] = captured /\ hdrBlock[captured] = captured
  BY <1>1, <1>2 DEF Copied
<1>5. /\ tm' = captured /\ retimed' = retimed /\ goto(t, "format")
      /\ at' = [at EXCEPT ![t] = "format"]
      /\ UNCHANGED <<ring, captured, blocks, packet, i, print, cancelled,
                     crashed, misprinted, mistimed, history>>
  <2>1. {packet[u] : u \in {v \in Threads \ {t} : at[v] = "format"}} = {}
    BY <1>3
  <2>2. goto(t, "format") => at' = [at EXCEPT ![t] = "format"]
    BY DEF goto
  <2> QED
    BY <1>2, <1>4, <2>1, <2>2 DEF TakeTime, SetTime
<1>6. at'[t] = "format"
  BY <1>2, <1>5 DEF TypeOK
<1>7. Slot(t)' /\ Copied(t)'
  BY <1>1, <1>2, <1>5, <1>6 DEF Slot, Copied, blocks, print, history
<1>8. Ring(t)'
  <2>1. HdrsLeft(t)' = 0 /\ PktsLeft(t)' = 0 /\ HdrsLeft(t) = 0 /\ PktsLeft(t) = 0
    BY <1>1, <1>6 DEF HdrsLeft, PktsLeft
  <2> QED
    BY <1>2, <1>5, <2>1 DEF Ring, ring
<1>9. TypeOK'
  BY <1>2, <1>5 DEF TypeOK, Storing, ring, blocks, print, history
<1> QED
  BY <1>1, <1>5, <1>7, <1>8, <1>9, StoreFrame DEF Storing, print

(* A row of the log is the packet's own, or the display got to see the     *)
(* packet before.                                                          *)
LEMMA LogRowStep ==
  ASSUME RingInv, NEW t \in Threads, LogRow(t)
  PROVE  RingInv'
<1>1. Stores(t) /\ Runs /\ at[t] = "format"
  BY DEF LogRow, IsAt, Stores, Storing
<1>2. /\ TypeOK /\ Defined /\ ~mixed /\ t \in All /\ t # Display
      /\ Slot(t) /\ Ring(t) /\ Copied(t)
      /\ captured \in 1 .. MaxPackets /\ captured \in Packets /\ packet[t] = captured
  BY <1>1, StoringFacts DEF Slot, Packets
<1>3. /\ at' = [at EXCEPT ![t] = "wait"] /\ packet' = [packet EXCEPT ![t] = 0]
      /\ hdr' = [hdr EXCEPT ![t] = 0] /\ pkt' = [pkt EXCEPT ![t] = 0]
      /\ recentHdrs' = recentHdrs /\ recentPkts' = recentPkts
      /\ captured' = captured /\ hdrBlock' = hdrBlock /\ pktBlock' = pktBlock /\ i' = i
      /\ cancelled' = cancelled /\ crashed' = crashed
      /\ mixed' = mixed /\ peeked' = peeked /\ before' = before
      /\ tm' = tm /\ retimed' = retimed
  BY DEF LogRow, Return, goto, ring, history
<1>4. /\ at'[t] = "wait" /\ \A x \in All \ {t} : at'[x] = at[x]
      /\ hdr'[Display] = hdr[Display] /\ pkt'[Display] = pkt[Display]
  BY <1>2, <1>3 DEF TypeOK, All
<1>5. \A u \in Threads : ~Stores(u)'
  BY <1>1, <1>2, <1>4 DEF Defined, OneStores, Stores, Storing, All
<1>6. misprinted' \subseteq peeked /\ misprinted' \subseteq Packets
  <2>1. hdr[t] = captured /\ pkt[t] = captured /\ captured # 0
        /\ hdrBlock[captured] = captured /\ pktBlock[captured] = captured
        /\ (captured \in turned => captured \in peeked)
    BY <1>1, <1>2 DEF Copied
  <2>2. Genuine(t, captured) \/ captured \in peeked
    BY <2>1 DEF Genuine
  <2>3. misprinted' = misprinted \/ (misprinted' = misprinted \cup {captured}
                                       /\ ~Genuine(t, captured))
    BY <1>2 DEF LogRow
  <2> QED
    BY <1>2, <2>2, <2>3 DEF RingInv, LogTellsPackets, TypeOK
<1>a. mistimed' \subseteq retimed /\ mistimed' \subseteq Packets
  <2>1. tm = captured \/ captured \in retimed
    BY <1>1, <1>2 DEF Copied
  <2>2. mistimed' = mistimed \/ (mistimed' = mistimed \cup {captured} /\ tm # captured)
    BY <1>2 DEF LogRow
  <2> QED
    BY <1>2, <2>1, <2>2 DEF RingInv, LogTellsPackets, TypeOK
<1>7. turned' \subseteq Packets
  <2>1. pkt[t] \in Packets
    BY <1>1, <1>2 DEF Copied
  <2> QED
    BY <1>2, <2>1 DEF LogRow, Turn, TypeOK
<1>8. TypeOK'
  BY <1>2, <1>3, <1>6, <1>7, <1>a DEF TypeOK, Pointer
<1>9. LogTellsPackets' /\ RowsAreLatest'
  <2>1. at'[Display] = at[Display]
    BY <1>2, <1>4 DEF All
  <2> QED
    BY <1>3, <1>4, <1>6, <1>a, <2>1 DEF RingInv, LogTellsPackets, RowsAreLatest
<1>10. OneStores' /\ FrameInv' /\ \A u \in Threads : StoringInv(u)'
  BY <1>2, <1>3, <1>5 DEF OneStores, FrameInv, StoringInv, Defined
<1>11. RestInv'
  <2>1. HdrsLeft(t) = 0 /\ PktsLeft(t) = 0
    BY <1>1 DEF HdrsLeft, PktsLeft
  <2> QED
    BY <1>2, <1>3, <2>1 DEF RestInv, Ring
<1> QED
  BY <1>8, <1>9, <1>10, <1>11 DEF RingInv, Defined

-----------------------------------------------------------------------------
(* The other steps of a capture thread.                                    *)
LEMMA NewColumn ==
  ASSUME NEW f, NEW n \in Nat, Column(f, n, 0)
  PROVE  Column(f, n + 1, Slots)
<1>1. \A k \in Index : k >= 0 /\ ~(k >= Slots) /\ (n + 1) - 1 = n
  BY Numbers DEF Index
<1> QED
  BY <1>1 DEF Column

LEMMA ReceiveStep ==
  ASSUME RingInv, NEW t \in Threads, Receive(t)
  PROVE  RingInv'
<1>1. /\ Runs /\ TypeOK /\ ~mixed /\ Defined /\ at[t] = "wait" /\ captured < MaxPackets
      /\ t \in All /\ t # Display /\ captured \in Nat /\ captured \in 0 .. MaxPackets
  BY Undefined, Apart, Numbers DEF Receive, IsAt, All, TypeOK, RingInv
<1>a. PICK label : label = IF Slots > 1 THEN "shiftHdr" ELSE "newHdr"
  OBVIOUS
<1>2. /\ captured' = captured + 1 /\ packet' = [packet EXCEPT ![t] = captured + 1]
      /\ i' = [i EXCEPT ![t] = Slots - 1] /\ at' = [at EXCEPT ![t] = label]
      /\ recentHdrs' = recentHdrs /\ recentPkts' = recentPkts
      /\ hdr' = hdr /\ pkt' = pkt /\ crashed' = crashed /\ misprinted' = misprinted
      /\ peeked' = peeked /\ before' = before /\ time' = time
      /\ hdrBlock' = hdrBlock /\ pktBlock' = pktBlock /\ turned' = turned
      /\ cancelled' = cancelled
  BY <1>a DEF Receive, goto, ring, blocks, print
<1>3. /\ at'[t] = label /\ \A x \in All \ {t} : at'[x] = at[x]
      /\ i'[t] = Slots - 1 /\ i'[Display] = i[Display] /\ packet'[t] = captured + 1
  BY <1>1, <1>2 DEF TypeOK, All
<1>4. captured + 1 \in 1 .. MaxPackets /\ Slots - 1 \in Index
      /\ captured + 1 \in Pointer
  BY <1>1, Numbers DEF Index, Pointer, Packets
<1>5. TypeOK'
  <2>1. mixed' \in BOOLEAN
    BY DEF Receive
  <2>2. /\ at' \in [All -> Storing \cup {"off", "wait", "dead"}]
        /\ packet' \in [Threads -> Pointer] /\ i' \in [All -> Index]
    BY <1>1, <1>2, <1>4, <1>a DEF TypeOK, Storing
  <2>3. captured' \in 0 .. MaxPackets
    BY <1>1, <1>2, Numbers
  <2> QED
    BY <1>1, <1>2, <2>1, <2>2, <2>3 DEF TypeOK, time
<1>6. LogTellsPackets' /\ RowsAreLatest'
  <2>1. at'[Display] = at[Display]
    BY <1>1, <1>3 DEF All
  <2>2. \A p \in Nat, k \in Nat : p + k <= captured => p + k <= captured + 1
    BY <1>1
  <2>3. hdr[Display] \in Nat /\ pkt[Display] \in Nat /\ i[Display] \in Nat
    <3>1. hdr[Display] \in Pointer /\ pkt[Display] \in Pointer /\ i[Display] \in Index
      BY <1>1 DEF TypeOK, All
    <3>2. Pointer \subseteq Nat /\ Index \subseteq Nat
      BY Numbers DEF Pointer, Packets, Index
    <3> QED
      BY <3>1, <3>2
  <2> QED
    BY <1>2, <1>3, <2>1, <2>2, <2>3 DEF RingInv, LogTellsPackets, RowsAreLatest, time
<1>7. ASSUME ~mixed' PROVE Defined'
  <2>1. \A u \in Threads : /\ ~Stores(u)
                           /\ Stores(u)' <=> u = t
    BY <1>1, <1>3, <1>7, <1>a DEF Receive, Stores, Storing, All
  <2>2. Column(recentHdrs, captured, 0) /\ Column(recentPkts, captured, 0)
    BY <1>1, <2>1 DEF Defined, RestInv
  <2>3. Slot(t)'
    BY <1>1, <1>2, <1>3, <1>4, <1>a, Numbers DEF Slot
  <2>4. Ring(t)'
    <3>1. HdrsLeft(t)' = Slots /\ PktsLeft(t)' = Slots
      BY <1>3, <1>a, Numbers DEF HdrsLeft, PktsLeft
    <3>2. Column(recentHdrs, captured + 1, Slots) /\ Column(recentPkts, captured + 1, Slots)
      BY <1>1, <2>2, NewColumn
    <3> QED
      BY <1>2, <3>1, <3>2 DEF Ring
  <2>5. Copied(t)'
    BY <1>3, <1>a DEF Copied
  <2>6. FrameInv'
    BY <1>1, <1>2 DEF FrameInv, Defined, TypeOK
  <2> QED
    BY <2>1, <2>3, <2>4, <2>5, <2>6 DEF Defined, OneStores, RestInv, StoringInv
<1> QED
  BY <1>5, <1>6, <1>7 DEF RingInv

(* A step that neither stores a packet nor takes part in that.             *)
LEMMA Bystander ==
  ASSUME RingInv, ~mixed, UNCHANGED <<ring, captured, hdrBlock, pktBlock, mixed>>,
         TypeOK', LogTellsPackets', RowsAreLatest', FrameInv',
         \A p \in peeked : p \in peeked', \A p \in retimed : p \in retimed',
         tm' = tm \/ \A u \in Threads : at[u] = "format" => packet[u] \in retimed',
         \A u \in Threads : /\ Stores(u)' <=> Stores(u)
                            /\ Stores(u) => /\ at'[u] = at[u] /\ packet'[u] = packet[u]
                                            /\ i'[u] = i[u]
                                            /\ hdr'[u] = hdr[u] /\ pkt'[u] = pkt[u]
                                            /\ captured \in turned' =>
                                                  captured \in turned \cup peeked'
  PROVE  RingInv'
<1>1. Defined /\ captured' = captured /\ recentHdrs' = recentHdrs
      /\ recentPkts' = recentPkts
  BY DEF RingInv, ring
<1>2. OneStores' /\ RestInv'
  BY <1>1 DEF Defined, OneStores, RestInv
<1>3. ASSUME NEW u \in Threads, Stores(u)'
      PROVE  Slot(u)' /\ Ring(u)' /\ Copied(u)'
  <2>1. /\ Stores(u) /\ Slot(u) /\ Ring(u) /\ Copied(u)
        /\ at'[u] = at[u] /\ packet'[u] = packet[u] /\ i'[u] = i[u]
        /\ hdr'[u] = hdr[u] /\ pkt'[u] = pkt[u]
        /\ captured \in turned' => captured \in turned \cup peeked'
    BY <1>1, <1>3 DEF Defined, StoringInv
  <2>2. Slot(u)'
    BY <1>1, <2>1 DEF Slot
  <2>3. Ring(u)'
    <3>1. HdrsLeft(u)' = HdrsLeft(u) /\ PktsLeft(u)' = PktsLeft(u)
      BY <2>1 DEF HdrsLeft, PktsLeft
    <3> QED
      BY <1>1, <2>1, <3>1 DEF Ring
  <2>4. Copied(u)'
    <3>1. /\ \A p \in peeked : p \in peeked'
          /\ \A p \in retimed : p \in retimed'
      OBVIOUS
    <3>2. at[u] = "format" => tm' = captured \/ captured \in retimed'
      BY <2>1, <3>1 DEF Copied, Slot
    <3>3. captured \in turned' => captured \in turned \/ captured \in peeked'
      BY <2>1
    <3> QED
      BY <1>1, <2>1, <3>1, <3>2, <3>3 DEF Copied
  <2> QED
    BY <2>2, <2>3, <2>4
<1> QED
  BY <1>2, <1>3 DEF RingInv, Defined, StoringInv

LEMMA ThreadStep ==
  ASSUME RingInv, NEW t \in Threads, Start(t) \/ Stop(t) \/ EndThread(t)
  PROVE  RingInv'
<1>1. TypeOK /\ Defined /\ ~mixed /\ t # Display /\ t \in All
  BY Undefined, Apart DEF Start, Stop, EndThread, IsAt, All
<1>2. /\ recentHdrs' = recentHdrs /\ recentPkts' = recentPkts /\ captured' = captured
      /\ blocks' = blocks /\ packet' = packet /\ i' = i /\ hdr' = hdr /\ pkt' = pkt
      /\ crashed' = crashed /\ misprinted' = misprinted /\ history' = history
      /\ time' = time
      /\ cancelled' \subseteq Threads
  BY <1>1 DEF Start, Stop, EndThread, ring, print, TypeOK
<1>3. /\ \A x \in All \ {t} : at'[x] = at[x]
      /\ at'[t] \in {"wait", "dead", at[t]}
      /\ at' \in [All -> Storing \cup {"off", "wait", "dead"}]
      /\ at'[t] # at[t] => at[t] \in {"off", "wait"}
  BY <1>1 DEF Start, Stop, EndThread, goto, IsAt, TypeOK
<1>4. \A u \in Threads : Stores(u)' <=> Stores(u)
  BY <1>1, <1>3 DEF Stores, Storing, All
<1>5. \A u \in Threads : Stores(u) => at'[u] = at[u]
  BY <1>1, <1>3 DEF Stores, Storing, All
<1>6. TypeOK'
  BY <1>1, <1>2, <1>3 DEF TypeOK, blocks, time, history
<1>7. LogTellsPackets' /\ RowsAreLatest' /\ FrameInv'
  <2>1. at'[Display] = at[Display]
    BY <1>1, <1>3 DEF All
  <2> QED
    BY <1>1, <1>2, <1>4, <2>1
    DEF RingInv, LogTellsPackets, RowsAreLatest, Defined, FrameInv, time, history
<1> QED
  BY <1>1, <1>2, <1>4, <1>5, <1>6, <1>7, Bystander DEF ring, blocks, time, history

-----------------------------------------------------------------------------
(* The steps of the display.  At any time a slot holds a packet that is    *)
(* the latest but k, or was when the frame began or after that.            *)
LEMMA LatestIsRow ==
  ASSUME NEW n \in Nat, NEW k \in Nat, NEW b \in Nat, NEW c \in Nat, b <= n, n <= c,
         NEW p, p = Latest(n, k)
  PROVE  p + k >= b /\ (p = 0 => b <= k) /\ (p # 0 => p + k <= c)
<1>1. CASE n > k
  BY <1>1 DEF Latest
<1>2. CASE ~(n > k)
  BY <1>2 DEF Latest
<1> QED
  BY <1>1, <1>2

LEMMA RowOfSlot ==
  ASSUME RingInv, Runs, NEW k \in Index, NEW p, p = recentHdrs[k] \/ p = recentPkts[k]
  PROVE  p + k >= before /\ (p = 0 => before <= k) /\ (p # 0 => p + k <= captured)
<1>1. /\ Defined /\ before \in Nat /\ captured \in Nat /\ before <= captured
      /\ k \in Nat /\ k >= 0
  BY Undefined, Numbers DEF TypeOK, Defined, FrameInv, Index
<1>2. \E n \in Nat : before <= n /\ n <= captured /\ p = Latest(n, k)
  <2>1. CASE \A t \in Threads : ~Stores(t)
    BY <1>1, <2>1 DEF Defined, RestInv, Column
  <2>2. ASSUME NEW t \in Threads, Stores(t)
        PROVE  \E n \in Nat : before <= n /\ n <= captured /\ p = Latest(n, k)
    <3>1. /\ Ring(t) /\ captured \in 1 .. MaxPackets /\ before <= captured - 1
      BY <1>1, <2>2, StoringFacts DEF Defined, FrameInv
    <3>2. p = Latest(captured, k) \/ p = Latest(captured - 1, k)
      BY <3>1 DEF Ring, Column
    <3>3. captured - 1 \in Nat /\ captured - 1 <= captured
      BY <3>1
    <3> QED
      BY <1>1, <3>1, <3>2, <3>3
  <2> QED
    BY <2>1, <2>2
<1> QED
  BY <1>1, <1>2, LatestIsRow

LEMMA DisplayReadsHdr ==
  ASSUME RingInv, ReadHdr(Display)
  PROVE  RingInv'
<1>1. TypeOK /\ Defined /\ ~mixed /\ Runs /\ Display \in All
  BY Undefined DEF ReadHdr, IsAt, All
<1>2. PICK p : p = recentHdrs[i[Display]]
  OBVIOUS
<1>3. /\ hdr' = [hdr EXCEPT ![Display] = p] /\ at' = [at EXCEPT ![Display] = "pkt"]
      /\ recentHdrs' = recentHdrs /\ recentPkts' = recentPkts
      /\ captured' = captured /\ blocks' = blocks /\ packet' = packet /\ i' = i
      /\ pkt' = pkt /\ cancelled' = cancelled /\ crashed' = crashed
      /\ misprinted' = misprinted /\ history' = history /\ time' = time
  BY <1>2 DEF ReadHdr, goto, ring
<1>4. i[Display] \in Index /\ p \in Pointer
  BY <1>1, <1>2 DEF TypeOK
<1>5. \A u \in Threads : at'[u] = at[u] /\ hdr'[u] = hdr[u]
  BY <1>1, <1>3, Apart DEF TypeOK, All
<1>6. TypeOK'
  BY <1>1, <1>3, <1>4 DEF TypeOK, Storing, blocks, time, history
<1>7. at'[Display] = "pkt" /\ hdr'[Display] = p
  BY <1>1, <1>3 DEF TypeOK
<1>8. RowsAreLatest'
  <2>1. /\ p + i[Display] >= before /\ (p = 0 => before <= i[Display])
        /\ (p # 0 => p + i[Display] <= captured)
    BY <1>1, <1>2, <1>4, RowOfSlot
  <2> QED
    BY <1>3, <1>7, <2>1 DEF RowsAreLatest, history
<1>9. LogTellsPackets' /\ FrameInv'
  BY <1>1, <1>3, <1>5 DEF RingInv, LogTellsPackets, Defined, FrameInv, Stores, time, history
<1> QED
  BY <1>1, <1>3, <1>5, <1>6, <1>8, <1>9, Bystander DEF ring, blocks, time, history, Stores

LEMMA DisplayReadsPkt ==
  ASSUME RingInv, ReadPkt(Display)
  PROVE  RingInv'
<1>1. TypeOK /\ Defined /\ ~mixed /\ Runs /\ Display \in All /\ at[Display] = "pkt"
  BY Undefined DEF ReadPkt, IsAt, All
<1>2. PICK p : p = recentPkts[i[Display]]
  OBVIOUS
<1>3. /\ pkt' = [pkt EXCEPT ![Display] = p] /\ at' = [at EXCEPT ![Display] = "time"]
      /\ recentHdrs' = recentHdrs /\ recentPkts' = recentPkts
      /\ captured' = captured /\ blocks' = blocks /\ packet' = packet /\ i' = i
      /\ hdr' = hdr /\ cancelled' = cancelled /\ crashed' = crashed
      /\ misprinted' = misprinted /\ history' = history /\ time' = time
  BY <1>2 DEF ReadPkt, goto, ring
<1>4. i[Display] \in Index /\ p \in Pointer
  BY <1>1, <1>2 DEF TypeOK
<1>5. \A u \in Threads : at'[u] = at[u] /\ pkt'[u] = pkt[u]
  BY <1>1, <1>3, Apart DEF TypeOK, All
<1>6. TypeOK'
  BY <1>1, <1>3, <1>4 DEF TypeOK, Storing, blocks, time, history
<1>7. at'[Display] = "time" /\ pkt'[Display] = p
  BY <1>1, <1>3 DEF TypeOK
<1>8. RowsAreLatest'
  <2>1. /\ p + i[Display] >= before /\ (p = 0 => before <= i[Display])
        /\ (p # 0 => p + i[Display] <= captured)
    BY <1>1, <1>2, <1>4, RowOfSlot
  <2> QED
    BY <1>1, <1>3, <1>7, <2>1 DEF RingInv, RowsAreLatest, history
<1>9. LogTellsPackets' /\ FrameInv'
  BY <1>1, <1>3, <1>5 DEF RingInv, LogTellsPackets, Defined, FrameInv, Stores, time, history
<1> QED
  BY <1>1, <1>3, <1>5, <1>6, <1>8, <1>9, Bystander DEF ring, blocks, time, history, Stores

LEMMA DisplayTakesTime ==
  ASSUME RingInv, TakeTime(Display)
  PROVE  RingInv'
<1>1. TypeOK /\ Defined /\ ~mixed /\ Runs /\ Display \in All /\ at[Display] = "time"
  BY Undefined DEF TakeTime, IsAt, All
<1>2. /\ at' = [at EXCEPT ![Display] = "format"]
      /\ recentHdrs' = recentHdrs /\ recentPkts' = recentPkts
      /\ captured' = captured /\ blocks' = blocks /\ packet' = packet /\ i' = i
      /\ print' = print /\ cancelled' = cancelled /\ crashed' = crashed
      /\ misprinted' = misprinted /\ mistimed' = mistimed /\ history' = history
  BY DEF TakeTime, goto, ring
<1>3. \/ tm' = tm /\ retimed' = retimed
      \/ hdr[Display] # 0 /\ SetTime(Display, hdrBlock[hdr[Display]])
  BY DEF TakeTime
<1>4. \A u \in Threads : at'[u] = at[u] /\ u # Display
  BY <1>1, <1>2, Apart DEF TypeOK, All
<1>5. tm' \in Pointer /\ retimed' \subseteq Pointer
      /\ (\A p \in retimed : p \in retimed')
      /\ (tm' = tm \/ \A u \in Threads : at[u] = "format" => packet[u] \in retimed')
  <2>1. CASE tm' = tm /\ retimed' = retimed
    BY <1>1, <2>1 DEF TypeOK
  <2>2. CASE hdr[Display] # 0 /\ SetTime(Display, hdrBlock[hdr[Display]])
    <3>1. hdr[Display] \in Packets
      BY <1>1, <2>2 DEF TypeOK, Pointer
    <3> QED
      BY <1>1, <1>4, <2>2, <3>1 DEF TypeOK, SetTime
  <2> QED
    BY <1>3, <2>1, <2>2
<1>6. TypeOK'
  BY <1>1, <1>2, <1>5 DEF TypeOK, Storing, blocks, print, history
<1>7. at'[Display] = "format"
  BY <1>1, <1>2 DEF TypeOK
<1>8. RowsAreLatest'
  BY <1>1, <1>2, <1>7 DEF RingInv, RowsAreLatest, print, history
<1>9. LogTellsPackets' /\ FrameInv'
  BY <1>1, <1>2, <1>4, <1>5
  DEF RingInv, LogTellsPackets, Defined, FrameInv, Stores, history
<1> QED
  BY <1>1, <1>2, <1>4, <1>5, <1>6, <1>8, <1>9, Bystander
  DEF ring, blocks, print, history, Stores

(* An entry of a case's log, or the alert of a scan, overwrites the time.  *)
LEMMA OtherTimeStep ==
  ASSUME RingInv, OtherTime
  PROVE  RingInv'
<1>1. TypeOK /\ Defined /\ ~mixed
  BY Undefined DEF OtherTime
<1>2. /\ UNCHANGED <<ring, captured, blocks, threads, crashed, misprinted, mistimed,
                     history>>
      /\ tm' = 0 /\ (\A p \in retimed : p \in retimed')
      /\ \A u \in Threads : at[u] = "format" => packet[u] \in retimed'
      /\ retimed' \subseteq Pointer
  BY <1>1, Apart DEF OtherTime, SetTime, TypeOK
<1>3. TypeOK'
  BY <1>1, <1>2 DEF TypeOK, ring, blocks, threads, print, history, Pointer
<1>4. LogTellsPackets' /\ RowsAreLatest' /\ FrameInv'
  BY <1>1, <1>2
  DEF RingInv, LogTellsPackets, RowsAreLatest, Defined, FrameInv, Stores, threads, print,
      history
<1> QED
  BY <1>1, <1>2, <1>3, <1>4, Bystander DEF ring, blocks, threads, print, history, Stores

(* Only the display meets a header without bytes or not yet copied.        *)
LEMMA FailStep ==
  ASSUME RingInv, NEW x \in All, Fail(x)
  PROVE  RingInv'
<1>1. Runs /\ TypeOK /\ Defined /\ ~mixed
  BY Undefined DEF Fail, IsAt
<1>2. x = Display
  <2> SUFFICES ASSUME x \in Threads PROVE FALSE
    BY DEF All
  <2>1. Stores(x) /\ at[x] \in {"time", "format"}
    BY DEF Fail, IsAt, Stores, Storing
  <2>2. Copied(x) /\ captured \in 1 .. MaxPackets
    BY <1>1, <2>1, StoringFacts
  <2>3. hdr[x] = captured /\ pkt[x] = captured /\ hdrBlock[captured] = captured
        /\ captured # 0
    BY <2>1, <2>2 DEF Copied
  <2> QED
    BY <2>3 DEF Fail, NoAnswer, Fails
<1>3. /\ crashed' = {Display} /\ misprinted' = misprinted /\ history' = history
      /\ time' = time
      /\ recentHdrs' = recentHdrs /\ recentPkts' = recentPkts /\ blocks' = blocks
      /\ captured' = captured /\ at' = at /\ packet' = packet /\ i' = i
      /\ hdr' = hdr /\ pkt' = pkt /\ cancelled' = cancelled
  BY <1>2 DEF Fail, ring, threads, print
<1>4. TypeOK'
  BY <1>1, <1>3 DEF TypeOK, All, blocks, time, history
<1>5. LogTellsPackets' /\ RowsAreLatest' /\ FrameInv'
  BY <1>1, <1>3
  DEF RingInv, LogTellsPackets, RowsAreLatest, Defined, FrameInv, Stores, time, history
<1> QED
  BY <1>1, <1>3, <1>4, <1>5, Bystander DEF ring, blocks, time, history, Stores

LEMMA BeginFrameStep ==
  ASSUME RingInv, BeginFrame
  PROVE  RingInv'
<1>1. /\ Runs /\ TypeOK /\ Defined /\ ~mixed /\ Display \in All
      /\ captured \in Nat /\ captured \in 0 .. MaxPackets
  BY Undefined, Numbers DEF BeginFrame, IsAt, All, TypeOK
<1>2. /\ before' = Stored /\ at' = [at EXCEPT ![Display] = "hdr"]
      /\ i' = [i EXCEPT ![Display] = Slots - 1]
      /\ recentHdrs' = recentHdrs /\ recentPkts' = recentPkts
      /\ captured' = captured /\ blocks' = blocks /\ packet' = packet
      /\ hdr' = hdr /\ pkt' = pkt /\ cancelled' = cancelled /\ crashed' = crashed
      /\ misprinted' = misprinted /\ time' = time /\ mixed' = mixed /\ peeked' = peeked
  BY DEF BeginFrame, goto, ring, print
<1>3. \A u \in Threads : at'[u] = at[u] /\ i'[u] = i[u]
  BY <1>1, <1>2, Apart DEF TypeOK, All
<1>4. /\ Stored \in 0 .. MaxPackets /\ Stored <= captured
      /\ \A u \in Threads : Stores(u) => Stored <= captured - 1
  <2>1. CASE \A u \in Threads : ~Stores(u)
    <3>0. ~\E t \in Threads : at[t] \in Storing
      BY <2>1 DEF Stores
    <3>1. (IF \E t \in Threads : at[t] \in Storing THEN 1 ELSE 0) = 0
      BY <3>0
    <3>2. Stored = captured
      BY <1>1, <3>1 DEF Stored
    <3> QED
      BY <1>1, <2>1, <3>2
  <2>2. ASSUME NEW u \in Threads, Stores(u)
        PROVE  /\ Stored \in 0 .. MaxPackets /\ Stored <= captured
               /\ Stored <= captured - 1
    <3>1. captured \in 1 .. MaxPackets
      BY <1>1, <2>2, StoringFacts
    <3>2. Stored = captured - 1
      BY <2>2 DEF Stored, Stores
    <3> QED
      BY <3>1, <3>2, Numbers
  <2> QED
    BY <2>1, <2>2
<1>5. TypeOK'
  <2>1. Slots - 1 \in Index
    BY Numbers DEF Index
  <2> QED
    BY <1>1, <1>2, <1>4, <2>1 DEF TypeOK, Storing, blocks, time
<1>6. LogTellsPackets' /\ RowsAreLatest' /\ FrameInv'
  <2>1. at'[Display] = "hdr"
    BY <1>1, <1>2 DEF TypeOK
  <2>2. FrameInv'
    BY <1>2, <1>3, <1>4 DEF FrameInv, Stores
  <2> QED
    BY <1>2, <2>1, <2>2 DEF RingInv, LogTellsPackets, RowsAreLatest, time
<1> QED
  BY <1>1, <1>2, <1>3, <1>5, <1>6, Bystander DEF ring, blocks, time, Stores

(* A row of the display that turns the bytes of a packet not yet logged    *)
(* makes it one that was peeked at.                                        *)
LEMMA DisplayRowStep ==
  ASSUME RingInv, DisplayRow
  PROVE  RingInv'
<1>1. /\ Runs /\ TypeOK /\ Defined /\ ~mixed /\ Display \in All /\ ~Fails(Display)
  BY Undefined DEF DisplayRow, IsAt, All
<1>2. /\ recentHdrs' = recentHdrs /\ recentPkts' = recentPkts
      /\ captured' = captured /\ hdrBlock' = hdrBlock /\ pktBlock' = pktBlock
      /\ hdr' = [hdr EXCEPT ![Display] = 0] /\ pkt' = [pkt EXCEPT ![Display] = 0]
      /\ packet' = packet /\ cancelled' = cancelled /\ crashed' = crashed
      /\ misprinted' = misprinted /\ time' = time /\ mixed' = mixed /\ before' = before
  BY DEF DisplayRow, Return, ring
<1>3. /\ i[Display] \in Index
      /\ \/ /\ i[Display] > 0
            /\ at' = [at EXCEPT ![Display] = "hdr"]
            /\ i' = [i EXCEPT ![Display] = i[Display] - 1]
         \/ at' = [at EXCEPT ![Display] = "wait"] /\ i' = i
  BY <1>1 DEF DisplayRow, goto, TypeOK
<1>4. /\ \A u \in Threads : /\ at'[u] = at[u] /\ i'[u] = i[u]
                            /\ hdr'[u] = hdr[u] /\ pkt'[u] = pkt[u]
      /\ at'[Display] \in {"hdr", "wait"}
  BY <1>1, <1>2, <1>3, Apart DEF TypeOK, All
<1>5. /\ \A p \in peeked : p \in peeked'
      /\ peeked' \subseteq Packets
      /\ \A u \in Threads : packet[u] # 0 /\ packet[u] = pkt[Display] => packet[u] \in peeked'
  BY <1>1 DEF DisplayRow, TypeOK, Pointer
<1>6. \/ turned' = turned
      \/ /\ pkt[Display] \in Packets
         /\ turned' = (turned \ {pkt[Display]}) \cup ({pkt[Display]} \ turned)
  <2>1. hdr[Display] # 0 => pkt[Display] \in Packets
    BY <1>1 DEF Fails, TypeOK, Pointer
  <2> QED
    BY <2>1 DEF DisplayRow, Turn
<1>7. TypeOK'
  <2>1. turned' \subseteq Packets
    BY <1>1, <1>6 DEF TypeOK
  <2>2. i' \in [All -> Index]
    <3>1. i[Display] > 0 => i[Display] - 1 \in Index
      BY <1>3, Numbers DEF Index
    <3> QED
      BY <1>1, <1>3, <3>1 DEF TypeOK
  <2>3. at' \in [All -> Storing \cup {"off", "wait", "dead"}]
    BY <1>1, <1>3 DEF TypeOK, Storing
  <2>4. hdr' \in [All -> Pointer] /\ pkt' \in [All -> Pointer]
    BY <1>1, <1>2 DEF TypeOK, Pointer
  <2> QED
    BY <1>1, <1>2, <1>5, <2>1, <2>2, <2>3, <2>4 DEF TypeOK, time
<1>8. LogTellsPackets' /\ RowsAreLatest' /\ FrameInv'
  BY <1>1, <1>2, <1>4, <1>5
  DEF RingInv, LogTellsPackets, RowsAreLatest, Defined, FrameInv, Stores, time
<1>9. ASSUME NEW u \in Threads, Stores(u), captured \in turned'
      PROVE  captured \in turned \cup peeked'
  <2>1. packet[u] = captured /\ captured # 0
    <3>1. Slot(u) /\ captured \in 1 .. MaxPackets
      BY <1>1, <1>9, StoringFacts
    <3> QED
      BY <3>1 DEF Slot
  <2> QED
    BY <1>5, <1>6, <1>9, <2>1
<1> QED
  BY <1>1, <1>2, <1>4, <1>5, <1>7, <1>8, <1>9, Bystander DEF ring, time, Stores

-----------------------------------------------------------------------------
LEMMA InitInv == Init => RingInv
<1> SUFFICES ASSUME Init PROVE RingInv
  OBVIOUS
<1>1. TypeOK
  <2>1. 0 \in Index
    BY Numbers DEF Index
  <2>2. /\ recentHdrs \in [Index -> Pointer] /\ recentPkts \in [Index -> Pointer]
        /\ hdrBlock \in [Packets -> Pointer] /\ pktBlock \in [Packets -> Pointer]
        /\ packet \in [Threads -> Pointer] /\ i \in [All -> Index]
        /\ hdr \in [All -> Pointer] /\ pkt \in [All -> Pointer]
    BY <2>1 DEF Init, Pointer
  <2>3. at \in [All -> Storing \cup {"off", "wait", "dead"}]
    BY DEF Init
  <2>4. 0 \in 0 .. MaxPackets /\ 0 \in Pointer
    BY Numbers DEF Pointer
  <2> QED
    BY <2>2, <2>3, <2>4 DEF Init, TypeOK
<1>2. LogTellsPackets
  BY DEF Init, LogTellsPackets
<1>3. RowsAreLatest
  <2>1. at[Display] = "wait"
    BY DEF Init, All
  <2> QED
    BY <2>1 DEF RowsAreLatest
<1>4. \A t \in Threads : ~Stores(t)
  BY Apart DEF Init, Stores, Storing, All
<1>5. Column(recentHdrs, captured, 0) /\ Column(recentPkts, captured, 0)
  <2>1. \A k \in Index : k >= 0 /\ Latest(0, k) = 0
    BY Numbers DEF Index, Latest
  <2> QED
    BY <2>1 DEF Init, Column
<1>6. before <= captured
  BY DEF Init
<1> QED
  BY <1>1, <1>2, <1>3, <1>4, <1>5, <1>6
  DEF RingInv, Defined, OneStores, RestInv, FrameInv, StoringInv

LEMMA InvStep == RingInv /\ [Next]_vars => RingInv'
<1> SUFFICES ASSUME RingInv, [Next]_vars PROVE RingInv'
  OBVIOUS
<1>1. ASSUME NEW t \in Threads, Start(t) \/ Stop(t) \/ EndThread(t) PROVE RingInv'
  BY <1>1, ThreadStep
<1>2. ASSUME NEW t \in Threads, Receive(t) PROVE RingInv'
  BY <1>2, ReceiveStep
<1>3. ASSUME NEW t \in Threads, Store(t) PROVE RingInv'
  BY <1>3, ShiftHdrStep, ShiftPktStep, NewHdrStep, NewPktStep, CopyHdrStep, CopyPktStep
  DEF Store
<1>4. ASSUME NEW t \in Threads, LogRow(t) PROVE RingInv'
  BY <1>4, LogRowStep
<1>5. ASSUME NEW x \in All, PrintStep(x) PROVE RingInv'
  <2>1. CASE x \in Threads
    BY <1>5, <2>1, LogReadsHdr, LogReadsPkt, LogTakesTime, FailStep DEF PrintStep
  <2>2. CASE x = Display
    BY <1>5, <2>2, DisplayReadsHdr, DisplayReadsPkt, DisplayTakesTime, FailStep
    DEF PrintStep
  <2> QED
    BY <2>1, <2>2 DEF All
<1>6. CASE BeginFrame
  BY <1>6, BeginFrameStep
<1>7. CASE DisplayRow
  BY <1>7, DisplayRowStep
<1>9. CASE OtherTime
  BY <1>9, OtherTimeStep
<1>8. CASE UNCHANGED vars
  <2>1. /\ recentHdrs' = recentHdrs /\ recentPkts' = recentPkts /\ captured' = captured
        /\ hdrBlock' = hdrBlock /\ pktBlock' = pktBlock /\ turned' = turned
        /\ at' = at /\ packet' = packet /\ i' = i /\ hdr' = hdr /\ pkt' = pkt
        /\ cancelled' = cancelled /\ crashed' = crashed /\ misprinted' = misprinted
        /\ mixed' = mixed /\ peeked' = peeked /\ before' = before
        /\ tm' = tm /\ mistimed' = mistimed /\ retimed' = retimed
    BY <1>8 DEF vars, ring, blocks, threads, print, time, history
  <2>2. TypeOK' /\ LogTellsPackets' /\ RowsAreLatest' /\ (FrameInv => FrameInv')
    BY <2>1 DEF RingInv, TypeOK, LogTellsPackets, RowsAreLatest, FrameInv, Stores
  <2>3. CASE mixed
    BY <2>1, <2>2, <2>3 DEF RingInv
  <2>4. CASE ~mixed
    BY <2>1, <2>2, <2>4, Bystander DEF RingInv, Defined, Stores, ring
  <2> QED
    BY <2>3, <2>4
<1> QED
  BY <1>1, <1>2, <1>3, <1>4, <1>5, <1>6, <1>7, <1>8, <1>9 DEF Next

(* Every variable keeps its type: no index leaves the slots, and a header  *)
(* or its bytes are copied to memory of a packet (sniff.cpp:284-297).      *)
THEOREM TypeCorrect == Spec => []TypeOK
<1>1. RingInv => TypeOK
  BY DEF RingInv
<1> QED
  BY InitInv, InvStep, <1>1, PTL DEF Spec

(* The text log has for every packet its own row, but for packets the      *)
(* display printed before, with its own time, but for packets whose time   *)
(* another thread's overwrote before it was formatted, and writing it      *)
(* never brings the tool down (sniff.cpp:108-110, 284-297, 382, 540).      *)
THEOREM LogIsGenuine == Spec => []LogTellsPackets
<1>1. RingInv => LogTellsPackets
  BY DEF RingInv
<1> QED
  BY InitInv, InvStep, <1>1, PTL DEF Spec

(* What the display shows in row k was the k-th latest packet during the   *)
(* frame, for any number of slots, capture threads and packets             *)
(* (sniff.cpp:284-297, 379).                                               *)
THEOREM DisplayIsRecent == Spec => []RowsAreLatest
<1>1. RingInv => RowsAreLatest
  BY DEF RingInv
<1> QED
  BY InitInv, InvStep, <1>1, PTL DEF Spec
=============================================================================
