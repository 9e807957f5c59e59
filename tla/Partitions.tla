----------------------------- MODULE Partitions -----------------------------
(***************************************************************************)
(* The partitions command (cli.cpp, disk.cpp): the partition table in the  *)
(* first sector, and from each extended partition the chain of extended    *)
(* boot records (EBRs).                                                    *)
(*                                                                         *)
(* Both functions print into one buffer, each behind what it has printed   *)
(* itself.  They have no return at their end: print_extended returns what  *)
(* is in the register for results, which as compiled (without optimising)  *)
(* is address, 0 by then.                                                  *)
(*                                                                         *)
(* A definition marked "variant" is not the code: it is a mistake that the *)
(* definition after it could have, and that a property has to notice.      *)
(***************************************************************************)
EXTENDS PartitionTable

CONSTANT MaxFaults    \* bound: reads that fail

ASSUME FaultsAreNat == MaxFaults \in Nat

VARIABLES
    fd,       \* could the image be opened?
    pc,
    start,    \* ebr_start
    address,
    this_ebr,
    index,    \* how much of the output print_primary counts
    faults

image == <<fd, table, disk>>
vars  == <<image, pc, partition, start, address, this_ebr, output, index, unread, faults>>

TypeOK ==
    /\ fd \in BOOLEAN
    /\ table \in [1 .. Entries -> Slot] /\ disk \in [Sector -> Ebr]
    /\ pc \in {"mbr", "table", "read", "print", "done"}
    /\ partition \in 1 .. Entries + 1
    /\ start \in 0 .. Sectors /\ address \in 0 .. 2 * Sectors
    /\ this_ebr \in Ebr
    /\ output \in Seq(Line) /\ index \in 0 .. Len(output)
    /\ unread \subseteq 1 .. Entries
    /\ faults \in 0 .. MaxFaults

(* this_ebr is on the stack: before the first read it holds anything.      *)
Init ==
    /\ fd \in BOOLEAN /\ table \in [1 .. Entries -> Slot]
    /\ disk \in [Sector -> Ebr]
    /\ pc = "mbr" /\ partition = 1 /\ start = 0 /\ address = 0
    /\ this_ebr = disk[0]
    /\ output = <<>> /\ index = 0
    /\ unread = {} /\ faults = 0

-----------------------------------------------------------------------------
(* The table is read; only a read that fails ends the command.             *)
ReadMbr ==
    /\ pc = "mbr"
    /\ \/ fd /\ pc' = "table" /\ UNCHANGED faults
       \/ ~fd /\ pc' = "done" /\ UNCHANGED faults
       \/ /\ fd /\ faults < MaxFaults /\ faults' = faults + 1
          /\ pc' = "done"
    /\ UNCHANGED <<image, partition, start, address, this_ebr, output, index, unread>>

(* What print_primary prints goes where it counts, and ends the output.    *)
PrintEntry ==
    /\ output' = Append(SubSeq(output, 1, index),
                      [entry |-> partition, ebr |-> 0, sure |-> TRUE])
    /\ index' = index + 1

(* The next entry of the table.                                            *)
NextEntry ==
    /\ pc = "table" /\ partition <= Entries
    /\ \/ /\ table[partition].type = "none"
          /\ partition' = partition + 1
          /\ UNCHANGED <<pc, start, address, this_ebr, output, index>>
       \/ /\ table[partition].type = "plain"
          /\ PrintEntry
          /\ partition' = partition + 1
          /\ UNCHANGED <<pc, start, address, this_ebr>>
       \/ /\ table[partition].type = "extended"
          /\ PrintEntry
          /\ start' = table[partition].start /\ address' = table[partition].start
          /\ pc' = "read"
          /\ this_ebr' \in Ebr
          /\ UNCHANGED partition
    /\ UNCHANGED <<image, unread, faults>>

EndTable ==
    /\ pc = "table" /\ partition > Entries
    /\ pc' = "done"
    /\ UNCHANGED <<image, partition, start, address, this_ebr, output, index, unread, faults>>

(* A read that fails, or behind the end of the image, leaves the buffer as *)
(* it was, and the walk goes on.                                           *)
ReadEbr ==
    /\ pc = "read" /\ pc' = "print"
    /\ \/ /\ Located(address) \in Sector
          /\ this_ebr' = disk[Located(address)]
          /\ UNCHANGED <<unread, faults>>
       \/ /\ Located(address) \notin Sector
          /\ UNCHANGED <<this_ebr, unread, faults>>
       \/ /\ faults < MaxFaults /\ faults' = faults + 1
          /\ unread' = unread \cup {partition}
          /\ UNCHANGED this_ebr
    /\ UNCHANGED <<image, partition, start, address, output, index>>

(* variant: the link is not added to the start of the extended partition.  *)
LinkAsIs(link) == link
(* variant: 0 is taken for a link.                                         *)
EndlessLink(link) == link + start
Linked(link) == IF link = 0 THEN 0 ELSE link + start

(* variant: the chain is followed behind a record that is not one.         *)
Whatever(ebr) == TRUE
Signed(ebr) == ebr.signed

(* An EBR is printed behind the last; the number of characters printed is  *)
(* returned only when the chain ends at a record that is not signed.       *)
PrintEbr ==
    /\ pc = "print"
    /\ IF Signed(this_ebr)
       THEN /\ output' = IF Len(output) = index + MaxEbrs THEN output
                         ELSE Append(output, [entry |-> partition, ebr |-> address,
                                              sure |-> partition \notin unread])
            /\ address' = Linked(this_ebr.next)
            /\ UNCHANGED index
       ELSE address' = 0 /\ UNCHANGED output /\ index' = Len(output)
    /\ IF address' # 0
       THEN pc' = "read" /\ UNCHANGED partition
       ELSE pc' = "table" /\ partition' = partition + 1
    /\ UNCHANGED <<image, start, this_ebr, unread, faults>>

Done == pc = "done" /\ UNCHANGED vars

Next == ReadMbr \/ NextEntry \/ EndTable \/ ReadEbr \/ PrintEbr \/ Done

Spec == Init /\ [][Next]_vars
FairSpec == Spec /\ WF_vars(Next)

-----------------------------------------------------------------------------
SoundDisk == fd /\ \A i \in Extended : Sound(table[i].start)

(* With a sound chain the command ends.                                    *)
SoundDiskEnds == (SoundDisk /\ faults = 0) ~> (pc = "done" \/ faults > 0)
=============================================================================
