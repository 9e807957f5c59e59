--------------------------- MODULE PartitionTable ---------------------------
(***************************************************************************)
(* What the partitions command (Partitions) reads and prints: the          *)
(* partition table, the chains of extended boot records (EBRs) on the      *)
(* disk, the lines printed, and what these have to say.                    *)
(*                                                                         *)
(* Of an EBR only its signature and the link to the next EBR count.  The   *)
(* byte address 512 * address is a 32-bit product, so a sector number is   *)
(* taken modulo Wrap.                                                      *)
(***************************************************************************)
EXTENDS Naturals, Sequences

CONSTANTS
    Entries,    \* entries of the partition table (4)
    Sectors,    \* sectors in the image
    Wrap,       \* 2^32 / 512
    MaxEbrs     \* bound: EBRs of an entry are kept up to this many

ASSUME TableSizes ==
    /\ Entries \in Nat /\ Sectors \in Nat \ {0} /\ Wrap \in Nat \ {0} /\ MaxEbrs \in Nat

Sector == 0 .. Sectors - 1
Ebr == [signed : BOOLEAN, next : Sector]
Slot == {[type |-> "none", start |-> 0], [type |-> "plain", start |-> 0]}
        \cup [type : {"extended"}, start : 1 .. Sectors]

(* What is printed for an entry of the table (ebr = 0) or for an EBR;      *)
(* history: sure, if no read of the entry's chain had failed by then.      *)
Line == [entry : 1 .. Entries, ebr : 0 .. 2 * Sectors, sure : BOOLEAN]

VARIABLES
    table,      \* the partition table
    disk,       \* the sectors, taken as EBRs
    partition,  \* the entry of the table print_primary is at
    output,     \* what is printed, up to the null byte behind the last of it
    unread      \* history: entries in whose chain a read failed

(* The lines of the EBRs of an entry that are to be seen in the output.    *)
Listed(i) == {k \in DOMAIN output : output[k].entry = i /\ output[k].ebr # 0}

(* The sector pread reads for an address.                                  *)
Located(a) == a % Wrap

-----------------------------------------------------------------------------
Body == Sector \ {0}

(* The address the EBR at a links to in a chain that starts at s, or 0.    *)
Follow(s, a) == IF disk[a].next = 0 THEN 0 ELSE disk[a].next + s

(* The chain from s stays in R, among signed sectors within reach.         *)
StaysIn(R, s) ==
    /\ s \in R
    /\ \A a \in R : a < Wrap /\ disk[a].signed /\ Follow(s, a) \in R \cup {0}

(* The chain from s is made of such sectors, and comes to an end.          *)
Sound(s) ==
    /\ \E R \in SUBSET Body : StaysIn(R, s)
    /\ \A R \in SUBSET Body : s \in R => \E a \in R : Follow(s, a) \notin R

Extended == {i \in 1 .. Entries : table[i].type = "extended"}

(* Something was printed after the entry's own chain.                      *)
Overwritten(i) == \E k \in DOMAIN output : output[k].entry > i

(* The EBR of line k is the one its chain has after the line before.       *)
InOrder(i, k) ==
    output[k].ebr = IF k - 1 \in Listed(i)
                    THEN Follow(table[i].start, output[k - 1].ebr)
                    ELSE table[i].start

(* The last EBR listed is the end of the chain, or as many are listed as   *)
(* are kept.                                                               *)
Complete(i) ==
    \/ \E k \in DOMAIN output : k + 1 .. k + MaxEbrs \subseteq Listed(i)
    \/ \E k \in Listed(i) :
          k + 1 \notin Listed(i) /\ Follow(table[i].start, output[k].ebr) = 0

(* "Only follows linked lists using the LBA system" (disk.cpp:149): of a   *)
(* sound chain the EBRs are listed in its order, none twice, and when the  *)
(* walk is over none is missing, whatever the other entries are.  Two      *)
(* things take away from that: a read that fails, but only behind the EBRs *)
(* printed by then and in no other entry; and the next entry of the table  *)
(* that is printed, which takes the place of a whole chain                 *)
(* (disk.cpp:151-209, 236-291).                                            *)
ListsTheChain ==
    \A i \in Extended : Sound(table[i].start) =>
        /\ \A k \in Listed(i) : output[k].sure =>
              /\ InOrder(i, k)
              /\ \A j \in Listed(i) : j < k => output[j].ebr # output[k].ebr
        /\ partition > i /\ i \notin unread =>
              IF Overwritten(i) THEN Listed(i) = {} ELSE Complete(i)

(* Only signed records are listed, however broken the chain: a record read *)
(* from the image that is not one ends it (disk.cpp:167-174).              *)
OnlySignedListed ==
    \A i \in Extended : \A k \in Listed(i) :
        LET a == Located(output[k].ebr) IN
        output[k].sure /\ a \in Sector => disk[a].signed
=============================================================================
