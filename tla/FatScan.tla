------------------------------ MODULE FatScan ------------------------------
(***************************************************************************)
(* The search for deleted files on a FAT32 image (deletedFilesFat32.cpp):  *)
(* the entries of the root directory, in the order they are on the disk,   *)
(* and the pieces of long names before the entry they belong to.           *)
(*                                                                         *)
(* Of an entry only its first byte (0xE5 or not) and its attribute (part   *)
(* of a long name or not) count.  The image has entries 1 .. N; 0 stands   *)
(* for what lies before the root directory, N + 1 for all that lies behind *)
(* the image.                                                              *)
(*                                                                         *)
(* A definition marked "variant" is not the code: it is a mistake that the *)
(* definition after it could have, and that a property has to notice.      *)
(***************************************************************************)
EXTENDS Naturals, Sequences

CONSTANTS
    N,           \* entries
    MaxListed,   \* bound: files listed are kept up to this many
    MaxFaults    \* bound: reads that fail

Entry == [deleted : BOOLEAN, piece : BOOLEAN]

VARIABLES
    dir,      \* the entries
    pc,
    pos,      \* rootDirLocation
    entry,    \* the position that was read into entry
    failed,   \* n = -1
    records,  \* fileNameRecords
    name,     \* positions whose characters were printed as the name
    listed,   \* for each file listed: its entry and its name
    faults

vars == <<dir, pc, pos, entry, failed, records, name, listed, faults>>

File == [entry : 1 .. N, name : Seq(0 .. N)]

TypeOK ==
    /\ dir \in [1 .. N -> Entry]
    /\ pc \in {"entry", "pieces", "name", "list", "done"}
    /\ pos \in 0 .. N + 1 /\ entry \in 1 .. N
    /\ failed \in BOOLEAN /\ records \in 0 .. N
    /\ \A i \in DOMAIN name : name[i] \in 0 .. N
    /\ \A i \in DOMAIN listed : listed[i].entry \in 1 .. N
    /\ faults \in 0 .. MaxFaults

(* The image has a directory: the first read finds an entry.               *)
Init ==
    /\ dir \in [1 .. N -> Entry]
    /\ pc = "entry" /\ pos = 1 /\ entry = 1 /\ failed = FALSE
    /\ records = 0 /\ name = <<>> /\ listed = <<>> /\ faults = 0

-----------------------------------------------------------------------------
(* pread of the next entry.  Behind the image it reads nothing and says 0, *)
(* not -1; entry is then what it was, as it is when the read fails.        *)
ReadNext ==
    /\ pos' = IF pos > N THEN pos ELSE pos + 1
    /\ \/ entry' = (IF pos' <= N THEN pos' ELSE entry)
          /\ failed' = FALSE /\ UNCHANGED faults
       \/ /\ faults < MaxFaults /\ faults' = faults + 1
          /\ failed' = TRUE /\ UNCHANGED entry

(* while (n != -1)                                                         *)
Ended == failed

EndScan ==
    /\ pc = "entry" /\ Ended
    /\ pc' = "done"
    /\ UNCHANGED <<dir, pos, entry, failed, records, name, listed, faults>>

(* variant: entries in use are listed as well.                             *)
Any(e) == TRUE
isDeletedEntry(e) == dir[e].deleted

SkipEntry ==
    /\ pc = "entry" /\ ~Ended
    /\ ~isDeletedEntry(entry)
    /\ ReadNext
    /\ UNCHANGED <<dir, pc, records, name, listed>>

FoundDeleted ==
    /\ pc = "entry" /\ ~Ended
    /\ isDeletedEntry(entry)
    /\ pc' = "pieces" /\ records' = 0 /\ name' = <<>>
    /\ UNCHANGED <<dir, pos, entry, failed, listed, faults>>

(* Pieces of a long name are passed over, in use or not, and n is not      *)
(* looked at; records stops at N, as pos does.                             *)
isPartOfLongFileName(e) == dir[e].piece

NextPiece ==
    /\ pc = "pieces" /\ isPartOfLongFileName(entry)
    /\ records' = IF records = N THEN N ELSE records + 1
    /\ ReadNext
    /\ UNCHANGED <<dir, pc, name, listed>>

EndPieces ==
    /\ pc = "pieces" /\ ~isPartOfLongFileName(entry)
    /\ pc' = IF records > 0 THEN "name" ELSE "list"
    /\ UNCHANGED <<dir, pos, entry, failed, records, name, listed, faults>>

(* The name is put together backwards from the entry behind the pieces:    *)
(* one entry more than there are pieces, which lies before them.           *)
(* variant: the loop begins at the entry itself.                           *)
PrintedFrom(p, k) == [i \in 1 .. k + 1 |-> p + 1 - i]
Printed(p, k) == [i \in 1 .. k + 1 |-> p - i]

PrintName ==
    /\ pc = "name"
    /\ name' = Printed(pos, records)
    /\ pc' = "list"
    /\ \/ failed' = FALSE /\ UNCHANGED faults
       \/ faults < MaxFaults /\ faults' = faults + 1 /\ failed' = TRUE
    /\ UNCHANGED <<dir, pos, entry, records, listed>>

(* The rest is printed from entry, and the scan goes on behind it.         *)
List ==
    /\ pc = "list"
    /\ listed' = IF Len(listed) = MaxListed THEN listed
                 ELSE Append(listed, [entry |-> entry, name |-> name])
    /\ pc' = "entry"
    /\ ReadNext
    /\ UNCHANGED <<dir, records, name>>

Done == pc = "done" /\ UNCHANGED vars

Next ==
    \/ EndScan \/ SkipEntry \/ FoundDeleted \/ NextPiece \/ EndPieces
    \/ PrintName \/ List \/ Done

-----------------------------------------------------------------------------
(* A directory as FAT makes it: a piece of a long name is followed by      *)
(* another, or by the entry it belongs to, which is deleted if it is; the  *)
(* last entry is not a piece and not deleted.                              *)
Regular ==
    /\ \A i \in 1 .. N - 1 : dir[i].piece => dir[i + 1].deleted = dir[i].deleted
    /\ ~dir[N].piece /\ ~dir[N].deleted

Files == {i \in 1 .. N : dir[i].deleted /\ ~dir[i].piece}
Pieces(i) == {j \in 1 .. i - 1 : \A k \in j .. i - 1 : dir[k].piece}
Positions(s) == {s[i] : i \in DOMAIN s}

(* In a regular directory the deleted files are listed in their order,     *)
(* each once, and none is passed over (deletedFilesFat32.cpp:265-301).     *)
ListsDeletedFiles ==
    Regular /\ faults = 0 =>
        /\ \A i \in DOMAIN listed :
              /\ listed[i].entry \in Files
              /\ \A j \in 1 .. i - 1 : listed[j].entry < listed[i].entry
        /\ Len(listed) < MaxListed => \A f \in Files :
              f < pos /\ pc = "entry" => \E i \in DOMAIN listed : listed[i].entry = f

(* A name that is printed has all its pieces, the last first, which is     *)
(* the order of the name (deletedFilesFat32.cpp:274-289).                  *)
NamesAreComplete ==
    Regular /\ faults = 0 => \A i \in DOMAIN listed :
        /\ Pieces(listed[i].entry) \subseteq Positions(listed[i].name)
        /\ \A j \in DOMAIN listed[i].name : listed[i].name[j] = listed[i].entry - j
=============================================================================
