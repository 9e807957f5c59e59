---------------------------- MODULE DeletedFiles ----------------------------
(***************************************************************************)
(* The deletedfiles command (listDeletedFiles in deletedFiles.cpp): it     *)
(* opens the image, takes the file system from its argument or from the    *)
(* OEM name in the image, lets the scan of that file system (FatScan,      *)
(* NtfsScan) list the deleted files, and logs how many there were.         *)
(* Decode says how the scans read numbers and dates.                       *)
(***************************************************************************)
EXTENDS Decode, FiniteSets

CONSTANTS
    N,           \* directory entries of a FAT32 image
    Records,     \* records of an NTFS image
    Cells,       \* cells of a record
    MaxListed,   \* bound: files listed are kept up to this many
    MaxFaults    \* bound: reads that fail

ASSUME ImageSizes ==
    /\ N \in Nat \ {0}
    /\ Records \in Nat \ {0} /\ Cells \in Nat /\ Cells > 1
ASSUME Bounds == MaxListed \in Nat /\ MaxFaults \in Nat

VARIABLES
    phase,    \* of listDeletedFiles
    system,   \* the file system whose scan is run
    log,      \* entries of the case's log: the search, and the count
    pc, listed,                                         \* of the scan
    dir, pos, entry, failed, records, name, faults,     \* of FatScan
    headers, image, mftOffset, header, attrOffset, attribute   \* of NtfsScan

fat  == <<dir, pos, entry, failed, records, name, faults>>
ntfs == <<headers, image, mftOffset, header, attrOffset, attribute>>
vars == <<phase, system, log, pc, listed, fat, ntfs>>

Fat  == INSTANCE FatScan
Ntfs == INSTANCE NtfsScan

TypeOK ==
    /\ phase \in {"open", "scan", "done"}
    /\ system \in {"FAT32", "NTFS"}
    /\ log \in Seq([text : {"searching", "listed"}, count : 0 .. MaxListed])
    /\ system = "FAT32" => Fat!TypeOK
    /\ system = "NTFS" => Ntfs!TypeOK

(* Only the variables of the scan that is run are in use.                  *)
Init ==
    /\ phase = "open" /\ log = <<>>
    /\ \/ /\ system = "FAT32" /\ Fat!Init
          /\ headers = <<>> /\ image = <<>> /\ mftOffset = 0 /\ header = "none"
          /\ attrOffset = 0 /\ attribute = <<>>
       \/ /\ system = "NTFS" /\ Ntfs!Init
          /\ dir = <<>> /\ pos = 0 /\ entry = 0 /\ failed = FALSE
          /\ records = 0 /\ name = <<>> /\ faults = 0

-----------------------------------------------------------------------------
(* The argument overrides the OEM name, and whatever is not NTFS is taken  *)
(* for FAT32.                                                              *)
Chosen(arg, oemId) ==
    IF arg \in {"NTFS", "FAT32"} THEN arg ELSE IF oemId = "NTFS" THEN oemId ELSE "FAT32"

(* The OEM name is what the image has, or, as the result of pread is not   *)
(* looked at, what was on the stack.                                       *)
OpenDisk ==
    /\ phase = "open"
    /\ \E arg, oemId \in {"NTFS", "FAT32", "other"} : Chosen(arg, oemId) = system
    /\ \/ phase' = "scan" /\ log' = <<[text |-> "searching", count |-> 0]>>
       \/ phase' = "done" /\ UNCHANGED log
    /\ UNCHANGED <<system, pc, listed, fat, ntfs>>

Scan ==
    /\ phase = "scan" /\ pc # "done"
    /\ \/ system = "FAT32" /\ Fat!Next /\ UNCHANGED ntfs
       \/ system = "NTFS" /\ Ntfs!Next /\ UNCHANGED fat
    /\ UNCHANGED <<phase, system, log>>

(* The number the scan returns is that of the names it has listed.         *)
LogCount ==
    /\ phase = "scan" /\ pc = "done"
    /\ phase' = "done"
    /\ log' = Append(log, [text |-> "listed", count |-> Len(listed)])
    /\ UNCHANGED <<system, pc, listed, fat, ntfs>>

Done == phase = "done" /\ UNCHANGED vars

Next == OpenDisk \/ Scan \/ LogCount \/ Done

FairSpec == Init /\ [][Next]_vars /\ WF_vars(Next)

-----------------------------------------------------------------------------
(* In a regular FAT32 directory the deleted files are listed in their      *)
(* order, each once, and none is passed over (deletedFilesFat32.cpp:       *)
(* 265-301).                                                               *)
ListsDeletedFiles == system = "FAT32" => Fat!ListsDeletedFiles

(* A long name that is printed has all its pieces, the last first, which   *)
(* is the order of the name (deletedFilesFat32.cpp:274-289).               *)
NamesAreComplete == system = "FAT32" => Fat!NamesAreComplete

(* The names of deleted files that come before an attribute with a name of *)
(* its own or with runs are listed, in the order of the MFT (deletedFiles- *)
(* Ntfs.cpp:371-408); "deleted files found." in the log is no less than    *)
(* their number, a file with several names counting as often, and is their *)
(* number if no deleted record has such an attribute before its end mark   *)
(* (deletedFiles.cpp:81).                                                  *)
ListsDeletedNames ==
    system = "NTFS" =>
        /\ Ntfs!ListsDeletedNames
        /\ Ntfs!MftEnds =>
              \A i \in DOMAIN log : log[i].text = "listed" =>
                  /\ log[i].count < MaxListed =>
                        Cardinality(Ntfs!FileNames) <= log[i].count
                  /\ (\A r \in Ntfs!Deleted : ~Ntfs!Lost(r)) =>
                        log[i].count <= Cardinality(Ntfs!FileNames)

(* The scan of an MFT that ends comes to its end, and the count to the     *)
(* log, whatever attributes the records have, or else it has lost its way  *)
(* in one of them and gone off the disk's records or back                  *)
(* (deletedFilesNtfs.cpp:371, 379, 391-399, 406; deletedFiles.cpp:78-85).  *)
ScanEnds ==
    (system = "NTFS" /\ Ntfs!MftEnds) ~> (phase = "done" \/ Ntfs!Astray)

(* What is read off the disk is what was written there: the numbers of     *)
(* sectors and clusters, if they fit an int, the places of the root        *)
(* directory and of the MFT that are computed from them                    *)
(* (deletedFilesFat32.cpp:70-87, deletedFilesNtfs.cpp:91-143), and all     *)
(* dates a file that is listed may have (deletedFilesFat32.cpp:184-194,    *)
(* 223-246).                                                               *)
ReadAsWritten ==
    phase = "scan" =>
        /\ PlacesAreRight
        /\ IF system = "FAT32"
           THEN DWordsRoundTrip /\ (listed # <<>> => DatesRoundTrip)
           ELSE SmallLongLongsRoundTrip
=============================================================================
