------------------------------ MODULE NtfsScan ------------------------------
(***************************************************************************)
(* The search for deleted files on an NTFS image (deletedFilesNtfs.cpp):   *)
(* the records of the master file table (MFT), and in each record of a     *)
(* deleted file its attributes, up to the end mark.                        *)
(*                                                                         *)
(* The image is counted in cells of the size of an attribute without data. *)
(* A record has Cells cells, the first of which is its header.  Any cell   *)
(* may come to be read as an attribute, whether one begins there or not.   *)
(* Behind the records the image has one more header; what is read there,   *)
(* or anywhere else, may be anything, also what was on the stack.          *)
(*                                                                         *)
(* A definition marked "variant" is not the code: it is a mistake that the *)
(* definition after it could have, and that a property has to notice.      *)
(***************************************************************************)
EXTENDS Integers, Sequences, FiniteSets

CONSTANTS
    Records,    \* records whose cells are in the image
    Cells,      \* cells of a record
    MaxListed   \* bound: names listed are kept up to this many

(* What can be read as an attribute, and how many cells it takes: a file   *)
(* name, or something else, in the record; one that has a name of its own  *)
(* in front of its data; one whose data is elsewhere, with the list of     *)
(* that data (its runs); or the end mark.  A length with its highest bit   *)
(* set is sign-extended, and leads back.                                   *)
Attribute ==
    [type : {"name", "other"}, length : {-1, 1, 2}]
    \cup [type : {"named", "runs"}, length : 2 .. 3]
    \cup {[type |-> "end", length |-> 1]}

Header == {"none", "used", "deleted"}  \* no record, and wFlags of a record

VARIABLES
    headers,   \* of the records
    image,     \* the cells
    pc,
    mftOffset, \* the record
    header,
    attrOffset, attribute,
    listed     \* the names printed: in which record, and the cell

vars == <<headers, image, pc, mftOffset, header, attrOffset, attribute, listed>>

Last == Records * Cells
FirstOf(r) == (r - 1) * Cells + 2   \* attributes begin behind the header

TypeOK ==
    /\ headers \in [1 .. Records + 1 -> Header] /\ image \in [1 .. Last -> Attribute]
    /\ pc \in {"record", "attribute", "done"}
    /\ mftOffset \in 1 .. Records + 2 /\ header \in Header
    /\ attrOffset \in 1 .. Last + 1 /\ attribute \in Attribute
    /\ \A i \in DOMAIN listed :
          listed[i] \in [record : 1 .. Records + 2, cell : 1 .. Last + 1]
    /\ mftOffset \in DOMAIN headers => header = headers[mftOffset]
    /\ attrOffset \in DOMAIN image => attribute = image[attrOffset]

(* A header, taken for an attribute, is neither a name nor the end mark.   *)
Init ==
    /\ headers \in [1 .. Records + 1 -> Header]
    /\ image \in [1 .. Last -> Attribute]
    /\ \A r \in 1 .. Records :
          headers[r] # "none" => image[FirstOf(r) - 1].type \notin {"name", "end"}
    /\ pc = "record" /\ mftOffset = 1 /\ header = headers[1]
    /\ attrOffset = 1 /\ attribute = image[1] /\ listed = <<>>

-----------------------------------------------------------------------------
(* pread into a variable that is not initialised.                          *)
ReadHeader(r) == IF r \in DOMAIN headers THEN header' = headers[r] ELSE header' \in Header
ReadAttribute(o) ==
    /\ attrOffset' = o
    /\ IF o <= Last THEN attribute' = image[o] ELSE attribute' \in Attribute

isMftRecord(h) == h # "none"
isDeletedFile(h) == h = "deleted"

(* The next record; all those behind the image are one.                    *)
NextRecord ==
    LET r == IF mftOffset \in DOMAIN headers THEN mftOffset + 1 ELSE mftOffset
    IN  mftOffset' = r /\ ReadHeader(r)

SkipRecord ==
    /\ pc = "record" /\ isMftRecord(header) /\ ~isDeletedFile(header)
    /\ NextRecord
    /\ UNCHANGED <<headers, image, pc, attrOffset, attribute, listed>>

SearchRecord ==
    /\ pc = "record" /\ isDeletedFile(header)
    /\ pc' = "attribute"
    /\ ReadAttribute(IF mftOffset > Records THEN Last + 1 ELSE FirstOf(mftOffset))
    /\ UNCHANGED <<headers, image, mftOffset, header, listed>>

EndMft ==
    /\ pc = "record" /\ ~isMftRecord(header)
    /\ pc' = "done"
    /\ UNCHANGED <<headers, image, mftOffset, header, attrOffset, attribute, listed>>

(* The way to the next attribute: past the header and the data of one in   *)
(* the record, whether or not a name is between them, and past the bare    *)
(* header of one that has its data elsewhere.                              *)
(* variant: the data is not passed over.                                   *)
HeaderOnly(a) == 1
Step(a) ==
    CASE a.type = "runs"  -> 1
      [] a.type = "named" -> a.length - 1
      [] OTHER            -> a.length

(* Elsewhere on the disk the distance is not kept: from there the scan may *)
(* come back to any cell.                                                  *)
Landings(o, step) ==
    IF o > Last THEN 1 .. Last + 1
    ELSE IF o + step \in 1 .. Last THEN {o + step} ELSE {Last + 1}

isResidentAttribute(a) == a.type # "runs"
isFilenameAttribute(a) == isResidentAttribute(a) /\ a.type = "name"
atEndAttribute(a) == a.type = "end"

NextAttribute ==
    /\ pc = "attribute" /\ ~atEndAttribute(attribute)
    /\ listed' = IF isFilenameAttribute(attribute) /\ Len(listed) < MaxListed
                 THEN Append(listed, [record |-> mftOffset, cell |-> attrOffset])
                 ELSE listed
    /\ \E o \in Landings(attrOffset, Step(attribute)) : ReadAttribute(o)
    /\ UNCHANGED <<headers, image, pc, mftOffset, header>>

(* variant: the scan stays with the record.                                *)
SameRecord == UNCHANGED <<mftOffset, header>>
Advance == NextRecord

EndAttributes ==
    /\ pc = "attribute" /\ atEndAttribute(attribute)
    /\ pc' = "record"
    /\ Advance
    /\ UNCHANGED <<headers, image, attrOffset, attribute, listed>>

Done == pc = "done" /\ UNCHANGED vars

Next ==
    \/ SkipRecord \/ SearchRecord \/ EndMft \/ NextAttribute \/ EndAttributes \/ Done

-----------------------------------------------------------------------------
(* The records of the MFT, which ends at the first that is none.           *)
Mft == {r \in DOMAIN headers : \A q \in 1 .. r : isMftRecord(headers[q])}
Deleted == {r \in Mft : isDeletedFile(headers[r])}
MftEnds == Mft # DOMAIN headers

(* The attributes of record r up to the first that is passed over short,   *)
(* or the end mark: the first of the record, and behind every attribute    *)
(* that is but its header and its data the one that follows it.            *)
CellsOf(r) == FirstOf(r) .. r * Cells
Plain(a) == a.type \in {"name", "other"} /\ a.length > 0

Linked(S, r) ==
    /\ FirstOf(r) \in S
    /\ \A o \in S :
          LET next == o + image[o].length
          IN  Plain(image[o]) /\ next \in CellsOf(r) => next \in S

Attributes(r) ==
    {o \in CellsOf(r) : \A S \in SUBSET CellsOf(r) : Linked(S, r) => o \in S}

FileNames ==
    {e \in [record : Deleted, cell : DOMAIN image] :
        e.cell \in Attributes(e.record) /\ image[e.cell].type = "name"}

(* The scan loses its way in record r: no end mark is among them.          *)
Lost(r) == \A o \in Attributes(r) : image[o].type # "end"

(* Of the records of deleted files, in the order of the MFT, all names are *)
(* listed that come before an attribute with a name of its own or with     *)
(* runs, and where there is none of those, nothing else and each once.     *)
(* Nothing is listed of other records (deletedFilesNtfs.cpp:371-408).      *)
ListsDeletedNames ==
    MftEnds =>
        /\ \A i \in DOMAIN listed :
              /\ listed[i].record \in Deleted
              /\ listed[i] \in FileNames \/ Lost(listed[i].record)
              /\ \A j \in 1 .. i - 1 :
                    \/ listed[j].record < listed[i].record
                    \/ /\ listed[j].record = listed[i].record
                       /\ listed[j].cell < listed[i].cell \/ Lost(listed[i].record)
        /\ Len(listed) < MaxListed =>
              \A e \in FileNames :
                  e.record < mftOffset \/ pc = "done" =>
                      \E i \in DOMAIN listed : listed[i] = e

(* The scan of a record in which it lost its way is elsewhere on the disk, *)
(* or sent back by what it takes for a length.                             *)
Astray ==
    /\ pc = "attribute" /\ Lost(mftOffset)
    /\ attrOffset > Last \/ Step(attribute) < 1
=============================================================================
