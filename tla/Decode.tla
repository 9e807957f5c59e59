------------------------------- MODULE Decode -------------------------------
(***************************************************************************)
(* How the search for deleted files reads numbers, dates and times off a   *)
(* disk (deletedFiles.cpp, deletedFilesFat32.cpp), and what it makes of    *)
(* values that were written there in the format of FAT32 or of NTFS.       *)
(*                                                                         *)
(* Dates and times are words of 16 bits.  Longer numbers are strings of    *)
(* bytes, the lowest first, of which a byte has Byte values (256): as an   *)
(* int has 4 bytes and a long long 8 whatever a byte is, a smaller Byte    *)
(* shows the same.                                                         *)
(*                                                                         *)
(* A definition marked "variant" is not the code: it is a mistake that the *)
(* definition after it could have, and that a property has to notice.      *)
(***************************************************************************)
EXTENDS Integers, Sequences

CONSTANTS
    Byte,     \* values of a byte
    Years     \* years of a date, counted from 1980

ASSUME ByteIsEven == Byte \in Nat /\ \E h \in 1 .. Byte : Byte = 2 * h
ASSUME YearsAreNat == Years \subseteq 0 .. 127

Date == [day : 1 .. 31, month : 1 .. 12, year : {1980 + y : y \in Years}]
Time == [hours : 0 .. 23, mins : 0 .. 59, secs : {2 * s : s \in 0 .. 29}]
Bytes(n) == [0 .. n - 1 -> 0 .. Byte - 1]

(* Values of a word and of a double word.                                  *)
Word  == Byte * Byte
DWord == Word * Word

-----------------------------------------------------------------------------
(* The formats: DIRECTORY_ENTRY's dates are day, month and year in 5, 4    *)
(* and 7 bits, times "hhMMss" in 5, 6 and 5 bits, seconds halved.          *)
DateWord(d) == d.day + 32 * d.month + 512 * (d.year - 1980)
TimeWord(t) == (t.secs \div 2) + 32 * t.mins + 2048 * t.hours

(* The number the first n bytes stand for.                                 *)
Value(b, n) ==
    LET top[k \in 0 .. n] == IF k = 0 THEN 0 ELSE top[k - 1] * Byte + b[n - k]
    IN  top[n]

(* data & 31, (data & 480) >> 5 and (data & 65042) >> 9.                   *)
printDate(w) == [day |-> w % 32, month |-> (w \div 32) % 16, year |-> 1980 + w \div 512]

(* (data & 63488) >> 11, (data & 1008) >> 4 and (data & 15) * 2.           *)
printTime(w) == [hours |-> w \div 2048, mins |-> (w \div 16) % 64, secs |-> 2 * (w % 16)]

(* An int of four bytes, as it is seen by a long long.                     *)
AsInt(v) ==
    LET w == v % DWord IN IF 2 * w >= DWord THEN w - DWord ELSE w

(* A byte is an int when it is shifted, and the sum is one as well.        *)
readDWord(b) == AsInt(b[0] + b[1] * Byte + b[2] * Word + b[3] * (Word * Byte))

(* The bytes are shifted as ints: one that is shifted by as much as an int *)
(* has may come to nothing, or be shifted by what is left of that          *)
(* (undefined behaviour: the outcomes of a build).                         *)
(* variant: the fourth byte is left out.                                   *)
ThreeBytes(b) == {b[0] + b[1] * Byte + b[2] * Word}
readLongLong(b) ==
    LET low == b[0] + b[1] * Byte + b[2] * Word + AsInt(b[3] * (Word * Byte))
        high == b[4] + b[5] * Byte + b[6] * Word + AsInt(b[7] * (Word * Byte))
    IN  {low, low + high}

(* n bytes that as a number fit an int.                                    *)
FitsInt(n) ==
    {b \in Bytes(n) : 2 * b[3] < Byte /\ \A i \in 4 .. n - 1 : b[i] = 0}

(* n bytes of which one at most, up to that of index top, is not 0, and    *)
(* that as a number fit an int.                                            *)
Sparse(n, top) ==
    {b \in {[i \in 0 .. n - 1 |-> IF i = k THEN v ELSE 0] : k \in 0 .. top, v \in 0 .. Byte - 1} :
        n > 3 => 2 * b[3] < Byte}

(* The boot sectors of FAT32 with certain words and double words.          *)
BPB(words, dwords) ==
    [reservedSectors : words, numFats : 0 .. Byte - 1, sectorsPerFat : dwords,
     rootClusterNumber : dwords, sectorsPerCluster : 0 .. Byte - 1, bytesPerSector : words]

readWord(b) == b[0] + b[1] * Byte

getRootDirLocation(bpb) ==
    LET fdtStartSector ==
          readWord(bpb.reservedSectors) + readDWord(bpb.sectorsPerFat) * bpb.numFats
            + (readDWord(bpb.rootClusterNumber) - 2) * bpb.sectorsPerCluster
    IN  fdtStartSector * readWord(bpb.bytesPerSector)

getMftOffset(bytesPerSector, sectorsPerCluster, mftClusterNumber) ==
    {n * (readWord(bytesPerSector) * sectorsPerCluster) : n \in readLongLong(mftClusterNumber)}

-----------------------------------------------------------------------------
(* printDate, whose mask for the year, 65042, has bits of the day and the  *)
(* month in it, prints the date that was written.                          *)
DatesRoundTrip == \A d \in Date : printDate(DateWord(d)) = d

(* The root directory of FAT32 is where the format puts it: its clusters,  *)
(* of which the first has the number 2, begin behind the reserved sectors  *)
(* and the FATs, one directly behind the other (deletedFilesFat32.cpp:     *)
(* 70-87).                                                                 *)
RootIsRight(bpb) ==
    LET sector  == Value(bpb.bytesPerSector, 2)
        cluster == bpb.sectorsPerCluster * sector
        first   == (Value(bpb.reservedSectors, 2) + bpb.numFats * Value(bpb.sectorsPerFat, 4))
                     * sector
        number  == Value(bpb.rootClusterNumber, 4)
    IN  number >= 2 => getRootDirLocation(bpb) = first + (number - 2) * cluster

(* The MFT of NTFS is in the cluster it is said to be in, counted from the *)
(* beginning of the disk (deletedFilesNtfs.cpp:91-143).                    *)
MftIsRight(w, c, m) == getMftOffset(w, c, m) = {Value(m, 4) * (Value(w, 2) * c)}

(* Both are found with numbers of which a byte is not 0, each of them.     *)
PlacesAreRight ==
    /\ \A v \in BPB(Sparse(2, 1), Sparse(4, 3)) : RootIsRight(v)
    /\ \A w \in Sparse(2, 1), c \in 0 .. Byte - 1, m \in Sparse(8, 3) : MftIsRight(w, c, m)

(* A number that fits an int is read as it was written                     *)
(* (deletedFiles.cpp:19-22); a larger one is negative, and never taken for *)
(* another that fits.                                                      *)
DWordsRoundTrip ==
    \A b \in Bytes(4) :
        IF 2 * b[3] < Byte THEN readDWord(b) = Value(b, 4) ELSE readDWord(b) < 0

(* A long long with nothing in its upper half is read as an int is         *)
(* (deletedFiles.cpp:24-32).                                               *)
SmallLongLongsRoundTrip ==
    \A b \in Bytes(8) :
        (\A i \in 4 .. 7 : b[i] = 0) /\ 2 * b[3] < Byte => readLongLong(b) = {Value(b, 4)}
=============================================================================
