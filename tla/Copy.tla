-------------------------------- MODULE Copy --------------------------------
(***************************************************************************)
(* The copy command (copy.cpp): a file is copied into the case directory,  *)
(* where nothing may be overwritten.  Several sessions may do so at once.  *)
(* When they can, and what ends a copy half way, is the matter of Evidence,*)
(* which puts these steps together with those of the case sessions.        *)
(*                                                                         *)
(* A file is a sequence of blocks; a block of a copy says which part of    *)
(* which original it is, so that one left out or out of its place is seen. *)
(* What is still in the buffer of a stream when the session dies counts as *)
(* not yet copied.                                                         *)
(*                                                                         *)
(* A definition marked "variant" is not the code: it is a mistake that the *)
(* definition after it could have, and that a property has to notice.      *)
(***************************************************************************)
EXTENDS Naturals, Sequences

CONSTANTS
    Sessions,
    Originals,
    Names,      \* names of files in the case directory
    Size,       \* parts of an original, one block each
    MaxFaults,  \* bound: read errors and refused writes
    None

VARIABLES
    pc,         \* where the copy of a session is
    original, name,   \* its arguments
    bytes,      \* blocks it has counted
    written,    \* blocks it has put into the copy
    files,      \* files[n]: the blocks of a file in the case directory
    log,        \* the log of the case
    faults,
    raced,      \* history: names whose file was truncated when it was there
    refused     \* history: refused[n]: the parts the disk refused, of the
                \* copy that was last begun under the name

vars  == <<pc, original, name, bytes, written, files, log, faults, raced, refused>>
local == <<original, name, bytes, written>>

Block  == [of : Originals, part : 1 .. Size]
Blocks == Seq(Block \cup {None})
Labels == {"idle", "open", "create", "loop", "close"}

TypeOK ==
    /\ pc \in [Sessions -> Labels]
    /\ original \in [Sessions -> Originals \cup {None}]
    /\ name \in [Sessions -> Names \cup {None}]
    /\ bytes \in [Sessions -> 0 .. Size] /\ written \in [Sessions -> 0 .. Size]
    /\ files \in [Names -> Blocks \cup {None}]
    /\ log \in Seq([original : Originals, name : Names, bytes : 0 .. Size])
    /\ faults \in 0 .. MaxFaults /\ raced \subseteq Names
    /\ refused \in [Names -> SUBSET (1 .. Size)]

Init ==
    /\ pc = [s \in Sessions |-> "idle"]
    /\ original = [s \in Sessions |-> None] /\ name = [s \in Sessions |-> None]
    /\ bytes = [s \in Sessions |-> 0] /\ written = [s \in Sessions |-> 0]
    /\ files = [n \in Names |-> None]
    /\ log = <<>> /\ faults = 0 /\ raced = {}
    /\ refused = [n \in Names |-> {}]

goto(s, label) == pc' = [pc EXCEPT ![s] = label] /\ UNCHANGED local

(* copy returns, and its local variables are gone.                         *)
return(S) ==
    /\ pc' = [s \in Sessions |-> IF s \in S THEN "idle" ELSE pc[s]]
    /\ original' = [s \in Sessions |-> IF s \in S THEN None ELSE original[s]]
    /\ name' = [s \in Sessions |-> IF s \in S THEN None ELSE name[s]]
    /\ bytes' = [s \in Sessions |-> IF s \in S THEN 0 ELSE bytes[s]]
    /\ written' = [s \in Sessions |-> IF s \in S THEN 0 ELSE written[s]]

(* The existence of the copy is tested first.  variant: it is not tested.  *)
NoMatter(n) == TRUE
Absent(n) == files[n] = None

Check(s, o, n) ==
    /\ pc[s] = "idle"
    /\ IF Absent(n)
       THEN /\ pc' = [pc EXCEPT ![s] = "open"]
            /\ original' = [original EXCEPT ![s] = o]
            /\ name' = [name EXCEPT ![s] = n]
            /\ UNCHANGED <<bytes, written>>
       ELSE UNCHANGED <<pc, local>>
    /\ UNCHANGED <<files, log, faults, raced, refused>>

(* The original, then the copy, may fail to open.                          *)
OpenOriginal(s) ==
    /\ pc[s] = "open"
    /\ goto(s, "create") \/ return({s})
    /\ UNCHANGED <<files, log, faults, raced, refused>>

(* fopen(copy, "w") truncates a file that is there by now.                 *)
CreateCopy(s) ==
    /\ pc[s] = "create"
    /\ \/ /\ goto(s, "loop")
          /\ files' = [files EXCEPT ![name[s]] = <<>>]
          /\ raced' = IF Absent(name[s]) THEN raced ELSE raced \cup {name[s]}
          /\ refused' = [refused EXCEPT ![name[s]] = {}]
       \/ return({s}) /\ UNCHANGED <<files, raced, refused>>
    /\ UNCHANGED <<log, faults>>

(* A stream writes where it left off, over what another one wrote there,   *)
(* or leaving a hole if the file was truncated.                            *)
Put(file, i, block) ==
    [k \in 1 .. (IF i > Len(file) THEN i ELSE Len(file)) |->
        IF k = i THEN block ELSE IF k <= Len(file) THEN file[k] ELSE None]

(* variant: the end is noticed one block too late (feof).                  *)
OneMore(s) == bytes[s] <= Size
More(s) == bytes[s] < Size

AtEnd(s) == bytes[s] = Size

PartRead(s) == [of |-> original[s], part |-> bytes[s] + 1]

(* One block from fgetc to fputc, whose result is not looked at: a block   *)
(* the disk refuses is counted, and the next one lands in its place.       *)
CopyBlock(s) ==
    /\ pc[s] = "loop" /\ More(s)
    /\ bytes' = [bytes EXCEPT ![s] = @ + 1]
    /\ \/ /\ files' = [files EXCEPT ![name[s]] = Put(@, written[s] + 1, PartRead(s))]
          /\ written' = [written EXCEPT ![s] = @ + 1]
          /\ UNCHANGED <<faults, refused>>
       \/ /\ faults < MaxFaults /\ faults' = faults + 1
          /\ refused' = [refused EXCEPT ![name[s]] = @ \cup {bytes[s] + 1}]
          /\ UNCHANGED <<files, written>>
    /\ UNCHANGED <<pc, original, name, log, raced>>

(* EOF: the original has no more blocks, or cannot be read on.             *)
EndLoop(s) ==
    /\ pc[s] = "loop"
    /\ goto(s, "close")
    /\ \/ AtEnd(s) /\ UNCHANGED faults
       \/ bytes[s] < Size /\ faults < MaxFaults /\ faults' = faults + 1
    /\ UNCHANGED <<files, log, raced, refused>>

(* Both files are closed and the copy is logged.                           *)
Finish(s) ==
    /\ pc[s] = "close"
    /\ return({s})
    /\ log' = Append(log, [original |-> original[s], name |-> name[s],
                           bytes |-> bytes[s]])
    /\ UNCHANGED <<files, faults, raced, refused>>

(* Sessions die in the middle of a copy; what they had written stays.      *)
Abandon(dead) == return(dead) /\ UNCHANGED <<files, log, faults, raced, refused>>

Step(s) == OpenOriginal(s) \/ CreateCopy(s) \/ CopyBlock(s) \/ EndLoop(s)

-----------------------------------------------------------------------------
(* The first k parts of one original in their order, but for the missing.  *)
IsCopyOf(file, o, k, missing) ==
    /\ file # None
    /\ \A i \in DOMAIN file : file[i] \in [of : {o}, part : 1 .. k]
    /\ \A i, j \in DOMAIN file : i < j => file[i].part < file[j].part
    /\ {file[i].part : i \in DOMAIN file} = (1 .. k) \ missing

(* "Overwriting forensic data is not allowed." (copy.cpp:30): a block of a *)
(* file in the case directory never changes and is never removed, unless   *)
(* two sessions found the name unused at the same time.                    *)
NothingOverwritten ==
    [][\A n \in Names \ raced' : files[n] # None =>
          /\ files'[n] # None
          /\ Len(files'[n]) >= Len(files[n])
          /\ \A i \in DOMAIN files[n] : files'[n][i] = files[n][i]]_vars

(* Without such a race a copy holds the parts of one original as far as it *)
(* came, each once and in their order, and none is missing but those the   *)
(* disk refused, whatever else became of it: crashes, read errors and      *)
(* attempts to copy over it (copy.cpp:26-50).  If the disk refused none it *)
(* is the beginning of the original.                                       *)
CopiesAreGenuine ==
    \A n \in Names \ raced :
        files[n] # None =>
           \E o \in Originals, k \in 0 .. Size : IsCopyOf(files[n], o, k, refused[n])

(* The log says how much of which original was copied: the file is just    *)
(* that much of it, but for what the disk refused, which the count         *)
(* includes; and a name is logged once, so that what is logged stays as    *)
(* evidence (copy.cpp:26-32, 45-56).                                       *)
LoggedOnce ==
    \A i \in DOMAIN log : log[i].name \notin raced =>
        /\ IsCopyOf(files[log[i].name], log[i].original, log[i].bytes, refused[log[i].name])
        /\ \A j \in DOMAIN log : log[j].name = log[i].name => j = i
=============================================================================
