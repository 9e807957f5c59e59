------------------------------ MODULE Evidence ------------------------------
(***************************************************************************)
(* Evidence in the case directories: the case sessions (CaseSessions) and  *)
(* their copy command (Copy), as parse in cli.cpp runs it.                 *)
(*                                                                         *)
(* copy.cpp has no protection of its own against two copies to one name:   *)
(* it relies on a case having one session.  Here that is put to the test,  *)
(* with the locks as they are.  A file is named by its case and its name   *)
(* in the directory of the case.                                           *)
(***************************************************************************)
EXTENDS CaseSessions

CONSTANTS
    Originals, FileNames, Size, MaxFaults   \* as in Copy

ASSUME CopyNumbers == Size \in Nat /\ MaxFaults \in Nat
ASSUME NoneIsNoFile ==
    None \notin Originals /\ None \notin Cases \X FileNames
      /\ None \notin Seq([of : Originals, part : 1 .. Size] \cup {None})

VARIABLES
    copy,               \* copy[s]: where the copy command of s is
    original, name, bytes, written,   \* its local variables
    evidence,           \* the files in the case directories
    copied,             \* the log entries "Copied ... as ..."
    faults, raced, refused   \* as in Copy

Copies == INSTANCE Copy WITH
    Names <- Cases \X FileNames, pc <- copy, files <- evidence, log <- copied

copying == <<copy, original, name, bytes, written, evidence, copied, faults, raced,
             refused>>

EvidenceTypeOK == TypeOK /\ Copies!TypeOK

EvidenceInit == Init /\ Copies!Init

-----------------------------------------------------------------------------
(* parse runs one command at a time.                                       *)
CaseCommand(s) == copy[s] = "idle" /\ SessionStep(s) /\ UNCHANGED copying

(* copy needs an open case; it builds the path from case_name.  Refusing   *)
(* to overwrite a file is logged.                                          *)
CaseIsOpen(s) == log[s] # None

StartCopy(s, o, n) ==
    LET path == <<case_name[s], n>> IN
    /\ At(s, "idle") /\ CaseIsOpen(s)
    /\ Copies!Check(s, o, path)
    /\ IF Copies!Absent(path) THEN UNCHANGED vars ELSE LogText(s)

Copying(s) == At(s, "idle") /\ Copies!Step(s) /\ UNCHANGED vars

FinishCopy(s) == Copies!Finish(s) /\ LogText(s)

(* A start interrupts no copy; the end of a process ends those it runs.    *)
Process(p) ==
    \/ Start(p) /\ UNCHANGED copying
    \/ (Terminate(p) \/ Crash(p)) /\ Copies!Abandon(Of(p))

EvidenceNext ==
    \/ \E s \in Sessions :
          \/ CaseCommand(s) \/ Copying(s) \/ FinishCopy(s)
          \/ ExitFlush(s) /\ UNCHANGED copying
          \/ \E o \in Originals, n \in FileNames : StartCopy(s, o, n)
    \/ \E p \in Procs : Process(p)

EvidenceSpec == EvidenceInit /\ [][EvidenceNext]_<<vars, copying>>

-----------------------------------------------------------------------------
(* The lock of the case is all that keeps two copies apart: two sessions   *)
(* come to write one file only in a case whose lock was overwritten or     *)
(* cleared while in use (copy.cpp:25-39, case.cpp:107-129), whatever is    *)
(* opened, closed, killed and started again meanwhile.                     *)
RacesBreakLocks == \A file \in raced : file[1] \in broken

(* The promises of Copy, kept in the cases whose lock was not broken.      *)
NothingOverwritten == Copies!NothingOverwritten
CopiesAreGenuine   == Copies!CopiesAreGenuine
LoggedOnce         == Copies!LoggedOnce
=============================================================================
