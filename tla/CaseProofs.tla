----------------------------- MODULE CaseProofs -----------------------------
(***************************************************************************)
(* Proofs about CaseSessions, for any number of processes, sessions and    *)
(* cases and any bound on the logs, and about Evidence, for any files and  *)
(* blocks as well.                                                         *)
(*                                                                         *)
(* First of the locks and the fields of a Case, then what they come to     *)
(* when commands do not overlap, then the logs.  Last comes what Copy      *)
(* promises of the files in a case: it is kept but for races, and a race   *)
(* needs a lock that was broken.                                           *)
(***************************************************************************)
EXTENDS CaseOwnership, Evidence, SequenceTheorems, TLAPS

-----------------------------------------------------------------------------
(* Every variable keeps its type in every behaviour (the fields of Case in *)
(* case.h and the files below ./cases).                                    *)
LEMMA FlushType ==
    ASSUME TypeOK, NEW s \in Sessions, NEW es \in Seq(Entry), Flush(s, es)
    PROVE  disk' \in [Cases -> Seq(Entry)] /\ buf' \in [Sessions -> Seq(Entry)]
  <1>1. \A c \in Cases : disk[c] \o es \in Seq(Entry)
    BY ConcatProperties DEF TypeOK
  <1>2. <<>> \in Seq(Entry)
    OBVIOUS
  <1> QED
    BY <1>1, <1>2 DEF Flush, TypeOK

LEMMA EntryType ==
    ASSUME TypeOK, NEW s \in Sessions, NEW k \in Kinds
    PROVE  /\ <<[by |-> s, kind |-> k]>> \in Seq(Entry)
           /\ Append(buf[s], [by |-> s, kind |-> k]) \in Seq(Entry)
           /\ buf[s] \in Seq(Entry)
  <1>1. [by |-> s, kind |-> k] \in Entry
    BY DEF Entry
  <1>2. buf[s] \in Seq(Entry)
    BY DEF TypeOK
  <1> QED
    BY <1>1, <1>2, AppendProperties

LEMMA VanishType ==
    ASSUME TypeOK, NEW p \in Procs, Vanish(p)
    PROVE  TypeOK'
  BY DEF Vanish, TypeOK, files, Maybe, Running

LEMMA StepType ==
    TypeOK /\ [Next]_vars => TypeOK'
  <1> SUFFICES ASSUME TypeOK, [Next]_vars PROVE TypeOK'
    OBVIOUS
  <1> USE NoneAssumption, HomeAssumption DEF Maybe, Running, files, fields
  <1>1. ASSUME NEW s \in Sessions, SessionStep(s) PROVE TypeOK'
    <2>1. CASE Connect(s)
      BY <2>1 DEF Connect, TypeOK
    <2>2. ASSUME NEW c \in Cases, CheckLock(s, c), dirs' \in {dirs, dirs \cup {c}}
          PROVE  TypeOK'
      BY <2>2 DEF CheckLock, NoCaseOpen, InUse, TypeOK
    <2>3. CASE \E c \in Cases : Open(s, c) \/ New(s, c)
      BY <2>2, <2>3 DEF Open, New
    <2>4. CASE CreateLock(s)
      <3>1. CASE case_name[s] \in dirs
        <4>1. case_name[s] \in Cases
          BY <3>1 DEF TypeOK
        <4>2. locked' \subseteq Cases /\ broken' \subseteq Cases
          BY <2>4, <3>1, <4>1 DEF CreateLock, TypeOK
        <4> QED
          BY <2>4, <3>1, <4>1, <4>2 DEF CreateLock, TypeOK
      <3>2. CASE case_name[s] \notin dirs
        BY <2>4, <3>2 DEF CreateLock, TypeOK
      <3> QED
        BY <3>1, <3>2
    <2>5. CASE OpenLog(s)
      <3>1. <<[by |-> s, kind |-> "opened"]>> \in Seq(Entry)
        BY EntryType DEF Kinds
      <3>2. /\ log' \in [Sessions -> Maybe]
            /\ buf' \in [Sessions -> Seq(Entry)]
        <4>1. CASE UNCHANGED <<log, buf>>
          BY <4>1 DEF TypeOK
        <4>2. CASE /\ log' = [log EXCEPT ![s] = case_name[s]]
                   /\ buf' = [buf EXCEPT ![s] = <<[by |-> s, kind |-> "opened"]>>]
          BY <3>1, <4>2 DEF TypeOK
        <4> QED
          BY <2>5, <4>1, <4>2 DEF OpenLog
      <3> QED
        BY <2>5, <3>2 DEF OpenLog, TypeOK
    <2>6. CASE LogText(s)
      <3>1. Append(buf[s], [by |-> s, kind |-> "text"]) \in Seq(Entry)
        BY EntryType DEF Kinds
      <3>2. disk' \in [Cases -> Seq(Entry)] /\ buf' \in [Sessions -> Seq(Entry)]
        <4>1. CASE Flush(s, Append(buf[s], [by |-> s, kind |-> "text"]))
          BY <3>1, <4>1, FlushType
        <4>2. CASE /\ buf' = [buf EXCEPT ![s] =
                                Append(buf[s], [by |-> s, kind |-> "text"])]
                   /\ UNCHANGED disk
          BY <3>1, <4>2 DEF TypeOK
        <4> QED
          BY <2>6, <4>1, <4>2 DEF LogText
      <3> QED
        BY <2>6, <3>2 DEF LogText, TypeOK
    <2>7. CASE ShowLog(s)
      <3>1. disk' \in [Cases -> Seq(Entry)] /\ buf' \in [Sessions -> Seq(Entry)]
        BY <2>7, FlushType DEF ShowLog, TypeOK
      <3> QED
        BY <2>7, <3>1 DEF ShowLog, TypeOK
    <2>8. CASE Close(s)
      BY <2>8 DEF Close, RemoveLock, TypeOK
    <2>9. CASE FinishClose(s)
      <3>1. Append(buf[s], [by |-> s, kind |-> "closing"]) \in Seq(Entry)
        BY EntryType DEF Kinds
      <3>2. disk' \in [Cases -> Seq(Entry)] /\ buf' \in [Sessions -> Seq(Entry)]
        BY <2>9, <3>1, FlushType DEF FinishClose, WriteClosing, TypeOK
      <3> QED
        BY <2>9, <3>2 DEF FinishClose, WriteClosing, TypeOK
    <2>10. CASE TalkerExit(s)
      BY <2>10 DEF TalkerExit, TypeOK
    <2>11. CASE Exit(s)
      BY <2>11 DEF Exit, TypeOK, Of
    <2> QED
      BY <1>1, <2>1, <2>3, <2>4, <2>5, <2>6, <2>7, <2>8, <2>9, <2>10, <2>11
      DEF SessionStep
  <1>2. ASSUME NEW s \in Sessions, ExitFlush(s) PROVE TypeOK'
    <2>1. disk' \in [Cases -> Seq(Entry)] /\ buf' \in [Sessions -> Seq(Entry)]
      BY <1>2, FlushType DEF ExitFlush, TypeOK
    <2> QED
      BY <1>2, <2>1 DEF ExitFlush, TypeOK
  <1>3. ASSUME NEW p \in Procs, ProcessStep(p) PROVE TypeOK'
    <2>1. CASE Start(p)
      BY <2>1 DEF Start, TypeOK, Of
    <2>2. CASE Terminate(p) \/ Crash(p)
      BY <2>2, VanishType DEF Terminate, Crash
    <2> QED
      BY <1>3, <2>1, <2>2 DEF ProcessStep
  <1>4. CASE UNCHANGED vars
    BY <1>4 DEF vars, TypeOK
  <1> QED
    BY <1>1, <1>2, <1>3, <1>4 DEF Next

THEOREM TypeCorrect == Spec => []TypeOK
  <1>1. Init => TypeOK
    BY DEF Init, TypeOK, Maybe
  <1> QED
    BY <1>1, StepType, PTL DEF Spec

-----------------------------------------------------------------------------
(* What a session's fields are at each place of its commands: the part of  *)
(* the inductive invariant that concerns one session.                      *)
Fields(s) ==
    /\ pc[s] \in {"create", "log"} => log[s] = None /\ case_name[s] \in Cases
    /\ pc[s] = "log" => case_directory[s] = case_name[s]
    /\ log[s] # None => log[s] = case_name[s] /\ log[s] = case_directory[s]
    /\ status[Home[s]] \notin Running => log[s] = None

CaseInv == TypeOK /\ (\A s \in Sessions : Fields(s)) /\ ExclusiveUnlessBroken

LEMMA InitCaseInv == Init => CaseInv
  BY NoneAssumption, HomeAssumption
  DEF Init, CaseInv, TypeOK, Maybe, Fields, ExclusiveUnlessBroken, Holder

(* A step that changes no lock and makes nobody a holder keeps exclusion.  *)
LEMMA NoNewHolder ==
    ASSUME ExclusiveUnlessBroken,
           \A s \in Sessions, c \in Cases : Holder(s, c)' => Holder(s, c),
           UNCHANGED <<locked, broken>>
    PROVE  ExclusiveUnlessBroken'
  BY DEF ExclusiveUnlessBroken

LEMMA VanishCaseInv ==
    ASSUME CaseInv, NEW p \in Procs, Vanish(p)
    PROVE  (\A s \in Sessions : Fields(s)') /\ ExclusiveUnlessBroken'
  <1>1. \A s \in Sessions : Fields(s)'
    BY HomeAssumption DEF Vanish, CaseInv, TypeOK, Fields, Of, Running
  <1>2. \A s \in Sessions, c \in Cases : Holder(s, c)' => Holder(s, c)
    BY NoneAssumption DEF Vanish, CaseInv, TypeOK, Holder
  <1> QED
    BY <1>1, <1>2, NoNewHolder DEF Vanish, CaseInv, files

LEMMA StepCaseInv == CaseInv /\ [Next]_vars => CaseInv'
  <1> SUFFICES ASSUME CaseInv, [Next]_vars
               PROVE  (\A s \in Sessions : Fields(s)') /\ ExclusiveUnlessBroken'
    BY StepType DEF CaseInv
  <1>0. /\ TypeOK
        /\ \A s \in Sessions : Fields(s)
        /\ ExclusiveUnlessBroken
    BY DEF CaseInv
  <1> USE NoneAssumption, HomeAssumption DEF Running
  <1>1. ASSUME NEW s \in Sessions, SessionStep(s)
        PROVE  (\A t \in Sessions : Fields(t)') /\ ExclusiveUnlessBroken'
    <2> DEFINE Kept == \A t \in Sessions, c \in Cases : Holder(t, c)' => Holder(t, c)
    <2>1. CASE Connect(s) \/ TalkerExit(s) \/ Exit(s)
      <3>1. \A t \in Sessions : Fields(t)'
        <4>1. CASE Connect(s) \/ TalkerExit(s)
          BY <1>0, <4>1 DEF Connect, TalkerExit, At, fields, TypeOK, Fields
        <4>2. CASE Exit(s)
          <5>1. UNCHANGED fields /\ pc' = [pc EXCEPT ![s] = "gone"]
            BY <4>2 DEF Exit
          <5>2. \A t \in Sessions :
                   status'[Home[t]] \notin Running => status[Home[t]] \notin Running
            BY <1>0, <4>2 DEF Exit, TypeOK
          <5> QED
            BY <1>0, <5>1, <5>2 DEF fields, TypeOK, Fields
        <4> QED
          BY <2>1, <4>1, <4>2
      <3>2. Kept /\ UNCHANGED <<locked, broken>>
        BY <1>0, <2>1
        DEF Connect, TalkerExit, Exit, At, fields, files, TypeOK, Holder
      <3> QED
        BY <1>0, <3>1, <3>2, NoNewHolder
    <2>2. ASSUME NEW c \in Cases, CheckLock(s, c)
          PROVE  (\A t \in Sessions : Fields(t)') /\ ExclusiveUnlessBroken'
      <3>1. \A t \in Sessions : Fields(t)'
        BY <1>0, <2>2 DEF CheckLock, NoCaseOpen, InUse, At, TypeOK, Fields
      <3>2. Kept /\ UNCHANGED <<locked, broken>>
        BY <1>0, <2>2 DEF CheckLock, NoCaseOpen, InUse, At, TypeOK, Holder
      <3> QED
        BY <1>0, <3>1, <3>2, NoNewHolder
    <2>3. CASE \E c \in Cases : Open(s, c) \/ New(s, c)
      BY <2>2, <2>3 DEF Open, New
    <2>4. CASE CreateLock(s)
      <3>1. \A t \in Sessions : Fields(t)'
        BY <1>0, <2>4 DEF CreateLock, At, TypeOK, Fields
      <3>2. CASE case_name[s] \notin dirs
        <4>1. Kept /\ UNCHANGED <<locked, broken>>
          BY <1>0, <2>4, <3>2 DEF CreateLock, At, TypeOK, Holder
        <4> QED
          BY <1>0, <4>1, <3>1, NoNewHolder
      <3>3. CASE case_name[s] \in dirs
        <4>1. \A t \in Sessions, c \in Cases :
                 Holder(t, c)' => Holder(t, c) \/ (t = s /\ c = case_name[s])
          BY <1>0, <2>4, <3>3 DEF CreateLock, At, TypeOK, Holder
        <4>2. /\ locked' = locked \cup {case_name[s]}
              /\ broken' = IF case_name[s] \in locked
                           THEN broken \cup {case_name[s]} ELSE broken
          BY <2>4, <3>3 DEF CreateLock
        <4>3. ExclusiveUnlessBroken'
          BY <1>0, <4>1, <4>2 DEF ExclusiveUnlessBroken
        <4> QED
          BY <3>1, <4>3
      <3> QED
        BY <3>2, <3>3
    <2>5. CASE OpenLog(s)
      <3>1. \A t \in Sessions : Fields(t)'
        BY <1>0, <2>5 DEF OpenLog, At, files, TypeOK, Fields
      <3>2. Kept /\ UNCHANGED <<locked, broken>>
        BY <1>0, <2>5 DEF OpenLog, At, files, TypeOK, Holder, Fields
      <3> QED
        BY <1>0, <3>1, <3>2, NoNewHolder
    <2>6. CASE LogText(s) \/ ShowLog(s)
      <3>1. UNCHANGED <<status, files, pc, fields, broken>>
        BY <2>6 DEF LogText, ShowLog
      <3> QED
        BY <1>0, <3>1 DEF files, fields, Fields, ExclusiveUnlessBroken, Holder
    <2>7. CASE Close(s)
      <3>1. \A t \in Sessions : Fields(t)'
        BY <1>0, <2>7 DEF Close, RemoveLock, At, fields, TypeOK, Fields
      <3>2. \A t \in Sessions, c \in Cases :
               Holder(t, c)' => Holder(t, c) /\ (t = s => c # case_name[s])
        BY <1>0, <2>7 DEF Close, RemoveLock, At, fields, TypeOK, Holder, Fields
      <3>3. Holder(s, case_name[s])
        BY <1>0, <2>7 DEF Close, RemoveLock, At, Holder, Fields
      <3>4. locked' = locked \ {case_name[s]} /\ broken' = broken
        BY <2>7 DEF Close, RemoveLock
      <3>5. ExclusiveUnlessBroken'
        BY <1>0, <3>2, <3>3, <3>4 DEF ExclusiveUnlessBroken
      <3> QED
        BY <3>1, <3>5
    <2>8. CASE FinishClose(s)
      <3>1. \A t \in Sessions : Fields(t)'
        BY <1>0, <2>8 DEF FinishClose, WriteClosing, At, files, TypeOK, Fields
      <3>2. Kept /\ UNCHANGED <<locked, broken>>
        BY <1>0, <2>8 DEF FinishClose, WriteClosing, At, files, TypeOK, Holder
      <3> QED
        BY <1>0, <3>1, <3>2, NoNewHolder
    <2> QED
      BY <1>1, <2>1, <2>3, <2>4, <2>5, <2>6, <2>7, <2>8 DEF SessionStep
  <1>2. ASSUME NEW s \in Sessions, ExitFlush(s)
        PROVE  (\A t \in Sessions : Fields(t)') /\ ExclusiveUnlessBroken'
    <2>1. UNCHANGED <<status, files, pc, fields, broken>>
      BY <1>2 DEF ExitFlush
    <2> QED
      BY <1>0, <2>1 DEF files, fields, Fields, ExclusiveUnlessBroken, Holder
  <1>3. ASSUME NEW p \in Procs, ProcessStep(p)
        PROVE  (\A t \in Sessions : Fields(t)') /\ ExclusiveUnlessBroken'
    <2>1. CASE Start(p)
      <3>1. \A t \in Sessions : Fields(t)'
        BY <1>0, <2>1 DEF Start, fields, TypeOK, Fields
      <3>2. \A t \in Sessions, c \in Cases : Holder(t, c)' => Holder(t, c)
        BY <1>0, <2>1 DEF Start, fields, TypeOK, Holder, Fields, Of
      <3>3. CASE caseRoot
        <4>1. broken' = broken \cup {c \in locked : \E s \in Sessions : Holder(s, c)}
          BY <2>1, <3>3 DEF Start
        <4>2. \A c \in Cases \ broken' : \A s \in Sessions : ~Holder(s, c)
          BY <1>0, <4>1 DEF ExclusiveUnlessBroken
        <4>3. ExclusiveUnlessBroken'
          BY <3>2, <4>2 DEF ExclusiveUnlessBroken
        <4> QED
          BY <3>1, <4>3
      <3>4. CASE ~caseRoot
        BY <1>0, <2>1, <3>1, <3>2, <3>4, NoNewHolder DEF Start
      <3> QED
        BY <3>3, <3>4
    <2>2. CASE Terminate(p) \/ Crash(p)
      BY <2>2, VanishCaseInv DEF Terminate, Crash
    <2> QED
      BY <1>3, <2>1, <2>2 DEF ProcessStep
  <1>4. CASE UNCHANGED vars
    BY <1>0, <1>4 DEF vars, files, fields, Fields, ExclusiveUnlessBroken, Holder
  <1> QED
    BY <1>1, <1>2, <1>3, <1>4 DEF Next

(* A case whose lock was never overwritten or cleared in use has at most   *)
(* one holder, whose lock file exists (case.cpp:107-129, 147-150, 38-52).  *)
THEOREM Exclusion == Spec => []ExclusiveUnlessBroken
  <1>1. CaseInv => ExclusiveUnlessBroken
    BY DEF CaseInv
  <1> QED
    BY <1>1, InitCaseInv, StepCaseInv, PTL DEF Spec

(* The name, the directory and the log of a session's Case agree whenever  *)
(* the log is open (case.cpp:103-159).                                     *)
THEOREM FieldsAgree == Spec => []NameMatches
  <1>1. CaseInv => NameMatches
    BY DEF CaseInv, Fields, NameMatches
  <1> QED
    BY <1>1, InitCaseInv, StepCaseInv, PTL DEF Spec

-----------------------------------------------------------------------------
(* When commands do not overlap and one instance runs, nothing comes       *)
(* between the test of the lock file and its creation, and a start finds   *)
(* no session at work.                                                     *)
Quiet(s) ==
    /\ pc[s] = "create" => case_name[s] \notin locked
    /\ status[Home[s]] \notin Running => pc[s] = "off"

SerialInv ==
    /\ CaseInv
    /\ broken = {}
    /\ \A s \in Sessions : Quiet(s)
    /\ \A s, t \in Sessions : Busy(s) /\ Busy(t) => s = t

LEMMA SerialInit == Init => SerialInv
  BY InitCaseInv, HomeAssumption DEF Init, SerialInv, Quiet, Busy

LEMMA StepSerialInv ==
    ASSUME SingleInstance
    PROVE  SerialInv /\ [SerialNext]_vars => SerialInv'
  <1> SUFFICES ASSUME SerialInv, [SerialNext]_vars
               PROVE  /\ broken' = {}
                      /\ \A s \in Sessions : Quiet(s)'
                      /\ \A s, t \in Sessions : Busy(s)' /\ Busy(t)' => s = t
    <2>1. [SerialNext]_vars => [Next]_vars
      BY DEF SerialNext, Next
    <2> QED
      BY <2>1, StepCaseInv DEF SerialInv
  <1> DEFINE Goal == /\ broken' = {}
                     /\ \A s \in Sessions : Quiet(s)'
                     /\ \A s, t \in Sessions : Busy(s)' /\ Busy(t)' => s = t
  <1>0. /\ TypeOK /\ broken = {}
        /\ \A s \in Sessions : Fields(s) /\ Quiet(s)
        /\ \A s, t \in Sessions : Busy(s) /\ Busy(t) => s = t
    BY DEF SerialInv, CaseInv
  <1> USE NoneAssumption, HomeAssumption DEF Running
  <1>1. ASSUME NEW s \in Sessions, SessionStep(s),
               \A t \in Sessions \ {s} : ~Busy(t)
        PROVE  Goal
    <2>1. CASE Connect(s) \/ TalkerExit(s)
      <3>1. /\ UNCHANGED <<status, locked, case_name, broken>>
            /\ \E l \in {"idle", "gone"} : pc' = [pc EXCEPT ![s] = l]
            /\ status[Home[s]] \in Running
        BY <2>1 DEF Connect, TalkerExit, At, fields, files
      <3> QED
        BY <1>0, <1>1, <3>1 DEF TypeOK, Quiet, Busy
    <2>2. CASE Exit(s)
      <3>1. UNCHANGED <<locked, case_name, broken>> /\ pc' = [pc EXCEPT ![s] = "gone"]
        BY <2>2 DEF Exit, files, fields
      <3>2. \A t \in Sessions :
               status'[Home[t]] \notin Running => status[Home[t]] \notin Running /\ t # s
        BY <1>0, <2>2 DEF Exit, TypeOK
      <3> QED
        BY <1>0, <1>1, <3>1, <3>2 DEF TypeOK, Quiet, Busy
    <2>3. ASSUME NEW c \in Cases, CheckLock(s, c) PROVE Goal
      <3>1. CASE c \in locked
        BY <1>0, <2>3, <3>1 DEF CheckLock, NoCaseOpen, InUse, Quiet, Busy
      <3>2. CASE c \notin locked
        <4>1. /\ pc' = [pc EXCEPT ![s] = "create"]
              /\ case_name' = [case_name EXCEPT ![s] = c]
              /\ UNCHANGED <<status, locked, broken>>
              /\ status[Home[s]] \in Running
          BY <2>3, <3>2 DEF CheckLock, NoCaseOpen, InUse, At
        <4> QED
          BY <1>0, <1>1, <3>2, <4>1 DEF TypeOK, Quiet, Busy
      <3> QED
        BY <3>1, <3>2
    <2>4. CASE \E c \in Cases : Open(s, c) \/ New(s, c)
      BY <2>3, <2>4 DEF Open, New
    <2>5. CASE CreateLock(s)
      <3>1. case_name[s] \notin locked /\ UNCHANGED <<status, case_name>>
        BY <1>0, <2>5 DEF CreateLock, At, Quiet
      <3>2. broken' = {}
        BY <1>0, <2>5, <3>1 DEF CreateLock
      <3>3. /\ locked' \subseteq locked \cup {case_name[s]}
            /\ \E l \in {"log", "idle"} : pc' = [pc EXCEPT ![s] = l]
            /\ status[Home[s]] \in Running
        BY <2>5 DEF CreateLock, At
      <3> QED
        BY <1>0, <1>1, <3>1, <3>2, <3>3 DEF TypeOK, Quiet, Busy
    <2>6. CASE OpenLog(s) \/ FinishClose(s)
      <3>1. /\ UNCHANGED <<status, files, case_name, broken>>
            /\ pc' = [pc EXCEPT ![s] = "idle"]
            /\ status[Home[s]] \in Running
        BY <2>6 DEF OpenLog, FinishClose, WriteClosing, At
      <3> QED
        BY <1>0, <1>1, <3>1 DEF files, TypeOK, Quiet, Busy
    <2>7. CASE LogText(s) \/ ShowLog(s)
      <3>1. UNCHANGED <<status, files, pc, fields, broken>>
        BY <2>7 DEF LogText, ShowLog
      <3> QED
        BY <1>0, <3>1 DEF files, fields, Quiet, Busy
    <2>8. CASE Close(s)
      BY <1>0, <1>1, <2>8 DEF Close, RemoveLock, At, fields, TypeOK, Quiet, Busy
    <2> QED
      BY <1>1, <2>1, <2>2, <2>4, <2>5, <2>6, <2>7, <2>8 DEF SessionStep
  <1>2. ASSUME NEW s \in Sessions, ExitFlush(s) PROVE Goal
    <2>1. UNCHANGED <<status, files, pc, fields, broken>>
      BY <1>2 DEF ExitFlush
    <2> QED
      BY <1>0, <2>1 DEF files, fields, Quiet, Busy
  <1>3. ASSUME NEW p \in Procs, ProcessStep(p) PROVE Goal
    <2>0. \A s \in Sessions : Home[s] = p
      BY SingleInstance DEF SingleInstance
    <2>1. CASE Start(p)
      <3>1. \A s \in Sessions : pc[s] = "off" /\ log[s] = None
        BY <1>0, <2>0, <2>1 DEF Start, Quiet, Fields
      <3>2. \A s \in Sessions, c \in Cases : ~Holder(s, c)
        BY <3>1 DEF Holder
      <3>3. broken' = {}
        BY <1>0, <2>1, <3>2 DEF Start, TypeOK
      <3>4. \A s \in Sessions : pc'[s] \in {"off", "idle"}
        BY <2>1, <3>1 DEF Start, TypeOK
      <3>5. \A s \in Sessions : status'[Home[s]] \notin Running => pc'[s] = "off"
        BY <1>0, <2>0, <2>1, <3>1 DEF Start, TypeOK
      <3> QED
        BY <3>3, <3>4, <3>5 DEF Quiet, Busy
    <2>2. CASE Terminate(p) \/ Crash(p)
      <3>1. Vanish(p)
        BY <2>2 DEF Terminate, Crash
      <3>2. broken' = {} /\ \A s \in Sessions : pc'[s] = "off"
        BY <1>0, <2>0, <3>1 DEF Vanish, Of
      <3> QED
        BY <3>2 DEF Quiet, Busy
    <2> QED
      BY <1>3, <2>1, <2>2 DEF ProcessStep
  <1>4. CASE UNCHANGED vars
    BY <1>0, <1>4 DEF vars, files, fields, Quiet, Busy
  <1> QED
    BY <1>1, <1>2, <1>3, <1>4 DEF SerialNext

(* "The case %s is currently in use by another user" (case.cpp:112) is     *)
(* true when commands do not overlap and the tool runs once.               *)
THEOREM SerialExclusion ==
    ASSUME SingleInstance
    PROVE  SerialSpec => []MutualExclusion
  <1>1. Init => SerialInv
    BY SerialInit
  <1>2. SerialInv => MutualExclusion
    BY DEF SerialInv, CaseInv, ExclusiveUnlessBroken, MutualExclusion
  <1>3. SerialInv /\ [SerialNext]_vars => SerialInv'
    BY StepSerialInv
  <1> QED
    BY <1>1, <1>2, <1>3, PTL DEF SerialSpec

-----------------------------------------------------------------------------
(* In the invariant an owner is told by the lock file and the holder.      *)
OwnerFacts ==
    \A c \in Cases :
        /\ c \notin locked => owner[c] = Free
        /\ \A s \in Sessions : Holder(s, c) => owner[c] = s
        /\ c \in locked /\ (\A s \in Sessions : ~Holder(s, c)) => owner[c] = Stale

LEMMA OwnerIs == SerialInv => OwnerFacts
  <1> SUFFICES ASSUME SerialInv, NEW c \in Cases
               PROVE  /\ c \notin locked => owner[c] = Free
                      /\ \A s \in Sessions : Holder(s, c) => owner[c] = s
                      /\ c \in locked /\ (\A s \in Sessions : ~Holder(s, c))
                           => owner[c] = Stale
    BY DEF OwnerFacts
  <1>1. owner[c] = IF c \notin locked THEN Free
                   ELSE IF \E s \in Sessions : Holder(s, c)
                        THEN CHOOSE s \in Sessions : Holder(s, c)
                        ELSE Stale
    BY DEF owner
  <1>2. /\ \A s, t \in Sessions : Holder(s, c) /\ Holder(t, c) => s = t
        /\ (\E s \in Sessions : Holder(s, c)) => c \in locked
    BY DEF SerialInv, CaseInv, ExclusiveUnlessBroken
  <1>3. ASSUME NEW s \in Sessions, Holder(s, c) PROVE owner[c] = s
    <2>1. owner[c] = CHOOSE t \in Sessions : Holder(t, c)
      BY <1>1, <1>2, <1>3
    <2>2. /\ (CHOOSE t \in Sessions : Holder(t, c)) \in Sessions
          /\ Holder(CHOOSE t \in Sessions : Holder(t, c), c)
      BY <1>3
    <2> QED
      BY <1>2, <1>3, <2>1, <2>2
  <1> QED
    BY <1>1, <1>3

LEMMA OwnerIsNext == SerialInv' => OwnerFacts'
  BY OwnerIs, PTL

(* Where locks and holders of a case are the same, so is its owner.        *)
LEMMA SameOwner ==
    ASSUME SerialInv, SerialInv', NEW c \in Cases,
           c \in locked' <=> c \in locked,
           \A s \in Sessions : Holder(s, c)' <=> Holder(s, c)
    PROVE  owner'[c] = owner[c]
  <1>1. OwnerFacts /\ OwnerFacts'
    BY OwnerIs, OwnerIsNext
  <1>2. CASE \E s \in Sessions : Holder(s, c)
    BY <1>1, <1>2 DEF OwnerFacts
  <1>3. CASE \A s \in Sessions : ~Holder(s, c)
    BY <1>1, <1>3 DEF OwnerFacts
  <1> QED
    BY <1>2, <1>3

LEMMA OwnerFunction ==
    owner = [c \in Cases |-> owner[c]] /\ owner' = [c \in Cases |-> owner'[c]]
  BY DEF owner

(* The holders of the cases in C leave, or fail to open the log, and the   *)
(* lock files stay.                                                        *)
LEMMA AbandonedLocks ==
    ASSUME SerialInv, SerialInv', UNCHANGED locked, NEW C \in SUBSET Cases,
           \A c \in C : \E s \in Sessions : Holder(s, c),
           \A c \in Cases, s \in Sessions :
               Holder(s, c)' <=> Holder(s, c) /\ c \notin C
    PROVE  Lock!Abandon(C)
  <1>1. OwnerFacts /\ OwnerFacts'
    BY OwnerIs, OwnerIsNext
  <1>2. \A c \in C : owner[c] \in Sessions
    BY <1>1 DEF OwnerFacts
  <1>3. \A c \in C : owner'[c] = Stale
    <2>1. \A c \in C : c \in locked
      BY DEF SerialInv, CaseInv, ExclusiveUnlessBroken
    <2> QED
      BY <1>1, <2>1 DEF OwnerFacts
  <1>4. \A c \in Cases \ C : owner'[c] = owner[c]
    BY SameOwner
  <1>5. owner' = [c \in Cases |-> IF c \in C THEN Stale ELSE owner[c]]
    BY <1>3, <1>4, OwnerFunction
  <1> QED
    BY <1>2, <1>5 DEF Lock!Abandon

LEMMA StepLock ==
    ASSUME SingleInstance, SerialInv, SerialInv', [SerialNext]_vars
    PROVE  [Lock!Next]_owner
  <1>0. /\ TypeOK /\ broken = {}
        /\ \A s \in Sessions : Fields(s) /\ Quiet(s)
        /\ OwnerFacts /\ OwnerFacts'
    BY OwnerIs, OwnerIsNext DEF SerialInv, CaseInv
  <1> DEFINE Kept == /\ UNCHANGED locked
                     /\ \A s \in Sessions, c \in Cases : Holder(s, c)' <=> Holder(s, c)
  <1>a. Kept => UNCHANGED owner
    BY SameOwner, OwnerFunction
  <1>b. ASSUME NEW C \in SUBSET Cases, Lock!Abandon(C) PROVE Lock!Next
    BY <1>b DEF Lock!Next
  <1> USE NoneAssumption, HomeAssumption DEF Running
  <1> HIDE DEF Kept
  <1>1. ASSUME NEW s \in Sessions, SessionStep(s) PROVE [Lock!Next]_owner
    <2>1. CASE Connect(s) \/ TalkerExit(s) \/ Exit(s)
      <3>1. Kept
        BY <1>0, <2>1
        DEF Connect, TalkerExit, Exit, At, fields, files, TypeOK, Holder, Kept
      <3> QED
        BY <1>a, <3>1
    <2>2. ASSUME NEW c \in Cases, CheckLock(s, c) PROVE Kept
      BY <1>0, <2>2 DEF CheckLock, NoCaseOpen, InUse, At, TypeOK, Holder, Kept
    <2>3. CASE \E c \in Cases : Open(s, c) \/ New(s, c)
      BY <1>a, <2>2, <2>3 DEF Open, New
    <2>4. CASE CreateLock(s)
      <3> DEFINE c == case_name[s]
      <3>1. CASE c \notin dirs
        <4>1. Kept
          BY <1>0, <2>4, <3>1 DEF CreateLock, At, TypeOK, Holder, Kept
        <4> QED
          BY <1>a, <4>1
      <3>2. CASE c \in dirs
        <4>1. c \in Cases /\ c \notin locked /\ locked' = locked \cup {c}
          BY <1>0, <2>4, <3>2 DEF CreateLock, At, Fields, Quiet
        <4>2. \A t \in Sessions, d \in Cases :
                 Holder(t, d)' <=> Holder(t, d) \/ (t = s /\ d = c)
          BY <1>0, <2>4, <3>2 DEF CreateLock, At, TypeOK, Holder, Fields
        <4>3. owner[c] = Free /\ owner'[c] = s
          BY <1>0, <4>1, <4>2 DEF OwnerFacts
        <4>4. \A d \in Cases \ {c} : owner'[d] = owner[d]
          BY <4>1, <4>2, SameOwner
        <4>5. Lock!Acquire(s, c)
          BY <4>1, <4>3, <4>4, OwnerFunction DEF Lock!Acquire
        <4> QED
          BY <4>1, <4>5 DEF Lock!Next
      <3> QED
        BY <3>1, <3>2
    <2>5. CASE OpenLog(s)
      <3> DEFINE c == case_name[s]
      <3>0. /\ UNCHANGED <<locked, case_name>> /\ pc' = [pc EXCEPT ![s] = "idle"]
            /\ pc[s] = "log" /\ c \in Cases /\ log[s] = None
        BY <1>0, <2>5 DEF OpenLog, At, files, Fields
      <3>1. CASE log' = [log EXCEPT ![s] = case_name[s]]
        <4>1. Kept
          BY <1>0, <3>0, <3>1 DEF TypeOK, Holder, Kept
        <4> QED
          BY <1>a, <4>1
      <3>2. CASE UNCHANGED log
        <4>1. Holder(s, c)
          BY <3>0 DEF Holder
        <4>2. \A t \in Sessions : Holder(t, c) => t = s
          BY <3>0, <4>1 DEF SerialInv, CaseInv, ExclusiveUnlessBroken
        <4>3. \A d \in Cases, t \in Sessions :
                 Holder(t, d)' <=> Holder(t, d) /\ t # s
          BY <1>0, <3>0, <3>2 DEF TypeOK, Holder
        <4>4. \A d \in Cases : Holder(s, d) => d = c
          BY <3>0 DEF Holder
        <4>5. \A d \in Cases, t \in Sessions :
                 Holder(t, d)' <=> Holder(t, d) /\ d \notin {c}
          BY <3>0, <4>2, <4>3, <4>4
        <4>6. Lock!Abandon({c})
          BY <3>0, <4>1, <4>5, AbandonedLocks
        <4> QED
          BY <1>b, <3>0, <4>6
      <3> QED
        BY <2>5, <3>1, <3>2 DEF OpenLog
    <2>6. CASE LogText(s) \/ ShowLog(s)
      <3>1. UNCHANGED <<files, pc, fields>>
        BY <2>6 DEF LogText, ShowLog
      <3> QED
        BY <1>a, <3>1 DEF files, fields, Holder, Kept
    <2>7. CASE Close(s)
      <3> DEFINE c == case_name[s]
      <3>1. /\ c \in Cases /\ log[s] = c /\ pc[s] = "idle"
            /\ locked' = locked \ {c} /\ UNCHANGED <<log, case_name>>
            /\ pc' = [pc EXCEPT ![s] = "unlocked"]
        BY <1>0, <2>7 DEF Close, RemoveLock, At, Fields, fields, TypeOK, Maybe
      <3>2. Holder(s, c)
        BY <3>1 DEF Holder
      <3>3. \A t \in Sessions, d \in Cases :
               Holder(t, d)' <=> Holder(t, d) /\ t # s
        BY <1>0, <3>1 DEF TypeOK, Holder
      <3>4. \A d \in Cases : Holder(s, d) => d = c
        BY <3>1 DEF Holder
      <3>5. owner[c] = s /\ owner'[c] = Free
        BY <1>0, <3>1, <3>2 DEF OwnerFacts
      <3>6. \A d \in Cases \ {c} : owner'[d] = owner[d]
        BY <3>1, <3>3, <3>4, SameOwner
      <3>7. Lock!Release(s, c)
        BY <3>1, <3>5, <3>6, OwnerFunction DEF Lock!Release
      <3> QED
        BY <3>1, <3>7 DEF Lock!Next
    <2>8. CASE FinishClose(s)
      <3>1. Kept
        BY <1>0, <2>8 DEF FinishClose, WriteClosing, At, files, TypeOK, Holder, Kept
      <3> QED
        BY <1>a, <3>1
    <2> QED
      BY <1>1, <2>1, <2>3, <2>4, <2>5, <2>6, <2>7, <2>8 DEF SessionStep
  <1>2. ASSUME NEW s \in Sessions, ExitFlush(s) PROVE [Lock!Next]_owner
    <2>1. UNCHANGED <<files, pc, fields>>
      BY <1>2 DEF ExitFlush
    <2> QED
      BY <1>a, <2>1 DEF files, fields, Holder, Kept
  <1>3. ASSUME NEW p \in Procs, ProcessStep(p) PROVE [Lock!Next]_owner
    <2>0. \A s \in Sessions : Home[s] = p
      BY SingleInstance DEF SingleInstance
    <2>1. CASE Start(p)
      <3>1. \A s \in Sessions, c \in Cases : ~Holder(s, c)
        BY <1>0, <2>0, <2>1 DEF Start, Quiet, Fields, Holder
      <3>2. \A s \in Sessions, c \in Cases : ~Holder(s, c)'
        <4>1. \A s \in Sessions : pc[s] = "off" /\ log[s] = None
          BY <1>0, <2>0, <2>1 DEF Start, Quiet, Fields
        <4>2. \A s \in Sessions : pc'[s] \in {"off", "idle"} /\ log'[s] = None
          BY <2>1, <4>1 DEF Start, fields
        <4> QED
          BY <4>2 DEF Holder
      <3>3. CASE caseRoot
        <4>1. \A c \in Cases : owner[c] \notin Sessions
          BY <1>0, <3>1, OwnerAssumption DEF OwnerFacts
        <4>2. \A c \in Cases : owner'[c] = Free
          BY <1>0, <2>1, <3>3 DEF OwnerFacts, Start
        <4>3. Lock!Clear
          BY <4>1, <4>2, OwnerFunction DEF Lock!Clear
        <4> QED
          BY <4>3 DEF Lock!Next
      <3>4. CASE ~caseRoot
        <4>1. Kept
          BY <2>1, <3>1, <3>2, <3>4 DEF Start, Kept
        <4> QED
          BY <1>a, <4>1
      <3> QED
        BY <3>3, <3>4
    <2>2. CASE Terminate(p) \/ Crash(p)
      <3> DEFINE C == {c \in Cases : \E s \in Sessions : Holder(s, c)}
      <3>1. Vanish(p)
        BY <2>2 DEF Terminate, Crash
      <3>2. UNCHANGED locked /\ \A s \in Sessions, c \in Cases : ~Holder(s, c)'
        BY <2>0, <3>1 DEF Vanish, Of, files, Holder
      <3>3. Lock!Abandon(C)
        <4>1. \A c \in Cases, s \in Sessions :
                 Holder(s, c)' <=> Holder(s, c) /\ c \notin C
          BY <3>2
        <4> HIDE DEF C
        <4>2. C \in SUBSET Cases /\ \A c \in C : \E s \in Sessions : Holder(s, c)
          BY DEF C
        <4> QED
          BY <3>2, <4>1, <4>2, AbandonedLocks
      <3> QED
        BY <1>b, <3>3
    <2> QED
      BY <1>3, <2>1, <2>2 DEF ProcessStep
  <1>4. CASE UNCHANGED vars
    BY <1>a, <1>4 DEF vars, files, fields, Holder, Kept
  <1> QED
    BY <1>1, <1>2, <1>3, <1>4 DEF SerialNext

(* The lock protocol implements exclusive ownership (CaseLock) when        *)
(* commands do not overlap and the tool runs once (case.cpp:103-159,       *)
(* main.cpp:92-96).                                                        *)
THEOREM LocksImplementOwnership ==
    ASSUME SingleInstance
    PROVE  SerialSpec => LockIsExclusive
  <1>1. Init => SerialInv
    BY SerialInit
  <1>2. Init => Lock!Init
    <2> SUFFICES ASSUME Init PROVE owner \in [Cases -> {Free, Stale}]
      BY DEF Lock!Init
    <2>1. \A s \in Sessions, c \in Cases : ~Holder(s, c)
      BY NoneAssumption DEF Init, Holder
    <2> QED
      BY <2>1 DEF owner
  <1>3. SerialInv /\ [SerialNext]_vars => SerialInv'
    BY StepSerialInv
  <1>4. SerialInv /\ SerialInv' /\ [SerialNext]_vars => [Lock!Next]_owner
    BY StepLock
  <1> QED
    BY <1>1, <1>2, <1>3, <1>4, PTL DEF SerialSpec, LockIsExclusive, Lock!Spec

-----------------------------------------------------------------------------
(* What a session has buffered is its own and continues, or begins, its    *)
(* bracket in the log.  LastIs is what "in a bracket" comes to where one   *)
(* session writes.                                                         *)
Own(es, s) ==
    \A i \in 1 .. Len(es) : es[i].by = s /\ es[i].kind # "closing"
Begins(es) == Len(es) > 0 /\ es[1].kind = "opened"
LastIs(es, s) ==
    Len(es) > 0 /\ es[Len(es)].by = s /\ es[Len(es)].kind # "closing"

StreamInv(s) ==
    /\ pc[s] = "unlocked" => log[s] # None
    /\ log[s] # None =>
         /\ Own(buf[s], s)
         /\ Begins(buf[s]) \/ InBracket(disk[log[s]], Len(disk[log[s]]), s)

LogsInv ==
    /\ CaseInv
    /\ \A c \in Cases : EachBracketed(disk[c])
    /\ \A s \in Sessions : StreamInv(s)

(* A stream's entries go behind what is in the file: the file stays made   *)
(* of brackets, and each session is in the bracket in which it was.        *)
LEMMA EntriesAfter ==
    ASSUME NEW old \in Seq(Entry), NEW es \in Seq(Entry)
    PROVE  /\ old \o es \in Seq(Entry)
           /\ Len(old) \in Nat /\ Len(es) \in Nat
           /\ Len(old \o es) = Len(old) + Len(es)
           /\ \A i \in 1 .. Len(old) : (old \o es)[i] = old[i]
           /\ \A i \in 1 .. Len(es) : (old \o es)[Len(old) + i] = es[i]
  <1>1. /\ old \o es \in Seq(Entry)
        /\ Len(old \o es) = Len(old) + Len(es)
        /\ \A i \in 1 .. Len(old) + Len(es) : (old \o es)[i] =
              IF i <= Len(old) THEN old[i] ELSE es[i - Len(old)]
    BY ConcatProperties
  <1>2. Len(old) \in Nat /\ Len(es) \in Nat
    BY LenProperties
  <1> QED
    BY <1>1, <1>2

LEMMA SameBracket ==
    ASSUME NEW old \in Seq(Entry), NEW es \in Seq(Entry), NEW s \in Sessions,
           NEW n \in 0 .. Len(old)
    PROVE  InBracket(old \o es, n, s) <=> InBracket(old, n, s)
  <1>1. Len(old) \in Nat /\ \A i \in 1 .. Len(old) : (old \o es)[i] = old[i]
    BY EntriesAfter
  <1> QED
    BY <1>1 DEF InBracket

LEMMA OthersBracket ==
    ASSUME NEW old \in Seq(Entry), NEW es \in Seq(Entry), NEW s \in Sessions,
           \A i \in 1 .. Len(es) : es[i].by = s,
           NEW t \in Sessions \ {s}, InBracket(old, Len(old), t)
    PROVE  InBracket(old \o es, Len(old \o es), t)
  <1> DEFINE new == old \o es
             m == Len(old)
  <1>1. /\ m \in Nat /\ Len(es) \in Nat /\ Len(new) = m + Len(es)
        /\ \A i \in 1 .. m : new[i] = old[i]
        /\ \A i \in 1 .. Len(es) : new[m + i] = es[i]
    BY EntriesAfter
  <1>2. PICK j \in 1 .. m : /\ old[j].by = t /\ old[j].kind # "closing"
                            /\ \A k \in (j + 1) .. m : old[k].by # t
    BY DEF InBracket
  <1>3. ASSUME NEW k \in (j + 1) .. Len(new) PROVE new[k].by # t
    <2>1. CASE k <= m
      BY <1>1, <1>2, <2>1
    <2>2. CASE k > m
      <3>1. k - m \in 1 .. Len(es) /\ k = m + (k - m)
        BY <1>1, <2>2
      <3>2. new[k] = es[k - m]
        BY <1>1, <3>1
      <3> QED
        BY <3>1, <3>2
    <2> QED
      BY <1>1, <2>1, <2>2
  <1>4. j \in 1 .. Len(new) /\ new[j] = old[j]
    BY <1>1
  <1> QED
    BY <1>2, <1>3, <1>4 DEF InBracket

LEMMA OwnBracket ==
    ASSUME NEW old \in Seq(Entry), NEW es \in Seq(Entry), NEW s \in Sessions,
           Own(es, s), Begins(es) \/ InBracket(old, Len(old), s)
    PROVE  InBracket(old \o es, Len(old \o es), s)
  <1> DEFINE new == old \o es
             m == Len(old)
  <1>1. /\ m \in Nat /\ Len(es) \in Nat /\ Len(new) = m + Len(es)
        /\ \A i \in 1 .. m : new[i] = old[i]
        /\ \A i \in 1 .. Len(es) : new[m + i] = es[i]
    BY EntriesAfter
  <1>2. CASE Len(es) = 0
    <2>1. Len(new) = m /\ InBracket(old, m, s)
      BY <1>1, <1>2 DEF Begins
    <2> QED
      BY <1>1, <2>1, SameBracket
  <1>3. CASE Len(es) # 0
    <2>1. Len(es) \in 1 .. Len(es) /\ Len(new) \in 1 .. Len(new)
      BY <1>1, <1>3
    <2>2. new[Len(new)] = es[Len(es)]
      BY <1>1, <2>1
    <2>3. new[Len(new)].by = s /\ new[Len(new)].kind # "closing"
      BY <2>1, <2>2 DEF Own
    <2> QED
      BY <1>1, <2>1, <2>3 DEF InBracket
  <1> QED
    BY <1>2, <1>3

LEMMA StillBracketed ==
    ASSUME NEW old \in Seq(Entry), NEW es \in Seq(Entry), NEW s \in Sessions,
           EachBracketed(old),
           \A i \in 1 .. Len(es) : es[i].by = s,
           \A i \in 1 .. Len(es) - 1 : es[i].kind # "closing",
           Begins(es) \/ InBracket(old, Len(old), s) \/ Len(es) = 0
    PROVE  EachBracketed(old \o es)
  <1> DEFINE new == old \o es
             m == Len(old)
  <1>1. /\ m \in Nat /\ Len(es) \in Nat /\ Len(new) = m + Len(es)
        /\ \A i \in 1 .. m : new[i] = old[i]
        /\ \A i \in 1 .. Len(es) : new[m + i] = es[i]
    BY EntriesAfter
  <1> SUFFICES ASSUME NEW i \in 1 .. Len(new), new[i].kind # "opened"
               PROVE  InBracket(new, i - 1, new[i].by)
    BY DEF EachBracketed
  <1>2. CASE i <= m
    <2>1. i \in 1 .. m /\ i - 1 \in 0 .. m /\ new[i] = old[i]
      BY <1>1, <1>2
    <2>2. old[i] \in Entry
      BY <2>1, ElementOfSeq
    <2>3. InBracket(old, i - 1, old[i].by)
      BY <2>1 DEF EachBracketed
    <2>4. \A n \in 0 .. m, t \in Sessions :
             InBracket(old, n, t) => InBracket(new, n, t)
      BY SameBracket
    <2>5. InBracket(new, i - 1, old[i].by)
      BY <2>1, <2>2, <2>3, <2>4 DEF Entry
    <2> QED
      BY <2>1, <2>5
  <1>3. CASE i = m + 1
    <2>1. 1 \in 1 .. Len(es) /\ new[i] = es[1]
      BY <1>1, <1>3
    <2>2. InBracket(old, m, s)
      BY <1>1, <2>1 DEF Begins
    <2>3. InBracket(new, m, s)
      BY <1>1, <2>2, SameBracket
    <2> QED
      BY <1>1, <1>3, <2>1, <2>3
  <1>4. CASE i > m + 1
    <2>1. /\ i - m \in 1 .. Len(es) /\ i - 1 - m \in 1 .. Len(es) - 1
          /\ i - 1 - m \in 1 .. Len(es)
          /\ i = m + (i - m) /\ i - 1 = m + (i - 1 - m)
      BY <1>1, <1>4
    <2>2. new[i] = es[i - m] /\ new[i - 1] = es[i - 1 - m]
      BY <1>1, <2>1
    <2>3. new[i].by = s /\ new[i - 1].by = s /\ new[i - 1].kind # "closing"
      BY <2>1, <2>2
    <2>4. i - 1 \in 1 .. i - 1 /\ \A k \in (i - 1 + 1) .. i - 1 : FALSE
      BY <1>1, <1>4
    <2> QED
      BY <2>3, <2>4 DEF InBracket
  <1> QED
    BY <1>1, <1>2, <1>3, <1>4

(* An entry behind what s has buffered.                                    *)
LEMMA AppendOwn ==
    ASSUME TypeOK, NEW s \in Sessions, Own(buf[s], s), NEW k \in Kinds
    PROVE  LET es == Append(buf[s], [by |-> s, kind |-> k])
           IN  /\ es \in Seq(Entry)
               /\ \A i \in 1 .. Len(es) : es[i].by = s
               /\ \A i \in 1 .. Len(es) - 1 : es[i].kind # "closing"
               /\ Begins(buf[s]) => Begins(es)
               /\ k # "closing" => Own(es, s)
  <1> DEFINE e == [by |-> s, kind |-> k]
             es == Append(buf[s], e)
  <1>1. buf[s] \in Seq(Entry) /\ e \in Entry
    BY EntryType DEF Entry
  <1>2. /\ es \in Seq(Entry) /\ Len(es) = Len(buf[s]) + 1 /\ Len(buf[s]) \in Nat
        /\ \A i \in 1 .. Len(buf[s]) : es[i] = buf[s][i]
        /\ es[Len(buf[s]) + 1] = e
    BY <1>1, AppendProperties, LenProperties
  <1>3. \A i \in 1 .. Len(es) : es[i].by = s
    BY <1>2 DEF Own
  <1>4. \A i \in 1 .. Len(es) - 1 : es[i].kind # "closing"
    BY <1>2 DEF Own
  <1>5. Begins(buf[s]) => Begins(es)
    BY <1>2 DEF Begins
  <1>6. k # "closing" => Own(es, s)
    BY <1>2 DEF Own
  <1> QED
    BY <1>2, <1>3, <1>4, <1>5, <1>6

(* The stream of s is flushed, and stays open or is closed.                *)
LEMMA FlushLogs ==
    ASSUME LogsInv, NEW s \in Sessions, log[s] # None,
           NEW es \in Seq(Entry), Flush(s, es),
           \A i \in 1 .. Len(es) : es[i].by = s,
           \A i \in 1 .. Len(es) - 1 : es[i].kind # "closing",
           Begins(buf[s]) => Begins(es),
           \A t \in Sessions \ {s} : log'[t] = log[t] /\ pc'[t] = pc[t]
    PROVE  /\ \A c \in Cases : EachBracketed(disk'[c])
           /\ \A t \in Sessions \ {s} : StreamInv(t)'
           /\ log'[s] = log[s] /\ Own(es, s) => StreamInv(s)'
  <1> DEFINE c == log[s]
             new == disk[c] \o es
  <1>1. /\ c \in Cases /\ disk[c] \in Seq(Entry)
        /\ EachBracketed(disk[c]) /\ StreamInv(s)
    BY DEF LogsInv, CaseInv, TypeOK, Maybe
  <1>2. Begins(es) \/ InBracket(disk[c], Len(disk[c]), s)
    BY <1>1 DEF StreamInv
  <1>3. /\ disk'[c] = new /\ \A d \in Cases \ {c} : disk'[d] = disk[d]
        /\ buf'[s] = <<>> /\ \A t \in Sessions \ {s} : buf'[t] = buf[t]
    BY <1>1 DEF Flush, LogsInv, CaseInv, TypeOK
  <1>4. EachBracketed(new)
    BY <1>1, <1>2, StillBracketed
  <1>5. \A d \in Cases : EachBracketed(disk'[d])
    BY <1>3, <1>4 DEF LogsInv
  <1>6. ASSUME NEW t \in Sessions \ {s} PROVE StreamInv(t)'
    <2>1. StreamInv(t) /\ log'[t] = log[t] /\ pc'[t] = pc[t] /\ buf'[t] = buf[t]
      BY <1>3 DEF LogsInv
    <2>2. log[t] \in Cases \cup {None}
      BY DEF LogsInv, CaseInv, TypeOK, Maybe
    <2>3. CASE log[t] = c
      <3>1. InBracket(disk[c], Len(disk[c]), t) => InBracket(new, Len(new), t)
        BY <1>1, OthersBracket
      <3>2. disk'[log'[t]] = new
        BY <1>3, <2>1, <2>3
      <3> HIDE DEF new
      <3> QED
        BY <2>1, <2>3, <3>1, <3>2 DEF StreamInv
    <2>4. CASE log[t] # c
      BY <1>3, <2>1, <2>2, <2>4 DEF StreamInv
    <2> QED
      BY <2>3, <2>4
  <1>7. ASSUME log'[s] = log[s], Own(es, s) PROVE StreamInv(s)'
    <2>1. InBracket(new, Len(new), s)
      BY <1>1, <1>2, <1>7, OwnBracket
    <2>2. Own(<<>>, s)
      BY DEF Own
    <2> QED
      BY <1>3, <1>7, <2>1, <2>2 DEF StreamInv
  <1> QED
    BY <1>5, <1>6, <1>7

LEMMA StepLogsInv == LogsInv /\ [Next]_vars => LogsInv'
  <1> SUFFICES ASSUME LogsInv, [Next]_vars
               PROVE  /\ \A c \in Cases : EachBracketed(disk'[c])
                      /\ \A t \in Sessions : StreamInv(t)'
    BY StepCaseInv DEF LogsInv
  <1> DEFINE Goal == /\ \A c \in Cases : EachBracketed(disk'[c])
                     /\ \A t \in Sessions : StreamInv(t)'
  <1>0. /\ TypeOK
        /\ \A c \in Cases : EachBracketed(disk[c])
        /\ \A t \in Sessions : StreamInv(t) /\ Fields(t)
    BY DEF LogsInv, CaseInv
  (* The steps that leave the streams alone.                               *)
  <1>a. ASSUME UNCHANGED <<disk, buf, log>>,
               \A t \in Sessions : pc'[t] = "unlocked" =>
                   pc[t] = "unlocked" \/ log[t] # None
        PROVE  Goal
    BY <1>0, <1>a DEF StreamInv
  <1> HIDE DEF Goal
  <1> USE NoneAssumption, HomeAssumption DEF Running
  <1>1. ASSUME NEW s \in Sessions, SessionStep(s) PROVE Goal
    <2>1. CASE Connect(s) \/ TalkerExit(s) \/ Exit(s)
      <3>1. UNCHANGED <<disk, buf, log>> /\ \E l \in {"idle", "gone"} :
                                              pc' = [pc EXCEPT ![s] = l]
        BY <2>1 DEF Connect, TalkerExit, Exit, fields
      <3> QED
        BY <1>0, <1>a, <3>1 DEF TypeOK
    <2>2. ASSUME NEW c \in Cases, CheckLock(s, c) PROVE Goal
      <3>1. /\ UNCHANGED <<disk, buf, log>>
            /\ pc' = pc \/ pc' = [pc EXCEPT ![s] = "create"]
        BY <2>2 DEF CheckLock
      <3> QED
        BY <1>0, <1>a, <3>1 DEF TypeOK
    <2>3. CASE \E c \in Cases : Open(s, c) \/ New(s, c)
      BY <2>2, <2>3 DEF Open, New
    <2>4. CASE CreateLock(s)
      <3>1. UNCHANGED <<disk, buf, log>> /\ \E l \in {"log", "idle"} :
                                              pc' = [pc EXCEPT ![s] = l]
        BY <2>4 DEF CreateLock
      <3> QED
        BY <1>0, <1>a, <3>1 DEF TypeOK
    <2>5. CASE OpenLog(s)
      <3>1. CASE UNCHANGED <<log, buf>>
        <4>1. UNCHANGED <<disk, buf, log>> /\ pc' = [pc EXCEPT ![s] = "idle"]
          BY <2>5, <3>1 DEF OpenLog
        <4> QED
          BY <1>0, <1>a, <4>1 DEF TypeOK
      <3>2. CASE /\ log' = [log EXCEPT ![s] = case_name[s]]
                 /\ buf' = [buf EXCEPT ![s] = <<[by |-> s, kind |-> "opened"]>>]
        <4>1. /\ UNCHANGED disk /\ pc'[s] = "idle"
              /\ buf'[s] = <<[by |-> s, kind |-> "opened"]>>
              /\ \A t \in Sessions \ {s} :
                    log'[t] = log[t] /\ buf'[t] = buf[t] /\ pc'[t] = pc[t]
          BY <1>0, <2>5, <3>2 DEF OpenLog, TypeOK
        <4>2. Own(buf'[s], s) /\ Begins(buf'[s])
          BY <4>1 DEF Own, Begins
        <4>3. StreamInv(s)'
          BY <4>1, <4>2 DEF StreamInv
        <4>4. \A t \in Sessions \ {s} : StreamInv(t)'
          BY <1>0, <4>1 DEF StreamInv
        <4> QED
          BY <1>0, <4>1, <4>3, <4>4 DEF Goal
      <3> QED
        BY <2>5, <3>1, <3>2 DEF OpenLog
    <2>6. CASE LogText(s)
      <3> DEFINE es == Append(buf[s], [by |-> s, kind |-> "text"])
      <3>1. log[s] # None /\ UNCHANGED <<log, pc>> /\ Own(buf[s], s)
        BY <1>0, <2>6 DEF LogText, fields, StreamInv
      <3>2. /\ es \in Seq(Entry) /\ \A i \in 1 .. Len(es) : es[i].by = s
            /\ \A i \in 1 .. Len(es) - 1 : es[i].kind # "closing"
            /\ Begins(buf[s]) => Begins(es)
            /\ Own(es, s)
        BY <1>0, <3>1, AppendOwn DEF Kinds
      <3> HIDE DEF es
      <3>3. CASE buf' = [buf EXCEPT ![s] = es] /\ UNCHANGED disk
        <4>1. StreamInv(s)'
          BY <1>0, <3>1, <3>2, <3>3 DEF StreamInv, TypeOK
        <4>2. \A t \in Sessions \ {s} : StreamInv(t)'
          BY <1>0, <3>1, <3>3 DEF StreamInv, TypeOK
        <4> QED
          BY <1>0, <3>3, <4>1, <4>2 DEF Goal
      <3>4. CASE Flush(s, es)
        BY <3>1, <3>2, <3>4, FlushLogs DEF Goal
      <3> QED
        BY <2>6, <3>3, <3>4 DEF LogText, es
    <2>7. CASE ShowLog(s)
      <3>1. /\ log[s] # None /\ UNCHANGED <<log, pc>> /\ Flush(s, buf[s])
            /\ Own(buf[s], s) /\ buf[s] \in Seq(Entry)
        BY <1>0, <2>7 DEF ShowLog, fields, StreamInv, TypeOK
      <3>2. /\ \A i \in 1 .. Len(buf[s]) : buf[s][i].by = s
            /\ \A i \in 1 .. Len(buf[s]) - 1 : buf[s][i].kind # "closing"
        BY <3>1, LenProperties DEF Own
      <3> QED
        BY <3>1, <3>2, FlushLogs DEF Goal
    <2>8. CASE Close(s)
      <3>1. /\ UNCHANGED <<disk, buf, log>> /\ log[s] # None
            /\ pc' = [pc EXCEPT ![s] = "unlocked"]
        BY <2>8 DEF Close, RemoveLock, fields
      <3> QED
        BY <1>0, <1>a, <3>1 DEF TypeOK
    <2>9. CASE FinishClose(s)
      <3> DEFINE es == Append(buf[s], [by |-> s, kind |-> "closing"])
      <3>1. /\ log[s] # None /\ Own(buf[s], s) /\ Flush(s, es)
            /\ log'[s] = None /\ pc'[s] = "idle"
            /\ \A t \in Sessions \ {s} : log'[t] = log[t] /\ pc'[t] = pc[t]
        BY <1>0, <2>9 DEF FinishClose, WriteClosing, At, StreamInv, TypeOK
      <3>2. /\ es \in Seq(Entry) /\ \A i \in 1 .. Len(es) : es[i].by = s
            /\ \A i \in 1 .. Len(es) - 1 : es[i].kind # "closing"
            /\ Begins(buf[s]) => Begins(es)
        BY <1>0, <3>1, AppendOwn DEF Kinds
      <3> HIDE DEF es
      <3>3. /\ \A c \in Cases : EachBracketed(disk'[c])
            /\ \A t \in Sessions \ {s} : StreamInv(t)'
        BY <3>1, <3>2, FlushLogs
      <3>4. StreamInv(s)'
        BY <3>1 DEF StreamInv
      <3> QED
        BY <3>3, <3>4 DEF Goal
    <2> QED
      BY <1>1, <2>1, <2>3, <2>4, <2>5, <2>6, <2>7, <2>8, <2>9 DEF SessionStep
  <1>2. ASSUME NEW s \in Sessions, ExitFlush(s) PROVE Goal
    <2>1. CASE log[s] = None
      <3>1. UNCHANGED <<disk, buf, log, pc>>
        BY <1>2, <2>1 DEF ExitFlush, fields
      <3> QED
        BY <1>a, <3>1
    <2>2. CASE log[s] # None
      <3>1. /\ UNCHANGED <<log, pc>> /\ Flush(s, buf[s])
            /\ Own(buf[s], s) /\ buf[s] \in Seq(Entry)
        BY <1>0, <1>2, <2>2 DEF ExitFlush, fields, StreamInv, TypeOK
      <3>2. /\ \A i \in 1 .. Len(buf[s]) : buf[s][i].by = s
            /\ \A i \in 1 .. Len(buf[s]) - 1 : buf[s][i].kind # "closing"
        BY <3>1, LenProperties DEF Own
      <3> QED
        BY <2>2, <3>1, <3>2, FlushLogs DEF Goal
    <2> QED
      BY <2>1, <2>2
  <1>3. ASSUME NEW p \in Procs, ProcessStep(p) PROVE Goal
    <2>1. CASE Start(p)
      <3>1. UNCHANGED <<disk, buf, log>>
            /\ \A t \in Sessions : pc'[t] = "idle" \/ pc'[t] = pc[t]
        BY <1>0, <2>1 DEF Start, fields, TypeOK
      <3> QED
        BY <1>a, <3>1
    <2>2. CASE Terminate(p) \/ Crash(p)
      <3>1. Vanish(p)
        BY <2>2 DEF Terminate, Crash
      <3>2. /\ UNCHANGED disk
            /\ \A t \in Of(p) : pc'[t] = "off" /\ log'[t] = None
            /\ \A t \in Sessions \ Of(p) :
                  pc'[t] = pc[t] /\ log'[t] = log[t] /\ buf'[t] = buf[t]
        BY <3>1 DEF Vanish, Of
      <3> QED
        BY <1>0, <3>2 DEF StreamInv, Goal
    <2> QED
      BY <1>3, <2>1, <2>2 DEF ProcessStep
  <1>4. CASE UNCHANGED vars
    <2>1. UNCHANGED <<disk, buf, log, pc>>
      BY <1>4 DEF vars, fields
    <2> QED
      BY <1>a, <2>1 DEF Goal
  <1> QED
    BY <1>1, <1>2, <1>3, <1>4 DEF Next, Goal

LEMMA InitLogsInv == Init => LogsInv
  BY InitCaseInv DEF Init, LogsInv, EachBracketed, StreamInv

LEMMA LogsInvBrackets == LogsInv => SessionLogBracketed
  <1> SUFFICES ASSUME LogsInv, NEW c \in Cases, NEW s \in Sessions
               PROVE  EachBracketed(disk[c] \o Waiting(s, c))
    BY DEF SessionLogBracketed
  <1>1. /\ disk[c] \in Seq(Entry) /\ buf[s] \in Seq(Entry)
        /\ EachBracketed(disk[c]) /\ StreamInv(s)
    BY DEF LogsInv, CaseInv, TypeOK
  <1>2. CASE log[s] = c
    <2>1. Own(buf[s], s) /\ (Begins(buf[s]) \/ InBracket(disk[c], Len(disk[c]), s))
      BY <1>1, <1>2, NoneAssumption DEF StreamInv
    <2>2. /\ \A i \in 1 .. Len(buf[s]) : buf[s][i].by = s
          /\ \A i \in 1 .. Len(buf[s]) - 1 : buf[s][i].kind # "closing"
      BY <1>1, <2>1, LenProperties DEF Own
    <2> QED
      BY <1>1, <1>2, <2>1, <2>2, StillBracketed DEF Waiting
  <1>3. CASE log[s] # c
    BY <1>1, <1>3, ConcatEmptySeq DEF Waiting
  <1> QED
    BY <1>2, <1>3

(* The entries of one session in a log, with those still in its stream,    *)
(* are brackets, whatever the interleaving, the exits and the crashes      *)
(* (case.cpp:132-159, 162-193).                                            *)
THEOREM SessionBrackets == Spec => []SessionLogBracketed
  BY InitLogsInv, StepLogsInv, LogsInvBrackets, PTL DEF Spec

-----------------------------------------------------------------------------
(* No two sessions write the log of one case, and what waits in the stream *)
(* continues the last entry there or begins a bracket.                     *)
OneWriter == \A s, t \in Sessions : log[s] = log[t] /\ log[s] # None => s = t

WriterInv(s) ==
    log[s] # None => Begins(buf[s]) \/ LastIs(disk[log[s]], s)

SerialLogInv ==
    /\ SerialInv /\ LogsInv
    /\ LogBracketed
    /\ OneWriter
    /\ \A s \in Sessions : WriterInv(s)

(* Where one session at a time writes, entries continue the last one.      *)
LEMMA StillOneAccount ==
    ASSUME NEW old \in Seq(Entry), NEW es \in Seq(Entry), NEW s \in Sessions,
           Bracketed(old),
           \A i \in 1 .. Len(es) : es[i].by = s,
           \A i \in 1 .. Len(es) - 1 : es[i].kind # "closing",
           Begins(es) \/ LastIs(old, s)
    PROVE  Bracketed(old \o es)
  <1> DEFINE new == old \o es
             m == Len(old)
  <1>1. /\ m \in Nat /\ Len(es) \in Nat /\ Len(new) = m + Len(es)
        /\ \A i \in 1 .. m : new[i] = old[i]
        /\ \A i \in 1 .. Len(es) : new[m + i] = es[i]
    BY EntriesAfter
  <1> SUFFICES ASSUME NEW i \in 1 .. Len(new), new[i].kind # "opened"
               PROVE  i > 1 /\ new[i - 1].by = new[i].by /\ new[i - 1].kind # "closing"
    BY DEF Bracketed
  <1>2. CASE i <= m
    <2>1. i \in 1 .. m /\ new[i] = old[i]
      BY <1>1, <1>2
    <2>2. i > 1 /\ old[i - 1].by = old[i].by /\ old[i - 1].kind # "closing"
      BY <2>1 DEF Bracketed
    <2>3. i - 1 \in 1 .. m
      BY <1>1, <2>1, <2>2
    <2> QED
      BY <1>1, <2>1, <2>2, <2>3
  <1>3. CASE i = m + 1
    <2>1. 1 \in 1 .. Len(es) /\ new[i] = es[1]
      BY <1>1, <1>3
    <2>2. m > 0 /\ old[m].by = s /\ old[m].kind # "closing"
      BY <2>1 DEF Begins, LastIs
    <2>3. new[m] = old[m] /\ i - 1 = m
      BY <1>1, <1>3, <2>2
    <2> QED
      BY <1>1, <1>3, <2>1, <2>2, <2>3
  <1>4. CASE i > m + 1
    <2>1. /\ i - m \in 1 .. Len(es) /\ i - 1 - m \in 1 .. Len(es) - 1
          /\ i - 1 - m \in 1 .. Len(es)
          /\ i = m + (i - m) /\ i - 1 = m + (i - 1 - m)
      BY <1>1, <1>4
    <2>2. new[i] = es[i - m] /\ new[i - 1] = es[i - 1 - m]
      BY <1>1, <2>1
    <2> QED
      BY <1>1, <1>4, <2>1, <2>2
  <1> QED
    BY <1>1, <1>2, <1>3, <1>4

LEMMA LastAfter ==
    ASSUME NEW old \in Seq(Entry), NEW es \in Seq(Entry), NEW s \in Sessions,
           Own(es, s), Begins(es) \/ LastIs(old, s)
    PROVE  LastIs(old \o es, s)
  <1> DEFINE new == old \o es
             m == Len(old)
  <1>1. /\ m \in Nat /\ Len(es) \in Nat /\ Len(new) = m + Len(es)
        /\ \A i \in 1 .. m : new[i] = old[i]
        /\ \A i \in 1 .. Len(es) : new[m + i] = es[i]
    BY EntriesAfter
  <1>2. CASE Len(es) = 0
    <2>1. LastIs(old, s) /\ Len(new) = m
      BY <1>1, <1>2 DEF Begins
    <2> QED
      BY <1>1, <2>1 DEF LastIs
  <1>3. CASE Len(es) # 0
    <2>1. Len(es) \in 1 .. Len(es) /\ Len(new) > 0
      BY <1>1, <1>3
    <2>2. new[Len(new)] = es[Len(es)]
      BY <1>1, <2>1
    <2> QED
      BY <2>1, <2>2 DEF Own, LastIs
  <1> QED
    BY <1>2, <1>3

LEMMA FlushOneAccount ==
    ASSUME SerialLogInv, NEW s \in Sessions, log[s] # None,
           NEW es \in Seq(Entry), Flush(s, es),
           \A i \in 1 .. Len(es) : es[i].by = s,
           \A i \in 1 .. Len(es) - 1 : es[i].kind # "closing",
           Begins(buf[s]) => Begins(es),
           \A t \in Sessions \ {s} : log'[t] = log[t]
    PROVE  /\ LogBracketed'
           /\ \A t \in Sessions \ {s} : WriterInv(t)'
           /\ log'[s] = log[s] /\ Own(es, s) => WriterInv(s)'
  <1> DEFINE c == log[s]
             new == disk[c] \o es
  <1>1. /\ c \in Cases /\ disk[c] \in Seq(Entry) /\ Bracketed(disk[c])
    BY DEF SerialLogInv, LogsInv, CaseInv, TypeOK, Maybe, LogBracketed
  <1>2. Begins(es) \/ LastIs(disk[c], s)
    BY DEF SerialLogInv, WriterInv
  <1>3. /\ disk'[c] = new /\ \A d \in Cases \ {c} : disk'[d] = disk[d]
        /\ buf'[s] = <<>> /\ \A t \in Sessions \ {s} : buf'[t] = buf[t]
    BY <1>1 DEF Flush, SerialLogInv, LogsInv, CaseInv, TypeOK
  <1>4. Bracketed(new)
    BY <1>1, <1>2, StillOneAccount
  <1>5. LogBracketed'
    BY <1>3, <1>4 DEF SerialLogInv, LogBracketed
  <1>6. ASSUME NEW t \in Sessions \ {s} PROVE WriterInv(t)'
    <2>1. WriterInv(t) /\ log'[t] = log[t] /\ buf'[t] = buf[t]
      BY <1>3 DEF SerialLogInv
    <2>2. log[t] \in Cases \cup {None} /\ log[t] # c
      BY DEF SerialLogInv, LogsInv, CaseInv, TypeOK, Maybe, OneWriter
    <2> QED
      BY <1>3, <2>1, <2>2 DEF WriterInv
  <1>7. ASSUME log'[s] = log[s], Own(es, s) PROVE WriterInv(s)'
    <2>1. LastIs(new, s)
      BY <1>1, <1>2, <1>7, LastAfter
    <2>2. disk'[log'[s]] = new
      BY <1>3, <1>7
    <2> HIDE DEF new
    <2> QED
      BY <2>1, <2>2 DEF WriterInv
  <1> QED
    BY <1>5, <1>6, <1>7

LEMMA StepSerialLogInv ==
    ASSUME SingleInstance
    PROVE  SerialLogInv /\ [SerialNext]_vars => SerialLogInv'
  <1> SUFFICES ASSUME SerialLogInv, [SerialNext]_vars
               PROVE  LogBracketed' /\ OneWriter' /\ \A t \in Sessions : WriterInv(t)'
    <2>1. [SerialNext]_vars => [Next]_vars
      BY DEF SerialNext, Next
    <2> QED
      BY <2>1, StepSerialInv, StepLogsInv DEF SerialLogInv
  <1> DEFINE Goal == LogBracketed' /\ OneWriter' /\ \A t \in Sessions : WriterInv(t)'
  <1>0. /\ TypeOK /\ LogBracketed /\ OneWriter
        /\ \A t \in Sessions : WriterInv(t) /\ StreamInv(t) /\ Fields(t)
    BY DEF SerialLogInv, LogsInv, CaseInv
  <1>a. ASSUME UNCHANGED <<disk, buf, log>> PROVE Goal
    BY <1>0, <1>a DEF WriterInv, OneWriter, LogBracketed
  <1>b. UNCHANGED log => OneWriter'
    BY <1>0 DEF OneWriter
  <1> HIDE DEF Goal
  <1> USE NoneAssumption, HomeAssumption DEF Running
  <1>1. ASSUME NEW s \in Sessions, SessionStep(s),
               \A t \in Sessions \ {s} : ~Busy(t)
        PROVE  Goal
    <2>1. CASE Connect(s) \/ TalkerExit(s) \/ Exit(s)
      BY <1>a, <2>1 DEF Connect, TalkerExit, Exit, fields
    <2>2. ASSUME NEW c \in Cases, CheckLock(s, c) PROVE Goal
      BY <1>a, <2>2 DEF CheckLock
    <2>3. CASE \E c \in Cases : Open(s, c) \/ New(s, c)
      BY <2>2, <2>3 DEF Open, New
    <2>4. CASE CreateLock(s)
      BY <1>a, <2>4 DEF CreateLock
    <2>5. CASE OpenLog(s)
      <3>1. CASE UNCHANGED <<log, buf>>
        BY <1>a, <2>5, <3>1 DEF OpenLog
      <3>2. CASE /\ log' = [log EXCEPT ![s] = case_name[s]]
                 /\ buf' = [buf EXCEPT ![s] = <<[by |-> s, kind |-> "opened"]>>]
        <4>1. /\ UNCHANGED disk
              /\ log'[s] = case_name[s]
              /\ buf'[s] = <<[by |-> s, kind |-> "opened"]>>
              /\ \A t \in Sessions \ {s} : log'[t] = log[t] /\ buf'[t] = buf[t]
          BY <1>0, <2>5, <3>2 DEF OpenLog, TypeOK
        <4>2. Begins(buf'[s])
          BY <4>1 DEF Begins
        <4>3. \A t \in Sessions : WriterInv(t)'
          BY <1>0, <4>1, <4>2 DEF WriterInv
        (* The lock of s keeps everybody else out.                         *)
        <4>4. ASSUME NEW t \in Sessions \ {s} PROVE log[t] # case_name[s]
          <5>1. pc[s] = "log" /\ log[s] = None /\ case_name[s] \in Cases
            BY <1>0, <2>5 DEF OpenLog, At, Fields
          <5>2. Holder(s, case_name[s])
            BY <5>1 DEF Holder
          <5>3. log[t] = case_name[s] => Holder(t, case_name[s])
            BY <1>1 DEF Busy, Holder
          <5> QED
            BY <5>1, <5>2, <5>3
            DEF SerialLogInv, SerialInv, CaseInv, ExclusiveUnlessBroken
        <4>5. OneWriter'
          BY <1>0, <4>1, <4>4 DEF OneWriter
        <4> QED
          BY <1>0, <4>1, <4>3, <4>5 DEF Goal, LogBracketed
      <3> QED
        BY <2>5, <3>1, <3>2 DEF OpenLog
    <2>6. CASE LogText(s)
      <3> DEFINE es == Append(buf[s], [by |-> s, kind |-> "text"])
      <3>1. log[s] # None /\ UNCHANGED log /\ Own(buf[s], s)
        BY <1>0, <2>6 DEF LogText, fields, StreamInv
      <3>2. /\ es \in Seq(Entry) /\ \A i \in 1 .. Len(es) : es[i].by = s
            /\ \A i \in 1 .. Len(es) - 1 : es[i].kind # "closing"
            /\ Begins(buf[s]) => Begins(es)
            /\ Own(es, s)
        BY <1>0, <3>1, AppendOwn DEF Kinds
      <3> HIDE DEF es
      <3>3. CASE buf' = [buf EXCEPT ![s] = es] /\ UNCHANGED disk
        <4>1. \A t \in Sessions : WriterInv(t)'
          BY <1>0, <3>1, <3>2, <3>3 DEF WriterInv, TypeOK
        <4> QED
          BY <1>0, <1>b, <3>1, <3>3, <4>1 DEF Goal, LogBracketed
      <3>4. CASE Flush(s, es)
        BY <1>b, <3>1, <3>2, <3>4, FlushOneAccount DEF Goal
      <3> QED
        BY <2>6, <3>3, <3>4 DEF LogText, es
    <2>7. CASE ShowLog(s)
      <3>1. /\ log[s] # None /\ UNCHANGED log /\ Flush(s, buf[s])
            /\ Own(buf[s], s) /\ buf[s] \in Seq(Entry)
        BY <1>0, <2>7 DEF ShowLog, fields, StreamInv, TypeOK
      <3>2. /\ \A i \in 1 .. Len(buf[s]) : buf[s][i].by = s
            /\ \A i \in 1 .. Len(buf[s]) - 1 : buf[s][i].kind # "closing"
        BY <3>1, LenProperties DEF Own
      <3> QED
        BY <1>b, <3>1, <3>2, FlushOneAccount DEF Goal
    <2>8. CASE Close(s)
      BY <1>a, <2>8 DEF Close, RemoveLock, fields
    <2>9. CASE FinishClose(s)
      <3> DEFINE es == Append(buf[s], [by |-> s, kind |-> "closing"])
      <3>1. /\ log[s] # None /\ Own(buf[s], s) /\ Flush(s, es) /\ log'[s] = None
            /\ \A t \in Sessions \ {s} : log'[t] = log[t]
        BY <1>0, <2>9 DEF FinishClose, WriteClosing, At, StreamInv, TypeOK
      <3>2. /\ es \in Seq(Entry) /\ \A i \in 1 .. Len(es) : es[i].by = s
            /\ \A i \in 1 .. Len(es) - 1 : es[i].kind # "closing"
            /\ Begins(buf[s]) => Begins(es)
        BY <1>0, <3>1, AppendOwn DEF Kinds
      <3> HIDE DEF es
      <3>3. LogBracketed' /\ \A t \in Sessions \ {s} : WriterInv(t)'
        BY <3>1, <3>2, FlushOneAccount
      <3>4. WriterInv(s)' /\ OneWriter'
        BY <1>0, <3>1 DEF WriterInv, OneWriter
      <3> QED
        BY <3>3, <3>4 DEF Goal
    <2> QED
      BY <1>1, <2>1, <2>3, <2>4, <2>5, <2>6, <2>7, <2>8, <2>9 DEF SessionStep
  <1>2. ASSUME NEW s \in Sessions, ExitFlush(s) PROVE Goal
    <2>1. CASE log[s] = None
      BY <1>2, <1>a, <2>1 DEF ExitFlush, fields
    <2>2. CASE log[s] # None
      <3>1. /\ UNCHANGED log /\ Flush(s, buf[s])
            /\ Own(buf[s], s) /\ buf[s] \in Seq(Entry)
        BY <1>0, <1>2, <2>2 DEF ExitFlush, fields, StreamInv, TypeOK
      <3>2. /\ \A i \in 1 .. Len(buf[s]) : buf[s][i].by = s
            /\ \A i \in 1 .. Len(buf[s]) - 1 : buf[s][i].kind # "closing"
        BY <3>1, LenProperties DEF Own
      <3> QED
        BY <1>b, <2>2, <3>1, <3>2, FlushOneAccount DEF Goal
    <2> QED
      BY <2>1, <2>2
  <1>3. ASSUME NEW p \in Procs, ProcessStep(p) PROVE Goal
    <2>1. CASE Start(p)
      BY <1>a, <2>1 DEF Start, fields
    <2>2. CASE Terminate(p) \/ Crash(p)
      <3>1. Vanish(p)
        BY <2>2 DEF Terminate, Crash
      <3>2. /\ UNCHANGED disk
            /\ \A t \in Of(p) : log'[t] = None
            /\ \A t \in Sessions \ Of(p) : log'[t] = log[t] /\ buf'[t] = buf[t]
        BY <3>1 DEF Vanish, Of
      <3>3. OneWriter' /\ \A t \in Sessions : WriterInv(t)'
        BY <1>0, <3>2 DEF OneWriter, WriterInv
      <3> QED
        BY <1>0, <3>2, <3>3 DEF LogBracketed, Goal
    <2> QED
      BY <1>3, <2>1, <2>2 DEF ProcessStep
  <1>4. CASE UNCHANGED vars
    <2>1. UNCHANGED <<disk, buf, log>>
      BY <1>4 DEF vars, fields
    <2> QED
      BY <1>a, <2>1 DEF Goal
  <1> QED
    BY <1>1, <1>2, <1>3, <1>4 DEF SerialNext, Goal

(* The log of a case is whole brackets, one session's after another's, if  *)
(* commands do not overlap and the tool runs once (case.cpp:132-181).      *)
THEOREM OneAccount ==
    ASSUME SingleInstance
    PROVE  SerialSpec => []LogBracketed
  <1>1. Init => SerialLogInv
    BY SerialInit, InitLogsInv
    DEF Init, SerialLogInv, LogBracketed, Bracketed, WriterInv, OneWriter
  <1>2. SerialLogInv /\ [SerialNext]_vars => SerialLogInv'
    BY StepSerialLogInv
  <1>3. SerialLogInv => LogBracketed
    BY DEF SerialLogInv
  <1> QED
    BY <1>1, <1>2, <1>3, PTL DEF SerialSpec

-----------------------------------------------------------------------------
(* Evidence: a session that has opened its copy.                           *)
Writer(s) == copy[s] \in {"loop", "close"}

Holds(file, o, k, missing) == Copies!IsCopyOf(file, o, k, missing)

(* What a session that is in a copy has, and has counted.                  *)
Arguments(s) ==
    /\ copy[s] # "idle" => original[s] \in Originals /\ name[s] \in Cases \X FileNames
    /\ written[s] <= bytes[s]
    /\ ~Writer(s) => bytes[s] = 0 /\ written[s] = 0

(* Its file is there, with all it has read but for what was refused, and   *)
(* ends where it writes, unless raced.                                     *)
Writes(s) ==
    Writer(s) =>
        /\ evidence[name[s]] # None
        /\ name[s] \notin raced =>
              /\ Holds(evidence[name[s]], original[s], bytes[s], refused[name[s]])
              /\ Len(evidence[name[s]]) = written[s]
              /\ refused[name[s]] \subseteq 1 .. bytes[s]

Alone(s, t) == Writer(s) /\ Writer(t) /\ name[s] = name[t] => s = t \/ name[s] \in raced

(* A file in the log is there, and nobody writes it any more.              *)
Finished(i) ==
    /\ evidence[copied[i].name] # None
    /\ \A s \in Sessions :
          Writer(s) /\ name[s] = copied[i].name => name[s] \in raced

FilesInv ==
    /\ Copies!TypeOK
    /\ \A s \in Sessions : Arguments(s) /\ Writes(s)
    /\ \A s, t \in Sessions : Alone(s, t)
    /\ \A i \in DOMAIN copied : Finished(i)
    /\ CopiesAreGenuine /\ LoggedOnce

(* A session copies into the case it has open ...                          *)
InCase(s) == copy[s] # "idle" => pc[s] = "idle" /\ name[s][1] = log[s]

(* ... and until it has opened the copy nobody else can have made it.      *)
Unused(s) ==
    copy[s] \in {"open", "create"} => evidence[name[s]] = None \/ name[s][1] \in broken

LocksInv == (\A s \in Sessions : InCase(s) /\ Unused(s)) /\ RacesBreakLocks

EvidenceInv == CaseInv /\ FilesInv /\ LocksInv

-----------------------------------------------------------------------------
Part  == [of : Originals, part : 1 .. Size]
Block == Part \cup {None}

(* What a stream does to a file: the result is a file, and a block put     *)
(* directly behind its end is added to it.                                 *)
LEMMA PutIsFile ==
    ASSUME NEW f \in Seq(Block), NEW k \in Nat \ {0}, NEW b \in Block
    PROVE  Copies!Put(f, k, b) \in Seq(Block)
  <1> DEFINE n == IF k > Len(f) THEN k ELSE Len(f)
  <1>1. n \in Nat /\ Len(f) \in Nat /\ DOMAIN f = 1 .. Len(f)
    OBVIOUS
  <1>2. \A j \in 1 .. n : j <= Len(f) => f[j] \in Block
    BY <1>1
  <1>3. Copies!Put(f, k, b) \in [1 .. n -> Block]
    BY <1>1, <1>2 DEF Copies!Put, Block
  <1> QED
    BY <1>1, <1>3, SeqDef

LEMMA PutAdds ==
    ASSUME NEW f \in Seq(Block), NEW b \in Block
    PROVE  /\ Len(Copies!Put(f, Len(f) + 1, b)) = Len(f) + 1
           /\ \A j \in 1 .. Len(f) : Copies!Put(f, Len(f) + 1, b)[j] = f[j]
           /\ Copies!Put(f, Len(f) + 1, b)[Len(f) + 1] = b
           /\ DOMAIN Copies!Put(f, Len(f) + 1, b) = 1 .. Len(f) + 1
  <1>1. Len(f) \in Nat /\ Len(f) + 1 > Len(f)
    OBVIOUS
  <1>2. Copies!Put(f, Len(f) + 1, b) =
          [j \in 1 .. Len(f) + 1 |->
             IF j = Len(f) + 1 THEN b ELSE IF j <= Len(f) THEN f[j] ELSE None]
    BY <1>1 DEF Copies!Put
  <1>3. Copies!Put(f, Len(f) + 1, b) \in Seq(Block)
    BY <1>1, PutIsFile
  <1> QED
    BY <1>1, <1>2, <1>3

-----------------------------------------------------------------------------
(* The steps of a copy, one lemma each.                                    *)
Logged == [original : Originals, name : Cases \X FileNames, bytes : 0 .. Size]

LEMMA CopyTypes ==
    ASSUME Copies!TypeOK
    PROVE  /\ copy \in [Sessions -> {"idle", "open", "create", "loop", "close"}]
           /\ original \in [Sessions -> Originals \cup {None}]
           /\ name \in [Sessions -> (Cases \X FileNames) \cup {None}]
           /\ bytes \in [Sessions -> 0 .. Size] /\ written \in [Sessions -> 0 .. Size]
           /\ evidence \in [Cases \X FileNames -> Seq(Block) \cup {None}]
           /\ copied \in Seq(Logged)
           /\ faults \in 0 .. MaxFaults /\ raced \subseteq Cases \X FileNames
           /\ refused \in [Cases \X FileNames -> SUBSET (1 .. Size)]
  BY DEF Copies!TypeOK, Copies!Labels, Copies!Blocks, Copies!Block, Part, Block, Logged

LEMMA NamesLogged ==
    ASSUME Copies!TypeOK
    PROVE  \A i \in DOMAIN copied : copied[i] \in Logged /\ copied[i].name \in Cases \X FileNames
  <1>1. copied \in Seq(Logged)
    BY CopyTypes
  <1>2. \A i \in DOMAIN copied : copied[i] \in Logged
    BY <1>1, LenProperties, ElementOfSeq
  <1> QED
    BY <1>2 DEF Logged

LEMMA InitFilesInv == EvidenceInit => FilesInv
  <1> SUFFICES ASSUME EvidenceInit PROVE FilesInv
    OBVIOUS
  <1>1. Copies!Init
    BY DEF EvidenceInit
  <1>2. Copies!TypeOK
    BY <1>1, CopyNumbers
    DEF Copies!Init, Copies!TypeOK, Copies!Labels, Copies!Blocks
  <1>3. \A n \in Cases \X FileNames : evidence[n] = None
    BY <1>1 DEF Copies!Init
  <1>4. CopiesAreGenuine
    BY <1>3 DEF CopiesAreGenuine, Copies!CopiesAreGenuine
  <1>5. DOMAIN copied = {}
    BY <1>1 DEF Copies!Init
  <1> QED
    BY <1>1, <1>2, <1>4, <1>5
    DEF Copies!Init, FilesInv, Arguments, Writes, Alone, Writer, LoggedOnce, Copies!LoggedOnce

(* The promise about the log, of the next state.                           *)
LEMMA AgainLogged ==
    ASSUME \A i \in DOMAIN copied' : copied'[i].name \notin raced' =>
              /\ Holds(evidence'[copied'[i].name], copied'[i].original, copied'[i].bytes,
                       refused'[copied'[i].name])
              /\ \A j \in DOMAIN copied' : copied'[j].name = copied'[i].name => j = i
    PROVE  LoggedOnce'
  BY DEF LoggedOnce, Copies!LoggedOnce, Holds

(* A step that writes nothing, and after which nobody writes who did not.  *)
LEMMA NoNewWriter ==
    ASSUME FilesInv, UNCHANGED <<evidence, copied, raced, refused>>,
           Copies!TypeOK', \A s \in Sessions : Arguments(s)',
           \A s \in Sessions : Writer(s)' =>
              /\ Writer(s)
              /\ UNCHANGED <<name[s], original[s], bytes[s], written[s]>>
    PROVE  FilesInv'
  <1>1. \A s \in Sessions : Writes(s)'
    <2> SUFFICES ASSUME NEW s \in Sessions, Writer(s)' PROVE Writes(s)'
      BY DEF Writes
    <2>1. /\ evidence' = evidence /\ refused' = refused /\ raced' = raced
          /\ Writer(s) /\ name'[s] = name[s] /\ original'[s] = original[s]
          /\ bytes'[s] = bytes[s] /\ written'[s] = written[s]
      OBVIOUS
    <2>2. Writes(s)
      BY DEF FilesInv
    <2> QED
      BY <2>1, <2>2 DEF Writes, Holds, Copies!IsCopyOf
  <1>2. \A s, t \in Sessions : Alone(s, t)'
    BY DEF FilesInv, Alone
  <1>3. \A i \in DOMAIN copied' : Finished(i)'
    BY DEF FilesInv, Finished
  <1>4. CopiesAreGenuine' /\ LoggedOnce'
    BY DEF FilesInv, CopiesAreGenuine, LoggedOnce, Copies!CopiesAreGenuine,
           Copies!LoggedOnce, Holds, Copies!IsCopyOf
  <1> QED
    BY <1>1, <1>2, <1>3, <1>4 DEF FilesInv

LEMMA ReturnTypes ==
    ASSUME FilesInv, NEW S, Copies!return(S),
           UNCHANGED <<evidence, copied, faults, raced, refused>>
    PROVE  FilesInv'
  <1>0. Copies!TypeOK /\ \A s \in Sessions : Arguments(s)
    BY DEF FilesInv
  <1>1. Copies!TypeOK'
    BY <1>0, CopyNumbers DEF Copies!TypeOK, Copies!return, Copies!Labels
  <1>2. \A s \in Sessions : Arguments(s)'
    BY <1>0, CopyTypes DEF Copies!return, Arguments, Writer
  <1>3. \A s \in Sessions : Writer(s)' =>
           /\ Writer(s)
           /\ UNCHANGED <<name[s], original[s], bytes[s], written[s]>>
    BY DEF Copies!return, Writer
  <1> QED
    BY <1>1, <1>2, <1>3, NoNewWriter

LEMMA CheckFiles ==
    ASSUME FilesInv, NEW s \in Sessions, NEW o \in Originals,
           NEW n \in Cases \X FileNames, Copies!Check(s, o, n)
    PROVE  FilesInv'
  <1>0. Copies!TypeOK /\ \A t \in Sessions : Arguments(t)
    BY DEF FilesInv
  <1>1. Copies!TypeOK'
    BY <1>0, CopyNumbers DEF Copies!TypeOK, Copies!Check, Copies!local, Copies!Labels
  <1>2. \A t \in Sessions : Arguments(t)'
    BY <1>0, CopyTypes DEF Copies!Check, Copies!local, Arguments, Writer
  <1>3. \A t \in Sessions : Writer(t)' =>
           /\ Writer(t)
           /\ UNCHANGED <<name[t], original[t], bytes[t], written[t]>>
    BY <1>0, CopyTypes DEF Copies!Check, Copies!local, Writer
  <1> QED
    BY <1>1, <1>2, <1>3, NoNewWriter DEF Copies!Check

(* From one place to the next, with nothing opened.                        *)
LEMMA GotoFiles ==
    ASSUME FilesInv, NEW s \in Sessions, NEW label,
           <<copy[s], label>> \in {<<"open", "create">>, <<"loop", "close">>},
           Copies!goto(s, label), UNCHANGED <<evidence, copied, raced, refused>>,
           faults' \in 0 .. MaxFaults
    PROVE  FilesInv'
  <1>0. Copies!TypeOK /\ \A t \in Sessions : Arguments(t)
    BY DEF FilesInv
  <1>1. copy[s] # "idle" /\ label \in {"create", "close"} /\ (label = "close" => Writer(s))
    BY DEF Writer
  <1>2. Copies!TypeOK'
    BY <1>0, <1>1 DEF Copies!TypeOK, Copies!goto, Copies!local, Copies!Labels
  <1>3. \A t \in Sessions : Arguments(t)'
    BY <1>0, <1>1, CopyTypes DEF Copies!goto, Copies!local, Arguments, Writer
  <1>4. \A t \in Sessions : Writer(t)' =>
           /\ Writer(t)
           /\ UNCHANGED <<name[t], original[t], bytes[t], written[t]>>
    BY <1>0, <1>1, CopyTypes DEF Copies!goto, Copies!local, Writer
  <1> QED
    BY <1>2, <1>3, <1>4, NoNewWriter

LEMMA OpenOriginalFiles ==
    ASSUME FilesInv, NEW s \in Sessions, Copies!OpenOriginal(s)
    PROVE  FilesInv'
  <1>1. CASE Copies!goto(s, "create")
    <2>1. UNCHANGED <<evidence, copied, faults, raced, refused>> /\ copy[s] = "open"
      BY DEF Copies!OpenOriginal
    <2>2. faults' \in 0 .. MaxFaults
      BY <2>1 DEF FilesInv, Copies!TypeOK
    <2> QED
      BY <1>1, <2>1, <2>2, GotoFiles
  <1>2. CASE Copies!return({s})
    BY <1>2, ReturnTypes DEF Copies!OpenOriginal
  <1> QED
    BY <1>1, <1>2 DEF Copies!OpenOriginal

LEMMA EndLoopFiles ==
    ASSUME FilesInv, NEW s \in Sessions, Copies!EndLoop(s)
    PROVE  FilesInv'
  <1>1. faults' \in 0 .. MaxFaults
    BY CopyNumbers DEF FilesInv, Copies!TypeOK, Copies!EndLoop
  <1> QED
    BY <1>1, GotoFiles DEF Copies!EndLoop

(* A copy is opened: what was in a file of its name is gone, and the name  *)
(* is raced if there was one.                                              *)
LEMMA CreateFiles ==
    ASSUME FilesInv, NEW s \in Sessions, Copies!CreateCopy(s)
    PROVE  FilesInv'
  <1>1. CASE Copies!return({s}) /\ UNCHANGED <<evidence, raced, refused>>
    BY <1>1, ReturnTypes DEF Copies!CreateCopy
  <1>2. ASSUME Copies!goto(s, "loop"),
               evidence' = [evidence EXCEPT ![name[s]] = <<>>],
               raced' = IF Copies!Absent(name[s]) THEN raced ELSE raced \cup {name[s]},
               refused' = [refused EXCEPT ![name[s]] = {}]
        PROVE  FilesInv'
    <2> DEFINE n == name[s]
    <2>0. /\ Copies!TypeOK /\ \A t \in Sessions : Arguments(t) /\ Writes(t)
          /\ \A t, u \in Sessions : Alone(t, u)
          /\ \A i \in DOMAIN copied : Finished(i)
          /\ CopiesAreGenuine /\ LoggedOnce
      BY DEF FilesInv
    <2>1. /\ copy[s] = "create" /\ n \in Cases \X FileNames /\ original[s] \in Originals
          /\ bytes[s] = 0 /\ written[s] = 0
          /\ UNCHANGED <<copied, faults, original, name, bytes, written>>
          /\ copy' = [copy EXCEPT ![s] = "loop"]
      BY <1>2, <2>0 DEF Copies!CreateCopy, Arguments, Writer, Copies!goto, Copies!local
    <2>2. <<>> \in Seq(Block) /\ Len(<<>>) = 0 /\ DOMAIN <<>> = {} /\ <<>> # None
      <3>1. <<>> \in Seq(Block) /\ Len(<<>>) = 0
        BY EmptySeq
      <3>2. DOMAIN <<>> = {}
        OBVIOUS
      <3> QED
        BY <3>1, <3>2, NoneIsNoFile DEF Block, Part
    <2>3. raced' \in SUBSET (Cases \X FileNames) /\ raced \subseteq raced'
          /\ (evidence[n] # None => n \in raced')
      BY <1>2, <2>0, <2>1, CopyTypes DEF Copies!Absent
    <2>4. /\ evidence'[n] = <<>>
          /\ \A m \in Cases \X FileNames : m # n => evidence'[m] = evidence[m]
          /\ refused'[n] = {} /\ refused' \in [Cases \X FileNames -> SUBSET (1 .. Size)]
          /\ \A m \in Cases \X FileNames : m # n => refused'[m] = refused[m]
      BY <1>2, <2>0, <2>1, CopyTypes
    <2>5. Copies!TypeOK'
      BY <1>2, <2>0, <2>1, <2>2, <2>3, <2>4
      DEF Copies!TypeOK, Copies!Labels, Copies!Blocks, Copies!Block, Block, Part
    <2>6. \A t \in Sessions : Arguments(t)'
      BY <2>0, <2>1, CopyTypes DEF Arguments, Writer
    <2>7. Holds(<<>>, original[s], 0, {})
      BY <2>2 DEF Holds, Copies!IsCopyOf
    <2>8. \A t \in Sessions : Writer(t)' => t = s \/ Writer(t)
      BY <2>0, <2>1, CopyTypes DEF Writer
    <2>9. \A t \in Sessions : t # s /\ Writer(t)' /\ name[t] = n => n \in raced'
      BY <2>0, <2>3, <2>8 DEF Writes
    <2>10. \A t \in Sessions : Writes(t)'
      <3>1. ASSUME NEW t \in Sessions, Writer(t)' PROVE Writes(t)'
        <4>1. CASE name[t] = n
          <5>1. t # s => n \in raced'
            BY <2>9, <3>1, <4>1
          <5> QED
            BY <2>1, <2>2, <2>4, <2>7, <4>1, <5>1 DEF Writes, Holds, Copies!IsCopyOf
        <4>2. CASE name[t] # n
          <5>1. t # s /\ Writer(t) /\ name[t] \in Cases \X FileNames
            BY <2>0, <2>8, <3>1, <4>2 DEF Arguments, Writer
          <5>2. /\ evidence'[name'[t]] = evidence[name[t]] /\ refused'[name'[t]] = refused[name[t]]
                /\ UNCHANGED <<name[t], original[t], bytes[t], written[t]>>
                /\ name[t] \notin raced' => name[t] \notin raced
            BY <2>1, <2>3, <2>4, <4>2, <5>1
          <5>3. Writes(t)
            BY <2>0
          <5> QED
            BY <5>1, <5>2, <5>3 DEF Writes, Holds, Copies!IsCopyOf
        <4> QED
          BY <4>1, <4>2
      <3> QED
        BY <3>1 DEF Writes
    <2>11. \A t, u \in Sessions : Alone(t, u)'
      BY <2>0, <2>1, <2>3, <2>8, <2>9 DEF Alone
    <2>12. \A i \in DOMAIN copied : copied[i].name \in Cases \X FileNames
      BY <2>0, NamesLogged
    <2>13. \A i \in DOMAIN copied' : Finished(i)'
      <3> SUFFICES ASSUME NEW i \in DOMAIN copied PROVE Finished(i)'
        BY <2>1
      <3>1. copied[i].name = n => n \in raced'
        BY <2>0, <2>3 DEF Finished
      <3>2. evidence'[copied[i].name] # None
        BY <2>0, <2>2, <2>4, <2>12 DEF Finished
      <3> QED
        <4>1. ASSUME NEW t \in Sessions, Writer(t)', name'[t] = copied'[i].name
              PROVE  name'[t] \in raced'
          BY <2>0, <2>1, <2>3, <2>8, <3>1, <4>1 DEF Finished
        <4> QED
          BY <2>1, <3>2, <4>1 DEF Finished
    <2>14. CopiesAreGenuine'
      <3> SUFFICES ASSUME NEW m \in (Cases \X FileNames) \ raced', evidence'[m] # None
                   PROVE  \E o \in Originals, k \in 0 .. Size :
                             Holds(evidence'[m], o, k, refused'[m])
        BY DEF CopiesAreGenuine, Copies!CopiesAreGenuine, Holds, Copies!IsCopyOf
      <3>1. 0 \in 0 .. Size
        BY CopyNumbers
      <3>2. CASE m = n
        BY <2>1, <2>4, <2>7, <3>1, <3>2
      <3>3. CASE m # n
        BY <2>0, <2>3, <2>4, <3>3 DEF CopiesAreGenuine, Copies!CopiesAreGenuine, Holds
      <3> QED
        BY <3>2, <3>3
    <2>15. LoggedOnce'
      <3>1. \A i \in DOMAIN copied :
               copied[i].name \notin raced' =>
                  /\ copied[i].name \notin raced
                  /\ evidence'[copied[i].name] = evidence[copied[i].name]
                  /\ refused'[copied[i].name] = refused[copied[i].name]
        BY <2>0, <2>3, <2>4, <2>12 DEF Finished
      <3>2. copied' = copied
        BY <2>1
      <3>3. \A i \in DOMAIN copied : copied[i].name \notin raced =>
               /\ Holds(evidence[copied[i].name], copied[i].original, copied[i].bytes,
                        refused[copied[i].name])
               /\ \A j \in DOMAIN copied : copied[j].name = copied[i].name => j = i
        BY <2>0 DEF LoggedOnce, Copies!LoggedOnce, Holds
      <3>4. \A i \in DOMAIN copied : copied[i].name \notin raced' =>
               /\ Holds(evidence'[copied[i].name], copied[i].original, copied[i].bytes,
                        refused'[copied[i].name])
               /\ \A j \in DOMAIN copied : copied[j].name = copied[i].name => j = i
        BY <3>1, <3>3
      <3> QED
        BY <3>2, <3>4, AgainLogged
    <2> QED
      BY <2>5, <2>6, <2>10, <2>11, <2>13, <2>14, <2>15 DEF FilesInv
  <1> QED
    BY <1>1, <1>2 DEF Copies!CreateCopy

(* A session reads a part, and its file or what was refused of it changes: *)
(* nothing of other files does, and all is well if its own is.             *)
LEMMA WrittenFiles ==
    ASSUME FilesInv, NEW s \in Sessions, Writer(s), name[s] \in Cases \X FileNames,
           Copies!TypeOK', UNCHANGED <<copy, copied, original, name, raced>>,
           bytes'[s] = bytes[s] + 1, written'[s] <= bytes'[s],
           \A t \in Sessions : t # s => bytes'[t] = bytes[t] /\ written'[t] = written[t],
           \A m \in Cases \X FileNames :
              m # name[s] => evidence'[m] = evidence[m] /\ refused'[m] = refused[m],
           evidence'[name[s]] # None,
           name[s] \notin raced =>
              /\ Holds(evidence'[name[s]], original[s], bytes'[s], refused'[name[s]])
              /\ refused'[name[s]] \subseteq 1 .. bytes'[s]
              /\ Len(evidence'[name[s]]) = written'[s]
    PROVE  FilesInv'
  <1> DEFINE n == name[s]
  <1>0. /\ Copies!TypeOK /\ \A t \in Sessions : Arguments(t) /\ Writes(t)
        /\ \A t, u \in Sessions : Alone(t, u)
        /\ \A i \in DOMAIN copied : Finished(i)
        /\ CopiesAreGenuine /\ LoggedOnce
    BY DEF FilesInv
  <1>1. \A t \in Sessions : Arguments(t)'
    BY <1>0 DEF Arguments, Writer
  <1>2. \A t \in Sessions : Writes(t)'
    <2> SUFFICES ASSUME NEW t \in Sessions, Writer(t) PROVE Writes(t)'
      BY DEF Writes, Writer
    <2>1. CASE t = s
      BY <2>1 DEF Writes, Holds, Copies!IsCopyOf
    <2>2. CASE t # s /\ name[t] = n
      <3>1. n \in raced
        BY <1>0, <2>2 DEF Alone
      <3> QED
        BY <2>2, <3>1 DEF Writes
    <2>3. CASE t # s /\ name[t] # n
      <3>1. /\ evidence'[name'[t]] = evidence[name[t]] /\ refused'[name'[t]] = refused[name[t]]
            /\ UNCHANGED <<name[t], original[t], bytes[t], written[t]>>
        BY <1>0, <2>3, CopyTypes DEF Arguments, Writer
      <3>2. Writes(t)
        BY <1>0
      <3> QED
        BY <3>1, <3>2 DEF Writes, Writer, Holds, Copies!IsCopyOf
    <2> QED
      BY <2>1, <2>2, <2>3
  <1>3. \A t, u \in Sessions : Alone(t, u)'
    BY <1>0 DEF Alone, Writer
  <1>4. \A i \in DOMAIN copied :
           /\ evidence'[copied[i].name] # None
           /\ copied[i].name \notin raced =>
                 /\ evidence'[copied[i].name] = evidence[copied[i].name]
                 /\ refused'[copied[i].name] = refused[copied[i].name]
    BY <1>0, NamesLogged DEF Finished
  <1>5. \A i \in DOMAIN copied' : Finished(i)'
    BY <1>0, <1>4 DEF Finished, Writer
  <1>6. CopiesAreGenuine'
    <2> SUFFICES ASSUME NEW m \in (Cases \X FileNames) \ raced, evidence'[m] # None
                 PROVE  \E o \in Originals, k \in 0 .. Size :
                           Holds(evidence'[m], o, k, refused'[m])
      BY DEF CopiesAreGenuine, Copies!CopiesAreGenuine, Holds, Copies!IsCopyOf
    <2>1. CASE m = n
      <3>1. bytes'[s] \in 0 .. Size
        BY DEF Copies!TypeOK
      <3>2. original[s] \in Originals
        BY <1>0 DEF Arguments, Writer
      <3> QED
        BY <2>1, <3>1, <3>2
    <2>2. CASE m # n
      BY <1>0, <2>2 DEF CopiesAreGenuine, Copies!CopiesAreGenuine, Holds
    <2> QED
      BY <2>1, <2>2
  <1>7. LoggedOnce'
    <2>1. \A i \in DOMAIN copied : copied[i].name \notin raced =>
             /\ Holds(evidence[copied[i].name], copied[i].original, copied[i].bytes,
                      refused[copied[i].name])
             /\ \A j \in DOMAIN copied : copied[j].name = copied[i].name => j = i
      BY <1>0 DEF LoggedOnce, Copies!LoggedOnce, Holds
    <2>2. \A i \in DOMAIN copied : copied[i].name \notin raced =>
             /\ Holds(evidence'[copied[i].name], copied[i].original, copied[i].bytes,
                      refused'[copied[i].name])
             /\ \A j \in DOMAIN copied : copied[j].name = copied[i].name => j = i
      BY <1>4, <2>1
    <2> QED
      <3>1. copied' = copied /\ raced' = raced
        OBVIOUS
      <3> QED
        BY <2>2, <3>1, AgainLogged
  <1> QED
    BY <1>1, <1>2, <1>3, <1>5, <1>6, <1>7 DEF FilesInv

(* One part more: it is refused, or it is put behind the last.             *)
LEMMA PartRefused ==
    ASSUME NEW f, NEW o, NEW k \in Nat, NEW gaps, Holds(f, o, k, gaps)
    PROVE  Holds(f, o, k + 1, gaps \cup {k + 1})
  <1>1. 1 .. k + 1 = (1 .. k) \cup {k + 1} /\ k + 1 \notin 1 .. k /\ 1 .. k \subseteq 1 .. k + 1
    OBVIOUS
  <1>2. (1 .. k + 1) \ (gaps \cup {k + 1}) = (1 .. k) \ gaps
    BY <1>1
  <1>3. \A i \in DOMAIN f : f[i] \in [of : {o}, part : 1 .. k + 1]
    BY <1>1 DEF Holds, Copies!IsCopyOf
  <1> QED
    BY <1>2, <1>3 DEF Holds, Copies!IsCopyOf

LEMMA PartAdded ==
    ASSUME NEW f \in Seq(Block), NEW o, NEW k \in Nat, NEW gaps \in SUBSET (1 .. k),
           NEW g, NEW n \in Nat, n = Len(f), g # None, DOMAIN g = 1 .. n + 1,
           \A i \in 1 .. n : g[i] = f[i],
           g[n + 1] = [of |-> o, part |-> k + 1], Holds(f, o, k, gaps)
    PROVE  Holds(g, o, k + 1, gaps)
  <1>0. /\ DOMAIN f = 1 .. n /\ 1 .. n + 1 = (1 .. n) \cup {n + 1} /\ n + 1 \notin 1 .. n
        /\ \A i \in 1 .. n : i < n + 1
        /\ 1 .. k + 1 = (1 .. k) \cup {k + 1} /\ k + 1 \notin 1 .. k
    OBVIOUS
  <1>1. \A i \in 1 .. n : f[i] \in [of : {o}, part : 1 .. k]
    BY <1>0 DEF Holds, Copies!IsCopyOf
  <1>2. g[n + 1].part = k + 1 /\ g[n + 1] \in [of : {o}, part : 1 .. k + 1]
    BY <1>0
  <1>3. \A i \in 1 .. n :
           g[i] \in [of : {o}, part : 1 .. k + 1] /\ g[i].part \in 1 .. k
    BY <1>0, <1>1
  <1>4. \A i, j \in DOMAIN g : i < j => g[i].part < g[j].part
    <2> SUFFICES ASSUME NEW i \in 1 .. n + 1, NEW j \in 1 .. n + 1, i < j
                 PROVE  g[i].part < g[j].part
      OBVIOUS
    <2>1. i \in 1 .. n
      OBVIOUS
    <2>2. CASE j = n + 1
      BY <1>2, <1>3, <2>1, <2>2
    <2>3. CASE j \in 1 .. n
      BY <1>0, <2>1, <2>3 DEF Holds, Copies!IsCopyOf
    <2> QED
      BY <2>2, <2>3
  <1>5. {g[i].part : i \in DOMAIN g} = {f[i].part : i \in DOMAIN f} \cup {k + 1}
    BY <1>0, <1>2
  <1>6. (1 .. k + 1) \ gaps = ((1 .. k) \ gaps) \cup {k + 1}
    BY <1>0
  <1>7. {g[i].part : i \in DOMAIN g} = (1 .. k + 1) \ gaps
    BY <1>5, <1>6 DEF Holds, Copies!IsCopyOf
  <1>8. \A i \in DOMAIN g : g[i] \in [of : {o}, part : 1 .. k + 1]
    BY <1>0, <1>2, <1>3
  <1> QED
    BY <1>4, <1>7, <1>8 DEF Holds, Copies!IsCopyOf

(* A part is read and written or refused: unless raced, the file has it    *)
(* behind the last of its own, or misses it.                               *)
LEMMA CopyBlockFiles ==
    ASSUME FilesInv, NEW s \in Sessions, Copies!CopyBlock(s)
    PROVE  FilesInv'
  <1> DEFINE n == name[s]
             k == bytes[s]
             put == Copies!Put(evidence[n], written[s] + 1, Copies!PartRead(s))
  <1>0. /\ Copies!TypeOK /\ \A t \in Sessions : Arguments(t) /\ Writes(t)
        /\ \A t, u \in Sessions : Alone(t, u)
        /\ \A i \in DOMAIN copied : Finished(i)
        /\ CopiesAreGenuine /\ LoggedOnce
    BY DEF FilesInv
  <1>1. /\ copy[s] = "loop" /\ Writer(s) /\ n \in Cases \X FileNames
        /\ original[s] \in Originals
        /\ UNCHANGED <<copy, copied, original, name, raced>>
        /\ k \in Nat /\ k < Size /\ written[s] \in Nat /\ written[s] <= k
        /\ bytes' = [bytes EXCEPT ![s] = @ + 1] /\ bytes'[s] = k + 1
        /\ \A t \in Sessions : t # s => bytes'[t] = bytes[t]
    BY <1>0, CopyTypes, CopyNumbers
    DEF Copies!CopyBlock, Copies!More, Arguments, Writer
  <1>2. evidence[n] \in Seq(Block) /\ refused[n] \in SUBSET (1 .. Size)
    BY <1>0, <1>1, CopyTypes DEF Writes
  <1>3. k + 1 \in 1 .. Size /\ bytes' \in [Sessions -> 0 .. Size]
    BY <1>0, <1>1, CopyTypes, CopyNumbers
  <1>4. CASE /\ UNCHANGED <<evidence, written>> /\ faults < MaxFaults /\ faults' = faults + 1
             /\ refused' = [refused EXCEPT ![n] = @ \cup {k + 1}]
    <2>1. faults' \in 0 .. MaxFaults
      BY <1>0, <1>4, CopyTypes, CopyNumbers
    <2>2. /\ refused'[n] = refused[n] \cup {k + 1}
          /\ \A m \in Cases \X FileNames : m # n => refused'[m] = refused[m]
          /\ refused' \in [Cases \X FileNames -> SUBSET (1 .. Size)]
      BY <1>0, <1>1, <1>2, <1>3, <1>4, CopyTypes
    <2>3. Copies!TypeOK'
      BY <1>0, <1>1, <1>3, <1>4, <2>1, <2>2 DEF Copies!TypeOK
    <2>4. n \notin raced =>
             /\ Holds(evidence[n], original[s], k + 1, refused[n] \cup {k + 1})
             /\ refused[n] \cup {k + 1} \subseteq 1 .. k + 1
             /\ Len(evidence[n]) = written[s]
      BY <1>0, <1>1, PartRefused DEF Writes
    <2> QED
      <3>1. evidence'[n] # None /\ evidence' = evidence /\ written' = written
        BY <1>0, <1>1, <1>4 DEF Writes
      <3>2. written'[s] <= bytes'[s]
        BY <1>1, <3>1
      <3> QED
        BY <1>1, <2>2, <2>3, <2>4, <3>1, <3>2, WrittenFiles
  <1>5. ASSUME evidence' = [evidence EXCEPT ![n] = put],
               written' = [written EXCEPT ![s] = @ + 1], UNCHANGED <<faults, refused>>
        PROVE  FilesInv'
    <2>1. Copies!PartRead(s) \in Block /\ written[s] + 1 \in Nat \ {0}
      BY <1>1, <1>3 DEF Block, Part, Copies!PartRead
    <2>2. put \in Seq(Block) /\ put # None
      <3>1. put \in Seq(Block)
        BY <1>2, <2>1, PutIsFile
      <3>2. None \notin Seq(Block)
        BY NoneIsNoFile DEF Block, Part
      <3> QED
        BY <3>1, <3>2
    <2>3. /\ evidence'[n] = put
          /\ \A m \in Cases \X FileNames : m # n => evidence'[m] = evidence[m]
          /\ evidence' \in [Cases \X FileNames -> Seq(Block) \cup {None}]
      BY <1>0, <1>1, <1>5, <2>2, CopyTypes
    <2>4. written'[s] = written[s] + 1 /\ written' \in [Sessions -> 0 .. Size]
          /\ \A t \in Sessions : t # s => written'[t] = written[t]
      BY <1>0, <1>1, <1>5, CopyTypes, CopyNumbers
    <2>5. Copies!TypeOK'
      BY <1>0, <1>1, <1>3, <1>5, <2>3, <2>4
      DEF Copies!TypeOK, Copies!Blocks, Copies!Block, Block, Part
    <2>6. n \notin raced =>
             /\ Holds(put, original[s], k + 1, refused[n])
             /\ refused[n] \subseteq 1 .. k + 1
             /\ Len(put) = written[s] + 1
      <3> SUFFICES ASSUME n \notin raced
                   PROVE  /\ Holds(put, original[s], k + 1, refused[n])
                          /\ refused[n] \subseteq 1 .. k + 1
                          /\ Len(put) = written[s] + 1
        OBVIOUS
      <3>1. /\ Holds(evidence[n], original[s], k, refused[n])
            /\ Len(evidence[n]) = written[s] /\ refused[n] \subseteq 1 .. k
        BY <1>0, <1>1 DEF Writes
      <3>2. /\ Len(put) = written[s] + 1 /\ DOMAIN put = 1 .. written[s] + 1
            /\ \A j \in 1 .. written[s] : put[j] = evidence[n][j]
            /\ put[written[s] + 1] = Copies!PartRead(s)
        BY <1>2, <2>1, <3>1, PutAdds
      <3> QED
        <4> HIDE DEF put
        <4>1. put[written[s] + 1] = [of |-> original[s], part |-> k + 1]
          BY <3>2 DEF Copies!PartRead
        <4>2. Holds(put, original[s], k + 1, refused[n])
          BY <1>1, <1>2, <2>2, <3>1, <3>2, <4>1, PartAdded
        <4>3. refused[n] \subseteq 1 .. k + 1
          BY <1>1, <3>1
        <4> QED
          BY <3>2, <4>2, <4>3
    <2> QED
      <3> HIDE DEF put
      <3> QED
        BY <1>0, <1>1, <1>3, <1>5, <2>2, <2>3, <2>4, <2>5, <2>6, WrittenFiles DEF Arguments
  <1> QED
    BY <1>4, <1>5 DEF Copies!CopyBlock

(* The copy is done and logged: nobody else can have logged its name, as   *)
(* it would have been there when the session opened its copy.              *)
LEMMA FinishFiles ==
    ASSUME FilesInv, NEW s \in Sessions, Copies!Finish(s)
    PROVE  FilesInv'
  <1> DEFINE e == [original |-> original[s], name |-> name[s], bytes |-> bytes[s]]
  <1>0. /\ Copies!TypeOK /\ \A t \in Sessions : Arguments(t) /\ Writes(t)
        /\ \A t, u \in Sessions : Alone(t, u)
        /\ \A i \in DOMAIN copied : Finished(i)
        /\ CopiesAreGenuine /\ LoggedOnce
    BY DEF FilesInv
  <1>1. /\ Writer(s) /\ name[s] \in Cases \X FileNames /\ original[s] \in Originals
        /\ UNCHANGED <<evidence, faults, raced, refused>> /\ copied' = Append(copied, e)
        /\ Copies!return({s})
    BY <1>0 DEF Copies!Finish, Arguments, Writer
  <1>2. e \in Logged /\ copied \in Seq(Logged)
    BY <1>0, <1>1, CopyTypes DEF Logged
  <1>3. /\ copied' \in Seq(Logged)
        /\ DOMAIN copied = 1 .. Len(copied) /\ Len(copied) \in Nat
        /\ DOMAIN copied' = 1 .. Len(copied) + 1
        /\ copied'[Len(copied) + 1] = e
        /\ \A i \in DOMAIN copied : copied'[i] = copied[i]
    <2> HIDE DEF e
    <2> QED
      BY <1>1, <1>2, AppendProperties, LenProperties
  <1>4. Copies!TypeOK'
    <2>1. copied' \in Seq([original : Originals, name : Cases \X FileNames, bytes : 0 .. Size])
      BY <1>3 DEF Logged
    <2> QED
      BY <1>0, <1>1, <2>1, CopyNumbers DEF Copies!TypeOK, Copies!return, Copies!Labels
  <1>5. \A t \in Sessions : Arguments(t)'
    BY <1>0, <1>1, CopyTypes DEF Copies!return, Arguments, Writer
  <1>6. \A t \in Sessions : Writer(t)' =>
           /\ t # s /\ Writer(t)
           /\ UNCHANGED <<name[t], original[t], bytes[t], written[t]>>
    BY <1>1 DEF Copies!return, Writer
  <1>7. \A t \in Sessions : Writes(t)'
    <2> SUFFICES ASSUME NEW t \in Sessions, Writer(t)' PROVE Writes(t)'
      BY DEF Writes
    <2>1. /\ evidence' = evidence /\ refused' = refused /\ raced' = raced /\ Writer(t)
          /\ name'[t] = name[t] /\ original'[t] = original[t]
          /\ bytes'[t] = bytes[t] /\ written'[t] = written[t]
      BY <1>1, <1>6
    <2>2. Writes(t)
      BY <1>0
    <2> QED
      BY <2>1, <2>2 DEF Writes, Holds, Copies!IsCopyOf
  <1>8. \A t, u \in Sessions : Alone(t, u)'
    BY <1>0, <1>1, <1>6 DEF Alone
  <1>9. \A i \in DOMAIN copied' : Finished(i)'
    <2> SUFFICES ASSUME NEW i \in DOMAIN copied' PROVE Finished(i)'
      OBVIOUS
    <2>1. CASE i \in DOMAIN copied
      BY <1>0, <1>1, <1>3, <1>6, <2>1 DEF Finished
    <2>2. CASE i = Len(copied) + 1
      <3>1. copied'[i].name = name[s]
        BY <1>3, <2>2
      <3>2. evidence'[name[s]] # None
        BY <1>0, <1>1 DEF Writes
      <3>3. \A t \in Sessions : Writer(t)' /\ name'[t] = name[s] => name[s] \in raced'
        BY <1>0, <1>1, <1>6 DEF Alone
      <3> QED
        BY <3>1, <3>2, <3>3 DEF Finished
    <2> QED
      BY <1>3, <2>1, <2>2
  <1>10. CopiesAreGenuine'
    BY <1>0, <1>1 DEF CopiesAreGenuine, Copies!CopiesAreGenuine, Holds, Copies!IsCopyOf
  <1>11. LoggedOnce'
    <2>1. \A i \in DOMAIN copied : copied[i].name \notin raced =>
             /\ Holds(evidence[copied[i].name], copied[i].original, copied[i].bytes,
                        refused[copied[i].name])
             /\ \A j \in DOMAIN copied : copied[j].name = copied[i].name => j = i
      BY <1>0 DEF LoggedOnce, Copies!LoggedOnce, Holds
    <2>2. name[s] \notin raced =>
             Holds(evidence[name[s]], original[s], bytes[s], refused[name[s]])
      BY <1>0, <1>1 DEF Writes
    <2>3. \A i \in DOMAIN copied : copied[i].name = name[s] => name[s] \in raced
      BY <1>0, <1>1 DEF Finished
    <2>4. e.name = name[s] /\ e.original = original[s] /\ e.bytes = bytes[s]
      OBVIOUS
    <2>5. \A i \in DOMAIN copied' : copied'[i].name \notin raced =>
             /\ Holds(evidence[copied'[i].name], copied'[i].original, copied'[i].bytes,
                      refused[copied'[i].name])
             /\ \A j \in DOMAIN copied' : copied'[j].name = copied'[i].name => j = i
      <3> HIDE DEF e
      <3> QED
        BY <1>3, <2>1, <2>2, <2>3, <2>4
    <2> QED
      <3>1. evidence' = evidence /\ refused' = refused /\ raced' = raced
        BY <1>1
      <3> QED
        BY <2>5, <3>1, AgainLogged
  <1> QED
    BY <1>4, <1>5, <1>7, <1>8, <1>9, <1>10, <1>11 DEF FilesInv

LEMMA StepFiles ==
    ASSUME CaseInv, FilesInv, [EvidenceNext]_<<vars, copying>>
    PROVE  FilesInv'
  <1>1. CASE UNCHANGED copying
    <2>1. Copies!TypeOK' /\ \A s \in Sessions : Arguments(s)'
      BY <1>1 DEF copying, FilesInv, Copies!TypeOK, Arguments, Writer
    <2> QED
      BY <1>1, <2>1, NoNewWriter DEF copying, Writer
  <1>2. ASSUME NEW s \in Sessions, NEW o \in Originals, NEW n \in FileNames, StartCopy(s, o, n)
        PROVE  FilesInv'
    <2>1. case_name[s] \in Cases
      BY <1>2 DEF StartCopy, CaseIsOpen, CaseInv, TypeOK, Maybe, Fields
    <2>2. <<case_name[s], n>> \in Cases \X FileNames
      BY <2>1
    <2>3. Copies!Check(s, o, <<case_name[s], n>>)
      BY <1>2 DEF StartCopy
    <2> QED
      BY <2>2, <2>3, CheckFiles
  <1>3. ASSUME NEW s \in Sessions, Copying(s) PROVE FilesInv'
    BY <1>3, OpenOriginalFiles, CreateFiles, CopyBlockFiles, EndLoopFiles
    DEF Copying, Copies!Step
  <1>4. ASSUME NEW s \in Sessions, FinishCopy(s) PROVE FilesInv'
    BY <1>4, FinishFiles DEF FinishCopy
  <1>5. ASSUME NEW p \in Procs, Process(p) PROVE FilesInv'
    BY <1>1, <1>5, ReturnTypes DEF Process, Copies!Abandon
  <1>6. CASE UNCHANGED <<vars, copying>>
    BY <1>1, <1>6
  <1> QED
    BY <1>1, <1>2, <1>3, <1>4, <1>5, <1>6 DEF EvidenceNext, CaseCommand

-----------------------------------------------------------------------------
(* What the steps of the case sessions do to a session that is in a copy.  *)
LEMMA OthersKeep ==
    ASSUME TypeOK, NEW s \in Sessions, SessionStep(s)
    PROVE  /\ \A t \in Sessions \ {s} : pc'[t] = pc[t] /\ log'[t] = log[t]
           /\ broken \subseteq broken'
  <1>1. CASE Connect(s) \/ TalkerExit(s) \/ Exit(s)
    BY <1>1 DEF TypeOK, Connect, TalkerExit, Exit, fields
  <1>2. ASSUME NEW c \in Cases, CheckLock(s, c)
        PROVE  /\ \A t \in Sessions \ {s} : pc'[t] = pc[t] /\ log'[t] = log[t]
               /\ broken \subseteq broken'
    BY <1>2 DEF TypeOK, CheckLock
  <1>3. CASE \E c \in Cases : Open(s, c) \/ New(s, c)
    BY <1>2, <1>3 DEF Open, New
  <1>4. CASE CreateLock(s)
    BY <1>4 DEF TypeOK, CreateLock
  <1>5. CASE OpenLog(s) \/ Close(s) \/ FinishClose(s)
    BY <1>5 DEF TypeOK, OpenLog, Close, RemoveLock, FinishClose, WriteClosing, fields
  <1>6. CASE LogText(s) \/ ShowLog(s)
    BY <1>6 DEF LogText, ShowLog, fields
  <1> QED
    BY <1>1, <1>3, <1>4, <1>5, <1>6 DEF SessionStep

LEMMA StepIsNext ==
    ASSUME [EvidenceNext]_<<vars, copying>>
    PROVE  [Next]_vars
  <1>1. CASE \E s \in Sessions : CaseCommand(s)
    BY <1>1 DEF CaseCommand, Next
  <1>2. ASSUME NEW s \in Sessions, NEW o \in Originals, NEW n \in FileNames, StartCopy(s, o, n)
        PROVE  [Next]_vars
    BY <1>2 DEF StartCopy, Next, SessionStep
  <1>3. CASE \E s \in Sessions : Copying(s) \/ FinishCopy(s) \/ ExitFlush(s)
    BY <1>3 DEF Copying, FinishCopy, Next, SessionStep
  <1>4. CASE \E p \in Procs : Process(p)
    BY <1>4 DEF Process, Next, ProcessStep
  <1> QED
    BY <1>1, <1>2, <1>3, <1>4 DEF EvidenceNext

(* In a copy nothing happens to the session but the copy: a step leaves    *)
(* the invariant about the locks alone if it keeps these things.           *)
LEMMA NoNewCopy ==
    ASSUME LocksInv, broken \subseteq broken', UNCHANGED <<evidence, raced>>,
           \A s \in Sessions : copy'[s] # "idle" =>
              /\ copy[s] # "idle" /\ (copy'[s] \in {"open", "create"} => copy[s] \in {"open", "create"})
              /\ name'[s] = name[s] /\ pc'[s] = pc[s] /\ log'[s] = log[s]
    PROVE  LocksInv'
  BY DEF LocksInv, InCase, Unused, RacesBreakLocks

LEMMA StepLocks ==
    ASSUME CaseInv, FilesInv, LocksInv, [EvidenceNext]_<<vars, copying>>
    PROVE  LocksInv'
  <1>0. /\ TypeOK /\ Copies!TypeOK /\ ExclusiveUnlessBroken
        /\ \A s \in Sessions : Arguments(s) /\ Fields(s) /\ InCase(s) /\ Unused(s)
        /\ RacesBreakLocks
    BY DEF CaseInv, FilesInv, LocksInv
  <1>1. ASSUME NEW s \in Sessions, CaseCommand(s) PROVE LocksInv'
    <2>1. \A t \in Sessions : copy'[t] # "idle" => t # s
      BY <1>1 DEF CaseCommand, copying
    <2>2. /\ \A t \in Sessions \ {s} : pc'[t] = pc[t] /\ log'[t] = log[t]
          /\ broken \subseteq broken'
      BY <1>0, <1>1, OthersKeep DEF CaseCommand
    <2> QED
      BY <1>1, <2>1, <2>2, NoNewCopy DEF CaseCommand, copying
  <1>2. ASSUME NEW s \in Sessions, ExitFlush(s), UNCHANGED copying PROVE LocksInv'
    BY <1>2, NoNewCopy DEF ExitFlush, copying, fields
  <1>3. ASSUME NEW p \in Procs, Process(p) PROVE LocksInv'
    <2>1. CASE Start(p) /\ UNCHANGED copying
      <3>1. /\ broken \subseteq broken'
            /\ \A t \in Sessions : pc[t] = "idle" => pc'[t] = "idle"
            /\ log' = log
        BY <2>1 DEF Start, TypeOK, fields
      <3> QED
        BY <1>0, <2>1, <3>1, NoNewCopy DEF copying, InCase
    <2>2. CASE Vanish(p) /\ Copies!Abandon(Of(p))
      <3>1. broken' = broken /\ UNCHANGED <<evidence, raced>>
        BY <2>2 DEF Vanish, Copies!Abandon
      <3>2. \A t \in Sessions : copy'[t] # "idle" =>
               /\ t \notin Of(p) /\ copy'[t] = copy[t] /\ name'[t] = name[t]
               /\ pc'[t] = pc[t] /\ log'[t] = log[t]
        BY <1>0, <2>2, CopyTypes DEF Vanish, Copies!Abandon, Copies!return
      <3> QED
        BY <3>1, <3>2, NoNewCopy
    <2> QED
      BY <1>3, <2>1, <2>2 DEF Process, Terminate, Crash
  <1>4. ASSUME NEW s \in Sessions, NEW o \in Originals, NEW n \in FileNames, StartCopy(s, o, n)
        PROVE  LocksInv'
    <2>0. /\ UNCHANGED <<pc, log, broken, evidence, raced>>
          /\ pc[s] = "idle" /\ log[s] # None /\ copy[s] = "idle"
          /\ case_name[s] = log[s]
      BY <1>0, <1>4 DEF StartCopy, LogText, At, CaseIsOpen, Copies!Check, vars, fields, Fields
    <2>1. CASE copy' = copy /\ name' = name
      BY <2>0, <2>1, NoNewCopy
    <2>2. CASE /\ Copies!Absent(<<case_name[s], n>>)
               /\ copy' = [copy EXCEPT ![s] = "open"]
               /\ name' = [name EXCEPT ![s] = <<case_name[s], n>>]
      <3>1. \A t \in Sessions : InCase(t)'
        BY <1>0, <2>0, <2>2, CopyTypes DEF InCase
      <3>2. \A t \in Sessions : Unused(t)'
        BY <1>0, <2>0, <2>2, CopyTypes DEF Unused, Copies!Absent
      <3> QED
        BY <1>0, <2>0, <3>1, <3>2 DEF LocksInv, RacesBreakLocks
    <2> QED
      BY <1>4, <2>1, <2>2 DEF StartCopy, Copies!Check, Copies!local
  <1>5. ASSUME NEW s \in Sessions, Copying(s) \/ FinishCopy(s) PROVE LocksInv'
    <2>0. UNCHANGED <<pc, log, broken>>
      BY <1>5 DEF Copying, FinishCopy, LogText, vars, fields
    <2>1. CASE Copies!OpenOriginal(s) \/ Copies!EndLoop(s) \/ Copies!Finish(s)
      <3>1. /\ UNCHANGED <<evidence, raced>>
            /\ \A t \in Sessions : copy'[t] # "idle" =>
                  /\ copy[t] # "idle"
                  /\ copy'[t] \in {"open", "create"} => copy[t] \in {"open", "create"}
                  /\ name'[t] = name[t]
        <4>1. CASE Copies!return({s})
          BY <1>0, <2>1, <4>1, CopyTypes
          DEF Copies!OpenOriginal, Copies!EndLoop, Copies!Finish, Copies!return
        <4>2. CASE \/ copy[s] = "open" /\ Copies!goto(s, "create")
                   \/ copy[s] = "loop" /\ Copies!goto(s, "close")
          BY <1>0, <2>1, <4>2, CopyTypes
          DEF Copies!OpenOriginal, Copies!EndLoop, Copies!Finish, Copies!goto, Copies!local
        <4> QED
          BY <2>1, <4>1, <4>2 DEF Copies!OpenOriginal, Copies!EndLoop, Copies!Finish
      <3> QED
        BY <2>0, <3>1, NoNewCopy
    <2>2. CASE Copies!CreateCopy(s) \/ Copies!CopyBlock(s)
      <3>0. /\ copy[s] \in {"create", "loop"} /\ name[s] \in Cases \X FileNames
            /\ pc[s] = "idle" /\ name[s][1] = log[s] /\ name[s][1] \in Cases
        BY <1>0, <2>2 DEF Copies!CreateCopy, Copies!CopyBlock, Arguments, InCase
      <3>1. /\ \A m \in Cases \X FileNames : m # name[s] => evidence'[m] = evidence[m]
            /\ \A t \in Sessions : copy'[t] # "idle" =>
                  copy[t] # "idle" /\ name'[t] = name[t] /\ (t # s => copy'[t] = copy[t])
            /\ copy'[s] \notin {"open", "create"}
        <4>1. CASE Copies!CopyBlock(s)
          BY <1>0, <3>0, <4>1, CopyTypes DEF Copies!CopyBlock
        <4>2. CASE Copies!CreateCopy(s)
          <5>1. CASE Copies!return({s}) /\ UNCHANGED evidence
            BY <1>0, <3>0, <5>1, CopyTypes DEF Copies!return
          <5>2. CASE Copies!goto(s, "loop") /\ evidence' = [evidence EXCEPT ![name[s]] = <<>>]
            BY <1>0, <3>0, <5>2, CopyTypes DEF Copies!goto, Copies!local
          <5> QED
            BY <4>2, <5>1, <5>2 DEF Copies!CreateCopy
        <4> QED
          BY <2>2, <4>1, <4>2
      <3>2. \A t \in Sessions : InCase(t)'
        BY <1>0, <2>0, <3>1 DEF InCase
      <3>3. ASSUME NEW t \in Sessions, copy'[t] \in {"open", "create"} PROVE Unused(t)'
        <4>1. t # s /\ copy[t] = copy'[t] /\ name'[t] = name[t]
              /\ pc[t] = "idle" /\ name[t][1] = log[t] /\ name[t] \in Cases \X FileNames
          BY <1>0, <3>1, <3>3 DEF InCase, Arguments
        <4>2. CASE name[t] # name[s]
          BY <1>0, <2>0, <3>1, <4>1, <4>2 DEF Unused
        <4>3. CASE name[t] = name[s]
          <5>1. Holder(s, name[s][1]) /\ Holder(t, name[s][1])
            BY <3>0, <4>1, <4>3 DEF Holder
          <5>2. name[s][1] \in broken
            BY <1>0, <3>0, <4>1, <5>1 DEF ExclusiveUnlessBroken
          <5> QED
            BY <2>0, <4>1, <4>3, <5>2 DEF Unused
        <4> QED
          BY <4>2, <4>3
      <3>4. RacesBreakLocks'
        <4>1. \A m \in raced' : m \in raced \/ (m = name[s] /\ copy[s] = "create" /\ evidence[m] # None)
          BY <2>2 DEF Copies!CreateCopy, Copies!CopyBlock, Copies!Absent
        <4> QED
          BY <1>0, <2>0, <4>1 DEF RacesBreakLocks, Unused
      <3> QED
        BY <3>2, <3>3, <3>4 DEF LocksInv, Unused
    <2> QED
      BY <1>5, <2>1, <2>2 DEF Copying, FinishCopy, Copies!Step
  <1>6. CASE UNCHANGED <<vars, copying>>
    BY <1>6, NoNewCopy DEF vars, copying, fields
  <1> QED
    BY <1>1, <1>2, <1>3, <1>4, <1>5, <1>6 DEF EvidenceNext

LEMMA InitEvidenceInv == EvidenceInit => EvidenceInv
  <1> SUFFICES ASSUME EvidenceInit PROVE EvidenceInv
    OBVIOUS
  <1>1. CaseInv /\ FilesInv
    BY InitCaseInv, InitFilesInv DEF EvidenceInit
  <1>2. LocksInv
    BY DEF EvidenceInit, Copies!Init, LocksInv, InCase, Unused, RacesBreakLocks
  <1> QED
    BY <1>1, <1>2 DEF EvidenceInv

LEMMA StepEvidenceInv == EvidenceInv /\ [EvidenceNext]_<<vars, copying>> => EvidenceInv'
  BY StepIsNext, StepCaseInv, StepFiles, StepLocks DEF EvidenceInv

-----------------------------------------------------------------------------
(* Everything keeps its type, the copies and the case sessions together    *)
(* (the variables of copy.cpp and case.h).                                 *)
THEOREM EvidenceTypes == EvidenceSpec => []EvidenceTypeOK
  <1>1. EvidenceInv => EvidenceTypeOK
    BY DEF EvidenceInv, CaseInv, FilesInv, EvidenceTypeOK
  <1> QED
    BY <1>1, InitEvidenceInv, StepEvidenceInv, PTL DEF EvidenceSpec

(* Exclusion is kept by sessions that copy, too (case.cpp:107-129).        *)
THEOREM ExclusionWithCopies == EvidenceSpec => []ExclusiveUnlessBroken
  <1>1. EvidenceInv => ExclusiveUnlessBroken
    BY DEF EvidenceInv, CaseInv
  <1> QED
    BY <1>1, InitEvidenceInv, StepEvidenceInv, PTL DEF EvidenceSpec

LEMMA InitEvidenceLogs == EvidenceInit => LogsInv
  BY InitLogsInv DEF EvidenceInit

LEMMA StepEvidenceLogs == LogsInv /\ [EvidenceNext]_<<vars, copying>> => LogsInv'
  BY StepIsNext, StepLogsInv

(* And what a session writes of its copies into the log stays between its  *)
(* opening and closing lines (copy.cpp:55-56, case.cpp:107-129, 158-176).  *)
THEOREM SessionBracketsWithCopies == EvidenceSpec => []SessionLogBracketed
  BY InitEvidenceLogs, StepEvidenceLogs, LogsInvBrackets, PTL DEF EvidenceSpec

(* Two sessions come to write one file only in a case whose lock was       *)
(* broken (copy.cpp:25-39, case.cpp:107-129).                              *)
THEOREM LocksKeepCopiesApart == EvidenceSpec => []RacesBreakLocks
  <1>1. EvidenceInv => RacesBreakLocks
    BY DEF EvidenceInv, LocksInv
  <1> QED
    BY <1>1, InitEvidenceInv, StepEvidenceInv, PTL DEF EvidenceSpec

(* But for such races a copy holds the parts of one original in their      *)
(* order, as far as it came, and none is missing but those the disk        *)
(* refused, whatever fails (copy.cpp:26-50).                               *)
THEOREM Genuine == EvidenceSpec => []CopiesAreGenuine
  <1>1. EvidenceInv => CopiesAreGenuine
    BY DEF EvidenceInv, FilesInv
  <1> QED
    BY <1>1, InitEvidenceInv, StepEvidenceInv, PTL DEF EvidenceSpec

(* And the count in the log is that of the parts in the file and those     *)
(* the disk refused, and stays it (copy.cpp:26-32, 45-56).                 *)
THEOREM LogIsEvidence == EvidenceSpec => []LoggedOnce
  <1>1. EvidenceInv => LoggedOnce
    BY DEF EvidenceInv, FilesInv
  <1> QED
    BY <1>1, InitEvidenceInv, StepEvidenceInv, PTL DEF EvidenceSpec

(* What a step keeps of a file in a case directory.                        *)
Kept(n) ==
    n \notin raced' /\ evidence[n] # None =>
        /\ evidence'[n] # None
        /\ Len(evidence'[n]) >= Len(evidence[n])
        /\ \A i \in DOMAIN evidence[n] : evidence'[n][i] = evidence[n][i]

LEMMA SameIsKept ==
    ASSUME Copies!TypeOK, NEW n \in Cases \X FileNames, evidence'[n] = evidence[n]
    PROVE  Kept(n)
  <1>1. evidence[n] \in Seq(Block) \cup {None}
    BY CopyTypes
  <1>2. evidence[n] # None => Len(evidence[n]) \in Nat
    BY <1>1
  <1> QED
    BY <1>2 DEF Kept

LEMMA CreateKeeps ==
    ASSUME FilesInv, NEW s \in Sessions, Copies!CreateCopy(s), NEW n \in Cases \X FileNames
    PROVE  Kept(n)
  <1>0. Copies!TypeOK /\ Arguments(s)
    BY DEF FilesInv
  <1>1. CASE evidence'[n] = evidence[n]
    BY <1>0, <1>1, SameIsKept
  <1>2. CASE evidence'[n] # evidence[n]
    <2>1. /\ evidence' = [evidence EXCEPT ![name[s]] = <<>>]
          /\ raced' = IF Copies!Absent(name[s]) THEN raced ELSE raced \cup {name[s]}
      BY <1>2 DEF Copies!CreateCopy
    <2>2. n = name[s]
      BY <1>0, <1>2, <2>1, CopyTypes
    <2> QED
      BY <2>1, <2>2 DEF Kept, Copies!Absent
  <1> QED
    BY <1>1, <1>2

LEMMA BlockKeeps ==
    ASSUME FilesInv, NEW s \in Sessions, Copies!CopyBlock(s), NEW n \in Cases \X FileNames
    PROVE  Kept(n)
  <1> DEFINE put == Copies!Put(evidence[n], written[s] + 1, Copies!PartRead(s))
  <1>0. Copies!TypeOK /\ Arguments(s) /\ Writes(s)
    BY DEF FilesInv
  <1>1. CASE evidence'[n] = evidence[n]
    BY <1>0, <1>1, SameIsKept
  <1>2. CASE evidence'[n] # evidence[n]
    <2>1. evidence' =
            [evidence EXCEPT ![name[s]] = Copies!Put(@, written[s] + 1, Copies!PartRead(s))]
      BY <1>2 DEF Copies!CopyBlock
    <2>2. n = name[s] /\ evidence'[n] = put
      BY <1>0, <1>2, <2>1, CopyTypes
    <2>3. Writer(s) /\ raced' = raced /\ Copies!PartRead(s) \in Block
      <3>1. /\ copy[s] = "loop" /\ raced' = raced /\ original[s] \in Originals
            /\ bytes[s] \in Nat /\ bytes[s] < Size
        BY <1>0, CopyTypes, CopyNumbers DEF Copies!CopyBlock, Copies!More, Arguments
      <3>2. bytes[s] + 1 \in 1 .. Size
        BY <3>1, CopyNumbers
      <3> QED
        BY <3>1, <3>2 DEF Writer, Block, Part, Copies!PartRead
    <2>4. evidence[n] \in Seq(Block)
      BY <1>0, <2>2, <2>3, CopyTypes DEF Writes
    <2>5. SUFFICES ASSUME n \notin raced
                   PROVE  /\ put # None /\ Len(put) >= Len(evidence[n])
                          /\ \A i \in DOMAIN evidence[n] : put[i] = evidence[n][i]
      BY <2>2, <2>3 DEF Kept
    <2>6. written[s] = Len(evidence[n])
      BY <1>0, <2>2, <2>3, <2>5 DEF Writes
    <2>7. /\ Len(put) = Len(evidence[n]) + 1
          /\ \A j \in 1 .. Len(evidence[n]) : put[j] = evidence[n][j]
      BY <2>3, <2>4, <2>6, PutAdds
    <2>8. Len(evidence[n]) \in Nat /\ DOMAIN evidence[n] = 1 .. Len(evidence[n])
      BY <2>4
    <2>9. put # None
      <3>1. Len(evidence[n]) + 1 \in Nat \ {0}
        BY <2>8
      <3>2. put \in Seq(Block)
        BY <2>3, <2>4, <2>6, <3>1, PutIsFile
      <3> QED
        BY <3>2, NoneIsNoFile DEF Block, Part
    <2> QED
      BY <2>7, <2>8, <2>9
  <1> QED
    BY <1>1, <1>2

LEMMA StepKeeps ==
    ASSUME FilesInv, [EvidenceNext]_<<vars, copying>>, NEW n \in Cases \X FileNames
    PROVE  Kept(n)
  <1>1. CASE UNCHANGED evidence
    BY <1>1, SameIsKept DEF FilesInv
  <1>2. ASSUME NEW s \in Sessions, Copying(s) PROVE Kept(n)
    BY <1>1, <1>2, CreateKeeps, BlockKeeps
    DEF Copying, Copies!Step, Copies!OpenOriginal, Copies!EndLoop
  <1>3. ASSUME NEW s \in Sessions, NEW o \in Originals, NEW m \in FileNames, StartCopy(s, o, m)
        PROVE  UNCHANGED evidence
    BY <1>3 DEF StartCopy, Copies!Check
  <1>4. ASSUME NEW s \in Sessions, FinishCopy(s) PROVE UNCHANGED evidence
    BY <1>4 DEF FinishCopy, Copies!Finish
  <1>5. ASSUME NEW p \in Procs, Process(p) PROVE UNCHANGED evidence
    BY <1>5 DEF Process, Copies!Abandon, copying
  <1> QED
    BY <1>1, <1>2, <1>3, <1>4, <1>5 DEF EvidenceNext, CaseCommand, copying

(* "Overwriting forensic data is not allowed." (copy.cpp:30): no step      *)
(* changes a block of a file in a case or takes one away, but for races.   *)
THEOREM Preserved == EvidenceSpec => NothingOverwritten
  <1>1. FilesInv /\ [EvidenceNext]_<<vars, copying>> =>
          [\A n \in (Cases \X FileNames) \ raced' : evidence[n] # None =>
              /\ evidence'[n] # None
              /\ Len(evidence'[n]) >= Len(evidence[n])
              /\ \A i \in DOMAIN evidence[n] : evidence'[n][i] = evidence[n][i]]_(Copies!vars)
    BY StepKeeps DEF Kept
  <1>2. EvidenceInv => FilesInv
    BY DEF EvidenceInv
  <1> QED
    BY <1>1, <1>2, InitEvidenceInv, StepEvidenceInv, PTL
    DEF EvidenceSpec, NothingOverwritten, Copies!NothingOverwritten
=============================================================================
