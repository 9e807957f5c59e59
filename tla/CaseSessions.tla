---------------------------- MODULE CaseSessions ----------------------------
(***************************************************************************)
(* Case sessions of the forensic tool: case.cpp, case.h, main.cpp and the  *)
(* case commands of parse in cli.cpp.                                      *)
(*                                                                         *)
(* A session is whoever types commands: the console loop of a process      *)
(* (main.cpp) or a talker thread that serves one remote client             *)
(* (server.cpp).  Every session has its own Case structure; the directory  *)
(* ./cases, with one lock file and one log.txt per case, is shared by all  *)
(* the sessions of all the processes.  A command is not atomic: the system *)
(* calls of open_case and close_case that other sessions can observe are   *)
(* steps of their own.                                                     *)
(*                                                                         *)
(* A log entry is who wrote it and which of the three kinds of text it is. *)
(* The log is a stdio stream opened "a+": an entry waits in buf until the  *)
(* stream is flushed, and a flush appends to the end of the file.          *)
(***************************************************************************)
EXTENDS Naturals, Sequences

CONSTANTS
    Procs,       \* processes running the tool in one directory
    Sessions,    \* consoles and talker threads
    Consoles,    \* the sessions that are the console of their process
    Home,        \* Home[s]: the process session s belongs to
    Cases,       \* case names
    None,        \* a NULL pointer, or the empty case name
    MaxEntries   \* bound: no case is opened or annotated beyond this length

ASSUME HomeAssumption == Home \in [Sessions -> Procs] /\ Consoles \subseteq Sessions
ASSUME NoneAssumption == None \notin Cases
ASSUME BoundAssumption == MaxEntries \in Nat

VARIABLES
    status,          \* status[p]: what process p is doing
    caseRoot,        \* does ./cases exist
    dirs,            \* the cases that have a directory
    locked,          \* the cases that have a lock file
    pc,              \* pc[s]: where session s is
    case_name, case_directory, log,   \* the fields of the session's Case
    disk,            \* disk[c]: log.txt of case c
    buf,             \* buf[s]: entries not yet written to log.txt
    unflushed,       \* streams exit() has still to flush
    broken           \* history: cases whose lock was overwritten or removed in use

fields == <<case_name, case_directory, log>>
files  == <<caseRoot, dirs, locked>>
vars   == <<status, files, pc, fields, disk, buf, unflushed, broken>>

Kinds   == {"opened", "text", "closing"}
Entry   == [by : Sessions, kind : Kinds]
Maybe   == Cases \cup {None}
Running == {"up", "exiting"}

TypeOK ==
    /\ status \in [Procs -> {"down", "fault"} \cup Running]
    /\ caseRoot \in BOOLEAN
    /\ dirs \subseteq Cases
    /\ locked \subseteq Cases
    /\ pc \in [Sessions -> {"off", "idle", "create", "log", "unlocked", "gone"}]
    /\ case_name \in [Sessions -> Maybe]
    /\ case_directory \in [Sessions -> Maybe]
    /\ log \in [Sessions -> Maybe]
    /\ disk \in [Cases -> Seq(Entry)]
    /\ buf \in [Sessions -> Seq(Entry)]
    /\ unflushed \subseteq Sessions
    /\ broken \subseteq Cases

(* The lock file of c is there because of s: s created it and has not yet  *)
(* removed it.                                                             *)
Holder(s, c) ==
    \/ pc[s] = "log" /\ case_name[s] = c
    \/ log[s] = c /\ pc[s] # "unlocked"

Of(p) == {s \in Sessions : Home[s] = p}

(* A session that can take a step of command s: its process runs.          *)
At(s, label) == pc[s] = label /\ status[Home[s]] \in Running

Room(c) == Len(disk[c]) < MaxEntries

-----------------------------------------------------------------------------
(* What is in a directory left over from earlier runs: cases, each with an *)
(* empty log, and lock files nobody removed.                               *)
Init ==
    /\ status = [p \in Procs |-> "down"]
    /\ caseRoot \in BOOLEAN
    /\ dirs \in IF caseRoot THEN SUBSET Cases ELSE {{}}
    /\ locked \in SUBSET dirs
    /\ pc = [s \in Sessions |-> "off"]
    /\ case_name = [s \in Sessions |-> None]
    /\ case_directory = [s \in Sessions |-> None]
    /\ log = [s \in Sessions |-> None]
    /\ disk = [c \in Cases |-> <<>>]
    /\ buf = [s \in Sessions |-> <<>>]
    /\ unflushed = {}
    /\ broken = {}

(* main: clear_locks, then case_manager.  clear_locks reads the directory  *)
(* stream without testing it, so without ./cases the process dies before   *)
(* case_manager would create the directory.  A lock is removed whoever     *)
(* holds it.                                                               *)
Start(p) ==
    /\ status[p] \notin Running
    /\ IF caseRoot
       THEN /\ status' = [status EXCEPT ![p] = "up"]
            /\ locked' = {}
            /\ broken' = broken \cup
                 {c \in locked : \E s \in Sessions : Holder(s, c)}
            /\ pc' = [s \in Sessions |->
                        IF s \in Of(p) \cap Consoles THEN "idle" ELSE pc[s]]
       ELSE /\ status' = [status EXCEPT ![p] = "fault"]
            /\ UNCHANGED <<locked, broken, pc>>
    /\ UNCHANGED <<caseRoot, dirs, fields, disk, buf, unflushed>>

(* Definitions marked "variant" are not the code: each is a mistake that    *)
(* its neighbour below could have, and that a property has to notice.      *)

(* variant: the talker's Case is not initialised.                          *)
ConnectUninitialised(s) ==
    /\ s \notin Consoles
    /\ At(s, "off")
    /\ pc' = [pc EXCEPT ![s] = "idle"]
    /\ log' = [log EXCEPT ![s] = "garbage"]
    /\ UNCHANGED <<status, files, case_name, case_directory, disk, buf,
                   unflushed, broken>>

(* listener has accepted a client and started a talker with an empty Case. *)
Connect(s) ==
    /\ s \notin Consoles
    /\ At(s, "off")
    /\ pc' = [pc EXCEPT ![s] = "idle"]
    /\ UNCHANGED <<status, files, fields, disk, buf, unflushed, broken>>

(* variant: open and new do not test whether a case is open already.       *)
AtPrompt(s) == At(s, "idle")
NoCaseOpen(s) == At(s, "idle") /\ log[s] = None

(* variant: the lock file is not looked for.                               *)
NeverInUse(c) == FALSE
InUse(c) == c \in locked

(* open_case, up to its test of the lock file.                             *)
CheckLock(s, c) ==
    /\ NoCaseOpen(s)
    /\ Room(c)
    /\ IF InUse(c)
       THEN UNCHANGED <<pc, case_name>>
       ELSE /\ pc' = [pc EXCEPT ![s] = "create"]
            /\ case_name' = [case_name EXCEPT ![s] = c]
    /\ UNCHANGED <<status, caseRoot, locked, case_directory, log, disk, buf,
                   unflushed, broken>>

Open(s, c) == CheckLock(s, c) /\ UNCHANGED dirs

(* new_case: mkdir, whose failure nobody tests, then open_case.            *)
New(s, c) == CheckLock(s, c) /\ dirs' \in {dirs, dirs \cup {c}}

(* open_case: the case must exist; fopen(lock, "w") succeeds whether or    *)
(* not another session created the lock since the test.                    *)
CreateLock(s) ==
    LET c == case_name[s] IN
    /\ At(s, "create")
    /\ IF c \in dirs
       THEN /\ pc' = [pc EXCEPT ![s] = "log"]
            /\ case_directory' = [case_directory EXCEPT ![s] = c]
            /\ locked' = locked \cup {c}
            /\ broken' = IF c \in locked THEN broken \cup {c} ELSE broken
       ELSE /\ pc' = [pc EXCEPT ![s] = "idle"]
            /\ case_directory' = [case_directory EXCEPT ![s] = None]
            /\ UNCHANGED <<locked, broken>>
    /\ UNCHANGED <<status, caseRoot, dirs, case_name, log, disk, buf, unflushed>>

(* open_case: the log stream.  When it cannot be opened the command fails  *)
(* and leaves the lock file behind.                                        *)
OpenLog(s) ==
    /\ At(s, "log")
    /\ pc' = [pc EXCEPT ![s] = "idle"]
    /\ \/ /\ log' = [log EXCEPT ![s] = case_name[s]]
          /\ buf' = [buf EXCEPT ![s] = <<[by |-> s, kind |-> "opened"]>>]
       \/ UNCHANGED <<log, buf>>
    /\ UNCHANGED <<status, files, case_name, case_directory, disk, unflushed, broken>>

(* The stream of s writes the entries es to the end of log.txt.            *)
Flush(s, es) ==
    /\ disk' = [disk EXCEPT ![log[s]] = @ \o es]
    /\ buf' = [buf EXCEPT ![s] = <<>>]

(* log_text, by note and by the other commands that record what they did.  *)
(* stdio writes the buffer out by itself when it is full.                  *)
LogText(s) ==
    LET es == Append(buf[s], [by |-> s, kind |-> "text"]) IN
    /\ At(s, "idle") /\ log[s] # None
    /\ Len(disk[log[s]]) + Len(buf[s]) < MaxEntries
    /\ \/ buf' = [buf EXCEPT ![s] = es] /\ UNCHANGED disk
       \/ Flush(s, es)
    /\ UNCHANGED <<status, files, pc, fields, unflushed, broken>>

(* show_log rewinds the stream, which flushes it.                          *)
ShowLog(s) ==
    /\ At(s, "idle") /\ log[s] # None
    /\ Flush(s, buf[s])
    /\ UNCHANGED <<status, files, pc, fields, unflushed, broken>>

(* close_case removes the lock first ...                                   *)
RemoveLock(s) ==
    /\ locked' = locked \ {case_name[s]}
    /\ pc' = [pc EXCEPT ![s] = "unlocked"]
    /\ UNCHANGED <<status, caseRoot, dirs, fields, disk, buf, unflushed, broken>>

(* variant: close does not test whether a case is open.                    *)
CloseUnguarded(s) == At(s, "idle") /\ RemoveLock(s)
Close(s) == At(s, "idle") /\ log[s] # None /\ RemoveLock(s)

(* ... and then writes its last entry and closes the stream.               *)
WriteClosing(s) ==
    /\ At(s, "unlocked")
    /\ Flush(s, Append(buf[s], [by |-> s, kind |-> "closing"]))
    /\ pc' = [pc EXCEPT ![s] = "idle"]
    /\ case_directory' = [case_directory EXCEPT ![s] = None]
    /\ UNCHANGED <<status, files, case_name, unflushed, broken>>

(* variant: the log pointer is not reset.                                  *)
FinishCloseKeepsLog(s) == WriteClosing(s) /\ UNCHANGED log
FinishClose(s) == WriteClosing(s) /\ log' = [log EXCEPT ![s] = None]

(* The server is switched off: talker returns and never closes its case.   *)
(* The lock stays, and the stream stays open with whatever it has buffered.*)
(* (A client that only leaves keeps its talker, and its case, idle.)       *)
TalkerExit(s) ==
    /\ s \notin Consoles
    /\ At(s, "idle")
    /\ pc' = [pc EXCEPT ![s] = "gone"]
    /\ UNCHANGED <<status, files, fields, disk, buf, unflushed, broken>>

(* exit at the console.  case_open is never set, so close_case is not      *)
(* called; returning from main flushes every stream once while the talkers *)
(* still run.                                                              *)
Exit(s) ==
    LET p == Home[s] IN
    /\ s \in Consoles
    /\ pc[s] = "idle" /\ status[p] = "up"
    /\ status' = [status EXCEPT ![p] = "exiting"]
    /\ pc' = [pc EXCEPT ![s] = "gone"]
    /\ unflushed' = unflushed \cup {t \in Of(p) : log[t] # None}
    /\ UNCHANGED <<files, fields, disk, buf, broken>>

ExitFlush(s) ==
    /\ s \in unflushed
    /\ unflushed' = unflushed \ {s}
    /\ IF log[s] = None THEN UNCHANGED <<disk, buf>> ELSE Flush(s, buf[s])
    /\ UNCHANGED <<status, files, pc, fields, broken>>

(* The process is gone: what its streams had buffered is lost, its locks   *)
(* stay.                                                                   *)
Vanish(p) ==
    LET cleared(f, v) == [s \in Sessions |-> IF s \in Of(p) THEN v ELSE f[s]] IN
    /\ status' = [status EXCEPT ![p] = "down"]
    /\ pc' = cleared(pc, "off")
    /\ case_name' = cleared(case_name, None)
    /\ case_directory' = cleared(case_directory, None)
    /\ log' = cleared(log, None)
    /\ buf' = cleared(buf, <<>>)
    /\ unflushed' = unflushed \ Of(p)
    /\ UNCHANGED <<files, disk, broken>>

Terminate(p) ==
    /\ status[p] = "exiting"
    /\ unflushed \cap Of(p) = {}
    /\ Vanish(p)

(* The process is killed, or dies on a signal.                             *)
Crash(p) ==
    /\ status[p] \in Running
    /\ Vanish(p)

-----------------------------------------------------------------------------
SessionStep(s) ==
    \/ Connect(s)
    \/ \E c \in Cases : Open(s, c) \/ New(s, c)
    \/ CreateLock(s) \/ OpenLog(s)
    \/ LogText(s) \/ ShowLog(s)
    \/ Close(s) \/ FinishClose(s)
    \/ TalkerExit(s) \/ Exit(s)

ProcessStep(p) == Start(p) \/ Terminate(p) \/ Crash(p)

Next ==
    \/ \E s \in Sessions : SessionStep(s) \/ ExitFlush(s)
    \/ \E p \in Procs : ProcessStep(p)

Spec == Init /\ [][Next]_vars

(* The same system when no two commands overlap: the one user types, waits *)
(* for the answer, and only then does the next one type.                   *)
Busy(s) == pc[s] \in {"create", "log", "unlocked"}
SerialNext ==
    \/ \E s \in Sessions :
          /\ \A t \in Sessions \ {s} : ~Busy(t)
          /\ SessionStep(s) \/ ExitFlush(s)
    \/ \E p \in Procs : ProcessStep(p)
SerialSpec == Init /\ [][SerialNext]_vars

(* The tool runs once in its directory.                                    *)
SingleInstance == \A p, q \in Procs : p = q

-----------------------------------------------------------------------------
(* An open log belongs to the case whose name and directory the session    *)
(* has: what is logged, listed and copied goes to one and the same case    *)
(* (case.cpp:103-159; a refused or failed open must not tear the fields    *)
(* apart).                                                                 *)
NameMatches ==
    \A s \in Sessions : log[s] # None =>
        log[s] = case_name[s] /\ log[s] = case_directory[s]

(* "The case is currently in use by another user" (case.cpp:112): a case   *)
(* is used by one session at a time.                                       *)
MutualExclusion ==
    \A c \in Cases : \A s, t \in Sessions : Holder(s, c) /\ Holder(t, c) => s = t

(* There are two ways to lose exclusion: open_case creates a lock that has *)
(* come into being since its test, and clear_locks removes a lock in use.  *)
(* As long as neither happened to a case it has one holder, whose lock     *)
(* file exists, whatever the interleaving, the crashes and the restarts.   *)
ExclusiveUnlessBroken ==
    \A c \in Cases \ broken :
        /\ \A s, t \in Sessions : Holder(s, c) /\ Holder(t, c) => s = t
        /\ (\E s \in Sessions : Holder(s, c)) => c \in locked

(* A continuation entry directly follows an entry of the same bracket.     *)
Bracketed(es) ==
    \A i \in 1 .. Len(es) : es[i].kind # "opened" =>
        i > 1 /\ es[i - 1].by = es[i].by /\ es[i - 1].kind # "closing"

(* Among the first n entries the last one of session s leaves its bracket  *)
(* open.                                                                   *)
InBracket(es, n, s) ==
    \E j \in 1 .. n :
        /\ es[j].by = s /\ es[j].kind # "closing"
        /\ \A k \in (j + 1) .. n : es[k].by # s

(* Seen alone, the entries of one session are brackets, opened, text ...,  *)
(* closing, of which a crash may cut off the end but never the beginning   *)
(* or the middle (log_text, open_case and close_case share one stream).    *)
EachBracketed(es) ==
    \A i \in 1 .. Len(es) :
        es[i].kind # "opened" => InBracket(es, i - 1, es[i].by)

Waiting(s, c) == IF log[s] = c THEN buf[s] ELSE <<>>

SessionLogBracketed ==
    \A c \in Cases, s \in Sessions : EachBracketed(disk[c] \o Waiting(s, c))

(* When commands do not overlap, the whole log of a case is brackets: no   *)
(* session writes into the account of another, through exits, crashes,     *)
(* leaked streams and restarts.                                            *)
LogBracketed ==
    \A c \in Cases : Bracketed(disk[c])
=============================================================================
