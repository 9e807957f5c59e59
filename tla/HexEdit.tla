------------------------------- MODULE HexEdit -------------------------------
(***************************************************************************)
(* The hex editor (hexedit.cpp): sessions display a file and replace bytes *)
(* of it, and every replacement goes to the log of the session's own case, *)
(* as it was typed, with the byte it replaced.                             *)
(*                                                                         *)
(* A file is a sequence of bytes; its length does not change, as a byte    *)
(* behind the end cannot be put: looking at it puts the stream in error.   *)
(* Of a byte counts only which it is and whether it is white space.  What  *)
(* is logged may still be in the buffer of the log (see CaseSessions).     *)
(*                                                                         *)
(* A definition marked "variant" is not the code: it is a mistake that the *)
(* definition after it could have, and that a property has to notice.      *)
(***************************************************************************)
EXTENDS Integers, Sequences

CONSTANTS
    Sessions,
    Bytes,
    FF,         \* the byte that is -1 as a char
    White,      \* those that operator>> passes over
    Size,       \* of the file
    Positions,  \* what users type for a position,
    Atoi,       \*   and the numbers atoi makes of it
    Values,     \* what they type for a value,
    FromHex,    \*   and the bytes FromHex makes of it
    MaxEdits,   \* bound: replacements
    Eof

ASSUME Whites == FF \in Bytes /\ White \subseteq Bytes /\ Eof \notin Bytes
ASSUME Numbers == Size \in Nat /\ MaxEdits \in Nat
ASSUME Texts ==
    /\ Positions # {} /\ Atoi \in [Positions -> Int]
    /\ Values # {} /\ FromHex \in [Values -> Bytes]

VARIABLES
    original,   \* what the file was at first
    file,
    faulty,     \* may opening, reading or writing the file fail?
    pc,
    screen,     \* what display last showed the session, by position
    posString, replacement, old,   \* the last is c of replace
    log,        \* the log of each session
    done,       \* history: the replacements of all sessions in their order,
                \* with the entry each has in a log
    marred      \* history: positions that two sessions were replacing at
                \* once, or where a byte was not written

vars == <<original, file, faulty, pc, screen, posString, replacement, old, log, done, marred>>
edit == <<posString, replacement, old>>

File == [1 .. Size -> Bytes]

TypeOK ==
    /\ original \in File /\ file \in File /\ faulty \in BOOLEAN
    /\ pc \in [Sessions -> {"idle", "put", "log", "endless"}]
    /\ screen \in [Sessions -> UNION {[1 .. n -> Bytes] : n \in 0 .. Size}]
    /\ posString \in [Sessions -> Positions]
    /\ replacement \in [Sessions -> Values]
    /\ old \in [Sessions -> Bytes \cup {Eof}]
    /\ log \in [Sessions -> Seq([pos : Positions, old : Bytes, new : Values])]
    /\ done \in Seq([session : Sessions, row : Nat, put : BOOLEAN])
    /\ marred \subseteq Int

Init ==
    /\ original \in File /\ file = original /\ faulty \in BOOLEAN
    /\ pc = [s \in Sessions |-> "idle"]
    /\ screen = [s \in Sessions |-> <<>>]
    /\ posString = [s \in Sessions |-> CHOOSE p \in Positions : TRUE]
    /\ replacement = [s \in Sessions |-> CHOOSE v \in Values : TRUE]
    /\ old = [s \in Sessions |-> Eof]
    /\ log = [s \in Sessions |-> <<>>]
    /\ done = <<>> /\ marred = {}

-----------------------------------------------------------------------------
(* Only the first byte is read by an operator>> that skips white space.    *)
Leading == {i \in 1 .. Size : \A j \in 1 .. i : file[j] \in White}
Skipped == CHOOSE n \in 0 .. Size : Leading = 1 .. n

Shown == [i \in 1 .. Size - Skipped |-> file[Skipped + i]]

Display(s) ==
    /\ pc[s] = "idle"
    /\ screen' = [screen EXCEPT ![s] = Shown]
    /\ UNCHANGED <<original, file, faulty, pc, edit, log, done, marred>>

(* displayFile reads up to the end, which a file that cannot be opened or  *)
(* read does not have.                                                     *)
DisplayForEver(s) ==
    /\ pc[s] = "idle" /\ faulty
    /\ pc' = [pc EXCEPT ![s] = "endless"]
    /\ UNCHANGED <<original, file, faulty, screen, edit, log, done, marred>>

Pos(s) == Atoi[posString[s]]
New(s) == FromHex[replacement[s]]

(* pos - 1 counted from 0 is pos counted from 1.                           *)
(* variant: the position is not corrected by 1.                            *)
Uncorrected(p) == p + 1
Offset(p) == p

At(p) == IF Offset(p) \in 1 .. Size THEN file[Offset(p)] ELSE Eof

Busy(s) == pc[s] \in {"put", "log"}

(* replace, up to peek, which gives EOF if the file could not be opened.   *)
Peek(s, p, v) ==
    /\ pc[s] = "idle" /\ Len(done) < MaxEdits
    /\ pc' = [pc EXCEPT ![s] = "put"]
    /\ posString' = [posString EXCEPT ![s] = p]
    /\ replacement' = [replacement EXCEPT ![s] = v]
    /\ \E c \in {At(Atoi[p])} \cup (IF faulty THEN {Eof} ELSE {}) :
          old' = [old EXCEPT ![s] = c]
    /\ marred' = IF \E t \in Sessions : Busy(t) /\ Pos(t) = Atoi[p]
                 THEN marred \cup {Atoi[p]} ELSE marred
    /\ UNCHANGED <<original, file, faulty, screen, log, done>>

(* A stream in error, or that is not open, puts nothing.                   *)
CanPut(s) == old[s] # Eof

(* The byte is put when the file is closed, and nobody looks whether it    *)
(* was.                                                                    *)
Put(s) ==
    /\ pc[s] = "put"
    /\ pc' = [pc EXCEPT ![s] = "log"]
    /\ \/ ~CanPut(s) /\ UNCHANGED <<file, marred>>
       \/ /\ CanPut(s) /\ UNCHANGED marred
          /\ file' = [file EXCEPT ![Offset(Pos(s))] = New(s)]
       \/ /\ CanPut(s) /\ faulty /\ UNCHANGED file
          /\ marred' = marred \cup {Pos(s)}
    /\ UNCHANGED <<original, faulty, screen, edit, log, done>>

(* EOF in a char is the byte FF.                                           *)
AsChar(c) == IF c = Eof THEN FF ELSE c

(* variant: the byte is looked at after the put.                           *)
EntryLate(s) == [pos |-> posString[s], old |-> New(s), new |-> replacement[s]]
Entry(s) == [pos |-> posString[s], old |-> AsChar(old[s]), new |-> replacement[s]]

(* "Done" and log_text, whether the byte was put or not.                   *)
Log(s) ==
    /\ pc[s] = "log"
    /\ pc' = [pc EXCEPT ![s] = "idle"]
    /\ log' = [log EXCEPT ![s] = Append(@, Entry(s))]
    /\ done' = Append(done, [session |-> s, row |-> Len(log[s]) + 1, put |-> CanPut(s)])
    /\ UNCHANGED <<original, file, faulty, screen, edit, marred>>

Next == \E s \in Sessions :
    \/ Display(s) \/ DisplayForEver(s) \/ Put(s) \/ Log(s)
    \/ \E p \in Positions, v \in Values : Peek(s, p, v)

Spec == Init /\ [][Next]_vars

-----------------------------------------------------------------------------
(* What the logs say of the n-th replacement.                              *)
Says(n) == log[done[n].session][done[n].row]

(* The replacements of a byte among the first n that put something, and    *)
(* what these leave there, by what the logs say.                           *)
Writes(n, p) == {k \in 1 .. n : done[k].put /\ Atoi[Says(k).pos] = p}

Leaves(n, p, b) ==
    \/ Writes(n, p) = {} /\ b = original[p]
    \/ \E k \in Writes(n, p) :
          b = FromHex[Says(k).new] /\ \A j \in Writes(n, p) : j <= k

Quiet == \A s \in Sessions : ~Busy(s)

(* When no replacement is under way the logs of all sessions, put together *)
(* in the order things were done, tell the history of the file.  Each      *)
(* entry is of one replacement, those of one log in their order.  One that *)
(* names another byte than FF was carried out; of one that names FF the    *)
(* log does not say, as FF is what nothing to replace looks like.  What    *)
(* was carried out names the byte that was there, so that it can be        *)
(* undone, and doing it all again gives the file as it is.  Only at a      *)
(* position that two sessions replaced at the same time, or where the disk *)
(* refused the byte, is it not so (hexedit.cpp:105-135; each session has   *)
(* the log of its own case, case.cpp:162-173).                             *)
LogTellsHistory ==
    Quiet =>
        /\ \A s \in Sessions : \A i \in DOMAIN log[s] :
              \E n \in DOMAIN done : done[n].session = s /\ done[n].row = i
        /\ \A m, n \in DOMAIN done :
              done[m].session = done[n].session /\ m < n => done[m].row < done[n].row
        /\ \A n \in DOMAIN done : LET p == Atoi[Says(n).pos] IN
              /\ Says(n).old # FF => done[n].put
              /\ done[n].put => p \in 1 .. Size
              /\ done[n].put /\ p \notin marred => Leaves(n - 1, p, Says(n).old)
        /\ \A p \in (1 .. Size) \ marred : Leaves(Len(done), p, file[p])

(* "pos was offset by the way we displayed the file on the screen"         *)
(* (hexedit.cpp:120-121): if the file is as displayed and does not begin   *)
(* with white space, which display passes over, what a replacement takes   *)
(* away is what the screen shows at its position.                          *)
ReplacesWhatIsShown ==
    \A s \in Sessions :
        /\ pc[s] = "put" /\ Pos(s) \notin marred
        /\ Skipped = 0 /\ screen[s] = Shown /\ Pos(s) \in DOMAIN Shown
        => old[s] \in {screen[s][Pos(s)], Eof}
=============================================================================
