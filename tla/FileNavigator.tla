---------------------------- MODULE FileNavigator ----------------------------
(***************************************************************************)
(* The file navigator (filenavigator/filenavigator.cpp): a list of the     *)
(* current directory, with Up, Back and Forward buttons and a path field.  *)
(*                                                                         *)
(* A path is the sequence of what stands after its slashes: "/" is <<>>,   *)
(* "/a/b" is <<"a", "b">>, and a trailing slash leaves an empty name at    *)
(* the end, "/a/" is <<"a", "">>.  The handlers run one at a time, but the *)
(* file system changes under them: each opendir is a step.                 *)
(*                                                                         *)
(* A definition marked "variant" is not the code: it is a mistake that the *)
(* definition after it could have, and that a property has to notice.      *)
(***************************************************************************)
EXTENDS Integers, Sequences

CONSTANTS
    Dirs,            \* the directories there may be, as paths without "" names
    Typed,           \* the paths the user enters
    historyMaxSize

Root == <<>>

ASSUME DirsAssumption == /\ Dirs \subseteq Seq(STRING) /\ Root \in Dirs
                         /\ Typed \subseteq Seq(STRING)
ASSUME SizeAssumption == historyMaxSize \in Nat \ {0, 1}

VARIABLES
    exists,       \* the directories that can be opened now
    history,      \* the deque of visited paths
    historyPos,   \* index of the current one, from 0
    pathTextCtrl, \* the path on display
    iconList,     \* the path whose directory is listed
    pc            \* "idle", "dirs" and "files" (populateIconList), or "fault"

hist == <<history, historyPos>>
vars == <<exists, hist, pathTextCtrl, iconList, pc>>

getCurrentDir == history[historyPos + 1]

(* What opendir takes a path for: it ignores empty names.                  *)
Real(path) == SelectSeq(path, LAMBDA name : name # "")

TypeOK ==
    /\ exists \subseteq Dirs
    /\ history \in Seq(Seq(STRING))
    /\ historyPos \in Nat
    /\ pathTextCtrl \in Seq(STRING)
    /\ iconList \in Seq(STRING)
    /\ pc \in {"idle", "dirs", "files", "fault"}

(* The constructor: goToDir() finds itself in "/" already.                 *)
Init ==
    /\ exists = Dirs
    /\ history = <<Root>> /\ historyPos = 0
    /\ pathTextCtrl = Root /\ iconList = Root
    /\ pc = "dirs"

-----------------------------------------------------------------------------
(* goToDir replaces "//" by "/" and appends the path, unless it is the     *)
(* current one.  A full history loses its oldest entry, and going anywhere *)
(* loses what Forward would have returned to.                              *)
Collapse(path) ==
    IF Real(path) = Root THEN Root
    ELSE Real(SubSeq(path, 1, Len(path) - 1)) \o <<path[Len(path)]>>

(* variant: the entries after the current one are kept.                    *)
KeepAll(pos, h) == h
UpTo(pos, h) == SubSeq(h, 1, pos + 1)

(* variant: the history is taken for full one entry too late.              *)
NeverFull(pos) == FALSE
Full(pos) == pos = historyMaxSize - 1

(* variant: the path is compared as it was given.                          *)
AlreadyThereAsGiven(path) == path = getCurrentDir
AlreadyThere(path) == Collapse(path) = getCurrentDir

goToDir(path) ==
    LET h   == IF Full(historyPos) THEN Tail(history) ELSE history
        pos == IF Full(historyPos) THEN historyPos - 1 ELSE historyPos
    IN  IF AlreadyThere(path) THEN UNCHANGED hist
        ELSE /\ history' = Append(UpTo(pos, h), Collapse(path))
             /\ historyPos' = pos + 1

(* Every handler ends in populateIconList.                                 *)
populate == pc' = "dirs" /\ UNCHANGED <<exists, pathTextCtrl, iconList>>

(* variant: a handler that forgets to.                                     *)
Stay == UNCHANGED <<exists, pathTextCtrl, iconList, pc>>

Up ==
    /\ pc = "idle" /\ getCurrentDir # Root
    /\ goToDir(SubSeq(getCurrentDir, 1, Len(getCurrentDir) - 1))
    /\ populate

Back ==
    /\ pc = "idle" /\ historyPos > 0
    /\ historyPos' = historyPos - 1 /\ UNCHANGED history
    /\ populate

ForwardWith(rest) ==
    /\ pc = "idle" /\ historyPos < Len(history) - 1
    /\ historyPos' = historyPos + 1 /\ UNCHANGED history
    /\ rest
ForwardBlind == ForwardWith(Stay)
Forward == ForwardWith(populate)

(* A directory is activated in the list, which may be out of date.         *)
OnIconActivate(name) ==
    /\ pc = "idle"
    /\ Real(getCurrentDir) \o <<name>> \in Dirs
    /\ goToDir(getCurrentDir \o <<name>>)
    /\ populate

(* Go, or Enter in the path field: a path that cannot be opened changes    *)
(* nothing.                                                                *)
goToTextCtrlDir(path) ==
    /\ pc = "idle"
    /\ IF Real(path) \in exists THEN goToDir(path) ELSE UNCHANGED hist
    /\ populate

(* populateIconList cannot open the directory: it forgets the current      *)
(* entry and all that follow, and tries again with the one before; when    *)
(* none is left, getCurrentDir starts over from "/".                       *)
Retry == UNCHANGED hist   \* variant: try the same entry again
Forget ==
    IF historyPos = 0 THEN history' = <<Root>> /\ historyPos' = 0
    ELSE history' = SubSeq(history, 1, historyPos) /\ historyPos' = historyPos - 1

OpenDirs ==
    /\ pc = "dirs"
    /\ pathTextCtrl' = getCurrentDir
    /\ IF Real(getCurrentDir) \in exists
       THEN pc' = "files" /\ UNCHANGED hist
       ELSE pc' = "dirs" /\ Forget
    /\ UNCHANGED <<exists, iconList>>

(* The directory is opened a second time for its files, and this time the  *)
(* result is used untested.                                                *)
OpenFiles ==
    /\ pc = "files"
    /\ IF Real(getCurrentDir) \in exists
       THEN pc' = "idle" /\ iconList' = getCurrentDir
       ELSE pc' = "fault" /\ UNCHANGED iconList
    /\ UNCHANGED <<exists, hist, pathTextCtrl>>

(* Other programs remove, hide and restore directories; not "/".           *)
Change ==
    /\ \E d \in Dirs \ {Root} :
          exists' = IF d \in exists THEN exists \ {d} ELSE exists \cup {d}
    /\ UNCHANGED <<hist, pathTextCtrl, iconList, pc>>

-----------------------------------------------------------------------------
Handler ==
    \/ Up \/ Back \/ Forward
    \/ \E name \in {d[Len(d)] : d \in Dirs \ {Root}} : OnIconActivate(name)
    \/ \E path \in Typed : goToTextCtrlDir(path)

Next == Handler \/ OpenDirs \/ OpenFiles \/ Change

Spec == Init /\ [][Next]_vars
FairSpec == Spec /\ WF_vars(OpenDirs) /\ WF_vars(OpenFiles)

-----------------------------------------------------------------------------
(* The history is never empty nor longer than historyMaxSize and the       *)
(* position is inside it, so history[historyPos] is always an entry: at    *)
(* the limit, after Back and a new visit, and after directories have gone  *)
(* (filenavigator.cpp:84-95, 127-134, 198-223).                            *)
HistoryOK ==
    /\ Len(history) \in 1 .. historyMaxSize
    /\ historyPos \in 0 .. Len(history) - 1

(* Two neighbours of the history differ, so Back and Forward always lead   *)
(* to another path (filenavigator.cpp:203).                                *)
NoRepeats ==
    \A k \in 1 .. Len(history) - 1 : history[k] # history[k + 1]

(* When a handler has returned, the path on display and the list belong to *)
(* the current entry of the history (populateIconList after each change).  *)
ShowsCurrent ==
    pc = "idle" => pathTextCtrl = getCurrentDir /\ iconList = getCurrentDir

(* The deque and its index are a bounded browser history                   *)
(* (filenavigator.cpp:84-95, 121-138, 198-223).                            *)
Expected == INSTANCE BrowserHistory WITH
    Home   <- Root,
    Size   <- historyMaxSize,
    before <- SubSeq(history, 1, historyPos),
    here   <- getCurrentDir,
    after  <- SubSeq(history, historyPos + 2, Len(history))

IsBrowserHistory == Expected!Spec

(* Every handler returns, or the program dies of the directory that went   *)
(* between its two readings; it does not chase vanished directories for    *)
(* ever (filenavigator.cpp:87-95).                                         *)
HandlerReturns == (pc # "idle") ~> (pc \in {"idle", "fault"})
=============================================================================
