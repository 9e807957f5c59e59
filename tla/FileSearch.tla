----------------------------- MODULE FileSearch -----------------------------
(***************************************************************************)
(* The search commands (filesearch.cpp): the tree is gone through depth    *)
(* first, and what matches a keyword by its name or its contents is added  *)
(* to the results; then the user opens or edits results by their numbers.  *)
(* Other programs may remove files and directories meanwhile, and what is  *)
(* there may be impossible to open or to read.                             *)
(*                                                                         *)
(* A definition marked "variant" is not the code: it is a mistake that the *)
(* definition after it could have, and that a property has to notice.      *)
(***************************************************************************)
EXTENDS SearchResults

CONSTANTS
    MaxFaulty, \* bound: nodes where opening and reading may fail
    MaxGone,   \* bound: nodes removed
    MaxPicks   \* bound: results opened or edited

ASSUME BoundsAreNat == {MaxFaulty, MaxGone, MaxPicks} \subseteq Nat

VARIABLES
    local,    \* the session is the console
    command

menu == <<at, command, selection, acts, logged>>
vars == <<tree, local, gone, stack, results, menu>>

Frame == [dir : Dirs, todo : SUBSET Nodes]

TypeOK ==
    /\ parent \in [Below -> Dirs] /\ name \in [Below -> Names]
    /\ contents \in [Files -> Lines] /\ keys \in Keys
    /\ hex \in BOOLEAN /\ local \in BOOLEAN
    /\ unreadable \subseteq Nodes /\ gone \subseteq Nodes
    /\ stack \in Seq(Frame) /\ results \in Seq(Below)
    /\ at \in {"search", "menu", "number", "confirm", "edit", "editor",
               "leave", "endless", "end", "abort"}
    /\ command \in {"open", "hexedit"} /\ selection \in Nat
    /\ acts \in Seq([how : {"open", "stream", "hexedit"}, row : Nat, node : Below])
    /\ logged \in Seq([how : {"open", "hexedit"}, node : Below])

Open(d) == [dir |-> d, todo |-> Children(d) \ gone]

(* The directory to search is the user's: it may not even be there.        *)
Init ==
    /\ parent \in [Below -> Dirs] /\ Under(Root) = Nodes
    /\ name \in [Below -> Names]
    /\ \A m, n \in Below : parent[m] = parent[n] /\ name[m] = name[n] => m = n
    /\ contents \in [Files -> Lines] /\ keys \in Keys
    /\ hex \in BOOLEAN /\ local \in BOOLEAN
    /\ unreadable \in SUBSET Nodes /\ Cardinality(unreadable) <= MaxFaulty
    /\ gone = {}
    /\ \/ stack = <<[dir |-> Root, todo |-> Children(Root)]>>
       \/ stack = <<>> /\ Root \in unreadable
    /\ results = <<>>
    /\ at = "search" /\ command = "open" /\ selection = 0
    /\ acts = <<>> /\ logged = <<>>

-----------------------------------------------------------------------------
(* Whether n is opened and read, as often as it is tried.                  *)
Opened(n) ==
    IF n \in gone THEN {FALSE} ELSE IF n \in unreadable THEN BOOLEAN ELSE {TRUE}

(* One result for every keyword the name begins with (find(keyword) == 0), *)
(* unless it is a hex search.                                              *)
NameHits(n) ==
    IF hex THEN 0 ELSE Cardinality({i \in DOMAIN keys : FoundAt(0, Fold(keys[i]), name[n])})

(* searchFile: the first line with a keyword is enough.                    *)
LineHit(line) ==
    \E i \in DOMAIN keys :
        IF hex THEN Found(TypedIn(keys[i]), ToHex(line)) ELSE Found(Fold(keys[i]), Fold(line))

(* A file that is not read has no line.                                    *)
Hits(n, opened) ==
    NameHits(n) + (IF n \in Files /\ opened /\ LineHit(contents[n]) THEN 1 ELSE 0)

Top == stack[Len(stack)]

Passed(n) == [stack EXCEPT ![Len(stack)].todo = @ \ {n}]

(* An entry of the directory on top, in any order.  A directory that       *)
(* cannot be opened is passed over.                                        *)
Visit(n) ==
    /\ stack # <<>> /\ n \in Top.todo
    /\ \E opened \in Opened(n) :
          /\ results' = results \o [i \in 1 .. Hits(n, opened) |-> n]
          /\ stack' = Passed(n) \o (IF n \in Dirs /\ opened THEN <<Open(n)>> ELSE <<>>)
    /\ UNCHANGED <<tree, local, gone, menu>>

(* readdir has no more entries, or fails.                                  *)
Return ==
    /\ stack # <<>>
    /\ Top.todo = {} \/ Top.dir \in gone \cup unreadable
    /\ stack' = SubSeq(stack, 1, Len(stack) - 1)
    /\ UNCHANGED <<tree, local, gone, results, menu>>

(* Another program removes a node, a directory with all that is in it; the *)
(* search may read it from the open directory all the same.                *)
Vanish(n) ==
    /\ n \in Below \ gone /\ Cardinality(gone \cup Under(n)) <= MaxGone
    /\ gone' = gone \cup Under(n)
    /\ UNCHANGED <<tree, local, stack, results, menu>>

Search == Return \/ \E n \in Nodes : Visit(n)

-----------------------------------------------------------------------------
(* displayResults lists the results with their numbers, if there are any,  *)
(* and asks for a command until it is back.                                *)
List ==
    /\ at = "search" /\ stack = <<>>
    /\ at' = IF results = <<>> THEN "end" ELSE "menu"
    /\ UNCHANGED <<command, selection, acts, logged>>

Command(c) ==
    /\ at = "menu" /\ Len(acts) + Len(logged) < MaxPicks
    /\ at' = "number" /\ command' = c
    /\ UNCHANGED <<selection, acts, logged>>

Back ==
    /\ at = "menu"
    /\ at' = "end"
    /\ UNCHANGED <<command, selection, acts, logged>>

(* getSelection asks until the number is that of a result; a text that is  *)
(* no number counts as 0.  variant: 0 is let through.                      *)
BoundedAbove(n) == n <= Len(results)
InBounds(n) == n <= Len(results) /\ n > 0

Number(n) ==
    /\ at = "number"
    /\ IF InBounds(n) THEN selection' = n ELSE UNCHANGED selection
    /\ at' = IF ~InBounds(n) THEN "number"
             ELSE IF n \notin DOMAIN results THEN "abort"   \* at(n - 1) throws
             ELSE IF command = "hexedit" THEN "edit" ELSE "confirm"
    /\ UNCHANGED <<command, acts, logged>>

Do(how) == Append(acts, [how |-> how, row |-> selection, node |-> Path])
Say(how) == Append(logged, [how |-> how, node |-> Path])

(* At the console the file is handed to xdg-open and logged; a client is   *)
(* asked first and gets it as text, which is not logged.                   *)
OpenFile ==
    /\ at = "confirm"
    /\ at' = "menu" /\ selection' = 0
    /\ \/ local /\ acts' = Do("open") /\ logged' = Say("open")
       \/ ~local /\ acts' \in {acts, Do("stream")} /\ UNCHANGED logged
    /\ UNCHANGED command

(* hexEdit returns at once if the file cannot be opened; a directory can   *)
(* be.                                                                     *)
EditFile ==
    /\ at = "edit"
    /\ \E opened \in Opened(Path) :
          IF opened THEN at' = "editor" /\ acts' = Do("hexedit")
          ELSE at' = "leave" /\ UNCHANGED acts
    /\ UNCHANGED <<command, selection, logged>>

(* displayFile reads up to the end of the file.  A directory cannot be     *)
(* read and some files not be opened: they have no end.                    *)
DisplayFile ==
    /\ at = "editor"
    /\ \E opened \in Opened(Path) :
          at' = IF Path \in Dirs \/ ~opened THEN "endless" ELSE "editor"
    /\ UNCHANGED <<command, selection, acts, logged>>

LeaveEditor ==
    /\ at = "editor"
    /\ at' = "leave"
    /\ UNCHANGED <<command, selection, acts, logged>>

(* "Hexediting" is logged when hexEdit has returned, whatever it did.      *)
LogEdit ==
    /\ at = "leave"
    /\ at' = "menu" /\ selection' = 0
    /\ logged' = Say("hexedit")
    /\ UNCHANGED <<command, acts>>

TypedNumbers == 0 .. Len(results) + 1

Display ==
    /\ \/ List \/ Back \/ OpenFile
       \/ EditFile \/ DisplayFile \/ LeaveEditor \/ LogEdit
       \/ \E c \in {"open", "hexedit"} : Command(c)
       \/ \E n \in TypedNumbers : Number(n)
    /\ UNCHANGED <<tree, local, gone, stack, results>>

Next == Search \/ Display \/ \E n \in Nodes : Vanish(n)

Spec == Init /\ [][Next]_vars
=============================================================================
