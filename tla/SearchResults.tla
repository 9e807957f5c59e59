--------------------------- MODULE SearchResults ---------------------------
(***************************************************************************)
(* What the search commands (FileSearch) go through and come up with: a    *)
(* directory tree, the directories that are open, the results, what the    *)
(* user has done with them and the log; and what these have to be.         *)
(*                                                                         *)
(* Names, keywords and lines are sequences of bytes; of a file counts one  *)
(* line.  A text search puts keywords and lines, and not names, in small   *)
(* letters.  A hex search compares the digits ToHex makes of a line with   *)
(* those the user typed, in capitals as the prompt has them.  Only         *)
(* directories and regular files are in the tree, as others are passed     *)
(* over.                                                                   *)
(***************************************************************************)
EXTENDS Naturals, Sequences, FiniteSets

CONSTANTS
    Dirs,
    Files,
    Root,      \* the directory to search
    Names,     \* of the nodes below the root
    Lines,     \* that a file may have
    Keys       \* what may be typed: sequences of keywords

ASSUME RootIsDir == Root \in Dirs /\ Dirs \cap Files = {}
ASSUME TextsAreBytes ==
    /\ \A l \in Names \cup Lines : l \in Seq(0 .. 255)
    /\ \A k \in Keys : k \in Seq(Seq(0 .. 255))

Nodes == Dirs \cup Files
Below == Nodes \ {Root}

VARIABLES
    parent,     \* the tree
    name,
    contents,   \* the line of a file
    keys,       \* the keywords
    hex,        \* hexfind
    unreadable, \* where opening and reading may fail, each time: no right to
                \* it, no descriptor left, a bad block
    gone,       \* what was removed
    stack,      \* the open directories, with the entries still to be read
    results,
    at,         \* where displayResults is
    selection,
    acts,       \* history: what was done to which file, under which number
    logged      \* entries of the case's log

tree == <<parent, name, contents, keys, hex, unreadable>>

Children(d) == {n \in Below : parent[n] = d}

(* The nodes under d: those every set has that has d and, of whatever is   *)
(* in it, the children.                                                    *)
Under(d) ==
    {n \in Nodes : \A S \in SUBSET Nodes :
        d \in S /\ (\A e \in S : Children(e) \subseteq S) => n \in S}

(* What is in a directory that the search may have been kept out of.       *)
Hidden == UNION {Under(c) : c \in UNION {Children(d) : d \in unreadable}}

-----------------------------------------------------------------------------
(* The digits of a byte, as ToHex writes a signed char: without a leading  *)
(* zero, and with the sign extended; and as the user types it ("e.g.       *)
(* 66757A7A").                                                             *)
Digits == [b \in 0 .. 255 |->
    IF b < 16 THEN <<b>>
    ELSE (IF b < 128 THEN <<>> ELSE <<15, 15, 15, 15, 15, 15>>) \o <<b \div 16, b % 16>>]

Typed == [b \in 0 .. 255 |-> <<b \div 16, b % 16>>]

(* The first k bytes of s, for every k, each in these digits.              *)
Strung(digits, s) ==
    LET h[k \in 0 .. Len(s)] == IF k = 0 THEN <<>> ELSE h[k - 1] \o digits[s[k]]
    IN  h

TypedIn(s) == Strung(Typed, s)[Len(s)]
ToHex(s)   == Strung(Digits, s)[Len(s)]

(* string::find                                                            *)
FoundAt(k, sub, s) == k + Len(sub) <= Len(s) /\ SubSeq(s, k + 1, k + Len(sub)) = sub
Found(sub, s) == \E k \in 0 .. Len(s) : FoundAt(k, sub, s)

Capitals == 65 .. 90

(* tolower; a negative char has no other case.                             *)
Lower == [b \in 0 .. 255 |-> IF b \in Capitals THEN b + 32 ELSE b]

(* variant: the case is kept.                                              *)
AsItIs(s) == s
Fold(s) == [i \in DOMAIN s |-> Lower[s[i]]]

(* getPath                                                                 *)
Path == results[selection]

-----------------------------------------------------------------------------
(* How often x is in s, and how often e was done.                          *)
Times(x, s) == Cardinality({i \in DOMAIN s : s[i] = x})
Done(e) == Cardinality({i \in DOMAIN acts : acts[i].how = e.how /\ acts[i].node = e.node})

Count(n) == Times(n, results)

(* Bytes of which the digits a user types and those of ToHex agree, in     *)
(* front of others and, for the last, behind them.                         *)
Plain(k) == k # <<>> /\ Head(k) >= 16 /\ \A j \in 2 .. Len(k) : k[j] \in 16 .. 127

(* The same letter, small or capital; and where bytes are like others.     *)
Alike(a, b) ==
    a = b \/ (a \in Capitals /\ b = a + 32) \/ (b \in Capitals /\ a = b + 32)

AlikeAt(k, sub, s) ==
    k + Len(sub) <= Len(s) /\ \A j \in 1 .. Len(sub) : Alike(sub[j], s[k + j])

(* A name begins with a keyword and has no capital in that beginning.      *)
Begins(sub, s) == AlikeAt(0, sub, s) /\ \A j \in 1 .. Len(sub) : s[j] \notin Capitals

Contains(n) ==
    /\ n \in Files
    /\ \E i \in DOMAIN keys :
          IF hex THEN Plain(keys[i]) /\ Found(keys[i], contents[n])
          ELSE \E k \in 0 .. Len(contents[n]) : AlikeAt(k, keys[i], contents[n])

(* Nothing is a result more often than it can match, at any time; and when *)
(* the search is done whatever is still there, and is not in a directory   *)
(* that could not be read, is a result as often as its name matches and,   *)
(* if it could be read and its contents match, once more.  A text search   *)
(* finds exactly the lines that have a keyword, small letters and capitals *)
(* alike, but of names only those whose beginning is in small letters.  A  *)
(* hex search may find more (a digit of one byte and the next of another), *)
(* and it misses no line whose bytes have two digits, a first one of 128   *)
(* and more included (filesearch.cpp:28-143, hexedit.cpp:141-149).         *)
ResultsAreMatches ==
    \A n \in Below :
        LET named   == IF hex THEN 0
                       ELSE Cardinality({i \in DOMAIN keys : Begins(keys[i], name[n])})
            has     == Contains(n)
            certain == IF has /\ n \notin unreadable THEN 1 ELSE 0
            most    == IF has \/ (hex /\ n \in Files) THEN 1 ELSE 0
        IN  /\ Count(n) <= named + most
            /\ stack = <<>> => n \in gone \/ Count(n) >= named + certain \/ n \in Hidden

(* What is opened, streamed or edited is the file listed under the number  *)
(* that was typed, whatever was typed before and whatever has gone since.  *)
(* But for what was streamed all of it, as often as it was done, is in the *)
(* log once the user is back at the menu, under the name it was listed     *)
(* with; only an editor that was to display a directory, or a file that    *)
(* had gone or could not be read, is never left and its edits never logged *)
(* (filesearch.cpp:182-270, hexedit.cpp:81).                               *)
ActsOnWhatIsListed ==
    /\ at # "abort"
    /\ \A i \in DOMAIN acts :
          acts[i].row \in DOMAIN results /\ acts[i].node = results[acts[i].row]
    /\ at \in {"menu", "end"} =>
          \A e \in [how : {"open", "hexedit"}, node : Below] : Done(e) <= Times(e, logged)
    /\ at = "endless" => acts # <<>> /\ Path \in Dirs \cup gone \cup unreadable
=============================================================================
