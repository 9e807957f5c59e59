------------------------- MODULE FileNavigatorProofs -------------------------
(***************************************************************************)
(* Proofs about FileNavigator, for any tree, any paths entered and any     *)
(* historyMaxSize above 1.                                                 *)
(***************************************************************************)
EXTENDS FileNavigator, SequenceTheorems, TLAPS

(* The history is a sequence, whatever its entries are.                    *)
Proper(h) == h \in Seq({h[k] : k \in DOMAIN h})

LEMMA SeqIsProper ==
    ASSUME NEW S, NEW h \in Seq(S)
    PROVE  Proper(h)
  <1>1. h \in [1 .. Len(h) -> S] /\ Len(h) \in Nat /\ DOMAIN h = 1 .. Len(h)
    BY LenProperties
  <1>2. h \in [1 .. Len(h) -> {h[k] : k \in DOMAIN h}]
    BY <1>1
  <1> QED
    BY <1>1, <1>2, SeqDef DEF Proper

HistInv == Proper(history) /\ HistoryOK /\ NoRepeats

-----------------------------------------------------------------------------
(* What the deque operations of goToDir do to a history without repeats.   *)
NoRep(h) == \A k \in 1 .. Len(h) - 1 : h[k] # h[k + 1]

LEMMA TailNoRep ==
    ASSUME NEW S, NEW h \in Seq(S), Len(h) > 1, NoRep(h)
    PROVE  /\ Tail(h) \in Seq(S) /\ Len(Tail(h)) = Len(h) - 1
           /\ Tail(h)[Len(h) - 1] = h[Len(h)]
           /\ NoRep(Tail(h))
  <1>1. /\ Tail(h) \in Seq(S) /\ Len(Tail(h)) = Len(h) - 1
        /\ \A k \in 1 .. Len(Tail(h)) : Tail(h)[k] = h[k + 1]
    BY HeadTailProperties
  <1> QED
    BY <1>1, LenProperties DEF NoRep

LEMMA PrefixNoRep ==
    ASSUME NEW S, NEW h \in Seq(S), NEW n \in 0 .. Len(h), NoRep(h)
    PROVE  /\ SubSeq(h, 1, n) \in Seq(S) /\ Len(SubSeq(h, 1, n)) = n
           /\ \A k \in 1 .. n : SubSeq(h, 1, n)[k] = h[k]
           /\ NoRep(SubSeq(h, 1, n))
  <1>1. /\ SubSeq(h, 1, n) \in Seq(S) /\ Len(SubSeq(h, 1, n)) = n
        /\ \A k \in 1 .. n : SubSeq(h, 1, n)[k] = h[k]
    BY SubSeqProperties, LenProperties
  <1> QED
    BY <1>1, LenProperties DEF NoRep

LEMMA AppendNoRep ==
    ASSUME NEW S, NEW h \in Seq(S), NEW d \in S, Len(h) > 0,
           NoRep(h), h[Len(h)] # d
    PROVE  /\ Append(h, d) \in Seq(S) /\ Len(Append(h, d)) = Len(h) + 1
           /\ NoRep(Append(h, d))
  <1>1. /\ Append(h, d) \in Seq(S) /\ Len(Append(h, d)) = Len(h) + 1
        /\ \A k \in 1 .. Len(h) : Append(h, d)[k] = h[k]
        /\ Append(h, d)[Len(h) + 1] = d
    BY AppendProperties
  <1> QED
    BY <1>1, LenProperties DEF NoRep

(* goToDir keeps the history well formed, full or not.                     *)
LEMMA GoToDir ==
    ASSUME HistInv, NEW path, goToDir(path)
    PROVE  HistInv'
  <1> DEFINE dir == Collapse(path)
             S == {history[k] : k \in DOMAIN history} \cup {dir}
  <1>1. /\ history \in Seq(S) /\ dir \in S
        /\ Len(history) \in 1 .. historyMaxSize
        /\ historyPos \in 0 .. Len(history) - 1
        /\ NoRep(history)
    <2>1. Proper(history) /\ NoRep(history)
      BY DEF HistInv, NoRepeats, NoRep
    <2>2. history \in Seq(S)
      BY <2>1, SeqMonotonic DEF Proper
    <2> QED
      BY <2>1, <2>2 DEF HistInv, HistoryOK
  <1>2. CASE UNCHANGED hist
    BY <1>2 DEF hist, HistInv, HistoryOK, NoRepeats
  <1>3. CASE ~AlreadyThere(path) /\ ~Full(historyPos)
    <2> DEFINE h == SubSeq(history, 1, historyPos + 1)
    <2>1. history' = Append(h, dir) /\ historyPos' = historyPos + 1
      BY <1>3 DEF goToDir, UpTo
    <2>2. /\ h \in Seq(S) /\ Len(h) = historyPos + 1 /\ NoRep(h)
          /\ h[historyPos + 1] = history[historyPos + 1]
      BY <1>1, PrefixNoRep
    <2>3. h[Len(h)] # dir /\ Len(h) > 0
      BY <1>1, <1>3, <2>2 DEF AlreadyThere, getCurrentDir
    <2>4. history' \in Seq(S) /\ Len(history') = historyPos + 2 /\ NoRep(history')
      <3> HIDE DEF h, dir, S
      <3> QED
        BY <1>1, <2>1, <2>2, <2>3, AppendNoRep
    <2>5. historyPos + 2 <= historyMaxSize
      BY <1>1, <1>3, SizeAssumption DEF Full
    <2>6. Proper(history')
      <3> HIDE DEF S
      <3> QED
        BY <2>4, SeqIsProper
    <2> QED
      BY <1>1, <2>1, <2>4, <2>5, <2>6, SizeAssumption
      DEF HistInv, HistoryOK, NoRepeats, NoRep
  <1>4. CASE ~AlreadyThere(path) /\ Full(historyPos)
    <2> DEFINE t == Tail(history)
               h == SubSeq(t, 1, historyPos)
    <2>0. /\ historyPos = Len(history) - 1 /\ historyPos = historyMaxSize - 1
          /\ historyPos > 0
      BY <1>1, <1>4, SizeAssumption DEF Full
    <2>1. history' = Append(h, dir) /\ historyPos' = historyPos
      <3>1. historyPos - 1 + 1 = historyPos
        BY <1>1
      <3> QED
        BY <1>4, <3>1 DEF goToDir, UpTo
    <2>2. /\ t \in Seq(S) /\ Len(t) = historyPos /\ NoRep(t)
          /\ t[historyPos] = history[historyPos + 1]
      BY <1>1, <2>0, TailNoRep
    <2>3. /\ h \in Seq(S) /\ Len(h) = historyPos /\ NoRep(h)
          /\ h[historyPos] = t[historyPos]
      <3> HIDE DEF t, S
      <3> QED
        BY <1>1, <2>0, <2>2, PrefixNoRep
    <2>4. h[Len(h)] # dir /\ Len(h) > 0
      BY <1>4, <2>0, <2>2, <2>3 DEF AlreadyThere, getCurrentDir
    <2>5. history' \in Seq(S) /\ Len(history') = historyPos + 1 /\ NoRep(history')
      <3> HIDE DEF h, t, dir, S
      <3> QED
        BY <1>1, <2>1, <2>3, <2>4, AppendNoRep
    <2>6. Proper(history')
      <3> HIDE DEF S
      <3> QED
        BY <2>5, SeqIsProper
    <2> QED
      BY <1>1, <2>0, <2>1, <2>5, <2>6, SizeAssumption
      DEF HistInv, HistoryOK, NoRepeats, NoRep
  <1> QED
    BY <1>2, <1>3, <1>4 DEF goToDir

LEMMA ForgetOK ==
    ASSUME HistInv, Forget
    PROVE  HistInv'
  <1> DEFINE S == {history[k] : k \in DOMAIN history} \cup {Root}
  <1>1. /\ history \in Seq(S)
        /\ Len(history) \in 1 .. historyMaxSize
        /\ historyPos \in 0 .. Len(history) - 1
        /\ NoRep(history)
    <2>1. Proper(history) /\ NoRep(history)
      BY DEF HistInv, NoRepeats, NoRep
    <2>2. history \in Seq(S)
      BY <2>1, SeqMonotonic DEF Proper
    <2> QED
      BY <2>1, <2>2 DEF HistInv, HistoryOK
  <1>2. CASE historyPos = 0
    <2>1. history' = <<Root>> /\ historyPos' = 0
      BY <1>2 DEF Forget
    <2>2. <<Root>> \in Seq(S) /\ Len(<<Root>>) = 1
      OBVIOUS
    <2>3. Proper(<<Root>>)
      BY <2>2, SeqIsProper
    <2> QED
      BY <2>1, <2>2, <2>3, SizeAssumption DEF HistInv, HistoryOK, NoRepeats
  <1>3. CASE historyPos # 0
    <2>1. history' = SubSeq(history, 1, historyPos) /\ historyPos' = historyPos - 1
      BY <1>3 DEF Forget
    <2>2. history' \in Seq(S) /\ Len(history') = historyPos /\ NoRep(history')
      <3> HIDE DEF S
      <3> QED
        BY <1>1, <2>1, PrefixNoRep
    <2>3. Proper(history')
      <3> HIDE DEF S
      <3> QED
        BY <2>2, SeqIsProper
    <2> QED
      BY <1>1, <1>3, <2>1, <2>2, <2>3, SizeAssumption
      DEF HistInv, HistoryOK, NoRepeats, NoRep
  <1> QED
    BY <1>2, <1>3

LEMMA StepHistInv == HistInv /\ [Next]_vars => HistInv'
  <1> SUFFICES ASSUME HistInv, [Next]_vars PROVE HistInv'
    OBVIOUS
  <1>1. CASE UNCHANGED hist
    BY <1>1 DEF hist, HistInv, HistoryOK, NoRepeats
  <1>2. CASE Up
    BY <1>2, GoToDir DEF Up
  <1>3. CASE Back \/ Forward
    BY <1>3 DEF Back, Forward, ForwardWith, HistInv, HistoryOK, NoRepeats
  <1>4. ASSUME NEW name, OnIconActivate(name) PROVE HistInv'
    BY <1>4, GoToDir DEF OnIconActivate
  <1>5. ASSUME NEW path, goToTextCtrlDir(path) PROVE HistInv'
    BY <1>1, <1>5, GoToDir DEF goToTextCtrlDir
  <1>6. CASE OpenDirs
    BY <1>1, <1>6, ForgetOK DEF OpenDirs
  <1>7. CASE OpenFiles \/ Change \/ UNCHANGED vars
    BY <1>1, <1>7 DEF OpenFiles, Change, vars
  <1> QED
    BY <1>2, <1>3, <1>4, <1>5, <1>6, <1>7 DEF Next, Handler

LEMMA HistInvHolds == Spec => []HistInv
  <1>1. Init => HistInv
    <2> SUFFICES ASSUME Init PROVE HistInv
      OBVIOUS
    <2>1. history = <<Root>> /\ <<Root>> \in Seq({Root}) /\ Len(<<Root>>) = 1
      BY DEF Init
    <2>2. Proper(history)
      BY <2>1, SeqIsProper
    <2> QED
      BY <2>1, <2>2, SizeAssumption DEF Init, HistInv, HistoryOK, NoRepeats
  <1> QED
    BY <1>1, StepHistInv, PTL DEF Spec

(* The position is always inside the history, and the history inside its   *)
(* limit (filenavigator.cpp:84-95, 127-134, 198-223).                      *)
THEOREM HistoryBounded == Spec => []HistoryOK
  <1>1. HistInv => HistoryOK
    BY DEF HistInv
  <1> QED
    BY <1>1, HistInvHolds, PTL

(* Neighbours in the history differ (filenavigator.cpp:203).               *)
THEOREM NeighboursDiffer == Spec => []NoRepeats
  <1>1. HistInv => NoRepeats
    BY DEF HistInv
  <1> QED
    BY <1>1, HistInvHolds, PTL

-----------------------------------------------------------------------------
(* While a directory is read its path is on display.                       *)
ShowInv ==
    /\ pc = "files" => pathTextCtrl = getCurrentDir
    /\ ShowsCurrent

(* When a handler has returned, the window shows the current entry         *)
(* (filenavigator.cpp:80-119).                                             *)
THEOREM WindowShowsCurrent == Spec => []ShowsCurrent
  <1>1. Init => ShowInv
    BY DEF Init, ShowInv, ShowsCurrent
  <1>2. ShowInv /\ [Next]_vars => ShowInv'
    <2> SUFFICES ASSUME ShowInv, [Next]_vars PROVE ShowInv'
      OBVIOUS
    <2>1. CASE Handler
      <3>1. pc' = "dirs"
        BY <2>1 DEF Handler, Up, Back, Forward, ForwardWith, OnIconActivate,
                    goToTextCtrlDir, populate
      <3> QED
        BY <3>1 DEF ShowInv, ShowsCurrent
    <2>2. CASE OpenDirs
      BY <2>2 DEF OpenDirs, hist, ShowInv, ShowsCurrent, getCurrentDir
    <2>3. CASE OpenFiles
      BY <2>3 DEF OpenFiles, hist, ShowInv, ShowsCurrent, getCurrentDir
    <2>4. CASE Change \/ UNCHANGED vars
      BY <2>4 DEF Change, vars, hist, ShowInv, ShowsCurrent, getCurrentDir
    <2> QED
      BY <2>1, <2>2, <2>3, <2>4 DEF Next
  <1>3. ShowInv => ShowsCurrent
    BY DEF ShowInv
  <1> QED
    BY <1>1, <1>2, <1>3, PTL DEF Spec

-----------------------------------------------------------------------------
(* A history as the two stacks of a browser, and what the deque operations *)
(* make of them.                                                           *)
LEMMA Prefix ==
    ASSUME NEW S, NEW h \in Seq(S), NEW n \in 0 .. Len(h)
    PROVE  /\ SubSeq(h, 1, n) \in Seq(S) /\ Len(SubSeq(h, 1, n)) = n
           /\ \A k \in 1 .. n : SubSeq(h, 1, n)[k] = h[k]
  BY SubSeqProperties, LenProperties

LEMMA PrefixOfPrefix ==
    ASSUME NEW S, NEW h \in Seq(S), NEW n \in 0 .. Len(h), NEW m \in 0 .. n
    PROVE  SubSeq(SubSeq(h, 1, n), 1, m) = SubSeq(h, 1, m)
  <1> DEFINE t == SubSeq(h, 1, n)
  <1>1. Len(h) \in Nat /\ m \in 0 .. Len(h)
    BY LenProperties
  <1>2. t \in Seq(S) /\ Len(t) = n /\ \A k \in 1 .. n : t[k] = h[k]
    BY Prefix
  <1>3. /\ SubSeq(h, 1, m) \in Seq(S) /\ Len(SubSeq(h, 1, m)) = m
        /\ \A k \in 1 .. m : SubSeq(h, 1, m)[k] = h[k]
    BY <1>1, Prefix
  <1> HIDE DEF t
  <1>4. /\ SubSeq(t, 1, m) \in Seq(S) /\ Len(SubSeq(t, 1, m)) = m
        /\ \A k \in 1 .. m : SubSeq(t, 1, m)[k] = t[k]
    BY <1>2, Prefix
  <1>5. SubSeq(t, 1, m) = SubSeq(h, 1, m)
    BY <1>2, <1>3, <1>4, SeqEqual
  <1> QED
    BY <1>5 DEF t

LEMMA PrefixAppend ==
    ASSUME NEW S, NEW h \in Seq(S), NEW d \in S, NEW n \in 0 .. Len(h)
    PROVE  SubSeq(Append(h, d), 1, n) = SubSeq(h, 1, n)
  <1> DEFINE t == Append(h, d)
  <1>1. /\ t \in Seq(S) /\ Len(t) = Len(h) + 1 /\ Len(h) \in Nat
        /\ \A k \in 1 .. Len(h) : t[k] = h[k]
    BY AppendProperties, LenProperties
  <1> HIDE DEF t
  <1>2. /\ SubSeq(t, 1, n) \in Seq(S) /\ Len(SubSeq(t, 1, n)) = n
        /\ \A k \in 1 .. n : SubSeq(t, 1, n)[k] = t[k]
    BY <1>1, Prefix
  <1>3. /\ SubSeq(h, 1, n) \in Seq(S) /\ Len(SubSeq(h, 1, n)) = n
        /\ \A k \in 1 .. n : SubSeq(h, 1, n)[k] = h[k]
    BY Prefix
  <1>4. SubSeq(t, 1, n) = SubSeq(h, 1, n)
    BY <1>1, <1>2, <1>3, SeqEqual
  <1> QED
    BY <1>4 DEF t

(* The view of history h at position p.                                    *)
Before(h, p) == SubSeq(h, 1, p)
After(h, p)  == SubSeq(h, p + 2, Len(h))

LEMMA GoBack ==
    ASSUME NEW S, NEW h \in Seq(S), NEW p \in 1 .. Len(h) - 1
    PROVE  /\ Before(h, p) # <<>> /\ Len(Before(h, p)) = p
           /\ Before(h, p)[p] = h[p]
           /\ Before(h, p - 1) = SubSeq(Before(h, p), 1, p - 1)
           /\ After(h, p - 1) = <<h[p + 1]>> \o After(h, p)
  <1>1. Len(h) \in Nat /\ p \in 0 .. Len(h) /\ p \in 1 .. p /\ p - 1 \in 0 .. p
        /\ p + 1 \in 1 .. Len(h) /\ Len(h) \in p + 1 .. Len(h)
        /\ p - 1 + 2 = p + 1 /\ p + 1 + 1 = p + 2
    BY LenProperties
  <1>2. Len(Before(h, p)) = p /\ Before(h, p)[p] = h[p]
    BY <1>1, Prefix DEF Before
  <1>3. Before(h, p) # <<>>
    BY <1>1, <1>2, EmptySeq
  <1>4. Before(h, p - 1) = SubSeq(Before(h, p), 1, p - 1)
    BY <1>1, PrefixOfPrefix DEF Before
  <1>5. After(h, p - 1) = <<h[p + 1]>> \o After(h, p)
    BY <1>1, SubSeqRecursiveFirst DEF After
  <1> QED
    BY <1>2, <1>3, <1>4, <1>5

LEMMA GoForward ==
    ASSUME NEW S, NEW h \in Seq(S), NEW p \in 0 .. Len(h) - 2
    PROVE  /\ After(h, p) # <<>> /\ Head(After(h, p)) = h[p + 2]
           /\ After(h, p + 1) = Tail(After(h, p))
  <1>1. Len(h) \in Nat /\ p + 2 \in 1 .. Len(h) /\ Len(h) \in p + 2 .. Len(h)
        /\ p + 1 + 2 = p + 2 + 1
    BY LenProperties
  <1>2. After(h, p) \in Seq(S) /\ Len(After(h, p)) = Len(h) - (p + 2) + 1
    BY <1>1, SubSeqProperties, ElementOfSeq DEF After
  <1>3. After(h, p) # <<>>
    BY <1>1, <1>2, EmptySeq
  <1>4. Head(After(h, p)) = h[p + 2] /\ After(h, p + 1) = Tail(After(h, p))
    BY <1>1, HeadTailOfSubSeq DEF After
  <1> QED
    BY <1>3, <1>4

(* Going from one entry to the next adds the one to the stack.             *)
LEMMA Pass ==
    ASSUME NEW S, NEW h \in Seq(S), NEW p \in 0 .. Len(h) - 1
    PROVE  Before(h, p + 1) = Append(Before(h, p), h[p + 1])
  <1>1. Len(h) \in Nat /\ p \in 0 .. Len(h) /\ p + 1 \in 1 .. Len(h) /\ 1 \in 1 .. Len(h)
        /\ p + 1 \in 1 .. Len(h) /\ p + 1 - 1 = p
    BY LenProperties
  <1>2. SubSeq(h, 1, p + 1) = SubSeq(h, 1, p + 1 - 1) \o <<h[p + 1]>>
    BY <1>1, SubSeqRecursiveSecond
  <1>3. SubSeq(h, 1, p) \in Seq(S) /\ h[p + 1] \in S
    BY <1>1, Prefix, ElementOfSeq
  <1> QED
    BY <1>1, <1>2, <1>3, AppendIsConcat DEF Before

LEMMA NothingAfter ==
    ASSUME NEW S, NEW h \in Seq(S), NEW p \in Int, Len(h) = p + 1
    PROVE  After(h, p) = <<>>
  <1>1. p + 2 \in Int /\ Len(h) \in Int /\ Len(h) < p + 2
    OBVIOUS
  <1> QED
    BY <1>1, SubSeqEmpty DEF After

(* goToDir visits: as long as there is room, and when the oldest entry has *)
(* to go.                                                                  *)
LEMMA VisitWithRoom ==
    ASSUME NEW S, NEW h \in Seq(S), NEW d \in S, NEW p \in 0 .. Len(h) - 1
    PROVE  LET g == Append(SubSeq(h, 1, p + 1), d)
           IN  /\ Before(g, p + 1) = Append(Before(h, p), h[p + 1])
               /\ Len(Append(Before(h, p), h[p + 1])) = p + 1
               /\ g[p + 2] = d /\ After(g, p + 1) = <<>>
  <1> DEFINE t == SubSeq(h, 1, p + 1)
             g == Append(t, d)
  <1>1. Len(h) \in Nat /\ p + 1 \in 0 .. Len(h) /\ p + 1 \in 0 .. p + 1
        /\ p + 1 \in Int /\ p + 1 + 1 = p + 2
    BY LenProperties
  <1>2. t \in Seq(S) /\ Len(t) = p + 1
    BY <1>1, Prefix
  <1>3. t = Append(Before(h, p), h[p + 1])
    BY Pass DEF Before
  <1> HIDE DEF t
  <1>4. g \in Seq(S) /\ Len(g) = p + 1 + 1 /\ g[p + 2] = d
    BY <1>1, <1>2, AppendProperties
  <1>5. SubSeq(g, 1, p + 1) = SubSeq(t, 1, p + 1)
    BY <1>1, <1>2, PrefixAppend
  <1>6. SubSeq(t, 1, p + 1) = t
    BY <1>2, SubSeqFull
  <1> HIDE DEF g
  <1>7. After(g, p + 1) = <<>>
    BY <1>1, <1>4, NothingAfter
  <1> QED
    BY <1>2, <1>3, <1>4, <1>5, <1>6, <1>7 DEF Before, g, t

LEMMA VisitWhenFull ==
    ASSUME NEW S, NEW h \in Seq(S), NEW d \in S, NEW p \in 1 .. Len(h) - 1,
           p = Len(h) - 1
    PROVE  LET g == Append(SubSeq(Tail(h), 1, p), d)
           IN  /\ Before(g, p) = Tail(Append(Before(h, p), h[p + 1]))
               /\ Len(Append(Before(h, p), h[p + 1])) = p + 1
               /\ g[p + 1] = d /\ After(g, p) = <<>>
  <1> DEFINE t == Tail(h)
             g == Append(t, d)
  <1>1. Len(h) \in Nat /\ p \in 0 .. Len(h) - 1 /\ p + 1 = Len(h) /\ p \in Int
    BY LenProperties
  <1>2. h # <<>>
    BY <1>1, EmptySeq
  <1>3. t \in Seq(S) /\ Len(t) = p
    BY <1>1, <1>2, HeadTailProperties
  <1>4. Append(Before(h, p), h[p + 1]) = h
    BY <1>1, Pass, SubSeqFull DEF Before
  <1> HIDE DEF t
  <1>5. SubSeq(t, 1, p) = t
    BY <1>3, SubSeqFull
  <1>6. g \in Seq(S) /\ Len(g) = p + 1 /\ g[p + 1] = d
    BY <1>3, AppendProperties
  <1>7. p \in 0 .. Len(t)
    BY <1>1, <1>3
  <1>8. SubSeq(g, 1, p) = SubSeq(t, 1, p)
    BY <1>3, <1>7, PrefixAppend
  <1> HIDE DEF g
  <1>9. After(g, p) = <<>>
    BY <1>1, <1>6, NothingAfter
  <1> QED
    BY <1>1, <1>4, <1>5, <1>6, <1>8, <1>9 DEF Before, g, t

(* The stacks of the deque.                                                *)
LEMMA Stacks ==
    ASSUME HistInv
    PROVE  /\ \A d : history \in Seq({history[k] : k \in DOMAIN history} \cup {d})
           /\ Len(history) \in 1 .. historyMaxSize /\ Len(history) \in Nat
           /\ historyPos \in 0 .. Len(history) - 1
           /\ historyMaxSize \in Nat
  <1>1. Proper(history)
    BY DEF HistInv
  <1>2. \A d : history \in Seq({history[k] : k \in DOMAIN history} \cup {d})
    BY <1>1, SeqMonotonic DEF Proper
  <1>3. HistoryOK /\ historyMaxSize \in Nat
    BY SizeAssumption DEF HistInv
  <1>4. Len(history) \in 1 .. historyMaxSize /\ historyPos \in 0 .. Len(history) - 1
    BY <1>3 DEF HistoryOK
  <1>5. Len(history) \in Nat
    BY <1>4
  <1> QED
    BY <1>2, <1>3, <1>4, <1>5

view == <<SubSeq(history, 1, historyPos), getCurrentDir,
          SubSeq(history, historyPos + 2, Len(history))>>

LEMMA VisitImplements ==
    ASSUME HistInv, NEW path, goToDir(path)
    PROVE  Expected!Visit \/ UNCHANGED view
  <1> DEFINE d == Collapse(path)
             S == {history[k] : k \in DOMAIN history} \cup {d}
             p == historyPos
  <1>1. /\ history \in Seq(S) /\ d \in S /\ Len(history) \in 1 .. historyMaxSize
        /\ Len(history) \in Nat /\ p \in 0 .. Len(history) - 1
        /\ historyMaxSize \in Nat
    BY Stacks
  <1>2. CASE AlreadyThere(path)
    BY <1>2 DEF goToDir, hist, view, getCurrentDir
  <1> HIDE DEF d, S
  <1>3. CASE ~AlreadyThere(path) /\ ~Full(historyPos)
    <2>1. history' = Append(SubSeq(history, 1, p + 1), d) /\ historyPos' = p + 1
      BY <1>3 DEF goToDir, UpTo, d
    <2>2. /\ Before(history', p + 1) = Append(Before(history, p), history[p + 1])
          /\ Len(Append(Before(history, p), history[p + 1])) = p + 1
          /\ history'[p + 2] = d /\ After(history', p + 1) = <<>>
      <3>1. LET g == Append(SubSeq(history, 1, p + 1), d)
            IN  /\ Before(g, p + 1) = Append(Before(history, p), history[p + 1])
                /\ Len(Append(Before(history, p), history[p + 1])) = p + 1
                /\ g[p + 2] = d /\ After(g, p + 1) = <<>>
        BY <1>1, VisitWithRoom
      <3> QED
        BY <2>1, <3>1
    <2>3. p + 1 < historyMaxSize /\ p + 1 + 1 = p + 2
      BY <1>1, <1>3 DEF Full
    <2>4. getCurrentDir' = d /\ d # getCurrentDir
      BY <1>3, <2>1, <2>2, <2>3 DEF getCurrentDir, AlreadyThere, d
    <2> QED
      BY <2>1, <2>2, <2>3, <2>4
      DEF Expected!Visit, Expected!Newest, Before, After, getCurrentDir
  <1>4. CASE ~AlreadyThere(path) /\ Full(historyPos)
    <2>0. p = Len(history) - 1 /\ p = historyMaxSize - 1 /\ p \in 1 .. Len(history) - 1
          /\ p - 1 + 1 = p
      BY <1>1, <1>4, SizeAssumption DEF Full
    <2>1. history' = Append(SubSeq(Tail(history), 1, p), d) /\ historyPos' = p
      BY <1>4, <2>0 DEF goToDir, UpTo, d
    <2>2. /\ Before(history', p) = Tail(Append(Before(history, p), history[p + 1]))
          /\ Len(Append(Before(history, p), history[p + 1])) = p + 1
          /\ history'[p + 1] = d /\ After(history', p) = <<>>
      <3>1. LET g == Append(SubSeq(Tail(history), 1, p), d)
            IN  /\ Before(g, p) = Tail(Append(Before(history, p), history[p + 1]))
                /\ Len(Append(Before(history, p), history[p + 1])) = p + 1
                /\ g[p + 1] = d /\ After(g, p) = <<>>
        BY <1>1, <2>0, VisitWhenFull
      <3> QED
        BY <2>1, <3>1
    <2>3. ~(p + 1 < historyMaxSize)
      BY <1>1, <2>0
    <2>4. getCurrentDir' = d /\ d # getCurrentDir
      BY <1>4, <2>1, <2>2 DEF getCurrentDir, AlreadyThere, d
    <2> QED
      BY <2>1, <2>2, <2>3, <2>4
      DEF Expected!Visit, Expected!Newest, Before, After, getCurrentDir
  <1> QED
    BY <1>2, <1>3, <1>4

LEMMA BackImplements ==
    ASSUME HistInv, Back
    PROVE  Expected!Back
  <1> DEFINE S == {history[k] : k \in DOMAIN history} \cup {Root}
             p == historyPos
  <1>1. history \in Seq(S) /\ p \in 1 .. Len(history) - 1 /\ p - 1 + 1 = p
    <2>1. history \in Seq(S) /\ Len(history) \in Nat /\ p \in 0 .. Len(history) - 1
      BY Stacks
    <2> QED
      BY <2>1 DEF Back
  <1>2. history' = history /\ historyPos' = p - 1
    BY DEF Back
  <1> HIDE DEF S
  <1>3. /\ Before(history, p) # <<>> /\ Len(Before(history, p)) = p
        /\ Before(history, p)[p] = history[p]
        /\ Before(history, p - 1) = SubSeq(Before(history, p), 1, p - 1)
        /\ After(history, p - 1) = <<history[p + 1]>> \o After(history, p)
    BY <1>1, GoBack
  <1> QED
    BY <1>1, <1>2, <1>3 DEF Expected!Back, Before, After, getCurrentDir

LEMMA ForwardImplements ==
    ASSUME HistInv, Forward
    PROVE  Expected!Forward
  <1> DEFINE S == {history[k] : k \in DOMAIN history} \cup {Root}
             p == historyPos
  <1>1. history \in Seq(S) /\ p \in 0 .. Len(history) - 2 /\ p \in 0 .. Len(history) - 1
        /\ p + 1 + 1 = p + 2
    <2>1. history \in Seq(S) /\ Len(history) \in Nat /\ p \in 0 .. Len(history) - 1
      BY Stacks
    <2> QED
      BY <2>1 DEF Forward, ForwardWith
  <1>2. history' = history /\ historyPos' = p + 1
    BY DEF Forward, ForwardWith
  <1> HIDE DEF S
  <1>3. /\ After(history, p) # <<>> /\ Head(After(history, p)) = history[p + 2]
        /\ After(history, p + 1) = Tail(After(history, p))
    BY <1>1, GoForward
  <1>4. Before(history, p + 1) = Append(Before(history, p), history[p + 1])
    BY <1>1, Pass
  <1> QED
    BY <1>1, <1>2, <1>3, <1>4 DEF Expected!Forward, Before, After, getCurrentDir

LEMMA ForgetImplements ==
    ASSUME HistInv, Forget
    PROVE  Expected!Leave
  <1> DEFINE S == {history[k] : k \in DOMAIN history} \cup {Root}
             p == historyPos
  <1>1. history \in Seq(S) /\ Len(history) \in Nat /\ p \in 0 .. Len(history) - 1
    BY Stacks
  <1>2. CASE p = 0
    <2>1. history' = <<Root>> /\ historyPos' = 0
      BY <1>2 DEF Forget
    <2>2. SubSeq(history, 1, 0) = <<>> /\ SubSeq(<<Root>>, 1, 0) = <<>>
          /\ SubSeq(<<Root>>, 2, 1) = <<>>
      BY SubSeqEmpty
    <2>3. Len(<<Root>>) = 1 /\ <<Root>>[1] = Root
      OBVIOUS
    <2> QED
      BY <1>2, <2>1, <2>2, <2>3 DEF Expected!Leave, getCurrentDir
  <1> HIDE DEF S
  <1>3. CASE p # 0
    <2>1. history' = SubSeq(history, 1, p) /\ historyPos' = p - 1
      BY <1>3 DEF Forget
    <2>2. p \in 1 .. Len(history) - 1 /\ p \in 0 .. Len(history) /\ p - 1 + 1 = p
          /\ p \in 1 .. p
      BY <1>1, <1>3
    <2>3. history' \in Seq(S) /\ Len(history') = p /\ history'[p] = history[p]
      BY <1>1, <2>1, <2>2, Prefix
    <2>4. After(history', p - 1) = <<>>
      BY <2>3, NothingAfter
    <2>5. Before(history, p) # <<>>
      BY <1>1, <2>2, GoBack
    <2> QED
      BY <2>1, <2>2, <2>3, <2>4, <2>5 DEF Expected!Leave, Before, After, getCurrentDir
  <1> QED
    BY <1>2, <1>3

(* The deque and its index are a bounded browser history: what the user    *)
(* expects of Back and Forward, with the oldest place forgotten at the     *)
(* limit and places that are gone skipped                                  *)
(* (filenavigator.cpp:84-95, 121-138, 198-223).                            *)
THEOREM ImplementsBrowserHistory == Spec => IsBrowserHistory
  <1>1. Init => Expected!Init
    <2>1. SubSeq(<<Root>>, 1, 0) = <<>> /\ SubSeq(<<Root>>, 2, 1) = <<>>
      BY SubSeqEmpty
    <2>2. Len(<<Root>>) = 1 /\ <<Root>>[1] = Root
      OBVIOUS
    <2> QED
      BY <2>1, <2>2 DEF Init, Expected!Init, getCurrentDir
  <1>2. HistInv /\ [Next]_vars => Expected!Next \/ UNCHANGED view
    <2> SUFFICES ASSUME HistInv, [Next]_vars PROVE Expected!Next \/ UNCHANGED view
      OBVIOUS
    <2>1. CASE UNCHANGED hist
      BY <2>1 DEF hist, view, getCurrentDir
    <2>2. CASE Up
      BY <2>2, VisitImplements DEF Up, Expected!Next
    <2>3. ASSUME NEW name, OnIconActivate(name) PROVE Expected!Next \/ UNCHANGED view
      BY <2>3, VisitImplements DEF OnIconActivate, Expected!Next
    <2>4. ASSUME NEW path, goToTextCtrlDir(path) PROVE Expected!Next \/ UNCHANGED view
      BY <2>1, <2>4, VisitImplements DEF goToTextCtrlDir, Expected!Next
    <2>5. CASE Back \/ Forward
      BY <2>5, BackImplements, ForwardImplements DEF Expected!Next
    <2>6. CASE OpenDirs
      BY <2>1, <2>6, ForgetImplements DEF OpenDirs, Expected!Next
    <2>7. CASE OpenFiles \/ Change \/ UNCHANGED vars
      BY <2>1, <2>7 DEF OpenFiles, Change, vars
    <2> QED
      BY <2>2, <2>3, <2>4, <2>5, <2>6, <2>7 DEF Next, Handler
  <1> QED
    BY <1>1, <1>2, HistInvHolds, PTL DEF Spec, IsBrowserHistory, Expected!Spec, view
=============================================================================
