----------------------------- MODULE FileProofs -----------------------------
(***************************************************************************)
(* Proofs about the commands that search files and edit them.              *)
(*                                                                         *)
(* The hex editor, for any sessions, any file, any bytes and any positions *)
(* typed: what a replacement takes away is what was shown, and the logs    *)
(* tell the history of the file.                                           *)
(*                                                                         *)
(* The search, for any tree, any keywords, names and lines and whatever    *)
(* others remove meanwhile or cannot be read: the results are the matches, *)
(* and what the user does to them is done to what was listed, and logged.  *)
(***************************************************************************)
EXTENDS HexEdit, SearchResults, WellFoundedInduction, SequenceTheorems,
        FiniteSetTheorems, TLAPS

(* The steps of the search.                                                *)
CONSTANTS MaxFaulty, MaxGone, MaxPicks
VARIABLES local, command

Search == INSTANCE FileSearch

-----------------------------------------------------------------------------
(* A set of natural numbers has a least one.                               *)
LEMMA Least ==
    ASSUME NEW S \in SUBSET Nat, S # {}
    PROVE  \E m \in S : \A k \in S : m <= k
  <1>1. PICK m \in S : \A k \in S : <<k, m>> \notin OpToRel(<, Nat)
    BY NatLessThanWellFounded, WFMin
  <1>2. \A k \in S : ~(k < m)
    BY <1>1 DEF OpToRel
  <1>3. m \in Nat /\ \A k \in S : k \in Nat
    OBVIOUS
  <1>4. \A k \in S : m <= k
    BY <1>2, <1>3
  <1> QED
    BY <1>4

(* An entry of a log, and the replacement it is of.                        *)
Line == [pos : Positions, old : Bytes, new : Values]
Deed == [session : Sessions, row : Nat, put : BOOLEAN]

(* Two sessions that replace the same byte at once are known to.           *)
Alone ==
    \A s, t \in Sessions : s # t /\ Busy(s) /\ Busy(t) /\ Pos(s) = Pos(t) => Pos(s) \in marred

(* A session that has looked at a byte has one only if the file has it.    *)
(* Before the put it is still the one there; afterwards it is the one the  *)
(* logs leave there, and the replacement is in its place.                  *)
Looked(s) ==
    /\ Busy(s) /\ old[s] # Eof => Pos(s) \in 1 .. Size
    /\ pc[s] = "put" /\ old[s] # Eof /\ Pos(s) \notin marred => old[s] = file[Pos(s)]
    /\ pc[s] = "log" /\ old[s] # Eof /\ Pos(s) \notin marred =>
          file[Pos(s)] = New(s) /\ Leaves(Len(done), Pos(s), old[s])

(* A byte that has been put is not yet in a log.                           *)
Unlogged(p) == \E s \in Sessions : pc[s] = "log" /\ Pos(s) = p /\ old[s] # Eof

Told(n) ==
    /\ done[n].put => Atoi[Says(n).pos] \in 1 .. Size
    /\ ~done[n].put => Says(n).old = FF
    /\ done[n].put /\ Atoi[Says(n).pos] \notin marred =>
          Leaves(n - 1, Atoi[Says(n).pos], Says(n).old)

(* Every entry is that of one replacement, in the order of each log.       *)
Paired ==
    /\ \A n \in 1 .. Len(done) : done[n].row \in 1 .. Len(log[done[n].session])
    /\ \A m, n \in 1 .. Len(done) :
          done[m].session = done[n].session /\ m < n => done[m].row < done[n].row
    /\ \A s \in Sessions : \A i \in 1 .. Len(log[s]) :
          \E n \in 1 .. Len(done) : done[n].session = s /\ done[n].row = i

EditInv ==
    /\ TypeOK
    /\ Alone
    /\ Paired
    /\ \A s \in Sessions : Looked(s)
    /\ \A n \in 1 .. Len(done) : Told(n)
    /\ \A p \in (1 .. Size) \ marred : Unlogged(p) \/ Leaves(Len(done), p, file[p])

-----------------------------------------------------------------------------
(* The white space a file begins with has an end.                          *)
LEMMA SkippedType ==
    ASSUME TypeOK
    PROVE  Skipped \in 0 .. Size /\ Leading = 1 .. Skipped
  <1> DEFINE Past == {n \in Nat : n + 1 \notin Leading}
  <1>1. Size \in Past
    BY Numbers DEF Leading
  <1>2. PICK m \in Past : \A k \in Past : m <= k
    <2>1. Past \subseteq Nat /\ Past # {}
      BY <1>1
    <2> HIDE DEF Past
    <2> QED
      BY <2>1, Least
  <1>3. m \in 0 .. Size
    BY <1>1, <1>2, Numbers
  <1>4. \A i \in 1 .. m : i \in Leading
    <2> TAKE i \in 1 .. m
    <2>1. i - 1 \in Nat /\ i - 1 < m
      BY <1>3, Numbers
    <2>2. i - 1 \notin Past
      BY <1>2, <1>3, <2>1, Numbers
    <2> QED
      BY <2>1, <2>2
  <1>5. \A i \in Leading : i \in 1 .. m
    <2> SUFFICES ASSUME NEW i \in Leading, i > m
                 PROVE  FALSE
      BY <1>3, Numbers DEF Leading
    <2>1. m + 1 \in 1 .. i /\ i \in 1 .. Size
      BY <1>3, Numbers DEF Leading
    <2>2. m + 1 \in Leading
      BY <2>1, <1>3, Numbers DEF Leading
    <2> QED
      BY <1>2, <2>2
  <1>6. \E n \in 0 .. Size : Leading = 1 .. n
    BY <1>3, <1>4, <1>5
  <1> QED
    BY <1>6 DEF Skipped

LEMMA ShownType ==
    ASSUME TypeOK
    PROVE  Shown \in UNION {[1 .. n -> Bytes] : n \in 0 .. Size}
  <1>1. Skipped \in 0 .. Size
    BY SkippedType
  <1>2. Size - Skipped \in 0 .. Size
    BY <1>1, Numbers
  <1>3. Shown \in [1 .. Size - Skipped -> Bytes]
    BY <1>1, Numbers DEF Shown, TypeOK, File
  <1> QED
    BY <1>2, <1>3

-----------------------------------------------------------------------------

LEMMA InitEditInv == Init => EditInv
  <1> SUFFICES ASSUME Init PROVE EditInv
    OBVIOUS
  <1>1. /\ \A s \in Sessions : ~Busy(s) /\ log[s] = <<>>
        /\ file = original /\ done = <<>> /\ marred = {}
    BY DEF Init, Busy
  <1>2. TypeOK
    <2>1. /\ (CHOOSE p \in Positions : TRUE) \in Positions
          /\ (CHOOSE v \in Values : TRUE) \in Values
      BY Texts
    <2>2. \A s \in Sessions : screen[s] \in [1 .. 0 -> Bytes]
      <3>1. <<>> \in Seq(Bytes) /\ Len(<<>>) = 0
        OBVIOUS
      <3>2. <<>> \in [1 .. 0 -> Bytes]
        BY <3>1, LenProperties
      <3> QED
        BY <3>2 DEF Init
    <2>3. 0 \in 0 .. Size
      BY Numbers
    <2>4. \A s \in Sessions : screen[s] \in UNION {[1 .. n -> Bytes] : n \in 0 .. Size}
      BY <2>2, <2>3
    <2>5. screen = [s \in Sessions |-> screen[s]]
      BY DEF Init
    <2>6. screen \in [Sessions -> UNION {[1 .. n -> Bytes] : n \in 0 .. Size}]
      BY <2>4, <2>5
    <2>7. log \in [Sessions -> Seq(Line)] /\ done \in Seq(Deed)
      BY EmptySeq DEF Init
    <2> QED
      BY <2>1, <2>6, <2>7 DEF Init, TypeOK, Line, Deed
  <1>3. Len(done) = 0 /\ \A s \in Sessions : Len(log[s]) = 0
    BY <1>1, EmptySeq
  <1>4. \A p \in 1 .. Size : Leaves(Len(done), p, file[p])
    BY <1>1, <1>3 DEF Leaves, Writes
  <1>5. Paired
    BY <1>3 DEF Paired
  <1> QED
    BY <1>1, <1>2, <1>3, <1>4, <1>5 DEF EditInv, Alone, Looked, Busy

-----------------------------------------------------------------------------
LEMMA EntryType ==
    ASSUME TypeOK, NEW s \in Sessions
    PROVE  /\ Entry(s) \in Line
           /\ Entry(s).pos = posString[s] /\ Entry(s).new = replacement[s]
           /\ old[s] = Eof => Entry(s).old = FF
           /\ old[s] # Eof => Entry(s).old = old[s]
  BY Whites DEF TypeOK, Entry, AsChar, Line

LEMMA StepType == TypeOK /\ [Next]_vars => TypeOK'
  <1> SUFFICES ASSUME TypeOK, [Next]_vars PROVE TypeOK'
    OBVIOUS
  <1> USE DEF edit
  <1>1. CASE UNCHANGED vars
    BY <1>1 DEF TypeOK, vars
  <1>2. ASSUME NEW s \in Sessions, Display(s) PROVE TypeOK'
    BY <1>2, ShownType DEF Display, TypeOK
  <1>6. ASSUME NEW s \in Sessions, DisplayForEver(s) PROVE TypeOK'
    BY <1>6 DEF DisplayForEver, TypeOK
  <1>3. ASSUME NEW s \in Sessions, Put(s) PROVE TypeOK'
    <2>1. New(s) \in Bytes /\ Pos(s) \in Int
      BY Texts DEF New, Pos, TypeOK
    <2>2. file' \in File /\ marred' \subseteq Int
      BY <1>3, <2>1 DEF Put, Offset, TypeOK, File
    <2> QED
      BY <1>3, <2>2 DEF Put, TypeOK
  <1>4. ASSUME NEW s \in Sessions, Log(s) PROVE TypeOK'
    <2>1. Entry(s) \in Line /\ log \in [Sessions -> Seq(Line)] /\ done \in Seq(Deed)
      BY EntryType DEF TypeOK, Line, Deed
    <2>2. Append(log[s], Entry(s)) \in Seq(Line) /\ Len(log[s]) \in Nat
      BY <2>1, AppendProperties, LenProperties
    <2>3. [session |-> s, row |-> Len(log[s]) + 1, put |-> CanPut(s)] \in Deed
      BY <2>2 DEF Deed, CanPut
    <2>4. log' \in [Sessions -> Seq(Line)]
      BY <1>4, <2>1, <2>2 DEF Log
    <2>5. done' \in Seq(Deed)
      BY <1>4, <2>1, <2>3, AppendProperties DEF Log
    <2> QED
      BY <1>4, <2>4, <2>5 DEF Log, TypeOK, Line, Deed
  <1>5. ASSUME NEW s \in Sessions, NEW p \in Positions, NEW v \in Values, Peek(s, p, v)
        PROVE  TypeOK'
    <2>1. At(Atoi[p]) \in Bytes \cup {Eof} /\ Atoi[p] \in Int
      BY Texts DEF At, Offset, TypeOK, File
    <2>2. old' \in [Sessions -> Bytes \cup {Eof}] /\ marred' \subseteq Int
      BY <1>5, <2>1 DEF Peek, TypeOK
    <2> QED
      BY <1>5, <2>2 DEF Peek, TypeOK
  <1> QED
    BY <1>1, <1>2, <1>3, <1>4, <1>5, <1>6 DEF Next

(* A replacement is entered behind what the logs say already, and what     *)
(* they leave is changed by it alone.                                      *)
LEMMA LogAdds ==
    ASSUME TypeOK, Paired, NEW s \in Sessions, Log(s), NEW n, n = Len(done)
    PROVE  /\ n \in Nat /\ Len(done') = n + 1
           /\ done'[n + 1].session = s /\ done'[n + 1].row = Len(log[s]) + 1
           /\ done'[n + 1].put <=> old[s] # Eof
           /\ \A k \in 1 .. n : done'[k] = done[k] /\ Says(k)' = Says(k)
           /\ Says(n + 1)' = Entry(s)
           /\ Len(log[s]) \in Nat /\ Len(log'[s]) = Len(log[s]) + 1
           /\ \A t \in Sessions \ {s} : log'[t] = log[t]
  <1>1. log \in [Sessions -> Seq(Line)] /\ done \in Seq(Deed) /\ Entry(s) \in Line
    BY EntryType DEF TypeOK, Line, Deed
  <1>2. PICK l \in Seq(Line) : l = log[s]
    BY <1>1
  <1>3. PICK e \in Line : e = Entry(s)
    BY <1>1
  <1>4. Len(l) \in Nat /\ DOMAIN l = 1 .. Len(l)
    BY LenProperties
  <1>p. PICK b \in BOOLEAN : b = CanPut(s)
    BY DEF CanPut
  <1>d. PICK d : d = [session |-> s, row |-> Len(l) + 1, put |-> b]
    OBVIOUS
  <1>5. d \in Deed /\ d.session = s /\ d.row = Len(l) + 1 /\ d.put = b
    BY <1>4, <1>d DEF Deed
  <1>b. d.put <=> old[s] # Eof
    BY <1>5, <1>p DEF CanPut
  <1>6. /\ done' = Append(done, d) /\ log' = [log EXCEPT ![s] = Append(l, e)]
    BY <1>2, <1>3, <1>d, <1>p DEF Log
  <1>7. PICK m : m = Append(l, e)
    OBVIOUS
  <1>8. Len(m) = Len(l) + 1 /\ m[Len(l) + 1] = e /\ \A i \in 1 .. Len(l) : m[i] = l[i]
    BY <1>7, AppendProperties
  <1>9. log'[s] = m /\ \A t \in Sessions \ {s} : log'[t] = log[t]
    BY <1>1, <1>6, <1>7
  <1>10. /\ n \in Nat /\ Len(done') = n + 1 /\ done'[n + 1] = d
         /\ \A k \in 1 .. n : done'[k] = done[k] /\ done[k] \in Deed
    BY <1>1, <1>6, AppendProperties, LenProperties, ElementOfSeq
  <1>11. Says(n + 1)' = Entry(s)
    BY <1>3, <1>5, <1>8, <1>9, <1>10 DEF Says
  <1>12. ASSUME NEW k \in 1 .. n PROVE Says(k)' = Says(k)
    <2>1. PICK t \in Sessions, r \in Nat :
             t = done[k].session /\ r = done[k].row /\ r \in 1 .. Len(log[t])
      <3>1. done[k].session \in Sessions /\ done[k].row \in Nat
        BY <1>10 DEF Deed
      <3>2. done[k].row \in 1 .. Len(log[done[k].session])
        BY DEF Paired
      <3> QED
        BY <3>1, <3>2
    <2>2. log'[t][r] = log[t][r]
      BY <1>2, <1>8, <1>9, <2>1
    <2> QED
      BY <1>10, <2>1, <2>2 DEF Says
  <1> QED
    BY <1>2, <1>4, <1>5, <1>8, <1>9, <1>10, <1>11, <1>12, <1>b

LEMMA LeavesNext ==
    ASSUME TypeOK, Paired, NEW s \in Sessions, Log(s), NEW n, n = Len(done), NEW p
    PROVE  /\ \A m \in 0 .. n : \A b : Leaves(m, p, b)' <=> Leaves(m, p, b)
           /\ p = Pos(s) /\ old[s] # Eof => \A b : b = New(s) => Leaves(n + 1, p, b)'
           /\ ~(p = Pos(s) /\ old[s] # Eof) =>
                \A b : Leaves(n, p, b) => Leaves(n + 1, p, b)'
  <1>1. /\ n \in Nat /\ Len(done') = n + 1
        /\ done'[n + 1].put <=> old[s] # Eof
        /\ \A k \in 1 .. n : done'[k] = done[k] /\ Says(k)' = Says(k)
        /\ Says(n + 1)' = Entry(s)
    BY LogAdds
  <1>2. original' = original
    BY DEF Log
  <1>3. Atoi[Entry(s).pos] = Pos(s) /\ FromHex[Entry(s).new] = New(s)
    BY EntryType DEF Pos, New
  <1>4. \A m \in 0 .. n : \A b : Leaves(m, p, b)' <=> Leaves(m, p, b)
    <2> TAKE m \in 0 .. n
    <2> TAKE b
    <2>1. \A k \in 1 .. m : done'[k] = done[k] /\ Says(k)' = Says(k)
      BY <1>1
    <2>2. Writes(m, p)' = Writes(m, p)
      BY <2>1 DEF Writes
    <2>3. \A k \in Writes(m, p) : Says(k)' = Says(k)
      BY <2>1 DEF Writes
    <2> QED
      BY <1>2, <2>2, <2>3 DEF Leaves
  <1>5. \A k \in Writes(n + 1, p)' : k \in Writes(n, p)' \/ k = n + 1
    BY <1>1 DEF Writes
  <1>6. \A k \in Writes(n, p)' : k \in Writes(n + 1, p)' /\ k \in 1 .. n
    BY <1>1 DEF Writes
  <1>7. ASSUME p = Pos(s), old[s] # Eof, NEW b, b = New(s)
        PROVE  Leaves(n + 1, p, b)'
    <2>1. n + 1 \in Writes(n + 1, p)' /\ FromHex[Says(n + 1).new]' = b
      BY <1>1, <1>3, <1>7 DEF Writes
    <2>2. \A k \in Writes(n + 1, p)' : k <= n + 1
      BY <1>1, <1>5, <1>6
    <2> QED
      BY <2>1, <2>2 DEF Leaves
  <1>8. ASSUME ~(p = Pos(s) /\ old[s] # Eof), NEW b, Leaves(n, p, b)
        PROVE  Leaves(n + 1, p, b)'
    <2>1. n + 1 \notin Writes(n + 1, p)'
      BY <1>1, <1>3, <1>8 DEF Writes
    <2>2. Writes(n + 1, p)' = Writes(n, p)'
      BY <1>5, <1>6, <2>1
    <2>3. Leaves(n, p, b)'
      BY <1>1, <1>4, <1>8
    <2> QED
      BY <2>2, <2>3 DEF Leaves
  <1> QED
    BY <1>4, <1>7, <1>8

(* The logs do not change, so what they say does not.                      *)
LEMMA SaysTheSame ==
    ASSUME UNCHANGED <<original, log, done>>
    PROVE  /\ \A n : Says(n)' = Says(n)
           /\ \A n, q, c : Leaves(n, q, c)' <=> Leaves(n, q, c)
           /\ Paired' <=> Paired
  <1>1. \A n : Says(n)' = Says(n)
    BY DEF Says
  <1>2. \A n, q : Writes(n, q)' = Writes(n, q)
    BY <1>1 DEF Writes
  <1>3. \A n, q, c : Leaves(n, q, c)' <=> Leaves(n, q, c)
    BY <1>1, <1>2 DEF Leaves
  <1> QED
    BY <1>1, <1>3 DEF Paired

LEMMA IdleKeeps ==
    ASSUME EditInv, TypeOK', UNCHANGED <<original, file, edit, log, done, marred>>,
           \A t \in Sessions : pc'[t] = pc[t] \/ (~Busy(t) /\ ~Busy(t)')
    PROVE  EditInv'
  <1>1. /\ \A n : Says(n)' = Says(n)
        /\ \A n, q, c : Leaves(n, q, c)' <=> Leaves(n, q, c)
        /\ Paired'
    BY SaysTheSame DEF EditInv
  <1>2. /\ UNCHANGED <<posString, replacement, old>>
        /\ \A t \in Sessions : /\ Pos(t)' = Pos(t) /\ New(t)' = New(t)
                               /\ Busy(t)' <=> Busy(t)
                               /\ pc'[t] = "put" <=> pc[t] = "put"
                               /\ pc'[t] = "log" <=> pc[t] = "log"
    BY DEF edit, Pos, New, Busy
  <1>3. Alone'
    BY <1>2 DEF EditInv, Alone
  <1>4. \A t \in Sessions : Looked(t)'
    <2> TAKE t \in Sessions
    <2>1. Looked(t)
      BY DEF EditInv
    <2> QED
      BY <1>1, <1>2, <2>1 DEF Looked
  <1>5. \A n \in 1 .. Len(done') : Told(n)'
    BY <1>1 DEF EditInv, Told
  <1>6. \A q \in (1 .. Size) \ marred' : Unlogged(q)' \/ Leaves(Len(done), q, file[q])'
    BY <1>1, <1>2 DEF EditInv, Unlogged
  <1> QED
    BY <1>1, <1>3, <1>4, <1>5, <1>6 DEF EditInv

LEMMA DisplayKeeps ==
    ASSUME EditInv, NEW s \in Sessions, Display(s) \/ DisplayForEver(s) PROVE EditInv'
  <1>1. TypeOK /\ TypeOK'
    BY StepType DEF EditInv, Next
  <1>2. UNCHANGED <<original, file, edit, log, done, marred>>
    BY DEF Display, DisplayForEver
  <1>3. \A t \in Sessions : pc'[t] = pc[t] \/ (~Busy(t) /\ ~Busy(t)')
    BY <1>1 DEF Display, DisplayForEver, TypeOK, Busy
  <1> QED
    BY <1>1, <1>2, <1>3, IdleKeeps

(* Who looks at a byte others are replacing has raced it.                  *)
LEMMA PeekKeeps ==
    ASSUME EditInv, NEW s \in Sessions, NEW u \in Positions, NEW v \in Values,
           Peek(s, u, v)
    PROVE  EditInv'
  <1>1. TypeOK /\ TypeOK'
    BY StepType DEF EditInv, Next
  <1>p. PICK p \in Int : p = Atoi[u]
    BY Texts
  <1>2. /\ UNCHANGED <<original, file, log, done>>
        /\ marred \subseteq marred' /\ marred' \subseteq marred \cup {p}
        /\ \A t \in Sessions \ {s} :
              /\ pc'[t] = pc[t] /\ old'[t] = old[t] /\ Pos(t)' = Pos(t) /\ New(t)' = New(t)
              /\ Busy(t)' <=> Busy(t)
        /\ ~Busy(s) /\ pc'[s] = "put" /\ Pos(s)' = p
        /\ old'[s] \in {At(p), Eof}
        /\ (\E t \in Sessions : Busy(t) /\ Pos(t) = p) => p \in marred'
    BY <1>1, <1>p DEF Peek, TypeOK, Pos, New, Busy
  <1>3. /\ \A n : Says(n)' = Says(n)
        /\ \A n, q, c : Leaves(n, q, c)' <=> Leaves(n, q, c)
        /\ Paired'
    BY <1>2, SaysTheSame DEF EditInv
  <1>4. Alone'
    BY <1>2 DEF EditInv, Alone
  <1>5. \A t \in Sessions : Looked(t)'
    <2> TAKE t \in Sessions
    <2>1. CASE t = s
      BY <1>2, <2>1 DEF Looked, At, Offset
    <2>2. CASE t # s
      <3>1. Looked(t)
        BY DEF EditInv
      <3> QED
        BY <1>2, <1>3, <2>2, <3>1 DEF Looked
    <2> QED
      BY <2>1, <2>2
  <1>6. \A n \in 1 .. Len(done') : Told(n)'
    BY <1>2, <1>3 DEF EditInv, Told
  <1>7. \A q \in (1 .. Size) \ marred' : Unlogged(q)' \/ Leaves(Len(done), q, file[q])'
    <2> TAKE q \in (1 .. Size) \ marred'
    <2>1. Unlogged(q) => Unlogged(q)'
      BY <1>2 DEF Unlogged, Busy
    <2> QED
      BY <1>2, <1>3, <2>1 DEF EditInv
  <1> QED
    BY <1>1, <1>3, <1>4, <1>5, <1>6, <1>7 DEF EditInv

(* The byte that is put was not logged before, but for races, and it is    *)
(* the only one that changes.  Where a byte is not written is known.       *)
LEMMA PutKeeps ==
    ASSUME EditInv, NEW s \in Sessions, Put(s) PROVE EditInv'
  <1>p. PICK p, c : p = Pos(s) /\ c = old[s]
    OBVIOUS
  <1>1. TypeOK /\ TypeOK'
    BY StepType DEF EditInv, Next
  <1>2. /\ UNCHANGED <<original, log, done, posString, replacement, old>>
        /\ \A t \in Sessions \ {s} : pc'[t] = pc[t]
        /\ pc[s] = "put" /\ pc'[s] = "log"
        /\ marred \subseteq marred' /\ marred' \subseteq marred \cup {p}
    BY <1>1, <1>p DEF Put, TypeOK, edit
  <1>n. \A t \in Sessions : Pos(t)' = Pos(t) /\ New(t)' = New(t) /\ (Busy(t)' <=> Busy(t))
    BY <1>2 DEF Pos, New, Busy
  <1>3. c # Eof => /\ p \in 1 .. Size
                   /\ p \notin marred => c = file[p]
                   /\ p \notin marred' => file' = [file EXCEPT ![p] = New(s)]
    BY <1>2, <1>p DEF EditInv, Looked, Put, CanPut, Offset, Busy
  <1>4. \A q \in (1 .. Size) \ marred' : q # p \/ c = Eof => file'[q] = file[q]
    BY <1>1, <1>p DEF Put, CanPut, Offset, TypeOK, File
  <1>5. /\ \A n : Says(n)' = Says(n)
        /\ \A n, q, b : Leaves(n, q, b)' <=> Leaves(n, q, b)
        /\ Paired'
    BY <1>2, SaysTheSame DEF EditInv
  <1>6. Alone'
    BY <1>2, <1>n DEF EditInv, Alone
  <1>7. \A q : Unlogged(q) => Unlogged(q)'
    BY <1>2, <1>n DEF Unlogged
  <1>8. ASSUME c # Eof, p \notin marred'
        PROVE  Unlogged(p)' /\ ~Unlogged(p) /\ Leaves(Len(done), p, c)
    <2>1. Unlogged(p)'
      BY <1>2, <1>n, <1>p, <1>8 DEF Unlogged
    <2>2. ~Unlogged(p)
      BY <1>2, <1>p, <1>8 DEF EditInv, Alone, Unlogged, Busy
    <2> QED
      BY <1>2, <1>3, <1>8, <2>1, <2>2 DEF EditInv
  <1>9. \A t \in Sessions : Looked(t)'
    <2> TAKE t \in Sessions
    <2>L. Looked(t)
      BY DEF EditInv
    <2>1. CASE t = s
      <3>1. c # Eof /\ p \notin marred' => file'[p] = New(s) /\ Leaves(Len(done), p, c)'
        <4> SUFFICES ASSUME c # Eof, p \notin marred'
                     PROVE  file'[p] = New(s) /\ Leaves(Len(done), p, c)'
          OBVIOUS
        <4>1. file \in [1 .. Size -> Bytes]
          BY <1>1 DEF TypeOK, File
        <4>2. file'[p] = New(s)
          BY <1>3, <4>1
        <4> QED
          BY <1>2, <1>5, <1>8, <4>2
      <3> QED
        BY <1>2, <1>3, <1>n, <1>p, <2>1, <3>1 DEF Looked
    <2>2. CASE t # s /\ Busy(t) /\ old[t] # Eof /\ Pos(t) \notin marred'
      <3>1. Pos(t) # p /\ Pos(t) \in 1 .. Size
        BY <1>2, <1>p, <2>2, <2>L DEF EditInv, Alone, Looked, Busy
      <3>2. file'[Pos(t)] = file[Pos(t)]
        BY <1>4, <2>2, <3>1
      <3> QED
        BY <1>2, <1>5, <1>n, <2>2, <2>L, <3>1, <3>2 DEF Looked
    <2>3. CASE t # s /\ ~(Busy(t) /\ old[t] # Eof /\ Pos(t) \notin marred')
      BY <1>2, <1>n, <2>3, <2>L DEF Looked, Busy
    <2> QED
      BY <2>1, <2>2, <2>3
  <1>10. \A n \in 1 .. Len(done') : Told(n)'
    BY <1>2, <1>5 DEF EditInv, Told
  <1>11. \A q \in (1 .. Size) \ marred' : Unlogged(q)' \/ Leaves(Len(done), q, file[q])'
    <2> TAKE q \in (1 .. Size) \ marred'
    <2>1. CASE q = p /\ c # Eof
      BY <1>8, <2>1
    <2>2. CASE q # p \/ c = Eof
      BY <1>2, <1>4, <1>5, <1>7, <2>2 DEF EditInv
    <2> QED
      BY <2>1, <2>2
  <1> QED
    BY <1>1, <1>5, <1>6, <1>9, <1>10, <1>11 DEF EditInv

(* What is logged was there, and is what the logs leave from now on.       *)
LEMMA LogKeeps ==
    ASSUME EditInv, NEW s \in Sessions, Log(s) PROVE EditInv'
  <1>1. TypeOK /\ TypeOK' /\ Paired
    BY StepType DEF EditInv, Next
  <1>2. /\ UNCHANGED <<original, file, posString, replacement, old, marred>>
        /\ \A t \in Sessions \ {s} : pc'[t] = pc[t]
        /\ pc[s] = "log" /\ pc'[s] = "idle"
    BY <1>1 DEF Log, TypeOK, edit
  <1>b. \A t \in Sessions : Pos(t)' = Pos(t) /\ New(t)' = New(t)
    BY <1>2 DEF Pos, New
  <1>n. PICK n, p, c : n = Len(done) /\ p = Pos(s) /\ c = old[s]
    OBVIOUS
  <1>3. /\ n \in Nat /\ Len(done') = n + 1
        /\ done'[n + 1].session = s /\ done'[n + 1].row = Len(log[s]) + 1
        /\ done'[n + 1].put <=> c # Eof
        /\ \A k \in 1 .. n : done'[k] = done[k] /\ Says(k)' = Says(k)
        /\ Says(n + 1)' = Entry(s)
        /\ Len(log[s]) \in Nat /\ Len(log'[s]) = Len(log[s]) + 1
        /\ \A t \in Sessions \ {s} : log'[t] = log[t]
    BY <1>1, <1>n, LogAdds
  <1>l. /\ \A m \in 0 .. n : \A q, b : Leaves(m, q, b)' <=> Leaves(m, q, b)
        /\ c # Eof => \A b : b = New(s) => Leaves(n + 1, p, b)'
        /\ \A q, b : ~(q = p /\ c # Eof) /\ Leaves(n, q, b) => Leaves(n + 1, q, b)'
    BY <1>1, <1>n, LeavesNext
  <1>4. Alone'
    <2>1. ~Busy(s)' /\ \A t \in Sessions \ {s} : Busy(t)' <=> Busy(t)
      BY <1>2 DEF Busy
    <2> QED
      BY <1>2, <1>b, <2>1 DEF EditInv, Alone
  <1>5. Paired'
    <2>1. \A k \in 1 .. n + 1 : k \in 1 .. n \/ k = n + 1
      BY <1>3
    <2>2. /\ \A k \in 1 .. n : done[k].row \in 1 .. Len(log[done[k].session])
          /\ \A m, k \in 1 .. n :
                done[m].session = done[k].session /\ m < k => done[m].row < done[k].row
          /\ \A t \in Sessions : \A i \in 1 .. Len(log[t]) :
                \E k \in 1 .. n : done[k].session = t /\ done[k].row = i
      BY <1>1, <1>n DEF Paired
    <2>3. ASSUME NEW k \in 1 .. n
          PROVE  /\ done[k].session \in Sessions /\ done[k].row \in Nat
                 /\ done[k].row <= Len(log[done[k].session])
                 /\ Len(log[done[k].session]) \in Nat
      <3>1. done \in Seq(Deed) /\ log \in [Sessions -> Seq(Line)]
        BY <1>1 DEF TypeOK, Deed, Line
      <3>2. done[k] \in Deed
        BY <1>n, <3>1, ElementOfSeq
      <3>3. done[k].session \in Sessions
        BY <3>2 DEF Deed
      <3>4. Len(log[done[k].session]) \in Nat
        BY <3>1, <3>3, LenProperties
      <3> QED
        BY <2>2, <3>3, <3>4
    <2>4. \A k \in 1 .. n + 1 : done'[k].row \in 1 .. Len(log'[done'[k].session])
      <3> TAKE k \in 1 .. n + 1
      <3>1. CASE k = n + 1
        BY <1>3, <3>1
      <3>2. CASE k \in 1 .. n /\ done[k].session = s
        BY <1>3, <2>2, <2>3, <3>2
      <3>3. CASE k \in 1 .. n /\ done[k].session # s
        BY <1>3, <2>2, <2>3, <3>3
      <3> QED
        BY <2>1, <3>1, <3>2, <3>3
    <2>5. \A m, k \in 1 .. n + 1 :
             done'[m].session = done'[k].session /\ m < k => done'[m].row < done'[k].row
      <3> SUFFICES ASSUME NEW m \in 1 .. n + 1, NEW k \in 1 .. n + 1,
                          done'[m].session = done'[k].session, m < k
                   PROVE  done'[m].row < done'[k].row
        OBVIOUS
      <3>1. m \in 1 .. n
        BY <1>3
      <3>2. CASE k \in 1 .. n
        BY <1>3, <2>2, <3>1, <3>2
      <3>3. CASE k = n + 1
        BY <1>3, <2>3, <3>1, <3>3
      <3> QED
        BY <2>1, <3>2, <3>3
    <2>6. \A t \in Sessions : \A i \in 1 .. Len(log'[t]) :
             \E k \in 1 .. n + 1 : done'[k].session = t /\ done'[k].row = i
      <3> TAKE t \in Sessions
      <3> TAKE i \in 1 .. Len(log'[t])
      <3>1. CASE i \in 1 .. Len(log[t])
        <4>1. PICK k \in 1 .. n : done[k].session = t /\ done[k].row = i
          BY <2>2, <3>1
        <4>2. k \in 1 .. n + 1 /\ done'[k] = done[k]
          BY <1>3
        <4> QED
          BY <4>1, <4>2
      <3>2. CASE t = s /\ i = Len(log[s]) + 1
        <4>1. n + 1 \in 1 .. n + 1
          BY <1>3
        <4> QED
          BY <1>3, <3>2, <4>1
      <3>3. i \in 1 .. Len(log[t]) \/ (t = s /\ i = Len(log[s]) + 1)
        BY <1>3
      <3> QED
        BY <3>1, <3>2, <3>3
    <2> QED
      BY <1>3, <2>4, <2>5, <2>6 DEF Paired
  <1>6. \A t \in Sessions : Looked(t)'
    <2> TAKE t \in Sessions
    <2>p. PICK q, b : q = Pos(t) /\ b = old[t]
      OBVIOUS
    <2>L. Looked(t)
      BY DEF EditInv
    <2>1. CASE pc'[t] = "log" /\ b # Eof /\ q \notin marred
      <3>1. t # s /\ q # p
        BY <1>2, <1>n, <2>1, <2>p DEF EditInv, Alone, Busy
      <3>2. file[q] = New(t) /\ Leaves(n, q, b) /\ q \in 1 .. Size
        BY <1>2, <1>n, <2>1, <2>p, <2>L, <3>1 DEF Looked, Busy
      <3>3. Leaves(n + 1, q, b)'
        BY <1>l, <3>1, <3>2
      <3>4. Leaves(Len(done), Pos(t), old[t])'
        BY <1>2, <1>3, <1>b, <2>p, <3>3
      <3> QED
        BY <1>2, <1>b, <2>1, <2>p, <3>1, <3>2, <3>4 DEF Looked
    <2>2. CASE ~(pc'[t] = "log" /\ b # Eof /\ q \notin marred)
      BY <1>2, <1>b, <2>2, <2>p, <2>L DEF Looked, Busy
    <2> QED
      BY <2>1, <2>2
  <1>7. \A k \in 1 .. Len(done') : Told(k)'
    <2> TAKE k \in 1 .. Len(done')
    <2>1. CASE k = n + 1
      <3>1. /\ Atoi[Says(k)'.pos] = p /\ (c = Eof => Says(k)'.old = FF)
            /\ c # Eof => Says(k)'.old = c
        BY <1>1, <1>3, <1>n, <2>1, EntryType DEF Pos
      <3>2. c # Eof => p \in 1 .. Size
        BY <1>2, <1>n DEF EditInv, Looked, Busy
      <3>3. c # Eof /\ p \notin marred => Leaves(n, p, c)
        BY <1>2, <1>n DEF EditInv, Looked
      <3>4. c # Eof /\ p \notin marred => Leaves(k - 1, p, c)'
        <4>1. k - 1 = n /\ n \in 0 .. n
          BY <1>3, <2>1
        <4> QED
          BY <1>l, <3>3, <4>1
      <3>5. done'[k].put <=> c # Eof
        BY <1>3, <2>1
      <3> QED
        BY <1>2, <3>1, <3>2, <3>4, <3>5 DEF Told
    <2>2. CASE k \in 1 .. n
      <3>1. Told(k) /\ done'[k] = done[k] /\ Says(k)' = Says(k) /\ k - 1 \in 0 .. n
        BY <1>3, <1>n, <2>2 DEF EditInv
      <3>2. PICK e : e = Says(k)
        OBVIOUS
      <3>3. Leaves(k - 1, Atoi[e.pos], e.old)' <=> Leaves(k - 1, Atoi[e.pos], e.old)
        BY <1>l, <3>1
      <3> QED
        BY <1>2, <3>1, <3>2, <3>3 DEF Told
    <2> QED
      BY <1>3, <2>1, <2>2
  <1>8. \A q \in (1 .. Size) \ marred' : Unlogged(q)' \/ Leaves(Len(done), q, file[q])'
    <2> TAKE q \in (1 .. Size) \ marred'
    <2>p. PICK b : b = file[q]
      OBVIOUS
    <2>s. SUFFICES Unlogged(q)' \/ Leaves(n + 1, q, b)'
      BY <1>2, <1>3, <2>p
    <2>1. CASE q = p /\ c # Eof
      <3>1. b = New(s)
        BY <1>2, <1>n, <2>1, <2>p DEF EditInv, Looked
      <3> QED
        BY <1>l, <2>1, <3>1
    <2>2. CASE ~(q = p /\ c # Eof)
      <3>1. Unlogged(q) => Unlogged(q)'
        BY <1>2, <1>b, <1>n, <2>2 DEF Unlogged
      <3>2. Unlogged(q) \/ Leaves(n, q, b)
        BY <1>2, <1>n, <2>p DEF EditInv
      <3> QED
        BY <1>l, <2>2, <3>1, <3>2
    <2> QED
      BY <2>1, <2>2
  <1> QED
    BY <1>1, <1>4, <1>5, <1>6, <1>7, <1>8 DEF EditInv

LEMMA StepEditInv == EditInv /\ [Next]_vars => EditInv'
  <1> SUFFICES ASSUME EditInv, [Next]_vars PROVE EditInv'
    OBVIOUS
  <1>1. CASE UNCHANGED vars
    <2>1. TypeOK'
      BY <1>1, StepType DEF EditInv
    <2>2. UNCHANGED <<original, file, pc, edit, log, done, marred>>
      BY <1>1 DEF vars, edit
    <2> QED
      BY <2>1, <2>2, IdleKeeps
  <1> QED
    BY <1>1, DisplayKeeps, PeekKeeps, PutKeeps, LogKeeps DEF Next

-----------------------------------------------------------------------------
(* Every variable keeps its type; what is shown is never more than the     *)
(* file (hexedit.cpp:60-103).                                              *)
THEOREM TypeCorrect == Spec => []TypeOK
  <1>1. EditInv => TypeOK
    BY DEF EditInv
  <1> QED
    BY <1>1, InitEditInv, StepEditInv, PTL DEF Spec

(* Whatever the sessions and whatever fails, when no replacement is under  *)
(* way the logs tell the history of every byte that no two sessions        *)
(* replaced at once and the disk did not refuse (hexedit.cpp:105-135).     *)
THEOREM LogIsHistory == Spec => []LogTellsHistory
  <1>1. EditInv => LogTellsHistory
    <2> SUFFICES ASSUME EditInv, Quiet PROVE LogTellsHistory
      BY DEF LogTellsHistory
    <2>1. DOMAIN done = 1 .. Len(done) /\ \A s \in Sessions : DOMAIN log[s] = 1 .. Len(log[s])
      <3>1. done \in Seq(Deed) /\ log \in [Sessions -> Seq(Line)]
        BY DEF EditInv, TypeOK, Deed, Line
      <3> QED
        BY <3>1, LenProperties
    <2>2. \A p : ~Unlogged(p)
      BY DEF Quiet, Unlogged, Busy
    <2>3. \A n \in DOMAIN done : Told(n)
      BY <2>1 DEF EditInv
    <2>4. \A s \in Sessions : \A i \in DOMAIN log[s] :
             \E n \in DOMAIN done : done[n].session = s /\ done[n].row = i
      <3> TAKE s \in Sessions
      <3>1. \A i \in 1 .. Len(log[s]) :
               \E n \in 1 .. Len(done) : done[n].session = s /\ done[n].row = i
        BY DEF EditInv, Paired
      <3>2. DOMAIN log[s] = 1 .. Len(log[s]) /\ DOMAIN done = 1 .. Len(done)
        BY <2>1
      <3> QED
        BY <3>1, <3>2
    <2>5. \A m, n \in DOMAIN done :
             done[m].session = done[n].session /\ m < n => done[m].row < done[n].row
      BY <2>1 DEF EditInv, Paired
    <2>6. \A p \in (1 .. Size) \ marred : Leaves(Len(done), p, file[p])
      BY <2>2 DEF EditInv
    <2> QED
      BY <2>3, <2>4, <2>5, <2>6 DEF Told, LogTellsHistory
  <1> QED
    BY <1>1, InitEditInv, StepEditInv, PTL DEF Spec

(* What a replacement takes away is what the screen shows at its position, *)
(* if no white space is in front and nobody replaces it at the same time   *)
(* (hexedit.cpp:120-123).                                                  *)
THEOREM ReplacesTheShown == Spec => []ReplacesWhatIsShown
  <1>1. EditInv => ReplacesWhatIsShown
    <2> SUFFICES ASSUME EditInv, NEW s \in Sessions,
                        pc[s] = "put", Pos(s) \notin marred,
                        Skipped = 0, screen[s] = Shown, Pos(s) \in DOMAIN Shown,
                        old[s] # Eof
                 PROVE  old[s] = screen[s][Pos(s)]
      BY DEF ReplacesWhatIsShown
    <2>1. old[s] = file[Pos(s)] /\ Pos(s) \in 1 .. Size
      BY DEF EditInv, Looked, Busy
    <2>2. Shown[Pos(s)] = file[Pos(s)]
      BY <2>1, Numbers DEF Shown
    <2> QED
      BY <2>1, <2>2
  <1> QED
    BY <1>1, InitEditInv, StepEditInv, PTL DEF Spec

-----------------------------------------------------------------------------
Digit == 0 .. 15
Byte == 0 .. 255

(* With a name of its own, \o is opened up only where both are sequences.  *)
Joined(a, b) == a \o b

LEMMA JoinedDigits ==
    /\ \A a, b \in Seq(Digit) : Joined(a, b) \in Seq(Digit)
    /\ \A a, b, c \in Seq(Digit) : Joined(Joined(a, b), c) = Joined(a, Joined(b, c))
    /\ \A a \in Seq(Digit) : Joined(a, <<>>) = a /\ Joined(<<>>, a) = a
    /\ <<>> \in Seq(Digit)
  <1>1. \A a, b \in Seq(Digit) : Joined(a, b) \in Seq(Digit)
    BY ConcatProperties DEF Joined
  <1>2. ASSUME NEW a \in Seq(Digit), NEW b \in Seq(Digit), NEW c \in Seq(Digit)
        PROVE  Joined(Joined(a, b), c) = Joined(a, Joined(b, c))
    BY ConcatAssociative DEF Joined
  <1>3. \A a \in Seq(Digit) : Joined(a, <<>>) = a /\ Joined(<<>>, a) = a
    BY ConcatEmptySeq DEF Joined
  <1> QED
    BY <1>1, <1>2, <1>3, EmptySeq

LEMMA DigitsOfBytes ==
    /\ Digits \in [Byte -> Seq(Digit)] /\ Typed \in [Byte -> Seq(Digit)]
    /\ \A b \in 16 .. 127 : Digits[b] = Typed[b]
    /\ \A b \in 16 .. 255 : \E sign \in Seq(Digit) : Digits[b] = Joined(sign, Typed[b])
  <1>1. \A b \in Byte : b \div 16 \in Digit /\ b % 16 \in Digit
    BY DEF Byte, Digit
  <1>2. \A b \in Byte : Typed[b] = <<b \div 16, b % 16>>
    BY DEF Typed, Byte
  <1>3. \A b \in Byte : Typed[b] \in Seq(Digit)
    <2>1. \A x, y \in Digit : <<x, y>> \in Seq(Digit)
      OBVIOUS
    <2> QED
      BY <1>1, <1>2, <2>1
  <1> DEFINE ones == <<15, 15, 15, 15, 15, 15>>
  <1>4. ones \in Seq(Digit) /\ <<>> \in Seq(Digit)
    BY DEF Digit
  <1>5. \A b \in Byte : b < 16 => <<b>> \in Seq(Digit)
    BY DEF Digit, Byte
  <1>6. \A b \in Byte : Digits[b] = IF b < 16 THEN <<b>>
                                    ELSE Joined(IF b < 128 THEN <<>> ELSE ones, Typed[b])
    BY <1>2 DEF Digits, Byte, Joined
  <1> HIDE DEF ones
  <1>7. \A b \in Byte : Digits[b] \in Seq(Digit)
    <2> TAKE b \in Byte
    <2>1. Joined(ones, Typed[b]) \in Seq(Digit) /\ Joined(<<>>, Typed[b]) \in Seq(Digit)
      BY <1>3, <1>4, JoinedDigits
    <2> QED
      BY <1>5, <1>6, <2>1
  <1>8. \A b \in 16 .. 127 : Digits[b] = Typed[b]
    <2> TAKE b \in 16 .. 127
    <2>1. b \in Byte /\ ~(b < 16) /\ b < 128
      BY DEF Byte
    <2>2. Digits[b] = Joined(<<>>, Typed[b])
      BY <1>6, <2>1
    <2> QED
      BY <1>3, <2>1, <2>2, JoinedDigits
  <1>9. \A b \in 16 .. 255 : \E sign \in Seq(Digit) : Digits[b] = Joined(sign, Typed[b])
    <2> TAKE b \in 16 .. 255
    <2>1. b \in Byte /\ ~(b < 16)
      BY DEF Byte
    <2>2. Digits[b] = Joined(IF b < 128 THEN <<>> ELSE ones, Typed[b])
      BY <1>6, <2>1
    <2> QED
      BY <1>4, <2>2
  <1>10. Digits \in [Byte -> Seq(Digit)]
    <2>1. Digits = [b \in Byte |-> Digits[b]]
      BY DEF Digits, Byte
    <2> QED
      BY <1>7, <2>1
  <1>11. Typed \in [Byte -> Seq(Digit)]
    <2>1. Typed = [b \in Byte |-> Typed[b]]
      BY DEF Typed, Byte
    <2> QED
      BY <1>3, <2>1
  <1> QED
    BY <1>8, <1>9, <1>10, <1>11

(* Strung is what its definition says: there is such a function.           *)
LEMMA StrungIs ==
    ASSUME NEW digits, NEW s, Len(s) \in Nat
    PROVE  /\ DOMAIN Strung(digits, s) = 0 .. Len(s)
           /\ Strung(digits, s)[0] = <<>>
           /\ \A k \in 1 .. Len(s) :
                 Strung(digits, s)[k] = Joined(Strung(digits, s)[k - 1], digits[s[k]])
  <1> DEFINE Upto(m, g) ==
               g = [k \in 0 .. m |-> IF k = 0 THEN <<>> ELSE Joined(g[k - 1], digits[s[k]])]
             Bad == {m \in Nat : ~\E g : Upto(m, g)}
  <1>1. Bad = {}
    <2> SUFFICES ASSUME Bad # {} PROVE FALSE
      OBVIOUS
    <2>1. PICK m \in Bad : \A k \in Bad : m <= k
      <3>1. Bad \in SUBSET Nat
        OBVIOUS
      <3> HIDE DEF Bad
      <3> QED
        BY <3>1, Least
    <2>2. m # 0
      <3> DEFINE g == [k \in 0 .. 0 |-> <<>>]
      <3>1. \A k \in 0 .. 0 : k = 0
        OBVIOUS
      <3>2. g = [k \in 0 .. 0 |-> IF k = 0 THEN <<>> ELSE Joined(g[k - 1], digits[s[k]])]
        BY <3>1
      <3>3. \E f : Upto(0, f)
        BY <3>2
      <3> HIDE DEF Upto
      <3> QED
        BY <2>1, <3>3
    <2>3. m - 1 \in Nat /\ m - 1 \notin Bad /\ m \in Nat
      <3>1. m \in Nat
        OBVIOUS
      <3>2. m - 1 \in Nat /\ ~(m <= m - 1)
        BY <2>2, <3>1
      <3> HIDE DEF Bad
      <3> QED
        BY <2>1, <3>1, <3>2
    <2>4. PICK f : Upto(m - 1, f)
      <3> HIDE DEF Upto
      <3> QED
        BY <2>3
    <2> DEFINE g == [k \in 0 .. m |-> IF k = m THEN Joined(f[m - 1], digits[s[m]]) ELSE f[k]]
    <2>5. DOMAIN f = 0 .. m - 1
      BY <2>4
    <2>6. \A k \in 0 .. m - 1 : f[k] = IF k = 0 THEN <<>> ELSE Joined(f[k - 1], digits[s[k]])
      BY <2>4
    <2>7. \A k \in 0 .. m : g[k] = IF k = 0 THEN <<>> ELSE Joined(g[k - 1], digits[s[k]])
      <3> TAKE k \in 0 .. m
      <3>1. CASE k = m
        <4>0. m \in 0 .. m /\ m - 1 \in 0 .. m /\ m - 1 # m
          BY <2>2, <2>3
        <4>1. g[m] = Joined(f[m - 1], digits[s[m]]) /\ g[m - 1] = f[m - 1]
          BY <4>0
        <4> QED
          BY <2>2, <3>1, <4>1
      <3>2. CASE k # m
        <4>1. k \in 0 .. m - 1
          BY <2>3, <3>2
        <4>2. g[k] = f[k] /\ (k # 0 => g[k - 1] = f[k - 1])
          BY <2>3, <4>1
        <4> QED
          BY <2>6, <4>1, <4>2
      <3> QED
        BY <3>1, <3>2
    <2>8. DOMAIN g = 0 .. m /\ g = [k \in DOMAIN g |-> g[k]]
      OBVIOUS
    <2> HIDE DEF g
    <2>9. Upto(m, g)
      BY <2>7, <2>8
    <2> QED
      BY <2>1, <2>9
  <1>2. PICK f : Upto(Len(s), f)
    <2>1. Len(s) \notin Bad
      BY <1>1
    <2> HIDE DEF Upto
    <2> QED
      BY <2>1
  <1>3. Strung(digits, s) = CHOOSE g : Upto(Len(s), g)
    BY DEF Strung, Joined
  <1> HIDE DEF Upto
  <1>4. Upto(Len(s), Strung(digits, s))
    BY <1>2, <1>3
  <1> DEFINE h == Strung(digits, s)
  <1>5. h = [k \in 0 .. Len(s) |-> IF k = 0 THEN <<>> ELSE Joined(h[k - 1], digits[s[k]])]
    BY <1>4 DEF Upto
  <1> HIDE DEF h
  <1>6. DOMAIN h = 0 .. Len(s)
    BY <1>5
  <1>7. \A k \in 0 .. Len(s) : h[k] = IF k = 0 THEN <<>> ELSE Joined(h[k - 1], digits[s[k]])
    BY <1>5
  <1>8. 0 \in 0 .. Len(s) /\ \A k \in 1 .. Len(s) : k \in 0 .. Len(s) /\ k # 0
    OBVIOUS
  <1>9. h[0] = <<>> /\ \A k \in 1 .. Len(s) : h[k] = Joined(h[k - 1], digits[s[k]])
    BY <1>7, <1>8
  <1> QED
    BY <1>6, <1>9 DEF h

LEMMA StrungSeq ==
    ASSUME NEW digits \in [Byte -> Seq(Digit)], NEW s \in Seq(Byte)
    PROVE  \A k \in 0 .. Len(s) : Strung(digits, s)[k] \in Seq(Digit)
  <1> DEFINE h == Strung(digits, s)
             Bad == {k \in 0 .. Len(s) : h[k] \notin Seq(Digit)}
  <1>1. Len(s) \in Nat /\ \A k \in 1 .. Len(s) : s[k] \in Byte
    BY LenProperties, ElementOfSeq
  <1>2. h[0] = <<>> /\ \A k \in 1 .. Len(s) : h[k] = Joined(h[k - 1], digits[s[k]])
    <2>1. Len(s) \in Nat
      BY <1>1
    <2> QED
      BY <2>1, StrungIs
  <1> HIDE DEF h
  <1> SUFFICES ASSUME Bad # {} PROVE FALSE
    BY DEF h
  <1>3. PICK m \in Bad : \A k \in Bad : m <= k
    <2>1. Bad \in SUBSET Nat
      BY <1>1
    <2> HIDE DEF Bad
    <2> QED
      BY <2>1, Least
  <1>4. m # 0
    BY <1>2, EmptySeq
  <1>5. m \in 1 .. Len(s) /\ m - 1 \in 0 .. Len(s) /\ ~(m <= m - 1)
    BY <1>1, <1>4
  <1>6. h[m - 1] \in Seq(Digit)
    BY <1>3, <1>5
  <1>7. h[m] = Joined(h[m - 1], digits[s[m]]) /\ digits[s[m]] \in Seq(Digit)
    BY <1>1, <1>2, <1>5
  <1>8. PICK a \in Seq(Digit), b \in Seq(Digit) : a = h[m - 1] /\ b = digits[s[m]]
    BY <1>6, <1>7
  <1>9. Joined(a, b) \in Seq(Digit)
    BY JoinedDigits
  <1>10. h[m] = Joined(a, b)
    BY <1>7, <1>8
  <1> QED
    BY <1>9, <1>10

LEMMA StrungSteps ==
    ASSUME NEW digits \in [Byte -> Seq(Digit)], NEW s \in Seq(Byte)
    PROVE  /\ Strung(digits, s)[0] = <<>>
           /\ \A k \in 1 .. Len(s) :
                 Strung(digits, s)[k] = Joined(Strung(digits, s)[k - 1], digits[s[k]])
  <1> DEFINE h == Strung(digits, s)
  <1>1. Len(s) \in Nat
    BY LenProperties
  <1>2. h[0] = <<>> /\ \A k \in 1 .. Len(s) : h[k] = Joined(h[k - 1], digits[s[k]])
    BY <1>1, StrungIs
  <1> QED
    BY <1>2

(* What is strung goes on from what was strung before.                     *)
LEMMA Grows ==
    ASSUME NEW digits \in [Byte -> Seq(Digit)], NEW s \in Seq(Byte),
           NEW p \in 0 .. Len(s)
    PROVE  \A q \in p .. Len(s) : \E more \in Seq(Digit) :
              Strung(digits, s)[q] = Joined(Strung(digits, s)[p], more)
  <1> DEFINE h == Strung(digits, s)
             On(q) == \E more \in Seq(Digit) : h[q] = Joined(h[p], more)
             Bad == {q \in p .. Len(s) : ~On(q)}
  <1>1. Len(s) \in Nat /\ \A k \in 1 .. Len(s) : s[k] \in Byte
    BY LenProperties, ElementOfSeq
  <1>2. \A k \in 1 .. Len(s) : h[k] = Joined(h[k - 1], digits[s[k]])
    <2>1. Len(s) \in Nat
      BY <1>1
    <2> QED
      BY <2>1, StrungIs
  <1>3. h[p] \in Seq(Digit)
    BY StrungSeq
  <1> HIDE DEF h
  <1> SUFFICES ASSUME Bad # {} PROVE FALSE
    BY DEF h
  <1>4. PICK m \in Bad : \A k \in Bad : m <= k
    <2>1. Bad \in SUBSET Nat
      BY <1>1
    <2> HIDE DEF Bad
    <2> QED
      BY <2>1, Least
  <1>5. m # p
    <2>1. <<>> \in Seq(Digit) /\ h[p] = Joined(h[p], <<>>)
      BY <1>3, JoinedDigits
    <2>2. On(p)
      BY <2>1
    <2> HIDE DEF On
    <2> QED
      BY <2>2
  <1>6. m \in 1 .. Len(s) /\ m - 1 \in p .. Len(s) /\ ~(m <= m - 1)
    BY <1>1, <1>5
  <1>7. On(m - 1)
    <2> HIDE DEF On
    <2> QED
      BY <1>4, <1>6
  <1>8. PICK more \in Seq(Digit) : h[m - 1] = Joined(h[p], more)
    BY <1>7
  <1>9. h[m] = Joined(h[m - 1], digits[s[m]]) /\ digits[s[m]] \in Seq(Digit)
    BY <1>1, <1>2, <1>6
  <1>10. PICK a \in Seq(Digit), b \in Seq(Digit) : a = h[p] /\ b = digits[s[m]]
    BY <1>3, <1>9
  <1>11. /\ Joined(Joined(a, more), b) = Joined(a, Joined(more, b))
         /\ Joined(more, b) \in Seq(Digit)
    BY JoinedDigits
  <1>12. h[m] = Joined(Joined(a, more), b)
    BY <1>8, <1>9, <1>10
  <1>13. On(m)
    BY <1>10, <1>11, <1>12
  <1> HIDE DEF On
  <1> QED
    BY <1>13

(* The part of a concatenation that was put in its middle is found there.  *)
LEMMA FoundBetween ==
    ASSUME NEW before \in Seq(Digit), NEW sub \in Seq(Digit), NEW after \in Seq(Digit)
    PROVE  Found(sub, Joined(Joined(before, sub), after))
  <1> DEFINE s == (before \o sub) \o after
             a == Len(before)
             n == Len(sub)
  <1>1. a \in Nat /\ n \in Nat /\ Len(after) \in Nat
    BY LenProperties
  <1>2. /\ before \o sub \in Seq(Digit) /\ Len(before \o sub) = a + n
        /\ \A i \in 1 .. a + n : (before \o sub)[i] = IF i <= a THEN before[i] ELSE sub[i - a]
    BY ConcatProperties
  <1>3. /\ s \in Seq(Digit) /\ Len(s) = a + n + Len(after)
        /\ \A i \in 1 .. a + n + Len(after) :
              s[i] = IF i <= a + n THEN (before \o sub)[i] ELSE after[i - (a + n)]
    BY <1>2, ConcatProperties
  <1>4. \A j \in 1 .. n : s[a + j] = sub[j]
    <2> TAKE j \in 1 .. n
    <2>1. /\ a + j \in 1 .. a + n /\ a + j \in 1 .. a + n + Len(after)
          /\ a + j <= a + n /\ ~(a + j <= a) /\ (a + j) - a = j
      BY <1>1
    <2> HIDE DEF s, a, n
    <2>2. s[a + j] = (before \o sub)[a + j]
      BY <1>3, <2>1
    <2> QED
      BY <1>2, <2>1, <2>2
  <1> HIDE DEF s
  <1>5. \A i \in a + 1 .. a + n : s[i] \in Digit
    <2> TAKE i \in a + 1 .. a + n
    <2>1. i \in 1 .. Len(s)
      BY <1>1, <1>3
    <2> QED
      BY <1>3, <2>1, ElementOfSeq
  <1>6. /\ SubSeq(s, a + 1, a + n) \in Seq(Digit)
        /\ Len(SubSeq(s, a + 1, a + n)) = n
        /\ \A j \in 1 .. n : SubSeq(s, a + 1, a + n)[j] = s[a + j]
    <2>1. a + 1 \in Int /\ a + n \in Int /\ (a + n) - (a + 1) + 1 = n
          /\ (~(a + 1 <= a + n) => n = 0) /\ \A j \in 1 .. n : (a + 1) + j - 1 = a + j
      BY <1>1
    <2> HIDE DEF a, n
    <2>2. /\ SubSeq(s, a + 1, a + n) \in Seq(Digit)
          /\ Len(SubSeq(s, a + 1, a + n)) =
                IF a + 1 <= a + n THEN (a + n) - (a + 1) + 1 ELSE 0
          /\ \A j \in 1 .. (a + n) - (a + 1) + 1 :
                SubSeq(s, a + 1, a + n)[j] = s[(a + 1) + j - 1]
      BY <1>5, <2>1, SubSeqProperties
    <2> QED
      BY <2>1, <2>2
  <1>7. SubSeq(s, a + 1, a + n) = sub
    <2> DEFINE t == SubSeq(s, a + 1, a + n)
    <2>1. t \in Seq(Digit) /\ Len(t) = Len(sub) /\ \A j \in 1 .. Len(t) : t[j] = sub[j]
      BY <1>4, <1>6
    <2> HIDE DEF t
    <2>2. t = sub
      BY <2>1, SeqEqual
    <2> QED
      BY <2>2 DEF t
  <1>8. a \in 0 .. Len(s) /\ a + n <= Len(s)
    BY <1>1, <1>3
  <1>9. Found(sub, s)
    BY <1>7, <1>8 DEF Found, FoundAt
  <1> QED
    BY <1>9 DEF s, Joined

(* Where a line has the bytes of a plain key, ToHex has, after the sign of *)
(* the first, the digits that are typed for them.                          *)
LEMMA Aligned ==
    ASSUME NEW l \in Seq(Byte), NEW k \in Seq(Byte), Len(k) >= 1,
           NEW o \in 0 .. Len(l), o + Len(k) <= Len(l),
           \A j \in 1 .. Len(k) : l[o + j] = k[j],
           k[1] >= 16, \A j \in 2 .. Len(k) : k[j] \in 16 .. 127
    PROVE  \E A \in Seq(Digit) :
              Strung(Digits, l)[o + Len(k)] = Joined(A, Strung(Typed, k)[Len(k)])
  <1> DEFINE h == Strung(Digits, l)
             t == Strung(Typed, k)
             Fits(j) == \E A \in Seq(Digit) : h[o + j] = Joined(A, t[j])
             Bad == {j \in 1 .. Len(k) : ~Fits(j)}
  <1>1. /\ Len(l) \in Nat /\ Len(k) \in Nat /\ o \in Nat
        /\ \A j \in 1 .. Len(k) : k[j] \in Byte
    BY LenProperties, ElementOfSeq
  <1>2. \A q \in 1 .. Len(l) : h[q] = Joined(h[q - 1], Digits[l[q]])
    BY DigitsOfBytes, StrungSteps
  <1>3. t[0] = <<>> /\ \A j \in 1 .. Len(k) : t[j] = Joined(t[j - 1], Typed[k[j]])
    BY DigitsOfBytes, StrungSteps
  <1>4. \A q \in 0 .. Len(l) : h[q] \in Seq(Digit)
    BY DigitsOfBytes, StrungSeq
  <1>5. \A j \in 0 .. Len(k) : t[j] \in Seq(Digit)
    BY DigitsOfBytes, StrungSeq
  <1>6. \A j \in 1 .. Len(k) : /\ o + j \in 1 .. Len(l) /\ (o + j) - 1 \in 0 .. Len(l)
                               /\ (o + j) - 1 = o + (j - 1) /\ j - 1 \in 0 .. Len(k)
    BY <1>1
  <1> HIDE DEF h, t
  <1>7. \A j \in 1 .. Len(k) : h[o + j] = Joined(h[o + (j - 1)], Digits[k[j]])
    BY <1>2, <1>6
  <1>8. \A b \in Byte : Typed[b] \in Seq(Digit) /\ Digits[b] \in Seq(Digit)
    BY DigitsOfBytes
  <1>9. Bad = {}
    <2> SUFFICES ASSUME Bad # {} PROVE FALSE
      OBVIOUS
    <2>1. PICK m \in Bad : \A j \in Bad : m <= j
      <3>1. Bad \in SUBSET Nat
        BY <1>1
      <3> HIDE DEF Bad
      <3> QED
        BY <3>1, Least
    <2>2. m \in 1 .. Len(k) /\ k[m] \in Byte
      BY <1>1
    <2>3. CASE m = 1
      <3>1. k[1] \in 16 .. 255
        <4>1. PICK b \in Byte : b = k[1]
          BY <2>2, <2>3
        <4>2. b >= 16 => b \in 16 .. 255
          BY DEF Byte
        <4> QED
          BY <4>1, <4>2
      <3>2. PICK sign \in Seq(Digit) : Digits[k[1]] = Joined(sign, Typed[k[1]])
        BY <3>1, DigitsOfBytes
      <3>3. PICK b \in Seq(Digit), c \in Seq(Digit) : b = h[o + 0] /\ c = Typed[k[1]]
        <4>1. o + 0 \in 0 .. Len(l)
          BY <1>1
        <4> QED
          BY <1>4, <1>8, <2>2, <2>3, <4>1
      <3>4. t[1] = c
        <4>1. t[1] = Joined(<<>>, c) /\ 1 - 1 = 0
          BY <1>3, <2>2, <2>3, <3>3
        <4> QED
          BY <4>1, JoinedDigits
      <3>5. h[o + 1] = Joined(b, Joined(sign, c))
        <4>1. h[o + 1] = Joined(h[o + (1 - 1)], Digits[k[1]]) /\ 1 - 1 = 0
          BY <1>7, <2>2, <2>3
        <4> QED
          BY <3>2, <3>3, <4>1
      <3>6. Joined(b, Joined(sign, c)) = Joined(Joined(b, sign), c) /\ Joined(b, sign) \in Seq(Digit)
        BY JoinedDigits
      <3>7. Fits(1)
        BY <3>4, <3>5, <3>6
      <3> HIDE DEF Fits
      <3> QED
        BY <2>1, <2>3, <3>7
    <2>4. CASE m # 1
      <3>1. /\ m \in 2 .. Len(k) /\ m - 1 \in 1 .. Len(k) /\ ~(m <= m - 1)
            /\ m - 1 \in 0 .. Len(k)
        BY <1>1, <2>2, <2>4
      <3>2. k[m] \in 16 .. 127
        BY <3>1
      <3>3. Digits[k[m]] = Typed[k[m]]
        BY <3>2, DigitsOfBytes
      <3>4. Fits(m - 1)
        <4> HIDE DEF Fits
        <4> QED
          BY <2>1, <3>1
      <3>5. PICK A \in Seq(Digit) : h[o + (m - 1)] = Joined(A, t[m - 1])
        BY <3>4
      <3>6. PICK b \in Seq(Digit), c \in Seq(Digit) : b = t[m - 1] /\ c = Typed[k[m]]
        BY <1>5, <1>8, <2>2, <3>1
      <3>7. h[o + m] = Joined(Joined(A, b), c)
        BY <1>7, <2>2, <3>3, <3>5, <3>6
      <3>8. t[m] = Joined(b, c)
        BY <1>3, <2>2, <3>6
      <3>9. Joined(Joined(A, b), c) = Joined(A, Joined(b, c))
        BY JoinedDigits
      <3>10. Fits(m)
        BY <3>7, <3>8, <3>9
      <3> HIDE DEF Fits
      <3> QED
        BY <2>1, <3>10
    <2> QED
      BY <2>3, <2>4
  <1>10. Fits(Len(k))
    <2>1. Len(k) \in 1 .. Len(k)
      BY <1>1
    <2> HIDE DEF Fits
    <2> QED
      BY <1>9, <2>1
  <1> QED
    BY <1>10 DEF h, t

(* A line that has a plain key has its digits in its own.                  *)
LEMMA HexFound ==
    ASSUME NEW l \in Seq(Byte), NEW k \in Seq(Byte), Plain(k), Found(k, l)
    PROVE  Found(TypedIn(k), ToHex(l))
  <1>1. Len(l) \in Nat /\ Len(k) \in Nat /\ Len(k) >= 1 /\ Head(k) = k[1]
    <2>1. k # <<>>
      BY DEF Plain
    <2>2. Len(k) # 0
      BY <2>1, EmptySeq
    <2> QED
      BY <2>1, <2>2, LenProperties, HeadTailProperties
  <1>2. k[1] >= 16 /\ \A j \in 2 .. Len(k) : k[j] \in 16 .. 127
    BY <1>1 DEF Plain
  <1>3. PICK o \in 0 .. Len(l) : o + Len(k) <= Len(l) /\ SubSeq(l, o + 1, o + Len(k)) = k
    BY DEF Found, FoundAt
  <1>4. \A j \in 1 .. Len(k) : l[o + j] = k[j]
    <2> DEFINE n == Len(k)
    <2>1. o + 1 \in Int /\ o + n \in Int /\ (o + n) - (o + 1) + 1 = n
          /\ \A j \in 1 .. n : (o + 1) + j - 1 = o + j
      BY <1>1
    <2>2. \A i \in o + 1 .. o + n : l[i] \in Byte
      <3> TAKE i \in o + 1 .. o + n
      <3>1. i \in 1 .. Len(l)
        BY <1>1, <1>3
      <3> QED
        BY <3>1, ElementOfSeq
    <2> HIDE DEF n
    <2>3. \A j \in 1 .. (o + n) - (o + 1) + 1 : SubSeq(l, o + 1, o + n)[j] = l[(o + 1) + j - 1]
      BY <2>1, <2>2, SubSeqProperties
    <2>4. \A j \in 1 .. n : SubSeq(l, o + 1, o + n)[j] = l[o + j]
      BY <2>1, <2>3
    <2> QED
      BY <1>3, <2>4 DEF n
  <1>5. PICK A \in Seq(Digit) :
           Strung(Digits, l)[o + Len(k)] = Joined(A, Strung(Typed, k)[Len(k)])
    <2> HIDE DEF Plain
    <2> QED
      BY <1>1, <1>2, <1>3, <1>4, Aligned
  <1>6. PICK more \in Seq(Digit) :
           Strung(Digits, l)[Len(l)] = Joined(Strung(Digits, l)[o + Len(k)], more)
    <2>1. o + Len(k) \in 0 .. Len(l) /\ Len(l) \in o + Len(k) .. Len(l)
      BY <1>1, <1>3
    <2>2. \A q \in o + Len(k) .. Len(l) : \E more \in Seq(Digit) :
              Strung(Digits, l)[q] = Joined(Strung(Digits, l)[o + Len(k)], more)
      BY <2>1, Grows, DigitsOfBytes
    <2> QED
      BY <2>1, <2>2
  <1>7. Strung(Typed, k)[Len(k)] \in Seq(Digit)
    <2>1. Len(k) \in 0 .. Len(k)
      BY <1>1
    <2> QED
      BY <2>1, StrungSeq, DigitsOfBytes
  <1>8. ToHex(l) = Joined(Joined(A, TypedIn(k)), more) /\ TypedIn(k) \in Seq(Digit)
    BY <1>5, <1>6, <1>7 DEF ToHex, TypedIn
  <1>9. Found(TypedIn(k), Joined(Joined(A, TypedIn(k)), more))
    BY <1>8, FoundBetween
  <1> QED
    BY <1>8, <1>9

-----------------------------------------------------------------------------
LEMMA LowerIsAlike ==
    /\ \A a \in Byte : Lower[a] \in Byte
    /\ \A a, b \in Byte : Lower[a] = Lower[b] <=> Alike(a, b)
    /\ \A a, b \in Byte : Lower[a] = b <=> Alike(a, b) /\ b \notin Capitals
  <1>1. \A a \in Byte : Lower[a] = IF a \in Capitals THEN a + 32 ELSE a
    BY DEF Lower, Byte
  <1>2. \A a \in Byte : Lower[a] \in Byte
    BY <1>1 DEF Byte, Capitals
  <1>3. ASSUME NEW a \in Byte, NEW b \in Byte
        PROVE  /\ Lower[a] = Lower[b] <=> Alike(a, b)
               /\ Lower[a] = b <=> Alike(a, b) /\ b \notin Capitals
    <2>1. PICK c \in Byte, d \in Byte :
             /\ c = Lower[a] /\ c = IF a \in Capitals THEN a + 32 ELSE a
             /\ d = Lower[b] /\ d = IF b \in Capitals THEN b + 32 ELSE b
      BY <1>1, <1>2
    <2>2. /\ c = d <=> Alike(a, b)
          /\ c = b <=> Alike(a, b) /\ b \notin Capitals
      BY <2>1 DEF Byte, Capitals, Alike
    <2> QED
      BY <2>1, <2>2
  <1> QED
    BY <1>2, <1>3

LEMMA FoldIs ==
    ASSUME NEW s \in Seq(Byte)
    PROVE  /\ Fold(s) \in Seq(Byte) /\ Len(Fold(s)) = Len(s)
           /\ \A i \in 1 .. Len(s) : s[i] \in Byte /\ Fold(s)[i] = Lower[s[i]]
  <1>1. PICK m \in Nat : m = Len(s) /\ DOMAIN s = 1 .. m
    BY LenProperties
  <1>2. \A i \in 1 .. m : s[i] \in Byte
    BY <1>1, ElementOfSeq
  <1>3. PICK t : t = [i \in 1 .. m |-> Lower[s[i]]]
    OBVIOUS
  <1>4. t \in Seq(Byte) /\ Len(t) = m /\ \A i \in 1 .. m : t[i] = Lower[s[i]]
    <2>1. \A i \in 1 .. m : Lower[s[i]] \in Byte
      BY <1>2, LowerIsAlike
    <2>2. t \in [1 .. m -> Byte]
      BY <1>3, <2>1
    <2>3. t \in Seq(Byte) /\ DOMAIN t = 1 .. m
      BY <1>1, <2>2, SeqDef
    <2>4. Len(t) = m
      BY <1>1, <2>3, LenProperties
    <2> QED
      BY <1>3, <2>3, <2>4
  <1>5. Fold(s) = t
    BY <1>1, <1>3 DEF Fold
  <1> QED
    BY <1>1, <1>2, <1>4, <1>5

(* Where a sequence is found the elements are the same.                    *)
LEMMA FoundAtIs ==
    ASSUME NEW s \in Seq(Byte), NEW sub \in Seq(Byte), NEW o \in Nat
    PROVE  FoundAt(o, sub, s) <=>
              o + Len(sub) <= Len(s) /\ \A j \in 1 .. Len(sub) : s[o + j] = sub[j]
  <1>1. PICK n \in Nat : n = Len(sub)
    BY LenProperties
  <1>2. Len(s) \in Nat
    BY LenProperties
  <1> SUFFICES ASSUME o + n <= Len(s)
               PROVE  SubSeq(s, o + 1, o + n) = sub <=> \A j \in 1 .. n : s[o + j] = sub[j]
    BY <1>1 DEF FoundAt
  <1>3. /\ o + 1 \in Int /\ o + n \in Int /\ (o + n) - (o + 1) + 1 = n
        /\ (~(o + 1 <= o + n) => n = 0) /\ \A j \in 1 .. n : (o + 1) + j - 1 = o + j
    OBVIOUS
  <1>4. \A i \in o + 1 .. o + n : s[i] \in Byte
    <2> TAKE i \in o + 1 .. o + n
    <2>1. i \in 1 .. Len(s)
      BY <1>2
    <2> QED
      BY <2>1, ElementOfSeq
  <1>5. PICK t : t = SubSeq(s, o + 1, o + n)
    OBVIOUS
  <1>6. t \in Seq(Byte) /\ Len(t) = n /\ \A j \in 1 .. n : t[j] = s[o + j]
    <2>1. /\ SubSeq(s, o + 1, o + n) \in Seq(Byte)
          /\ Len(SubSeq(s, o + 1, o + n)) =
                IF o + 1 <= o + n THEN (o + n) - (o + 1) + 1 ELSE 0
          /\ \A j \in 1 .. (o + n) - (o + 1) + 1 :
                SubSeq(s, o + 1, o + n)[j] = s[(o + 1) + j - 1]
      BY <1>3, <1>4, SubSeqProperties
    <2> QED
      BY <1>3, <1>5, <2>1
  <1>7. t = sub <=> \A j \in 1 .. n : t[j] = sub[j]
    BY <1>1, <1>6, SeqEqual
  <1> QED
    BY <1>5, <1>6, <1>7

(* In small letters, bytes are found where they are alike; in a name, if   *)
(* it has no capital there.                                                *)
LEMMA FoldedIsFound ==
    ASSUME NEW s \in Seq(Byte), NEW sub \in Seq(Byte)
    PROVE  /\ Found(Fold(sub), Fold(s)) <=> \E o \in 0 .. Len(s) : AlikeAt(o, sub, s)
           /\ FoundAt(0, Fold(sub), s) <=> Begins(sub, s)
  <1>1. PICK f \in Seq(Byte) :
           /\ f = Fold(sub) /\ Len(f) = Len(sub)
           /\ \A i \in 1 .. Len(sub) : sub[i] \in Byte /\ f[i] = Lower[sub[i]]
    BY FoldIs
  <1>2. PICK g \in Seq(Byte) :
           /\ g = Fold(s) /\ Len(g) = Len(s)
           /\ \A i \in 1 .. Len(s) : s[i] \in Byte /\ g[i] = Lower[s[i]]
    BY FoldIs
  <1>3. Len(s) \in Nat /\ Len(sub) \in Nat
    BY LenProperties
  <1>4. ASSUME NEW o \in 0 .. Len(s) PROVE FoundAt(o, f, g) <=> AlikeAt(o, sub, s)
    <2>1. o \in Nat
      BY <1>3
    <2>2. FoundAt(o, f, g) <=>
             o + Len(sub) <= Len(s) /\ \A j \in 1 .. Len(sub) : g[o + j] = f[j]
      BY <1>1, <1>2, <2>1, FoundAtIs
    <2>3. ASSUME o + Len(sub) <= Len(s), NEW j \in 1 .. Len(sub)
          PROVE  g[o + j] = f[j] <=> Alike(sub[j], s[o + j])
      <3>1. o + j \in 1 .. Len(s)
        BY <1>3, <2>3
      <3>2. /\ g[o + j] = Lower[s[o + j]] /\ s[o + j] \in Byte
            /\ f[j] = Lower[sub[j]] /\ sub[j] \in Byte
        BY <1>1, <1>2, <3>1
      <3> QED
        BY <3>2, LowerIsAlike
    <2> QED
      BY <2>2, <2>3 DEF AlikeAt
  <1>5. FoundAt(0, f, s) <=> Begins(sub, s)
    <2>1. FoundAt(0, f, s) <=>
             0 + Len(sub) <= Len(s) /\ \A j \in 1 .. Len(sub) : s[0 + j] = f[j]
      <3>1. \A o \in Nat : FoundAt(o, f, s) <=>
               o + Len(f) <= Len(s) /\ \A j \in 1 .. Len(f) : s[o + j] = f[j]
        BY FoundAtIs
      <3> QED
        BY <1>1, <3>1
    <2>2. ASSUME 0 + Len(sub) <= Len(s), NEW j \in 1 .. Len(sub)
          PROVE  s[0 + j] = f[j] <=> Alike(sub[j], s[0 + j]) /\ s[j] \notin Capitals
      <3>1. j \in 1 .. Len(s) /\ 0 + j = j
        BY <1>3, <2>2
      <3>2. s[j] \in Byte /\ f[j] = Lower[sub[j]] /\ sub[j] \in Byte
        BY <1>1, <1>2, <3>1
      <3> QED
        BY <3>1, <3>2, LowerIsAlike
    <2> QED
      BY <2>1, <2>2 DEF Begins, AlikeAt
  <1> QED
    BY <1>1, <1>2, <1>4, <1>5 DEF Found

-----------------------------------------------------------------------------
(* Numbers of positions.                                                   *)
LEMMA MorePositions ==
    ASSUME NEW m \in Nat, NEW A \in SUBSET (1 .. m), NEW k \in Nat
    PROVE  /\ Cardinality(A) \in Nat
           /\ Cardinality(A \cup (m + 1 .. m + k)) = Cardinality(A) + k
  <1> DEFINE B == m + 1 .. m + k
  <1>1. IsFiniteSet(1 .. m) /\ IsFiniteSet(B)
    BY FS_Interval
  <1>2. IsFiniteSet(A) /\ Cardinality(A) \in Nat
    BY <1>1, FS_Subset, FS_CardinalityType
  <1>3. Cardinality(B) = k
    <2>1. Cardinality(B) = IF m + 1 > m + k THEN 0 ELSE (m + k) - (m + 1) + 1
      BY FS_Interval
    <2> QED
      BY <2>1
  <1>4. A \cap B = {}
    OBVIOUS
  <1>5. Cardinality(A \cup B) = Cardinality(A) + Cardinality(B) - Cardinality(A \cap B)
    BY <1>1, <1>2, FS_Union
  <1>6. Cardinality(A \cap B) = 0
    BY <1>4, FS_EmptySet
  <1> QED
    BY <1>2, <1>3, <1>5, <1>6

LEMMA TimesMore ==
    ASSUME NEW S, NEW s \in Seq(S), NEW n \in S, NEW k \in Nat, NEW x
    PROVE  /\ s \o [i \in 1 .. k |-> n] \in Seq(S)
           /\ Times(x, s) \in Nat
           /\ Times(x, s \o [i \in 1 .. k |-> n]) = Times(x, s) + (IF x = n THEN k ELSE 0)
  <1> DEFINE r == [i \in 1 .. k |-> n]
             t == s \o r
             A == {i \in DOMAIN s : s[i] = x}
             m == Len(s)
  <1>1. r \in Seq(S) /\ Len(r) = k /\ m \in Nat /\ DOMAIN s = 1 .. m
    BY LenProperties
  <1>2. /\ t \in Seq(S) /\ Len(t) = m + k
        /\ \A i \in 1 .. m + k : t[i] = IF i <= m THEN s[i] ELSE r[i - m]
    <2> HIDE DEF r
    <2> QED
      BY <1>1, ConcatProperties
  <1>3. DOMAIN t = 1 .. m + k
    <2> HIDE DEF t
    <2> QED
      BY <1>2, LenProperties
  <1>4. \A i \in 1 .. m : i \in 1 .. m + k /\ t[i] = s[i]
    <2> HIDE DEF t, m, r
    <2> QED
      BY <1>1, <1>2
  <1>5. \A i \in m + 1 .. m + k : i \in 1 .. m + k /\ t[i] = n
    <2> TAKE i \in m + 1 .. m + k
    <2>1. i \in 1 .. m + k /\ ~(i <= m) /\ i - m \in 1 .. k
      BY <1>1
    <2>2. r[i - m] = n
      BY <2>1
    <2> HIDE DEF t, m, r
    <2> QED
      BY <1>2, <2>1, <2>2
  <1>6. \A i \in 1 .. m + k : i \in 1 .. m \/ i \in m + 1 .. m + k
    BY <1>1
  <1>7. A \in SUBSET (1 .. m) /\ Times(x, s) = Cardinality(A)
    BY <1>1 DEF Times
  <1>8. {i \in DOMAIN t : t[i] = x} = IF x = n THEN A \cup (m + 1 .. m + k) ELSE A
    <2> HIDE DEF t, m
    <2> QED
      BY <1>1, <1>3, <1>4, <1>5, <1>6
  <1>9. Times(x, t) = IF x = n THEN Cardinality(A \cup (m + 1 .. m + k)) ELSE Cardinality(A)
    <2> HIDE DEF t, A, m
    <2> QED
      BY <1>8 DEF Times
  <1>10. Cardinality(A) \in Nat /\ Cardinality(A \cup (m + 1 .. m + k)) = Cardinality(A) + k
    <2> HIDE DEF A, m
    <2> QED
      BY <1>1, <1>7, MorePositions
  <1> HIDE DEF A, t, m
  <1>11. Times(x, t) = Times(x, s) + (IF x = n THEN k ELSE 0)
    BY <1>7, <1>9, <1>10
  <1> QED
    BY <1>2, <1>7, <1>10, <1>11 DEF t

LEMMA TimesAppend ==
    ASSUME NEW S, NEW s \in Seq(S), NEW n \in S, NEW x
    PROVE  Times(x, Append(s, n)) = Times(x, s) + (IF x = n THEN 1 ELSE 0)
  <1>1. Append(s, n) = s \o [i \in 1 .. 1 |-> n]
    <2>1. Append(s, n) = s \o <<n>>
      BY AppendIsConcat
    <2>2. <<n>> = [i \in 1 .. 1 |-> n]
      OBVIOUS
    <2> QED
      BY <2>1, <2>2
  <1>2. PICK k \in Nat : k = 1
    OBVIOUS
  <1>3. Times(x, s \o [i \in 1 .. k |-> n]) = Times(x, s) + (IF x = n THEN k ELSE 0)
    BY TimesMore
  <1> QED
    BY <1>1, <1>2, <1>3

-----------------------------------------------------------------------------
(* The definitions of the instance are those of this module.               *)
LEMMA Same ==
    /\ Search!Nodes = Nodes /\ Search!Below = Below
    /\ \A d : Search!Children(d) = Children(d)
    /\ \A d : Search!Under(d) = Under(d)
  <1>1. Search!Nodes = Nodes /\ Search!Below = Below
    BY DEF Search!Nodes, Search!Below, Nodes, Below
  <1>2. \A d : Search!Children(d) = Children(d)
    BY <1>1 DEF Search!Children, Children
  <1>3. ASSUME NEW d PROVE Search!Under(d) = Under(d)
    BY <1>1, <1>2 DEF Search!Under, Under
  <1> QED
    BY <1>1, <1>2, <1>3

Named(n) ==
    IF hex THEN 0 ELSE Cardinality({i \in DOMAIN keys : FoundAt(0, Fold(keys[i]), name[n])})
Hit(n) ==
    /\ n \in Files
    /\ \E i \in DOMAIN keys :
          IF hex THEN Found(TypedIn(keys[i]), ToHex(contents[n]))
          ELSE Found(Fold(keys[i]), Fold(contents[n]))
Most(n) == Named(n) + (IF Hit(n) THEN 1 ELSE 0)

LEMMA HitsAre ==
    \A n, opened : Search!Hits(n, opened) = Named(n) + (IF opened /\ Hit(n) THEN 1 ELSE 0)
  <1> TAKE n, opened
  <1>1. \A s : Search!TypedIn(s) = TypedIn(s)
    BY DEF Search!TypedIn, TypedIn, Search!Strung, Strung, Search!Typed, Typed
  <1>2. \A s : Search!ToHex(s) = ToHex(s)
    BY DEF Search!ToHex, ToHex, Search!Strung, Strung, Search!Digits, Digits
  <1>3. \A k, a, b : Search!FoundAt(k, a, b) <=> FoundAt(k, a, b)
    BY DEF Search!FoundAt, FoundAt
  <1>4. \A a, b : Search!Found(a, b) <=> Found(a, b)
    BY <1>3 DEF Search!Found, Found
  <1>5. \A s : Search!Fold(s) = Fold(s)
    BY DEF Search!Fold, Fold, Search!Lower, Lower, Search!Capitals, Capitals
  <1>6. n \in Files /\ Search!LineHit(contents[n]) <=> Hit(n)
    BY <1>1, <1>2, <1>4, <1>5 DEF Search!LineHit, Hit
  <1>7. Search!NameHits(n) = Named(n)
    <2>1. {i \in DOMAIN keys : Search!FoundAt(0, Search!Fold(keys[i]), name[n])}
             = {i \in DOMAIN keys : FoundAt(0, Fold(keys[i]), name[n])}
      BY <1>3, <1>5
    <2>2. Cardinality({i \in DOMAIN keys : Search!FoundAt(0, Search!Fold(keys[i]), name[n])})
             = Cardinality({i \in DOMAIN keys : FoundAt(0, Fold(keys[i]), name[n])})
      BY <2>1
    <2>3. Search!NameHits(n) =
             IF hex THEN 0
             ELSE Cardinality({i \in DOMAIN keys : Search!FoundAt(0, Search!Fold(keys[i]), name[n])})
      BY Zenon DEF Search!NameHits, Search!Cardinality, Cardinality, Search!IsFiniteSet,
         IsFiniteSet
    <2>4. Named(n) =
             IF hex THEN 0 ELSE Cardinality({i \in DOMAIN keys : FoundAt(0, Fold(keys[i]), name[n])})
      BY Zenon DEF Named
    <2> QED
      BY <2>2, <2>3, <2>4
  <1> QED
    BY <1>6, <1>7 DEF Search!Hits

LEMMA UnderIsClosed ==
    ASSUME NEW d
    PROVE  /\ Under(d) \subseteq Nodes
           /\ \A n \in Under(d) : Children(n) \subseteq Under(d)
  <1>1. \A n \in Nodes : Children(n) \subseteq Nodes
    BY DEF Children, Below
  <1>2. ASSUME NEW n \in Under(d), NEW c \in Children(n)
        PROVE  c \in Under(d)
    <2>1. c \in Nodes
      BY DEF Children, Below
    <2>2. ASSUME NEW S \in SUBSET Nodes, d \in S, \A e \in S : Children(e) \subseteq S
          PROVE  c \in S
      <3>1. n \in S
        BY <2>2 DEF Under
      <3> QED
        BY <2>2, <3>1
    <2> QED
      BY <2>1, <2>2 DEF Under
  <1> QED
    BY <1>2 DEF Under

-----------------------------------------------------------------------------
Frame == [dir : Dirs, todo : SUBSET Nodes]
Said == [how : {"open", "hexedit"}, node : Below]
Act == [how : {"open", "stream", "hexedit"}, row : Nat, node : Below]

SearchTypes ==
    /\ parent \in [Below -> Dirs]
    /\ name \in [Below -> Names]
    /\ contents \in [Files -> Lines] /\ keys \in Keys
    /\ hex \in BOOLEAN
    /\ unreadable \subseteq Nodes /\ gone \subseteq Nodes
    /\ stack \in Seq(Frame) /\ results \in Seq(Below)
    /\ selection \in Nat
    /\ acts \in Seq(Act) /\ logged \in Seq(Said)

Kids(p, d) == {n \in Below : p[n] = d}

(* The nodes V that were come upon: of an open directory, what is still to *)
(* be read is not among them; of any other that could be read, what was    *)
(* not removed is.                                                         *)
Walked(V) ==
    /\ V \subseteq Nodes /\ Root \in V
    /\ \A n \in V \ {Root} : parent[n] \in V
    /\ \A i \in DOMAIN stack :
          stack[i].dir \in V /\ stack[i].todo \subseteq Kids(parent, stack[i].dir) \ V
    /\ \A i, j \in DOMAIN stack : stack[i].dir = stack[j].dir => i = j
    /\ \A d \in (V \cap Dirs) \ (gone \cup unreadable) : \A n \in Kids(parent, d) :
          \/ n \in V \cup gone
          \/ \E i \in DOMAIN stack : stack[i].dir = d /\ n \in stack[i].todo

(* Of them the results are complete, of others there are none.             *)
Counted(V) ==
    /\ \A n \in Below \ V : Count(n) = 0
    /\ \A n \in V \ {Root} :
          /\ Count(n) \in {Named(n), Most(n)}
          /\ n \notin gone \cup unreadable => Count(n) = Most(n)

(* An edit is done before it is logged.                                    *)
Pending(e) == /\ at \in {"editor", "leave", "endless"}
               /\ e.how = "hexedit" /\ e.node = Path

ActsInv ==
    /\ at # "search" => stack = <<>>
    /\ at = "search" => acts = <<>> /\ logged = <<>>
    /\ at \in {"confirm", "edit", "editor", "leave", "endless"} => selection \in DOMAIN results
    /\ at \in {"editor", "endless"} => acts # <<>>
    /\ at = "endless" => Path \in Dirs \cup gone \cup unreadable
    /\ at # "abort"
    /\ \A i \in DOMAIN acts :
          acts[i].row \in DOMAIN results /\ acts[i].node = results[acts[i].row]
    /\ \A e \in Said : Done(e) <= Times(e, logged) + (IF Pending(e) THEN 1 ELSE 0)

SearchInv ==
    /\ SearchTypes
    /\ Under(Root) = Nodes
    /\ \A n \in gone : Children(n) \subseteq gone
    /\ \E V \in SUBSET Nodes : Walked(V) /\ Counted(V)
    /\ ActsInv

LEMMA NamedIsNat ==
    ASSUME SearchTypes, NEW n PROVE Named(n) \in Nat
  <1>1. keys \in Seq(Seq(Byte))
    BY TextsAreBytes DEF SearchTypes, Byte
  <1>2. PICK m \in Nat : DOMAIN keys = 1 .. m
    BY <1>1, LenProperties
  <1>3. {i \in DOMAIN keys : FoundAt(0, Fold(keys[i]), name[n])} \in SUBSET (1 .. m)
    BY <1>2
  <1>4. Cardinality({i \in DOMAIN keys : FoundAt(0, Fold(keys[i]), name[n])}) \in Nat
    BY <1>3, MorePositions
  <1> QED
    BY <1>4 DEF Named

LEMMA Narrowed ==
    ASSUME NEW f \in Frame, NEW n
    PROVE  \E g \in Frame : /\ g = [f EXCEPT !.todo = @ \ {n}]
                            /\ g.dir = f.dir /\ g.todo = f.todo \ {n}
  <1> DEFINE g == [dir |-> f.dir, todo |-> f.todo \ {n}]
  <1>1. f.dir \in Dirs /\ f.todo \in SUBSET Nodes
    BY DEF Frame
  <1>2. g \in Frame
    BY <1>1 DEF Frame
  <1>3. g = [f EXCEPT !.todo = @ \ {n}]
    BY DEF Frame
  <1> QED
    BY <1>2, <1>3

LEMMA Popped ==
    ASSUME NEW s \in Seq(Frame), s # <<>>, NEW n
    PROVE  LET t == [s EXCEPT ![Len(s)].todo = @ \ {n}]
           IN  /\ Len(s) \in Nat \ {0} /\ DOMAIN s = 1 .. Len(s)
               /\ t \in Seq(Frame) /\ Len(t) = Len(s) /\ DOMAIN t = 1 .. Len(s)
               /\ \A i \in 1 .. Len(s) :
                     /\ t[i].dir = s[i].dir
                     /\ t[i].todo = IF i = Len(s) THEN s[i].todo \ {n} ELSE s[i].todo
  <1>1. Len(s) \in Nat \ {0} /\ DOMAIN s = 1 .. Len(s)
    BY LenProperties, EmptySeq
  <1>2. Len(s) \in 1 .. Len(s)
    BY <1>1
  <1>3. PICK m \in 1 .. Len(s) : m = Len(s)
    BY <1>2
  <1>4. s[m] \in Frame
    BY ElementOfSeq
  <1>5. PICK g \in Frame : /\ g = [s[m] EXCEPT !.todo = @ \ {n}]
                           /\ g.dir = s[m].dir /\ g.todo = s[m].todo \ {n}
    BY <1>4, Narrowed
  <1>6. [s EXCEPT ![Len(s)].todo = @ \ {n}] = [s EXCEPT ![m] = g]
    BY <1>3, <1>5
  <1>7. PICK t : t = [s EXCEPT ![m] = g]
    OBVIOUS
  <1>8. /\ t \in Seq(Frame) /\ Len(t) = Len(s)
        /\ \A i \in 1 .. Len(s) : t[i] = IF i = m THEN g ELSE s[i]
    BY <1>7, ExceptSeq
  <1>9. DOMAIN t = 1 .. Len(s)
    BY <1>8, LenProperties
  <1>10. \A i \in 1 .. Len(s) :
            /\ t[i].dir = s[i].dir
            /\ t[i].todo = IF i = Len(s) THEN s[i].todo \ {n} ELSE s[i].todo
    BY <1>3, <1>5, <1>8
  <1> QED
    BY <1>1, <1>6, <1>7, <1>8, <1>9, <1>10

LEMMA Pushed ==
    ASSUME NEW t \in Seq(Frame), NEW f \in Frame
    PROVE  LET u == t \o <<f>>
           IN  /\ u \in Seq(Frame) /\ DOMAIN u = 1 .. Len(t) + 1
               /\ (\A i \in 1 .. Len(t) : u[i] = t[i]) /\ u[Len(t) + 1] = f
  <1>1. Append(t, f) = t \o <<f>>
    BY AppendIsConcat
  <1>2. PICK u : u = Append(t, f)
    OBVIOUS
  <1>3. /\ u \in Seq(Frame) /\ Len(u) = Len(t) + 1
        /\ (\A i \in 1 .. Len(t) : u[i] = t[i]) /\ u[Len(t) + 1] = f
    BY <1>2, AppendProperties
  <1>4. DOMAIN u = 1 .. Len(t) + 1
    BY <1>3, LenProperties
  <1> QED
    BY <1>1, <1>2, <1>3, <1>4

(* What Visit does to the open directories, and to the results.            *)
LEMMA VisitStack ==
    ASSUME SearchTypes, NEW V \in SUBSET Nodes, Walked(V), NEW n, Search!Visit(n)
    PROVE  LET m == Len(stack) IN
           /\ m \in Nat \ {0} /\ DOMAIN stack = 1 .. m /\ stack' \in Seq(Frame)
           /\ n \in stack[m].todo
           /\ \A i \in 1 .. m : /\ i \in DOMAIN stack'
                                /\ stack'[i].dir = stack[i].dir
                                /\ stack'[i].todo = stack[i].todo \ {n}
           /\ \E opened \in BOOLEAN :
                 /\ ~opened => n \in gone \cup unreadable
                 /\ n \in Dirs /\ opened =>
                       /\ DOMAIN stack' = 1 .. m + 1
                       /\ stack'[m + 1].dir = n /\ stack'[m + 1].todo = Kids(parent, n) \ gone
                 /\ ~(n \in Dirs /\ opened) => DOMAIN stack' = 1 .. m
  <1> DEFINE m == Len(stack)
             f == [dir |-> n, todo |-> Kids(parent, n) \ gone]
             g == IF n \in Dirs THEN f ELSE [dir |-> Root, todo |-> {}]
             t == [stack EXCEPT ![m].todo = @ \ {n}]
             u == t \o <<g>>
  <1>1. stack # <<>> /\ stack \in Seq(Frame) /\ n \in stack[m].todo
    BY DEF Search!Visit, Search!Top, SearchTypes
  <1>2. PICK opened \in BOOLEAN :
           /\ ~opened => n \in gone \cup unreadable
           /\ stack' = t \o (IF n \in Dirs /\ opened THEN <<f>> ELSE <<>>)
    BY Same DEF Search!Visit, Search!Passed, Search!Open, Children, Kids, Search!Opened
  <1>3. g \in Frame
    BY RootIsDir DEF Frame, Kids, Below, Nodes
  <1>4. /\ m \in Nat \ {0} /\ DOMAIN stack = 1 .. m
        /\ t \in Seq(Frame) /\ DOMAIN t = 1 .. m
        /\ \A i \in 1 .. m :
              /\ t[i].dir = stack[i].dir
              /\ t[i].todo = IF i = m THEN stack[i].todo \ {n} ELSE stack[i].todo
        /\ u \in Seq(Frame) /\ DOMAIN u = 1 .. m + 1
        /\ (\A i \in 1 .. m : u[i] = t[i]) /\ u[m + 1] = g
    <2>1. /\ m \in Nat \ {0} /\ DOMAIN stack = 1 .. m
          /\ t \in Seq(Frame) /\ Len(t) = m /\ DOMAIN t = 1 .. m
          /\ \A i \in 1 .. m :
                /\ t[i].dir = stack[i].dir
                /\ t[i].todo = IF i = m THEN stack[i].todo \ {n} ELSE stack[i].todo
      BY <1>1, Popped
    <2> HIDE DEF t, g, m
    <2>2. /\ u \in Seq(Frame) /\ DOMAIN u = 1 .. Len(t) + 1
          /\ (\A i \in 1 .. Len(t) : u[i] = t[i]) /\ u[Len(t) + 1] = g
      BY <1>3, <2>1, Pushed
    <2> HIDE DEF u
    <2> QED
      BY <2>1, <2>2
  <1> HIDE DEF t, m
  <1>5. n \in Dirs => g = f
    OBVIOUS
  <1>6. stack' = IF n \in Dirs /\ opened THEN u ELSE t
    <2>1. t \o <<>> = t
      BY <1>4, ConcatEmptySeq
    <2> QED
      BY <1>2, <1>5, <2>1 DEF t
  <1> HIDE DEF u, g
  <1>7. \A i \in 1 .. m : n \in stack[i].todo => i = m
    <2> TAKE i \in 1 .. m
    <2>1. m \in 1 .. m
      BY <1>4
    <2>2. /\ stack[i].todo \subseteq Kids(parent, stack[i].dir)
          /\ stack[m].todo \subseteq Kids(parent, stack[m].dir)
      BY <1>4, <2>1 DEF Walked
    <2>3. n \in stack[i].todo => stack[i].dir = stack[m].dir
      BY <1>1, <2>2 DEF Kids
    <2> QED
      BY <1>4, <2>1, <2>3 DEF Walked
  <1>8. \A i \in 1 .. m : t[i].dir = stack[i].dir /\ t[i].todo = stack[i].todo \ {n}
    <2> TAKE i \in 1 .. m
    <2>1. i # m => stack[i].todo \ {n} = stack[i].todo
      BY <1>7
    <2> QED
      BY <1>4, <2>1
  <1>9. stack' \in Seq(Frame)
    BY <1>4, <1>6
  <1>10. \A i \in 1 .. m : /\ i \in DOMAIN stack'
                           /\ stack'[i].dir = stack[i].dir
                           /\ stack'[i].todo = stack[i].todo \ {n}
    <2> TAKE i \in 1 .. m
    <2>1. i \in 1 .. m + 1 /\ (stack'[i] = t[i]) /\ i \in DOMAIN stack'
      BY <1>4, <1>6
    <2> QED
      BY <1>8, <2>1
  <1>11. n \in Dirs /\ opened => /\ DOMAIN stack' = 1 .. m + 1
                                        /\ stack'[m + 1] = f
    BY <1>4, <1>5, <1>6
  <1>12. f.dir = n /\ f.todo = Kids(parent, n) \ gone
    OBVIOUS
  <1>13. ~(n \in Dirs /\ opened) => DOMAIN stack' = 1 .. m
    BY <1>4, <1>6
  <1> HIDE DEF f
  <1>14. n \in Dirs /\ opened =>
                 /\ DOMAIN stack' = 1 .. m + 1
                 /\ stack'[m + 1].dir = n /\ stack'[m + 1].todo = Kids(parent, n) \ gone
    BY <1>11, <1>12
  <1> QED
    BY <1>1, <1>2, <1>4, <1>9, <1>10, <1>13, <1>14 DEF m

LEMMA VisitWalks ==
    ASSUME SearchTypes, NEW V \in SUBSET Nodes, Walked(V), NEW n, Search!Visit(n)
    PROVE  /\ n \in Below \ V /\ V \cup {n} \in SUBSET Nodes
           /\ Walked(V \cup {n})'
  <1> DEFINE m == Len(stack)
             W == V \cup {n}
  <1>1. PICK opened \in BOOLEAN :
           /\ m \in Nat \ {0} /\ DOMAIN stack = 1 .. m
           /\ n \in stack[m].todo
           /\ \A i \in 1 .. m : /\ i \in DOMAIN stack'
                                /\ stack'[i].dir = stack[i].dir
                                /\ stack'[i].todo = stack[i].todo \ {n}
           /\ ~opened => n \in gone \cup unreadable
           /\ n \in Dirs /\ opened =>
                 /\ DOMAIN stack' = 1 .. m + 1
                 /\ stack'[m + 1].dir = n /\ stack'[m + 1].todo = Kids(parent, n) \ gone
           /\ ~(n \in Dirs /\ opened) => DOMAIN stack' = 1 .. m
    <2> HIDE DEF Walked, SearchTypes, Search!Visit
    <2> QED
      BY VisitStack
  <1>2. parent' = parent /\ gone' = gone /\ unreadable' = unreadable
    BY DEF Search!Visit, Search!tree
  <1> HIDE DEF m
  <1>3. m \in 1 .. m /\ m + 1 \in 1 .. m + 1 /\ \A i \in 1 .. m + 1 : i \in 1 .. m \/ i = m + 1
    BY <1>1
  <1>4. \A i \in 1 .. m : stack[i].dir \in V /\ stack[i].todo \subseteq Kids(parent, stack[i].dir) \ V
    BY <1>1 DEF Walked
  <1>5. n \in Below \ V /\ parent[n] \in V
    BY <1>1, <1>3, <1>4 DEF Kids
  <1>6. W \subseteq Nodes /\ Root \in W
    BY <1>5 DEF Below, Walked
  <1>7. \A x \in W \ {Root} : parent[x] \in W
    BY <1>5 DEF Walked
  <1>8. Kids(parent, n) \cap W = {}
    <2> SUFFICES ASSUME NEW c \in Kids(parent, n), c \in W PROVE FALSE
      OBVIOUS
    <2>1. c \in Below /\ parent[c] = n
      BY DEF Kids
    <2>2. c # n
      BY <1>5, <2>1
    <2>3. c \in V \ {Root}
      BY <2>1, <2>2 DEF Below
    <2>4. parent[c] \in V
      BY <2>3 DEF Walked
    <2> QED
      BY <1>5, <2>1, <2>4
  <1> DEFINE Opens == n \in Dirs /\ opened
  <1>9. \A i \in DOMAIN stack' : i \in 1 .. m \/ (i = m + 1 /\ Opens)
    BY <1>1, <1>3
  <1>11. \A i \in DOMAIN stack' :
            stack'[i].dir \in W /\ stack'[i].todo \subseteq Kids(parent, stack'[i].dir) \ W
    <2> TAKE i \in DOMAIN stack'
    <2>1. CASE i \in 1 .. m
      <3>1. stack'[i].dir = stack[i].dir /\ stack'[i].todo = stack[i].todo \ {n}
        BY <1>1, <2>1
      <3> QED
        BY <1>4, <2>1, <3>1
    <2>2. CASE i = m + 1 /\ Opens
      <3>1. stack'[i].dir = n /\ stack'[i].todo = Kids(parent, n) \ gone
        BY <1>1, <2>2
      <3> QED
        BY <1>8, <3>1
    <2> QED
      BY <1>9, <2>1, <2>2
  <1>12. \A i, j \in DOMAIN stack' : stack'[i].dir = stack'[j].dir => i = j
    <2> TAKE i, j \in DOMAIN stack'
    <2>1. CASE i \in 1 .. m /\ j \in 1 .. m
      BY <1>1, <2>1 DEF Walked
    <2>2. CASE i \in 1 .. m /\ j = m + 1 /\ Opens
      <3>1. stack'[i].dir = stack[i].dir /\ stack'[j].dir = n
        BY <1>1, <2>2
      <3> QED
        BY <1>4, <1>5, <2>2, <3>1
    <2>3. CASE j \in 1 .. m /\ i = m + 1 /\ Opens
      <3>1. stack'[j].dir = stack[j].dir /\ stack'[i].dir = n
        BY <1>1, <2>3
      <3> QED
        BY <1>4, <1>5, <2>3, <3>1
    <2> QED
      BY <1>9, <2>1, <2>2, <2>3
  <1>13. ASSUME NEW d \in (W \cap Dirs) \ (gone \cup unreadable), NEW c \in Kids(parent, d)
         PROVE  \/ c \in W \cup gone
                \/ \E i \in DOMAIN stack' : stack'[i].dir = d /\ c \in stack'[i].todo
    <2>1. CASE d = n
      <3>1. /\ m + 1 \in DOMAIN stack'
            /\ stack'[m + 1].dir = n /\ stack'[m + 1].todo = Kids(parent, n) \ gone
        BY <1>1, <1>3, <2>1
      <3> QED
        BY <2>1, <3>1
    <2>2. CASE d # n /\ c \notin W \cup gone
      <3>1. d \in (V \cap Dirs) \ (gone \cup unreadable) /\ c \notin V \cup gone /\ c # n
        BY <2>2
      <3>2. PICK i \in DOMAIN stack : stack[i].dir = d /\ c \in stack[i].todo
        BY <3>1 DEF Walked
      <3>3. i \in DOMAIN stack' /\ stack'[i].dir = d /\ c \in stack'[i].todo
        BY <1>1, <3>1, <3>2
      <3> QED
        BY <3>3
    <2> QED
      BY <2>1, <2>2
  <1>14. \A d \in (W \cap Dirs) \ (gone' \cup unreadable') : \A c \in Kids(parent', d) :
            \/ c \in W \cup gone'
            \/ \E i \in DOMAIN stack' : stack'[i].dir = d /\ c \in stack'[i].todo
    BY <1>2, <1>13
  <1>15. Walked(W)'
    <2>1. \A i \in DOMAIN stack' :
            stack'[i].dir \in W /\ stack'[i].todo \subseteq Kids(parent', stack'[i].dir) \ W
      BY <1>2, <1>11
    <2>2. \A x \in W \ {Root} : parent'[x] \in W
      BY <1>2, <1>7
    <2> HIDE DEF W
    <2> QED
      BY <1>6, <1>12, <1>14, <2>1, <2>2 DEF Walked
  <1> QED
    BY <1>5, <1>6, <1>15

LEMMA ReturnWalks ==
    ASSUME SearchTypes, NEW V \in SUBSET Nodes, Walked(V), Search!Return
    PROVE  stack' \in Seq(Frame) /\ Walked(V)'
  <1> DEFINE m == Len(stack)
  <1>1. /\ stack # <<>> /\ stack \in Seq(Frame)
        /\ stack[m].todo = {} \/ stack[m].dir \in gone \cup unreadable
        /\ stack' = SubSeq(stack, 1, m - 1)
        /\ parent' = parent /\ gone' = gone /\ unreadable' = unreadable
    BY DEF Search!Return, Search!Top, SearchTypes, Search!tree
  <1>2. m \in Nat \ {0} /\ DOMAIN stack = 1 .. m
    BY <1>1, LenProperties, EmptySeq
  <1>3. stack' \in Seq(Frame) /\ DOMAIN stack' = 1 .. m - 1 /\ \A i \in 1 .. m - 1 : stack'[i] = stack[i]
    <2>1. \A i \in 1 .. m - 1 : stack[i] \in Frame
      <3> TAKE i \in 1 .. m - 1
      <3>1. i \in 1 .. m
        BY <1>2
      <3> QED
        BY <1>1, <3>1, ElementOfSeq
    <2>2. PICK n \in Int : n = m - 1
      <3>1. m - 1 \in Int
        BY <1>2
      <3> QED
        BY <3>1
    <2>3. (IF 1 <= n THEN n - 1 + 1 ELSE 0) = n /\ n - 1 + 1 = n /\ \A i \in 1 .. n : 1 + i - 1 = i
      BY <1>2, <2>2
    <2>4. PICK t : t = SubSeq(stack, 1, n)
      OBVIOUS
    <2>5. t \in Seq(Frame) /\ Len(t) = n /\ \A i \in 1 .. n : t[i] = stack[i]
      <3>1. \A i \in 1 .. n : stack[i] \in Frame
        BY <2>1, <2>2
      <3>2. 1 \in Int
        OBVIOUS
      <3>3. /\ SubSeq(stack, 1, n) \in Seq(Frame)
            /\ Len(SubSeq(stack, 1, n)) = IF 1 <= n THEN n - 1 + 1 ELSE 0
            /\ \A i \in 1 .. n - 1 + 1 : SubSeq(stack, 1, n)[i] = stack[1 + i - 1]
        BY <3>1, <3>2, SubSeqProperties
      <3> QED
        BY <2>3, <2>4, <3>3
    <2>6. DOMAIN t = 1 .. n
      BY <2>5, LenProperties
    <2>7. stack' = t
      BY <1>1, <2>2, <2>4
    <2> QED
      BY <2>2, <2>5, <2>6, <2>7
  <1> HIDE DEF m
  <1>4. \A i \in 1 .. m - 1 : i \in 1 .. m
    BY <1>2
  <1>5. \A i \in 1 .. m : i \in 1 .. m - 1 \/ i = m
    BY <1>2
  <1>6. \A i \in DOMAIN stack' : i \in DOMAIN stack /\ stack'[i] = stack[i]
    BY <1>2, <1>3, <1>4
  <1>8. ASSUME NEW d \in (V \cap Dirs) \ (gone \cup unreadable), NEW c \in Kids(parent, d),
               c \notin V \cup gone
        PROVE  \E i \in DOMAIN stack' : stack'[i].dir = d /\ c \in stack'[i].todo
    <2>1. PICK i \in DOMAIN stack : stack[i].dir = d /\ c \in stack[i].todo
      BY <1>8 DEF Walked
    <2>2. i # m
      BY <1>1, <2>1 DEF m
    <2> QED
      BY <1>2, <1>3, <1>5, <1>6, <2>1, <2>2
  <1>9. Walked(V)'
    <2>1. V \subseteq Nodes /\ Root \in V /\ \A x \in V \ {Root} : parent'[x] \in V
      BY <1>1 DEF Walked
    <2>2. \A i \in DOMAIN stack' :
            stack'[i].dir \in V /\ stack'[i].todo \subseteq Kids(parent', stack'[i].dir) \ V
      <3> TAKE i \in DOMAIN stack'
      <3>1. stack'[i].dir \in V /\ stack'[i].todo \subseteq Kids(parent, stack'[i].dir) \ V
        BY <1>6 DEF Walked
      <3> QED
        BY <1>1, <3>1
    <2>3. \A i, j \in DOMAIN stack' : stack'[i].dir = stack'[j].dir => i = j
      BY <1>6 DEF Walked
    <2>4. \A d \in (V \cap Dirs) \ (gone' \cup unreadable') : \A c \in Kids(parent', d) :
            \/ c \in V \cup gone'
            \/ \E i \in DOMAIN stack' : stack'[i].dir = d /\ c \in stack'[i].todo
      <3>1. gone' = gone /\ parent' = parent /\ unreadable' = unreadable
        BY <1>1
      <3> QED
        BY <1>8, <3>1
    <2> QED
      BY <2>1, <2>2, <2>3, <2>4 DEF Walked
  <1> QED
    BY <1>3, <1>9

LEMMA VanishWalks ==
    ASSUME SearchTypes, NEW V \in SUBSET Nodes, Walked(V), NEW n, Search!Vanish(n)
    PROVE  Walked(V)'
  <1>1. gone \subseteq gone' /\ parent' = parent /\ stack' = stack /\ unreadable' = unreadable
    BY DEF Search!Vanish, Search!tree
  <1>3. \A i \in DOMAIN stack' :
          stack'[i].dir \in V /\ stack'[i].todo \subseteq Kids(parent', stack'[i].dir) \ V
    <2> TAKE i \in DOMAIN stack'
    <2>1. stack[i].dir \in V /\ stack[i].todo \subseteq Kids(parent, stack[i].dir) \ V
      BY <1>1 DEF Walked
    <2> QED
      BY <1>1, <2>1
  <1>4. \A d \in (V \cap Dirs) \ (gone' \cup unreadable') : \A c \in Kids(parent', d) :
          \/ c \in V \cup gone'
          \/ \E i \in DOMAIN stack' : stack'[i].dir = d /\ c \in stack'[i].todo
    BY <1>1 DEF Walked
  <1>5. V \subseteq Nodes /\ Root \in V /\ \A x \in V \ {Root} : parent'[x] \in V
    BY <1>1 DEF Walked
  <1>6. \A i, j \in DOMAIN stack' : stack'[i].dir = stack'[j].dir => i = j
    BY <1>1 DEF Walked
  <1> QED
    BY <1>3, <1>4, <1>5, <1>6 DEF Walked

(* What is visited has its results.                                        *)
LEMMA VisitCounts ==
    ASSUME SearchTypes, NEW V \in SUBSET Nodes, Counted(V), NEW n \in Below \ V,
           Search!Visit(n)
    PROVE  results' \in Seq(Below) /\ Counted(V \cup {n})'
  <1>1. PICK opened \in BOOLEAN :
           /\ results' = results \o [i \in 1 .. Search!Hits(n, opened) |-> n]
           /\ ~opened => n \in gone \cup unreadable
    BY DEF Search!Visit, Search!Opened
  <1>14. /\ gone' = gone /\ unreadable' = unreadable /\ parent' = parent /\ name' = name
         /\ contents' = contents /\ keys' = keys /\ hex' = hex
    BY DEF Search!Visit, Search!tree
  <1>2. Named(n) \in Nat
    BY NamedIsNat
  <1>3. PICK k \in Nat : /\ k = Search!Hits(n, opened)
                         /\ k = Named(n) + (IF opened /\ Hit(n) THEN 1 ELSE 0)
    BY <1>2, HitsAre
  <1>4. PICK r \in Seq(Below) : r = results
    BY DEF SearchTypes
  <1>5. results' = r \o [i \in 1 .. k |-> n]
    BY <1>1, <1>3, <1>4
  <1>6. /\ r \o [i \in 1 .. k |-> n] \in Seq(Below)
        /\ \A x : Times(x, r \o [i \in 1 .. k |-> n]) = Times(x, r) + (IF x = n THEN k ELSE 0)
        /\ \A x : Times(x, r) \in Nat
    BY TimesMore
  <1>7. \A x : Count(x)' = Count(x) + (IF x = n THEN k ELSE 0) /\ Count(x) \in Nat
    BY <1>4, <1>5, <1>6 DEF Count
  <1>8. \A x : Most(x)' = Most(x) /\ Named(x)' = Named(x)
    BY <1>14 DEF Most, Named, Hit
  <1>9. \A x \in Below \ (V \cup {n}) : Count(x)' = 0
    <2> TAKE x \in Below \ (V \cup {n})
    <2>1. Count(x) = 0 /\ x # n
      BY DEF Counted
    <2> QED
      BY <1>7, <2>1
  <1>10. Count(n)' = k
    <2>1. Count(n) = 0
      BY DEF Counted
    <2> QED
      BY <1>7, <2>1
  <1>11. k \in {Named(n), Most(n)} /\ (n \notin gone \cup unreadable => k = Most(n))
    BY <1>1, <1>2, <1>3 DEF Most
  <1>12. \A x \in (V \cup {n}) \ {Root} :
            /\ Count(x)' \in {Named(x)', Most(x)'}
            /\ x \notin gone' \cup unreadable' => Count(x)' = Most(x)'
    <2> TAKE x \in (V \cup {n}) \ {Root}
    <2>1. CASE x = n
      BY <1>8, <1>10, <1>11, <1>14, <2>1
    <2>2. CASE x # n
      <3>1. /\ Count(x) \in {Named(x), Most(x)}
            /\ x \notin gone \cup unreadable => Count(x) = Most(x)
        BY <2>2 DEF Counted
      <3>2. Count(x)' = Count(x)
        BY <1>7, <2>2
      <3> QED
        BY <1>8, <1>14, <3>1, <3>2
    <2> QED
      BY <2>1, <2>2
  <1>13. Counted(V \cup {n})'
    BY <1>9, <1>12 DEF Counted
  <1> QED
    BY <1>5, <1>6, <1>13

LEMMA KeptCounts ==
    ASSUME NEW V \in SUBSET Nodes, Counted(V), results' = results, gone \subseteq gone',
           UNCHANGED Search!tree
    PROVE  Counted(V)'
  <1>1. /\ name' = name /\ contents' = contents /\ keys' = keys /\ hex' = hex
        /\ unreadable' = unreadable
    BY DEF Search!tree
  <1>2. \A x : Most(x)' = Most(x) /\ Named(x)' = Named(x) /\ Count(x)' = Count(x)
    BY <1>1 DEF Most, Named, Hit, Count
  <1> QED
    BY <1>1, <1>2 DEF Counted

-----------------------------------------------------------------------------
LEMMA NothingDone ==
    ASSUME acts = <<>>, logged = <<>>
    PROVE  \A e : Done(e) = 0 /\ Times(e, logged) = 0
  <1> TAKE e
  <1>1. {i \in DOMAIN acts : acts[i].how = e.how /\ acts[i].node = e.node} = {}
    OBVIOUS
  <1>2. {i \in DOMAIN logged : logged[i] = e} = {}
    OBVIOUS
  <1> QED
    BY <1>1, <1>2, FS_EmptySet DEF Done, Times

LEMMA SearchInit == Search!Init => SearchInv
  <1> SUFFICES ASSUME Search!Init PROVE SearchInv
    OBVIOUS
  <1> DEFINE f == [dir |-> Root, todo |-> Children(Root)]
  <1>1. /\ parent \in [Below -> Dirs] /\ Under(Root) = Nodes
        /\ name \in [Below -> Names]
        /\ contents \in [Files -> Lines] /\ keys \in Keys
        /\ hex \in BOOLEAN
        /\ unreadable \subseteq Nodes /\ gone = {}
        /\ stack = <<f>> \/ (stack = <<>> /\ Root \in unreadable)
        /\ results = <<>> /\ at = "search" /\ selection = 0
        /\ acts = <<>> /\ logged = <<>>
    BY Same DEF Search!Init
  <1>2. f \in Frame
    BY RootIsDir DEF Frame, Children, Below, Nodes
  <1>3. f.dir = Root /\ f.todo = Children(Root)
    OBVIOUS
  <1> HIDE DEF f
  <1>4. /\ stack \in Seq(Frame)
        /\ \/ DOMAIN stack = {1} /\ stack[1] = f
           \/ DOMAIN stack = {} /\ Root \in unreadable
    <2>1. CASE stack = <<f>>
      BY <1>2, <2>1
    <2>2. CASE stack = <<>> /\ Root \in unreadable
      BY <2>2, EmptySeq
    <2> QED
      BY <1>1, <2>1, <2>2
  <1>5. SearchTypes
    BY <1>1, <1>4, EmptySeq DEF SearchTypes
  <1>6. Walked({Root})
    <2>1. {Root} \subseteq Nodes
      BY RootIsDir DEF Nodes
    <2>2. Children(Root) = Kids(parent, Root) /\ Root \notin Kids(parent, Root)
      BY DEF Children, Kids, Below
    <2>3. \A i \in DOMAIN stack : i = 1 /\ stack[i].dir = Root /\ stack[i].todo = Kids(parent, Root)
      BY <1>3, <1>4, <2>2
    <2>4. 1 \in DOMAIN stack \/ Root \in unreadable
      BY <1>4
    <2> QED
      BY <2>1, <2>2, <2>3, <2>4 DEF Walked
  <1>7. Counted({Root})
    <2>1. \A x : Count(x) = 0
      <3> TAKE x
      <3>1. {i \in DOMAIN results : results[i] = x} = {}
        BY <1>1
      <3> QED
        BY <3>1, FS_EmptySet DEF Count, Times
    <2> QED
      BY <2>1 DEF Counted
  <1>8. ActsInv
    <2>1. \A e \in Said : Done(e) <= Times(e, logged) + (IF Pending(e) THEN 1 ELSE 0)
      BY <1>1, NothingDone
    <2> QED
      BY <1>1, <2>1 DEF ActsInv
  <1>9. {Root} \in SUBSET Nodes
    BY RootIsDir DEF Nodes
  <1> QED
    BY <1>1, <1>5, <1>6, <1>7, <1>8, <1>9 DEF SearchInv

(* What is done with the results does not touch the rest.                  *)
LEMMA SameActs ==
    ASSUME ActsInv, UNCHANGED <<Search!tree, results, at, selection, acts, logged>>,
           gone \subseteq gone', at = "search" \/ stack' = stack
    PROVE  ActsInv'
  <1>1. Path' = Path
    BY DEF Path
  <1>2. \A e : Done(e)' = Done(e) /\ Times(e, logged)' = Times(e, logged)
               /\ (Pending(e)' <=> Pending(e))
    BY <1>1 DEF Done, Times, Pending
  <1>3. \A e \in Said : Done(e)' <= Times(e, logged)' + (IF Pending(e)' THEN 1 ELSE 0)
    BY <1>2 DEF ActsInv
  <1>4. at # "search" => stack' = stack
    OBVIOUS
  <1>5. Said' = Said
    OBVIOUS
  <1> QED
    BY <1>1, <1>3, <1>4, <1>5 DEF ActsInv, Search!tree

LEMMA VisitKeeps ==
    ASSUME SearchInv, NEW n \in Search!Nodes, Search!Visit(n)
    PROVE  SearchInv'
  <1>1. SearchTypes /\ ActsInv
    BY DEF SearchInv
  <1>2. PICK V \in SUBSET Nodes : Walked(V) /\ Counted(V)
    BY DEF SearchInv
  <1>3. n \in Below \ V /\ V \cup {n} \in SUBSET Nodes /\ Walked(V \cup {n})'
    BY <1>1, <1>2, VisitWalks
  <1>4. results' \in Seq(Below) /\ Counted(V \cup {n})'
    BY <1>1, <1>2, <1>3, VisitCounts
  <1>5. stack' \in Seq(Frame)
    BY <1>1, <1>2, VisitStack
  <1>6. /\ UNCHANGED <<parent, name, contents, keys, hex, unreadable, gone>>
        /\ UNCHANGED <<at, selection, acts, logged>> /\ stack # <<>>
    BY DEF Search!Visit, Search!tree, Search!menu
  <1>7. SearchTypes'
    BY <1>1, <1>4, <1>5, <1>6 DEF SearchTypes
  <1>8. ActsInv'
    <2>1. at = "search" /\ acts = <<>> /\ logged = <<>>
      BY <1>1, <1>6 DEF ActsInv
    <2>2. \A e : Done(e) = 0 /\ Times(e, logged) = 0
      BY <2>1, NothingDone
    <2>3. \A e : Done(e)' = 0 /\ Times(e, logged)' = 0
      BY <1>6, <2>2 DEF Done, Times
    <2>4. \A e \in Said : Done(e)' <= Times(e, logged)' + (IF Pending(e)' THEN 1 ELSE 0)
      BY <2>3
    <2>5. DOMAIN acts' = {}
      BY <1>6, <2>1
    <2> QED
      BY <1>6, <2>1, <2>4, <2>5 DEF ActsInv
  <1>9. (Under(Root) = Nodes)' /\ (\A x \in gone : Children(x) \subseteq gone)'
    BY <1>6 DEF SearchInv, Under, Children
  <1> QED
    BY <1>3, <1>4, <1>7, <1>8, <1>9 DEF SearchInv

LEMMA ReturnKeeps ==
    ASSUME SearchInv, Search!Return
    PROVE  SearchInv'
  <1>1. SearchTypes /\ ActsInv
    BY DEF SearchInv
  <1>2. PICK V \in SUBSET Nodes : Walked(V) /\ Counted(V)
    BY DEF SearchInv
  <1>3. stack' \in Seq(Frame) /\ Walked(V)'
    BY <1>1, <1>2, ReturnWalks
  <1>4. /\ UNCHANGED <<parent, name, contents, keys, hex, unreadable, gone, results>>
        /\ UNCHANGED <<at, selection, acts, logged>> /\ stack # <<>>
        /\ UNCHANGED Search!tree
    BY DEF Search!Return, Search!tree, Search!menu
  <1>5. Counted(V)'
    BY <1>2, <1>4, KeptCounts
  <1>6. SearchTypes'
    BY <1>1, <1>3, <1>4 DEF SearchTypes
  <1>7. ActsInv'
    <2>1. at = "search"
      BY <1>1, <1>4 DEF ActsInv
    <2> QED
      BY <1>1, <1>4, <2>1, SameActs
  <1>8. (Under(Root) = Nodes)' /\ (\A x \in gone : Children(x) \subseteq gone)'
    BY <1>4 DEF SearchInv, Under, Children
  <1> QED
    BY <1>3, <1>5, <1>6, <1>7, <1>8 DEF SearchInv

LEMMA VanishKeeps ==
    ASSUME SearchInv, NEW n \in Search!Nodes, Search!Vanish(n)
    PROVE  SearchInv'
  <1>1. SearchTypes /\ ActsInv
    BY DEF SearchInv
  <1>2. PICK V \in SUBSET Nodes : Walked(V) /\ Counted(V)
    BY DEF SearchInv
  <1>3. Walked(V)'
    BY <1>1, <1>2, VanishWalks
  <1>4. /\ UNCHANGED <<parent, name, contents, keys, hex, unreadable, stack, results>>
        /\ UNCHANGED <<at, selection, acts, logged>>
        /\ UNCHANGED Search!tree
        /\ gone' = gone \cup Under(n)
    BY Same DEF Search!Vanish, Search!tree, Search!menu
  <1>5. gone \subseteq gone'
    BY <1>4
  <1>6. Counted(V)'
    BY <1>2, <1>4, <1>5, KeptCounts
  <1>7. Under(n) \subseteq Nodes /\ \A x \in Under(n) : Children(x) \subseteq Under(n)
    BY UnderIsClosed
  <1>8. SearchTypes'
    BY <1>1, <1>4, <1>7 DEF SearchTypes
  <1>9. ActsInv'
    BY <1>1, <1>4, <1>5, SameActs
  <1>10. (Under(Root) = Nodes)'
    BY <1>4 DEF SearchInv, Under, Children
  <1>11. (\A x \in gone : Children(x) \subseteq gone)'
    <2>1. \A x : Children(x)' = Children(x)
      BY <1>4 DEF Children
    <2>2. \A x \in gone : Children(x) \subseteq gone
      BY DEF SearchInv
    <2> QED
      BY <1>4, <1>7, <2>1, <2>2
  <1> QED
    BY <1>2, <1>3, <1>6, <1>8, <1>9, <1>10, <1>11 DEF SearchInv

-----------------------------------------------------------------------------
LEMMA OneMoreDone ==
    ASSUME acts \in Seq(Act), NEW a \in Act, acts' = Append(acts, a), NEW e
    PROVE  Done(e)' = Done(e) + (IF a.how = e.how /\ a.node = e.node THEN 1 ELSE 0)
  <1> DEFINE D(s) == {i \in DOMAIN s : s[i].how = e.how /\ s[i].node = e.node}
  <1>1. PICK m \in Nat : m = Len(acts) /\ DOMAIN acts = 1 .. m
    BY LenProperties
  <1>2. PICK t \in Seq(Act) : t = acts
    OBVIOUS
  <1>3. PICK u : u = Append(t, a)
    OBVIOUS
  <1>4. u \in Seq(Act) /\ Len(u) = m + 1 /\ u[m + 1] = a /\ \A i \in 1 .. m : u[i] = acts[i]
    BY <1>1, <1>2, <1>3, AppendProperties
  <1>5. DOMAIN u = 1 .. m + 1
    BY <1>4, LenProperties
  <1>6. acts' = u
    BY <1>2, <1>3
  <1>7. \A i \in 1 .. m + 1 : i \in 1 .. m \/ i = m + 1
    OBVIOUS
  <1>8. m + 1 .. m + 1 = {m + 1} /\ 1 .. m \subseteq 1 .. m + 1 /\ m + 1 \in 1 .. m + 1
    OBVIOUS
  <1>9. D(u) = IF a.how = e.how /\ a.node = e.node THEN D(acts) \cup (m + 1 .. m + 1) ELSE D(acts)
    BY <1>1, <1>4, <1>5, <1>7, <1>8
  <1>10. D(acts) \in SUBSET (1 .. m)
    BY <1>1
  <1>11. Done(e) = Cardinality(D(acts)) /\ Done(e)' = Cardinality(D(u))
    BY <1>6 DEF Done
  <1> HIDE DEF D
  <1>12. PICK k \in Nat : k = 1
    OBVIOUS
  <1>13. /\ Cardinality(D(acts)) \in Nat
         /\ Cardinality(D(acts) \cup (m + 1 .. m + k)) = Cardinality(D(acts)) + k
    BY <1>10, MorePositions
  <1> QED
    BY <1>9, <1>11, <1>12, <1>13

LEMMA CountsAreNat ==
    ASSUME SearchTypes, NEW e
    PROVE  Done(e) \in Nat /\ Times(e, logged) \in Nat
  <1>1. PICK m \in Nat : DOMAIN acts = 1 .. m
    <2>1. acts \in Seq(Act)
      BY DEF SearchTypes
    <2> QED
      BY <2>1, LenProperties
  <1>2. PICK k \in Nat : DOMAIN logged = 1 .. k
    <2>1. logged \in Seq(Said)
      BY DEF SearchTypes
    <2> QED
      BY <2>1, LenProperties
  <1>3. {i \in DOMAIN acts : acts[i].how = e.how /\ acts[i].node = e.node} \in SUBSET (1 .. m)
    BY <1>1
  <1>4. {i \in DOMAIN logged : logged[i] = e} \in SUBSET (1 .. k)
    BY <1>2
  <1>5. Done(e) \in Nat
    BY <1>3, MorePositions DEF Done
  <1>6. Times(e, logged) \in Nat
    BY <1>4, MorePositions DEF Times
  <1> QED
    BY <1>5, <1>6

LEMMA TheRestStays ==
    ASSUME SearchInv, UNCHANGED <<Search!tree, gone, stack, results>>,
           selection' \in Nat, acts' \in Seq(Act), logged' \in Seq(Said), ActsInv'
    PROVE  SearchInv'
  <1>1. SearchTypes
    BY DEF SearchInv
  <1>2. PICK V \in SUBSET Nodes : Walked(V) /\ Counted(V)
    BY DEF SearchInv
  <1>3. UNCHANGED <<parent, name, contents, keys, hex, unreadable>>
    BY DEF Search!tree
  <1>4. Counted(V)'
    BY <1>2, KeptCounts
  <1>5. Walked(V)'
    BY <1>2, <1>3 DEF Walked
  <1>6. SearchTypes'
    BY <1>1, <1>3 DEF SearchTypes
  <1>7. (Under(Root) = Nodes)' /\ (\A x \in gone : Children(x) \subseteq gone)'
    BY <1>3 DEF SearchInv, Under, Children
  <1> QED
    BY <1>4, <1>5, <1>6, <1>7 DEF SearchInv

(* Nothing is done and nothing is logged.                                  *)
LEMMA NothingNew ==
    ASSUME ActsInv, UNCHANGED <<gone, stack, results, acts, logged>>,
           at' \in {"menu", "number", "confirm", "edit", "leave", "endless", "editor", "end"},
           at' \in {"confirm", "edit", "editor", "leave", "endless"} =>
              selection' \in DOMAIN results,
           at' \in {"editor", "endless"} => acts # <<>>,
           at' = "endless" => Path' \in Dirs \cup gone \cup unreadable, UNCHANGED Search!tree,
           stack = <<>>, \A e \in Said : Pending(e) => Pending(e)',
           SearchTypes
    PROVE  ActsInv'
  <1>1. \A e \in Said : Done(e)' <= Times(e, logged)' + (IF Pending(e)' THEN 1 ELSE 0)
    <2> TAKE e \in Said
    <2>1. Done(e)' = Done(e) /\ Times(e, logged)' = Times(e, logged)
      BY DEF Done, Times
    <2>2. Done(e) \in Nat /\ Times(e, logged) \in Nat
      BY CountsAreNat
    <2>3. Done(e) <= Times(e, logged) + (IF Pending(e) THEN 1 ELSE 0)
      BY DEF ActsInv
    <2>4. Pending(e) => Pending(e)'
      OBVIOUS
    <2> HIDE DEF Pending
    <2> QED
      BY <2>1, <2>2, <2>3, <2>4
  <1>2. \A i \in DOMAIN acts' :
           acts'[i].row \in DOMAIN results' /\ acts'[i].node = results'[acts'[i].row]
    BY DEF ActsInv
  <1> QED
    BY <1>1, <1>2 DEF ActsInv, Search!tree

LEMMA ListKeeps ==
    ASSUME SearchInv, Search!List, UNCHANGED <<Search!tree, gone, stack, results>>
    PROVE  SearchInv'
  <1>1. SearchTypes /\ ActsInv
    BY DEF SearchInv
  <1>2. /\ at = "search" /\ stack = <<>> /\ at' \in {"end", "menu"}
        /\ UNCHANGED <<selection, acts, logged>>
    BY DEF Search!List
  <1>3. \A e \in Said : Pending(e) => Pending(e)'
    BY <1>2 DEF Pending
  <1>4. ActsInv'
    BY <1>1, <1>2, <1>3, NothingNew
  <1>5. selection' \in Nat /\ acts' \in Seq(Act) /\ logged' \in Seq(Said)
    BY <1>1, <1>2 DEF SearchTypes
  <1> QED
    BY <1>4, <1>5, TheRestStays

LEMMA CommandKeeps ==
    ASSUME SearchInv, UNCHANGED <<Search!tree, gone, stack, results>>,
           Search!Back \/ \E c \in {"open", "hexedit"} : Search!Command(c)
    PROVE  SearchInv'
  <1>1. SearchTypes /\ ActsInv
    BY DEF SearchInv
  <1>2. /\ at = "menu" /\ at' \in {"end", "number"}
        /\ UNCHANGED <<selection, acts, logged>>
    BY DEF Search!Back, Search!Command
  <1>3. \A e \in Said : Pending(e) => Pending(e)'
    BY <1>2 DEF Pending
  <1>4. stack = <<>>
    BY <1>1, <1>2 DEF ActsInv
  <1>5. ActsInv'
    BY <1>1, <1>2, <1>3, <1>4, NothingNew
  <1>6. selection' \in Nat /\ acts' \in Seq(Act) /\ logged' \in Seq(Said)
    BY <1>1, <1>2 DEF SearchTypes
  <1> QED
    BY <1>5, <1>6, TheRestStays

LEMMA NumberKeeps ==
    ASSUME SearchInv, UNCHANGED <<Search!tree, gone, stack, results>>,
           NEW n \in Search!TypedNumbers, Search!Number(n)
    PROVE  SearchInv'
  <1>1. SearchTypes /\ ActsInv
    BY DEF SearchInv
  <1>2. Len(results) \in Nat /\ DOMAIN results = 1 .. Len(results)
    <2>1. results \in Seq(Below)
      BY <1>1 DEF SearchTypes
    <2> QED
      BY <2>1, LenProperties
  <1>3. n \in Nat /\ (Search!InBounds(n) <=> n \in DOMAIN results)
    BY <1>2 DEF Search!InBounds, Search!TypedNumbers
  <1>4. /\ at = "number" /\ at' \in {"number", "confirm", "edit"}
        /\ at' # "number" => selection' = n /\ n \in DOMAIN results
        /\ selection' = n \/ selection' = selection
        /\ UNCHANGED <<acts, logged>>
    BY <1>3 DEF Search!Number
  <1>5. \A e \in Said : Pending(e) => Pending(e)'
    BY <1>4 DEF Pending
  <1>6. stack = <<>>
    BY <1>1, <1>4 DEF ActsInv
  <1>7. ActsInv'
    BY <1>1, <1>4, <1>5, <1>6, NothingNew
  <1>8. selection' \in Nat /\ acts' \in Seq(Act) /\ logged' \in Seq(Said)
    BY <1>1, <1>3, <1>4 DEF SearchTypes
  <1> QED
    BY <1>7, <1>8, TheRestStays

LEMMA SelectedIsBelow ==
    ASSUME SearchTypes, selection \in DOMAIN results
    PROVE  Path \in Below
  <1>1. results \in Seq(Below) /\ DOMAIN results = 1 .. Len(results)
    BY LenProperties DEF SearchTypes
  <1> QED
    BY <1>1, ElementOfSeq DEF Path

(* What is done, when something is, is what was listed.                    *)
LEMMA ActsAreListed ==
    ASSUME SearchTypes, ActsInv, selection \in DOMAIN results, results' = results,
           NEW how \in {"open", "stream", "hexedit"},
           acts' = Append(acts, [how |-> how, row |-> selection, node |-> Path])
    PROVE  /\ acts' \in Seq(Act) /\ acts' # <<>>
           /\ \A i \in DOMAIN acts' :
                 acts'[i].row \in DOMAIN results' /\ acts'[i].node = results'[acts'[i].row]
           /\ \A e : Done(e)' = Done(e) + (IF how = e.how /\ Path = e.node THEN 1 ELSE 0)
  <1> DEFINE a == [how |-> how, row |-> selection, node |-> Path]
  <1>1. a \in Act
    BY SelectedIsBelow DEF Act, SearchTypes
  <1>2. a.how = how /\ a.row = selection /\ a.node = Path
    OBVIOUS
  <1> HIDE DEF a
  <1>3. acts \in Seq(Act) /\ acts' = Append(acts, a)
    BY DEF SearchTypes, a
  <1>4. /\ acts' \in Seq(Act) /\ acts' # <<>> /\ Len(acts) \in Nat
        /\ Len(acts') = Len(acts) + 1
        /\ (\A i \in 1 .. Len(acts) : acts'[i] = acts[i]) /\ acts'[Len(acts) + 1] = a
    BY <1>1, <1>3, AppendProperties, LenProperties
  <1>5. DOMAIN acts' = 1 .. Len(acts) + 1 /\ DOMAIN acts = 1 .. Len(acts)
    BY <1>3, <1>4, LenProperties
  <1>6. \A i \in DOMAIN acts' : i \in DOMAIN acts \/ i = Len(acts) + 1
    BY <1>4, <1>5
  <1>7. \A i \in DOMAIN acts' :
           acts'[i].row \in DOMAIN results' /\ acts'[i].node = results'[acts'[i].row]
    <2> TAKE i \in DOMAIN acts'
    <2>1. CASE i \in DOMAIN acts
      <3>1. acts'[i] = acts[i]
        BY <1>4, <1>5, <2>1
      <3> QED
        BY <2>1, <3>1 DEF ActsInv
    <2>2. CASE i = Len(acts) + 1
      BY <1>2, <1>4, <2>2 DEF Path
    <2> QED
      BY <1>6, <2>1, <2>2
  <1>8. ASSUME NEW e
        PROVE  Done(e)' = Done(e) + (IF how = e.how /\ Path = e.node THEN 1 ELSE 0)
    <2>1. Done(e)' = Done(e) + (IF a.how = e.how /\ a.node = e.node THEN 1 ELSE 0)
      BY <1>1, <1>3, OneMoreDone
    <2> QED
      BY <1>2, <2>1
  <1> QED
    BY <1>4, <1>7, <1>8

LEMMA LogsAreOfListed ==
    ASSUME SearchTypes, selection \in DOMAIN results, NEW how \in {"open", "hexedit"},
           logged' = Append(logged, [how |-> how, node |-> Path])
    PROVE  /\ logged' \in Seq(Said)
           /\ \A e \in Said : Times(e, logged)' =
                 Times(e, logged) + (IF how = e.how /\ Path = e.node THEN 1 ELSE 0)
  <1>1. PICK a \in Said : a = [how |-> how, node |-> Path]
    BY SelectedIsBelow DEF Said
  <1>2. PICK s \in Seq(Said) : s = logged
    BY DEF SearchTypes
  <1>3. logged' = Append(s, a)
    BY <1>1, <1>2
  <1>4. Append(s, a) \in Seq(Said)
    BY AppendProperties
  <1>5. \A e \in Said : Times(e, Append(s, a)) = Times(e, s) + (IF e = a THEN 1 ELSE 0)
    BY TimesAppend
  <1>6. \A e \in Said : e = a <=> how = e.how /\ Path = e.node
    BY <1>1 DEF Said
  <1>7. \A e \in Said : Times(e, logged)' = Times(e, Append(s, a))
    BY <1>3
  <1>8. \A e \in Said : Times(e, logged) = Times(e, s)
    BY <1>2
  <1> QED
    BY <1>3, <1>4, <1>5, <1>6, <1>7, <1>8

LEMMA OpenFileKeeps ==
    ASSUME SearchInv, UNCHANGED <<Search!tree, gone, stack, results>>, Search!OpenFile
    PROVE  SearchInv'
  <1>1. SearchTypes /\ ActsInv
    BY DEF SearchInv
  <1>2. at = "confirm" /\ at' = "menu" /\ selection' = 0
    BY DEF Search!OpenFile
  <1>3. stack = <<>> /\ selection \in DOMAIN results
    BY <1>1, <1>2 DEF ActsInv
  <1>4. \A e \in Said : ~Pending(e) /\ ~Pending(e)'
    BY <1>2 DEF Pending
  <1>5. \A e \in Said : /\ Done(e) \in Nat /\ Times(e, logged) \in Nat
                        /\ Done(e) <= Times(e, logged)
    BY <1>1, <1>4, CountsAreNat DEF ActsInv
  <1>6. CASE UNCHANGED <<acts, logged>>
    <2>1. ActsInv'
      BY <1>1, <1>2, <1>3, <1>4, <1>6, NothingNew
    <2>2. selection' \in Nat /\ acts' \in Seq(Act) /\ logged' \in Seq(Said)
      BY <1>1, <1>2, <1>6 DEF SearchTypes
    <2> QED
      BY <2>1, <2>2, TheRestStays
  <1>7. CASE /\ acts' = Append(acts, [how |-> "stream", row |-> selection, node |-> Path])
             /\ UNCHANGED logged
    <2>1. /\ acts' \in Seq(Act) /\ acts' # <<>>
          /\ \A i \in DOMAIN acts' :
                acts'[i].row \in DOMAIN results' /\ acts'[i].node = results'[acts'[i].row]
          /\ \A e : Done(e)' = Done(e) + (IF "stream" = e.how /\ Path = e.node THEN 1 ELSE 0)
      BY <1>1, <1>3, <1>7, ActsAreListed
    <2>2. \A e \in Said : Done(e)' <= Times(e, logged)' + (IF Pending(e)' THEN 1 ELSE 0)
      <3> TAKE e \in Said
      <3>1. e.how # "stream"
        BY DEF Said
      <3>2. Done(e)' = Done(e) + 0 /\ Times(e, logged)' = Times(e, logged)
        BY <1>7, <2>1, <3>1 DEF Times
      <3> QED
        BY <1>4, <1>5, <3>2
    <2>3. ActsInv'
      BY <1>2, <1>3, <2>1, <2>2 DEF ActsInv
    <2>4. selection' \in Nat /\ logged' \in Seq(Said)
      BY <1>1, <1>2, <1>7 DEF SearchTypes
    <2> QED
      BY <2>1, <2>3, <2>4, TheRestStays
  <1>8. CASE /\ acts' = Append(acts, [how |-> "open", row |-> selection, node |-> Path])
             /\ logged' = Append(logged, [how |-> "open", node |-> Path])
    <2>1. /\ acts' \in Seq(Act) /\ acts' # <<>>
          /\ \A i \in DOMAIN acts' :
                acts'[i].row \in DOMAIN results' /\ acts'[i].node = results'[acts'[i].row]
          /\ \A e : Done(e)' = Done(e) + (IF "open" = e.how /\ Path = e.node THEN 1 ELSE 0)
      BY <1>1, <1>3, <1>8, ActsAreListed
    <2>2. /\ logged' \in Seq(Said)
          /\ \A e \in Said : Times(e, logged)' =
                Times(e, logged) + (IF "open" = e.how /\ Path = e.node THEN 1 ELSE 0)
      BY <1>1, <1>3, <1>8, LogsAreOfListed
    <2>3. \A e \in Said : Done(e)' <= Times(e, logged)' + (IF Pending(e)' THEN 1 ELSE 0)
      BY <1>4, <1>5, <2>1, <2>2
    <2>4. ActsInv'
      BY <1>2, <1>3, <2>1, <2>3 DEF ActsInv
    <2>5. selection' \in Nat
      BY <1>2
    <2> QED
      BY <2>1, <2>2, <2>4, <2>5, TheRestStays
  <1> QED
    BY <1>6, <1>7, <1>8 DEF Search!OpenFile, Search!Do, Search!Say, Search!Path, Path

LEMMA EditFileKeeps ==
    ASSUME SearchInv, UNCHANGED <<Search!tree, gone, stack, results>>, Search!EditFile
    PROVE  SearchInv'
  <1>1. SearchTypes /\ ActsInv
    BY DEF SearchInv
  <1>2. at = "edit" /\ selection' = selection /\ logged' = logged
    BY DEF Search!EditFile
  <1>3. stack = <<>> /\ selection \in DOMAIN results
    BY <1>1, <1>2 DEF ActsInv
  <1>4. \A e \in Said : ~Pending(e)
    BY <1>2 DEF Pending
  <1>5. \A e \in Said : /\ Done(e) \in Nat /\ Times(e, logged) \in Nat
                        /\ Done(e) <= Times(e, logged)
    BY <1>1, <1>4, CountsAreNat DEF ActsInv
  <1>6. selection' \in Nat /\ logged' \in Seq(Said) /\ acts \in Seq(Act)
    BY <1>1, <1>2 DEF SearchTypes
  <1>7. CASE at' = "leave" /\ acts' = acts
    <2>1. ActsInv'
      BY <1>1, <1>2, <1>3, <1>4, <1>7, NothingNew
    <2> QED
      BY <1>6, <1>7, <2>1, TheRestStays
  <1>8. CASE /\ at' = "editor"
             /\ acts' = Append(acts, [how |-> "hexedit", row |-> selection, node |-> Path])
    <2>1. /\ acts' \in Seq(Act) /\ acts' # <<>>
          /\ \A i \in DOMAIN acts' :
                acts'[i].row \in DOMAIN results' /\ acts'[i].node = results'[acts'[i].row]
          /\ \A e : Done(e)' = Done(e) + (IF "hexedit" = e.how /\ Path = e.node THEN 1 ELSE 0)
      BY <1>1, <1>3, <1>8, ActsAreListed
    <2>2. Path' = Path
      BY <1>2 DEF Path
    <2>3. \A e \in Said : Pending(e)' <=> "hexedit" = e.how /\ Path = e.node
      BY <1>8, <2>2 DEF Pending
    <2>4. \A e \in Said : Times(e, logged)' = Times(e, logged)
      BY <1>2 DEF Times
    <2>5. \A e \in Said : Done(e)' <= Times(e, logged)' + (IF Pending(e)' THEN 1 ELSE 0)
      BY <1>5, <2>1, <2>3, <2>4
    <2>6. ActsInv'
      BY <1>2, <1>3, <1>8, <2>1, <2>5 DEF ActsInv
    <2> QED
      BY <1>6, <2>1, <2>6, TheRestStays
  <1> QED
    BY <1>7, <1>8 DEF Search!EditFile, Search!Do, Search!Path, Path

LEMMA EditorKeeps ==
    ASSUME SearchInv, UNCHANGED <<Search!tree, gone, stack, results>>,
           Search!DisplayFile \/ Search!LeaveEditor
    PROVE  SearchInv'
  <1>1. SearchTypes /\ ActsInv
    BY DEF SearchInv
  <1>2. /\ at = "editor" /\ at' \in {"editor", "leave", "endless"}
        /\ UNCHANGED <<selection, acts, logged>>
        /\ at' = "endless" => Path \in Dirs \cup gone \cup unreadable
    BY DEF Search!DisplayFile, Search!LeaveEditor, Search!Path, Path, Search!Opened
  <1>3. stack = <<>> /\ selection \in DOMAIN results /\ acts # <<>>
    BY <1>1, <1>2 DEF ActsInv
  <1>4. Path' = Path
    BY <1>2 DEF Path
  <1>5. \A e \in Said : Pending(e) => Pending(e)'
    BY <1>2, <1>4 DEF Pending
  <1>6. ActsInv'
    BY <1>1, <1>2, <1>3, <1>4, <1>5, NothingNew
  <1>7. selection' \in Nat /\ acts' \in Seq(Act) /\ logged' \in Seq(Said)
    BY <1>1, <1>2 DEF SearchTypes
  <1> QED
    BY <1>6, <1>7, TheRestStays

LEMMA LogEditKeeps ==
    ASSUME SearchInv, UNCHANGED <<Search!tree, gone, stack, results>>, Search!LogEdit
    PROVE  SearchInv'
  <1>1. SearchTypes /\ ActsInv
    BY DEF SearchInv
  <1>2. /\ at = "leave" /\ at' = "menu" /\ selection' = 0 /\ acts' = acts
        /\ logged' = Append(logged, [how |-> "hexedit", node |-> Path])
    BY DEF Search!LogEdit, Search!Say, Search!Path, Path
  <1>3. stack = <<>> /\ selection \in DOMAIN results
    BY <1>1, <1>2 DEF ActsInv
  <1>4. /\ logged' \in Seq(Said)
        /\ \A e \in Said : Times(e, logged)' =
              Times(e, logged) + (IF "hexedit" = e.how /\ Path = e.node THEN 1 ELSE 0)
    BY <1>1, <1>2, <1>3, LogsAreOfListed
  <1>5. \A e \in Said : Done(e)' = Done(e)
    BY <1>2 DEF Done
  <1>6. \A e \in Said : Done(e)' <= Times(e, logged)' + (IF Pending(e)' THEN 1 ELSE 0)
    <2> TAKE e \in Said
    <2>1. Done(e) \in Nat /\ Times(e, logged) \in Nat
      BY <1>1, CountsAreNat
    <2>2. Done(e) <= Times(e, logged) + (IF Pending(e) THEN 1 ELSE 0)
      BY <1>1 DEF ActsInv
    <2>3. Pending(e) <=> "hexedit" = e.how /\ Path = e.node
      BY <1>2 DEF Pending
    <2>4. ~Pending(e)'
      BY <1>2 DEF Pending
    <2> QED
      BY <1>4, <1>5, <2>1, <2>2, <2>3, <2>4
  <1>7. \A i \in DOMAIN acts' :
           acts'[i].row \in DOMAIN results' /\ acts'[i].node = results'[acts'[i].row]
    BY <1>1, <1>2 DEF ActsInv
  <1>8. ActsInv'
    BY <1>2, <1>3, <1>6, <1>7 DEF ActsInv
  <1>9. selection' \in Nat /\ acts' \in Seq(Act)
    BY <1>1, <1>2 DEF SearchTypes
  <1> QED
    BY <1>4, <1>8, <1>9, TheRestStays

LEMMA SearchStep == SearchInv /\ [Search!Next]_Search!vars => SearchInv'
  <1> SUFFICES ASSUME SearchInv, [Search!Next]_Search!vars PROVE SearchInv'
    OBVIOUS
  <1>1. ASSUME NEW n \in Search!Nodes, Search!Visit(n) PROVE SearchInv'
    BY <1>1, VisitKeeps
  <1>2. CASE Search!Return
    BY <1>2, ReturnKeeps
  <1>3. ASSUME NEW n \in Search!Nodes, Search!Vanish(n) PROVE SearchInv'
    BY <1>3, VanishKeeps
  <1>4. CASE Search!Display
    <2>1. UNCHANGED <<Search!tree, gone, stack, results>>
      BY <1>4 DEF Search!Display
    <2>2. CASE Search!List
      BY <2>1, <2>2, ListKeeps
    <2>3. CASE Search!Back \/ \E c \in {"open", "hexedit"} : Search!Command(c)
      BY <2>1, <2>3, CommandKeeps
    <2>4. ASSUME NEW n \in Search!TypedNumbers, Search!Number(n) PROVE SearchInv'
      BY <2>1, <2>4, NumberKeeps
    <2>5. CASE Search!OpenFile
      BY <2>1, <2>5, OpenFileKeeps
    <2>6. CASE Search!EditFile
      BY <2>1, <2>6, EditFileKeeps
    <2>7. CASE Search!DisplayFile \/ Search!LeaveEditor
      BY <2>1, <2>7, EditorKeeps
    <2>8. CASE Search!LogEdit
      BY <2>1, <2>8, LogEditKeeps
    <2> QED
      BY <1>4, <2>2, <2>3, <2>4, <2>5, <2>6, <2>7, <2>8 DEF Search!Display
  <1>5. CASE UNCHANGED Search!vars
    <2>1. /\ UNCHANGED <<Search!tree, gone, stack, results>>
          /\ UNCHANGED <<results, at, selection, acts, logged>>
      BY <1>5 DEF Search!vars, Search!menu
    <2>2. SearchTypes /\ ActsInv
      BY DEF SearchInv
    <2>3. gone \subseteq gone' /\ stack' = stack
      BY <2>1
    <2>4. ActsInv'
      BY <2>1, <2>2, <2>3, SameActs
    <2>5. selection' \in Nat /\ acts' \in Seq(Act) /\ logged' \in Seq(Said)
      BY <2>1, <2>2 DEF SearchTypes
    <2> QED
      BY <2>1, <2>4, <2>5, TheRestStays
  <1> QED
    BY <1>1, <1>2, <1>3, <1>4, <1>5 DEF Search!Next, Search!Search

LEMMA SearchIsInductive == Search!Spec => []SearchInv
  BY SearchInit, SearchStep, PTL DEF Search!Spec

(* What only the type invariant says.                                      *)
OtherTypes ==
    /\ local \in BOOLEAN
    /\ at \in {"search", "menu", "number", "confirm", "edit", "editor",
               "leave", "endless", "end", "abort"}
    /\ command \in {"open", "hexedit"}

LEMMA OtherTypesStay ==
    ASSUME OtherTypes, [Search!Next]_(Search!vars)
    PROVE  OtherTypes'
  <1>1. CASE at' = at /\ command' = command /\ local' = local
    BY <1>1 DEF OtherTypes
  <1>2. CASE Search!Search \/ (\E n \in Search!Nodes : Search!Vanish(n)) \/ UNCHANGED Search!vars
    BY <1>1, <1>2 DEF Search!Search, Search!Return, Search!Visit, Search!Vanish, Search!vars,
         Search!menu, Search!tree
  <1>3. CASE Search!Display
    <2>1. local' = local
      BY <1>3 DEF Search!Display, Search!tree
    <2>2. /\ at' \in {"search", "menu", "number", "confirm", "edit", "editor",
                      "leave", "endless", "end", "abort"}
          /\ command' \in {"open", "hexedit"}
      BY <1>3 DEF OtherTypes, Search!Display, Search!List, Search!Back, Search!OpenFile,
         Search!EditFile, Search!DisplayFile, Search!LeaveEditor, Search!LogEdit,
         Search!Command, Search!Number
    <2> QED
      BY <2>1, <2>2 DEF OtherTypes
  <1> QED
    BY <1>2, <1>3 DEF Search!Next

(* Every variable of the search keeps its type: a session is always at one *)
(* of the places displayResults has, and results, selections and log are   *)
(* of nodes below the root (filesearch.cpp:41-114, 182-270).               *)
THEOREM SearchTypeCorrect == Search!Spec => []Search!TypeOK
  <1>1. Search!Init => OtherTypes
    BY Same DEF Search!Init, OtherTypes
  <1>2. SearchInv /\ OtherTypes => Search!TypeOK
    BY Same DEF SearchInv, SearchTypes, OtherTypes, Search!TypeOK, Search!Frame, Frame, Act, Said
  <1> QED
    BY <1>1, <1>2, SearchIsInductive, OtherTypesStay, PTL DEF Search!Spec

(* When no directory is open any more, every node was come upon, or is     *)
(* gone, or in a directory that could not be read.                         *)
LEMMA AllVisited ==
    ASSUME SearchInv, stack = <<>>, NEW V \in SUBSET Nodes, Walked(V)
    PROVE  Nodes \subseteq V \cup gone \cup Hidden
  <1> DEFINE S == V \cup gone \cup Hidden
  <1>1. \A c \in UNION {Children(d) : d \in unreadable} : c \in Nodes /\ c \in Under(c)
    <2>1. \A c \in UNION {Children(d) : d \in unreadable} : c \in Nodes
      BY DEF Children, Below
    <2> QED
      BY <2>1 DEF Under
  <1>2. Hidden \subseteq Nodes
    BY UnderIsClosed DEF Hidden
  <1>3. S \in SUBSET Nodes /\ Root \in S
    BY <1>2 DEF SearchInv, SearchTypes, Walked
  <1>4. ASSUME NEW d \in S PROVE Children(d) \subseteq S
    <2>1. CASE d \in gone
      BY <2>1 DEF SearchInv
    <2>2. CASE d \in unreadable
      BY <1>1, <2>2 DEF Hidden
    <2>3. CASE d \in Hidden
      BY <2>3, UnderIsClosed DEF Hidden
    <2>4. CASE d \in (V \cap Dirs) \ (gone \cup unreadable)
      <3>1. Children(d) = Kids(parent, d) /\ DOMAIN stack = {}
        BY DEF Children, Kids
      <3>2. \A c \in Kids(parent, d) : c \in V \cup gone
        BY <2>4, <3>1 DEF Walked
      <3> QED
        BY <3>1, <3>2
    <2>5. CASE d \notin Dirs
      <3>1. \A c \in Below : parent[c] \in Dirs
        BY DEF SearchInv, SearchTypes
      <3>2. Children(d) = {}
        BY <2>5, <3>1 DEF Children
      <3> QED
        BY <3>2
    <2> QED
      BY <2>1, <2>2, <2>3, <2>4, <2>5
  <1>5. \A x \in Under(Root) : x \in S
    <2> HIDE DEF S
    <2> QED
      BY <1>3, <1>4 DEF Under
  <1> QED
    BY <1>5 DEF SearchInv

(* What is found in a file is in it; what is in it is found, by a hex      *)
(* search if its digits can be.                                            *)
LEMMA HitsAreRight ==
    ASSUME SearchTypes, NEW n \in Below
    PROVE  /\ Contains(n) => Hit(n)
           /\ Hit(n) => Contains(n) \/ (hex /\ n \in Files)
           /\ Named(n) = IF hex THEN 0
                         ELSE Cardinality({i \in DOMAIN keys : Begins(keys[i], name[n])})
  <1>1. /\ \A i \in DOMAIN keys : keys[i] \in Seq(Byte)
        /\ name[n] \in Seq(Byte)
        /\ n \in Files => contents[n] \in Seq(Byte)
    <2>1. keys \in Seq(Seq(Byte))
      BY TextsAreBytes DEF SearchTypes, Byte
    <2>2. DOMAIN keys = 1 .. Len(keys)
      BY <2>1, LenProperties
    <2>3. \A i \in DOMAIN keys : keys[i] \in Seq(Byte)
      BY <2>1, <2>2, ElementOfSeq
    <2>4. name[n] \in Names /\ (n \in Files => contents[n] \in Lines)
      BY DEF SearchTypes
    <2> QED
      BY <2>3, <2>4, TextsAreBytes DEF Byte
  <1>2. ASSUME NEW i \in DOMAIN keys
        PROVE  FoundAt(0, Fold(keys[i]), name[n]) <=> Begins(keys[i], name[n])
    BY <1>1, FoldedIsFound
  <1>3. {i \in DOMAIN keys : FoundAt(0, Fold(keys[i]), name[n])}
           = {i \in DOMAIN keys : Begins(keys[i], name[n])}
    BY <1>2
  <1>4. ASSUME NEW i \in DOMAIN keys, n \in Files
        PROVE  Found(Fold(keys[i]), Fold(contents[n])) <=>
                  \E k \in 0 .. Len(contents[n]) : AlikeAt(k, keys[i], contents[n])
    BY <1>1, <1>4, FoldedIsFound
  <1>5. ASSUME NEW i \in DOMAIN keys, n \in Files, Plain(keys[i]), Found(keys[i], contents[n])
        PROVE  Found(TypedIn(keys[i]), ToHex(contents[n]))
    BY <1>1, <1>5, HexFound
  <1>6. CASE hex
    BY <1>5, <1>6 DEF Contains, Hit, Named
  <1>7. CASE ~hex
    BY <1>3, <1>4, <1>7 DEF Contains, Hit, Named
  <1>8. hex \in BOOLEAN
    BY DEF SearchTypes
  <1> QED
    BY <1>6, <1>7

LEMMA InvMatches == SearchInv => ResultsAreMatches
  <1> SUFFICES ASSUME SearchInv, NEW n \in Below
               PROVE  LET certain == IF Contains(n) /\ n \notin unreadable THEN 1 ELSE 0
                          most    == IF Contains(n) \/ (hex /\ n \in Files) THEN 1 ELSE 0
                      IN  /\ Count(n) <= Named(n) + most
                          /\ stack = <<>> => \/ n \in gone
                                             \/ Count(n) >= Named(n) + certain
                                             \/ n \in Hidden
    BY HitsAreRight DEF ResultsAreMatches, SearchInv
  <1> DEFINE certain == IF Contains(n) /\ n \notin unreadable THEN 1 ELSE 0
             most    == IF Contains(n) \/ (hex /\ n \in Files) THEN 1 ELSE 0
  <1>1. SearchTypes
    BY DEF SearchInv
  <1>2. PICK V \in SUBSET Nodes : Walked(V) /\ Counted(V)
    BY DEF SearchInv
  <1>3. PICK c \in Nat : c = Named(n)
    BY <1>1, NamedIsNat
  <1>4. /\ Contains(n) => Hit(n)
        /\ Hit(n) => Contains(n) \/ (hex /\ n \in Files)
    BY <1>1, HitsAreRight
  <1>5. Most(n) = c + (IF Hit(n) THEN 1 ELSE 0)
    BY <1>3 DEF Most
  <1>6. Count(n) \in {c, Most(n)} \/ Count(n) = 0
    BY <1>2, <1>3 DEF Counted, Below
  <1>7. Count(n) <= c + most
    BY <1>4, <1>5, <1>6
  <1>8. ASSUME stack = <<>>, n \notin gone, n \notin Hidden
        PROVE  Count(n) >= c + certain
    <2>1. n \in V \ {Root}
      BY <1>2, <1>8, AllVisited DEF Below
    <2>2. Count(n) \in {c, Most(n)} /\ (n \notin unreadable => Count(n) = Most(n))
      BY <1>2, <1>3, <1>8, <2>1 DEF Counted
    <2> QED
      BY <1>4, <1>5, <2>2
  <1> QED
    BY <1>3, <1>7, <1>8

LEMMA InvActs == SearchInv => ActsOnWhatIsListed
  <1> SUFFICES ASSUME SearchInv PROVE ActsOnWhatIsListed
    OBVIOUS
  <1>1. SearchTypes /\ ActsInv
    BY DEF SearchInv
  <1>2. at \in {"menu", "end"} => \A e \in Said : Done(e) <= Times(e, logged)
    <2> SUFFICES ASSUME at \in {"menu", "end"}, NEW e \in Said PROVE Done(e) <= Times(e, logged)
      OBVIOUS
    <2>1. ~Pending(e)
      BY DEF Pending
    <2>2. Done(e) \in Nat /\ Times(e, logged) \in Nat
      BY <1>1, CountsAreNat
    <2>3. Done(e) <= Times(e, logged) + 0
      BY <1>1, <2>1 DEF ActsInv
    <2> QED
      BY <2>2, <2>3
  <1> QED
    BY <1>1, <1>2 DEF ActsInv, ActsOnWhatIsListed, Said

(* The search finds what there is to find, each time it matches: for any   *)
(* tree, any keywords, names and lines, whatever is removed while it runs  *)
(* and whatever cannot be opened or read (traverse, searchFile).           *)
THEOREM SearchFinds == Search!Spec => []ResultsAreMatches
  BY SearchIsInductive, InvMatches, PTL

(* What is opened or edited is what was listed under the number typed, and *)
(* is logged as such (displayResults, getSelection).                       *)
THEOREM ActsLogged == Search!Spec => []ActsOnWhatIsListed
  BY SearchIsInductive, InvActs, PTL
=============================================================================
