---------------------------- MODULE BrowserHistory ----------------------------
(***************************************************************************)
(* The history a user expects of Back and Forward: a stack of the places   *)
(* before the current one and a stack of those after it.  A visit empties  *)
(* the second; the first forgets its oldest place when there are Size in   *)
(* all.  A place that is gone is left for the one before it.  A visit may  *)
(* lead anywhere else.                                                     *)
(***************************************************************************)
EXTENDS Naturals, Sequences

CONSTANTS Home, Size

VARIABLES before, here, after

Init == before = <<>> /\ here = Home /\ after = <<>>

Newest(s) == IF Len(s) < Size THEN s ELSE Tail(s)

Visit ==
    /\ here' # here
    /\ before' = Newest(Append(before, here))
    /\ after' = <<>>

Back ==
    /\ before # <<>>
    /\ before' = SubSeq(before, 1, Len(before) - 1)
    /\ here' = before[Len(before)]
    /\ after' = <<here>> \o after

Forward ==
    /\ after # <<>>
    /\ before' = Append(before, here)
    /\ here' = Head(after)
    /\ after' = Tail(after)

Leave ==
    /\ after' = <<>>
    /\ IF before = <<>> THEN before' = <<>> /\ here' = Home
       ELSE /\ before' = SubSeq(before, 1, Len(before) - 1)
            /\ here' = before[Len(before)]

Next == Back \/ Forward \/ Leave \/ Visit

Spec == Init /\ [][Next]_<<before, here, after>>
=============================================================================
