--------------------------- MODULE MCDeletedFiles ---------------------------
(* DeletedFiles on NTFS images with two records, as all images are too      *)
(* many for TLC; every FAT32 directory is there.                            *)
EXTENDS DeletedFiles

Blank == [type |-> "other", length |-> 1]

(* One record may have any attributes of the shorter kind, the other short  *)
(* names and behind them end marks; headers are blank.                      *)
Short == {[type |-> "name", length |-> 1], [type |-> "end", length |-> 1]}
Any == {a \in Ntfs!Attribute :
          \/ a \in Short \cup {Blank}
          \/ a.type = "other" /\ a.length = -1
          \/ a \in [type : {"name", "named", "runs"}, length : {2}]}

Full(r) == [Ntfs!CellsOf(r) -> Any]
Plainer(r) ==
    {g \in [Ntfs!CellsOf(r) -> Short] :
        \A o, p \in Ntfs!CellsOf(r) : o < p /\ g[o].type = "end" => g[p].type = "end"}

Image(f, g) ==
    [o \in 1 .. Records * Cells |->
        IF o \in DOMAIN f THEN f[o] ELSE IF o \in DOMAIN g THEN g[o] ELSE Blank]

MCInit ==
    \/ system = "FAT32" /\ Init
    \/ /\ system = "NTFS"
       /\ headers \in [1 .. Records + 1 -> Ntfs!Header]
       /\ headers[Records + 1] = "none"
       /\ \E q \in Ntfs!Deleted, r \in 1 .. Records :
             /\ q # r
             /\ \E f \in Full(q), g \in Plainer(r) : image = Image(f, g)
       /\ Init

MCFairSpec == MCInit /\ [][Next]_vars /\ WF_vars(Next)
=============================================================================
