------------------------------- MODULE Blocks -------------------------------
(***************************************************************************)
(* Partitions given as functions from elements to blocks, and the          *)
(* connected components of a set of links.                                 *)
(***************************************************************************)

\* S never separates the two ends of a link of L.
Closed(L, S) == \A l \in L : l[1] \in S <=> l[2] \in S

\* The connected component of i among I: the least closed set around it.
Component(L, I, i) ==
    {j \in I : \A S \in SUBSET I : i \in S /\ Closed(L, S) => j \in S}

IsPartition(b, I) ==
    /\ b \in [I -> SUBSET I]
    /\ \A i \in I : i \in b[i]
    /\ \A i, j \in I : j \in b[i] => b[j] = b[i]

\* The partition with the blocks of x and y united.
United(b, x, y) ==
    [i \in DOMAIN b |-> IF i \in b[x] \cup b[y] THEN b[x] \cup b[y] ELSE b[i]]

=============================================================================
