-------------------------- MODULE Grouping_proofs --------------------------
(***************************************************************************)
(* First, of the abstract partition: whatever the order of the links, the  *)
(* blocks end as the connected components, for every graph.  Then, of      *)
(* Grouping: the union-find forest of groups.go represents the partition   *)
(* joined so far, for every request, so that the groups are the components *)
(* of its links; and the verdict is that of validity.                      *)
(***************************************************************************)
EXTENDS Grouping, FiniteSetTheorems, TLAPS

\* Uniting two blocks yields a partition with both ends in one block.
LEMMA UnitedFacts ==
    ASSUME NEW I, NEW b, IsPartition(b, I), NEW x \in I, NEW y \in I
    PROVE  /\ IsPartition(United(b, x, y), I)
           /\ United(b, x, y)[x] = United(b, x, y)[y]
           /\ \A i \in I : b[i] \subseteq United(b, x, y)[i]
<1> DEFINE u == United(b, x, y)
           xy == b[x] \cup b[y]
<1>1. /\ DOMAIN b = I
      /\ \A i \in I : b[i] \subseteq I /\ i \in b[i]
      /\ \A i, j \in I : j \in b[i] => b[j] = b[i]
  BY DEF IsPartition
<1>2. /\ DOMAIN u = I
      /\ \A i \in I : u[i] = IF i \in xy THEN xy ELSE b[i]
  BY <1>1 DEF United
<1>3. u = [i \in I |-> u[i]]
  BY <1>1 DEF United
<1>4. u \in [I -> SUBSET I]
  BY <1>1, <1>2, <1>3
<1>5. \A i \in I : i \in u[i]
  BY <1>1, <1>2
<1>6. ASSUME NEW i \in I, NEW j \in I, j \in u[i]
      PROVE  u[j] = u[i]
  <2>1. CASE i \in xy
    BY <1>2, <1>6, <2>1
  <2>2. CASE i \notin xy
    <3>1. j \in b[i] /\ b[j] = b[i]
      BY <1>1, <1>2, <1>6, <2>2
    <3>2. j \notin xy
      BY <1>1, <2>2, <3>1
    <3> QED
      BY <1>2, <2>2, <3>1, <3>2
  <2> QED
    BY <2>1, <2>2
<1>7. u[x] = u[y]
  BY <1>1, <1>2
<1>8. \A i \in I : b[i] \subseteq u[i]
  BY <1>1, <1>2
<1> QED
  BY <1>4, <1>5, <1>6, <1>7, <1>8 DEF IsPartition

\* Nodes that shared a block still share one.
LEMMA UnitedKeeps ==
    ASSUME NEW I, NEW b, IsPartition(b, I), NEW x \in I, NEW y \in I,
           NEW i \in I, NEW j \in I, b[i] = b[j]
    PROVE  United(b, x, y)[i] = United(b, x, y)[j]
<1>1. /\ DOMAIN b = I
      /\ i \in b[i] /\ j \in b[i] /\ i \in b[j] /\ j \in b[j]
      /\ \A k, n \in I : n \in b[k] => b[n] = b[k]
  BY DEF IsPartition
<1>2. i \in b[x] \cup b[y] <=> j \in b[x] \cup b[y]
  BY <1>1
<1> QED
  BY <1>1, <1>2 DEF United

\* Of the links L between nodes I, all but T are honoured by the blocks, which are
\* as coarse as those demand and no coarser.
Honours(I, L, T, b) ==
    /\ L \subseteq I \X I /\ T \subseteq L
    /\ IsPartition(b, I)
    /\ \A l \in L \ T : b[l[1]] = b[l[2]]
    /\ \A i \in I : \A S \in SUBSET I : i \in S /\ Closed(L \ T, S) => b[i] \subseteq S

\* Singletons are the partition without links.
LEMMA HonoursStarts ==
    ASSUME NEW I, NEW L, L \subseteq I \X I
    PROVE  Honours(I, L, L, [i \in I |-> {i}])
BY DEF Honours, IsPartition

\* Uniting the ends of one more link, the blocks stay as coarse as demanded.
LEMMA HonoursSteps ==
    ASSUME NEW I, NEW L, NEW T, NEW b, Honours(I, L, T, b), NEW l \in T
    PROVE  Honours(I, L, T \ {l}, United(b, l[1], l[2]))
<1> DEFINE done == L \ T
           more == L \ (T \ {l})
           u == United(b, l[1], l[2])
<1>1. l[1] \in I /\ l[2] \in I /\ more = done \cup {l}
  BY DEF Honours
<1>2. /\ IsPartition(b, I)
      /\ \A k \in done : k[1] \in I /\ k[2] \in I /\ b[k[1]] = b[k[2]]
  BY DEF Honours
<1>3. IsPartition(u, I)
  BY <1>1, <1>2, UnitedFacts
<1>4. \A k \in more : u[k[1]] = u[k[2]]
  <2>1. u[l[1]] = u[l[2]]
    BY <1>1, <1>2, UnitedFacts
  <2>2. \A k \in done : u[k[1]] = u[k[2]]
    BY <1>1, <1>2, UnitedKeeps
  <2> QED
    BY <1>1, <2>1, <2>2
<1>5. ASSUME NEW i \in I, NEW S \in SUBSET I, i \in S, Closed(more, S)
      PROVE  u[i] \subseteq S
  <2>1. Closed(done, S) /\ (l[1] \in S <=> l[2] \in S)
    BY <1>1, <1>5 DEF Closed
  <2>2. \A j \in I : j \in S => b[j] \subseteq S
    BY <2>1 DEF Honours
  <2>3. DOMAIN b = I
    BY <1>2 DEF IsPartition
  <2>4. CASE i \in b[l[1]] \cup b[l[2]]
    <3>1. u[i] = b[l[1]] \cup b[l[2]]
      BY <2>3, <2>4 DEF United
    <3>2. l[1] \in b[i] \/ l[2] \in b[i]
      BY <1>1, <1>2, <2>4 DEF IsPartition
    <3>3. l[1] \in S /\ l[2] \in S
      BY <1>5, <2>1, <2>2, <3>2
    <3> QED
      BY <1>1, <2>2, <3>1, <3>3
  <2>5. CASE i \notin b[l[1]] \cup b[l[2]]
    <3>1. u[i] = b[i]
      BY <2>3, <2>5 DEF United
    <3> QED
      BY <1>5, <2>2, <3>1
  <2> QED
    BY <2>4, <2>5
<1> QED
  BY <1>3, <1>4, <1>5 DEF Honours

\* When every link is honoured, the blocks are the components.
LEMMA HonoursEnds ==
    ASSUME NEW I, NEW L, NEW b, Honours(I, L, {}, b), NEW i \in I
    PROVE  b[i] = Component(L, I, i)
<1>1. L \ {} = L
  OBVIOUS
<1>2. b[i] \in SUBSET I /\ i \in b[i]
  BY DEF Honours, IsPartition
<1>3. Closed(L, b[i])
  BY <1>1 DEF Honours, IsPartition, Closed
<1>4. \A S \in SUBSET I : i \in S /\ Closed(L, S) => b[i] \subseteq S
  BY <1>1 DEF Honours
<1> QED
  BY <1>2, <1>3, <1>4 DEF Component

-----------------------------------------------------------------------------
\* The abstract partition at work, on graphs of its own.

CONSTANT Graphs
VARIABLES graph, todo
AP == INSTANCE Partition

LEMMA SameHonours ==
    AP!PartitionInv <=> Honours(graph.nodes, graph.links, todo, block)
BY DEF AP!PartitionInv, AP!IsGraph, AP!IsPartition, AP!Closed, Honours, IsPartition, Closed

(***************************************************************************)
(* The blocks are always as coarse as the honoured links demand and no     *)
(* coarser (the joins of collectGroups).                                   *)
(***************************************************************************)
THEOREM PartitionInvariance ==
    ASSUME \A G \in Graphs : AP!IsGraph(G)
    PROVE  AP!Spec => []AP!PartitionInv
<1>1. AP!Init => AP!PartitionInv
  <2> SUFFICES ASSUME NEW G \in Graphs, AP!Start(G)
               PROVE  Honours(graph.nodes, graph.links, todo, block)
    BY SameHonours DEF AP!Init
  <2>1. /\ graph = G /\ todo = G.links /\ block = [i \in G.nodes |-> {i}]
        /\ G.links \subseteq G.nodes \X G.nodes
    BY DEF AP!Start, AP!IsGraph
  <2> QED
    BY <2>1, HonoursStarts
<1>2. AP!PartitionInv /\ [AP!Next]_(AP!vars) => AP!PartitionInv'
  <2> SUFFICES ASSUME Honours(graph.nodes, graph.links, todo, block), [AP!Next]_(AP!vars)
               PROVE  Honours(graph.nodes, graph.links, todo, block)'
    BY SameHonours DEF AP!PartitionInv, AP!IsGraph, AP!IsPartition, AP!Closed,
                       Honours, IsPartition, Closed
  <2>1. ASSUME NEW l \in todo, AP!Unite(l)
        PROVE  Honours(graph.nodes, graph.links, todo, block)'
    <3>1. /\ graph' = graph /\ todo' = todo \ {l}
          /\ block' = United(block, l[1], l[2])
      BY <2>1 DEF AP!Unite, AP!United, United
    <3> QED
      BY <3>1, HonoursSteps
  <2>2. CASE UNCHANGED AP!vars
    BY <2>2 DEF AP!vars
  <2> QED
    BY <2>1, <2>2 DEF AP!Next
<1> QED
  BY <1>1, <1>2, PTL DEF AP!Spec

(***************************************************************************)
(* The order in which links are honoured does not show in the groups: Go   *)
(* iterates the results map of collectGroups in random order.              *)
(***************************************************************************)
THEOREM OrderDoesNotMatter ==
    ASSUME \A G \in Graphs : AP!IsGraph(G)
    PROVE  AP!Spec => []AP!OrderIndependent
<1>1. AP!PartitionInv => AP!OrderIndependent
  BY SameHonours, HonoursEnds DEF AP!OrderIndependent, AP!Component, AP!Closed,
                                  Component, Closed
<1> QED
  BY <1>1, PartitionInvariance, PTL

-----------------------------------------------------------------------------
\* The forest of groups.go.

\* Messages are numbered from 1 to N.
LEMMA NodesAre == ASSUME TypeOK PROVE N \in Nat /\ Nodes = 1..N
<1>1. req.messages \in Seq(Range(req.messages))
  BY RequestsAssumption DEF TypeOK
<1> QED
  BY <1>1 DEF N, Nodes, Indices

\* The call a valid result answers is an earlier message.
LEMMA CallOfIsNode ==
    ASSUME NEW r \in Nodes, Answers(req, r)
    PROVE  CallOf(req, r) \in Nodes
BY DEF Answers, CallOf, Nodes

(***************************************************************************)
(* Indices, cursors and roots stay inside the transcript whatever request  *)
(* is grouped: find never walks off the parents slice.                     *)
(***************************************************************************)
THEOREM TypeCorrect == Spec => []TypeOK
<1>1. Init => TypeOK
  <2> SUFFICES ASSUME Init PROVE TypeOK
    OBVIOUS
  <2>1. N \in Nat /\ Nodes = 1..N
    <3>1. req.messages \in Seq(Range(req.messages))
      BY RequestsAssumption DEF Init
    <3> QED
      BY <3>1 DEF N, Nodes, Indices
  <2> QED
    BY <2>1 DEF Init, TypeOK
<1>2. TypeOK /\ [Next]_vars => TypeOK'
  <2> SUFFICES ASSUME TypeOK, [Next]_vars
               PROVE  TypeOK'
    OBVIOUS
  <2>0. N \in Nat /\ Nodes = 1..N
    BY NodesAre
  <2>00. ASSUME req' = req PROVE N' = N /\ Nodes' = Nodes
    BY <2>00 DEF N, Nodes, Indices
  <2>1. CASE Validate
    <3>1. N' = N /\ Nodes' = Nodes
      BY <2>1, <2>00 DEF Validate
    <3> QED
      BY <2>1, <3>1 DEF Validate, TypeOK, forest, places
  <2>2. CASE Depend
    <3>1. N' = N /\ Nodes' = Nodes
      BY <2>2, <2>00 DEF Depend
    <3>2. at \in Nodes
      BY <2>0, <2>2 DEF Depend, TypeOK
    <3> QED
      BY <2>2, <3>1, <3>2 DEF Depend, Idle, StartJoin, TypeOK, forest, places
  <2>3. CASE Label
    <3>1. N' = N /\ Nodes' = Nodes
      BY <2>3, <2>00 DEF Label
    <3>2. at \in Nodes /\ 1..(at - 1) \subseteq Nodes
      BY <2>0, <2>3 DEF Label, TypeOK
    <3>3. at' \in 1..(N + 1) /\ nth' \in Nat \ {0}
      BY <2>0, <2>3 DEF Label, TypeOK
    <3> QED
      BY <2>3, <3>1, <3>2, <3>3 DEF Label, Idle, StartJoin, TypeOK, forest, places
  <2>4. CASE Declared
    <3>1. N' = N /\ Nodes' = Nodes
      BY <2>4, <2>00 DEF Declared
    <3> QED
      BY <2>4, <3>1 DEF Declared, Idle, TypeOK, forest, places, Results, Nodes
  <2>5. CASE Answer
    <3>1. N' = N /\ Nodes' = Nodes
      BY <2>5, <2>00 DEF Answer
    <3>2. PICK r \in waiting :
        /\ waiting' = waiting \ {r}
        /\ IF ~Answers(req, r)
             THEN pc' = "invalid" /\ UNCHANGED forest
             ELSE /\ pc' = pc
                  /\ IF req.individually
                       THEN UNCHANGED forest
                       ELSE StartJoin(CallOf(req, r), r)
      BY <2>5 DEF Answer
    <3>3. r \in Nodes
      BY DEF TypeOK, Results, Nodes
    <3>4. Answers(req, r) => CallOf(req, r) \in Nodes
      BY <3>3, CallOfIsNode
    <3> QED
      BY <2>5, <3>1, <3>2, <3>3, <3>4
         DEF Answer, Idle, StartJoin, TypeOK, forest, places
  <2>6. CASE Paired
    <3>1. N' = N /\ Nodes' = Nodes
      BY <2>6, <2>00 DEF Paired
    <3>2. at' \in 1..(N + 1)
      BY <2>0, <2>6 DEF Paired
    <3> QED
      BY <2>6, <3>1, <3>2 DEF Paired, Idle, TypeOK, forest, places
  <2>7. CASE Halve
    <3>1. N' = N /\ Nodes' = Nodes
      BY <2>7, <2>00 DEF Halve
    <3> QED
      BY <2>7, <3>1 DEF Halve, TypeOK, places
  <2>8. CASE LeftFound
    <3>1. N' = N /\ Nodes' = Nodes
      BY <2>8, <2>00 DEF LeftFound
    <3> QED
      BY <2>8, <3>1 DEF LeftFound, TypeOK, places
  <2>9. CASE RightFound
    <3>1. N' = N /\ Nodes' = Nodes
      BY <2>9, <2>00 DEF RightFound
    <3>2. rank' \in [Nodes -> Nat]
      BY <2>9 DEF RightFound, Higher, TypeOK
    <3> QED
      BY <2>9, <3>1, <3>2 DEF RightFound, TypeOK, places
  <2>10. CASE Seek
    <3>1. N' = N /\ Nodes' = Nodes
      BY <2>10, <2>00 DEF Seek
    <3>2. at \in Nodes
      BY <2>0, <2>10 DEF Seek, TypeOK
    <3> QED
      BY <2>10, <3>1, <3>2 DEF Seek, Idle, TypeOK, places
  <2>11. CASE PlaceMessage
    <3>1. N' = N /\ Nodes' = Nodes
      BY <2>11, <2>00 DEF PlaceMessage
    <3>2. at \in Nodes /\ at' \in 1..(N + 1)
      BY <2>0, <2>11 DEF PlaceMessage, TypeOK
    <3>3. positions' \in [Nodes -> Nodes \cup {0}] /\ cur \in Nodes
      BY <2>11, <3>2 DEF PlaceMessage, TypeOK
    <3> QED
      BY <2>11, <3>1, <3>2, <3>3 DEF PlaceMessage, TypeOK
  <2>12. CASE Assembled
    <3>1. N' = N /\ Nodes' = Nodes
      BY <2>12, <2>00 DEF Assembled
    <3> QED
      BY <2>12, <3>1 DEF Assembled, Idle, TypeOK, forest, places
  <2>13. CASE UNCHANGED vars
    <3>1. N' = N /\ Nodes' = Nodes
      BY <2>13, <2>00 DEF vars
    <3> QED
      BY <2>13, <3>1 DEF vars, TypeOK, forest, places
  <2> QED
    BY <2>1, <2>2, <2>3, <2>4, <2>5, <2>6, <2>7, <2>8, <2>9, <2>10, <2>11,
       <2>12, <2>13 DEF Next
<1> QED
  BY <1>1, <1>2, PTL DEF Spec

(***************************************************************************)
(* Halving keeps the forest: the grandparent is higher, hence another      *)
(* node, so a message that was not a root does not become one.             *)
(***************************************************************************)
LEMMA HalvingKeepsForest ==
    ASSUME TypeOK, Represents, NEW c \in Nodes, parents[c] # c,
           parents' = [parents EXCEPT ![c] = parents[parents[c]]],
           UNCHANGED <<req, block, rank>>
    PROVE  /\ Represents'
           /\ Roots' = Roots
           /\ parents[parents[c]] \in block[c]
<1> DEFINE q == parents[c]
           s == parents[q]
<1>1. Nodes' = Nodes
  BY DEF Nodes, Indices
<1>2. q \in Nodes /\ s \in Nodes
  BY DEF TypeOK
<1>3. s \in block[c]
  BY <1>2 DEF Represents, IsPartition
<1>4. /\ rank[c] \in Nat /\ rank[q] \in Nat /\ rank[s] \in Nat
      /\ rank[c] < rank[q]
      /\ s # q => rank[q] < rank[s]
  BY <1>2 DEF TypeOK, Represents
<1>5. rank[c] < rank[s] /\ s # c
  BY <1>4
<1>6. \A i \in Nodes : parents'[i] = IF i = c THEN s ELSE parents[i]
  BY DEF TypeOK
<1>7. Roots' = Roots
  BY <1>1, <1>5, <1>6 DEF Roots
<1>8. \A i \in Nodes : parents'[i] \in block[i]
  BY <1>3, <1>6 DEF Represents
<1>9. \A i \in Nodes : parents'[i] # i => rank[i] < rank[parents'[i]]
  BY <1>5, <1>6 DEF Represents
<1> QED
  BY <1>1, <1>3, <1>7, <1>8, <1>9 DEF Represents

(***************************************************************************)
(* Hanging one root under another unites exactly their two blocks.         *)
(***************************************************************************)
LEMMA LinkingKeepsForest ==
    ASSUME TypeOK, Represents, NEW x \in Nodes, NEW y \in Nodes,
           NEW r \in Roots, NEW c \in Roots,
           r \in block[x], c \in block[y],
           parents' = [parents EXCEPT ![r] = c],
           block' = United(block, x, y),
           rank' = IF r = c THEN rank
                   ELSE [rank EXCEPT ![c] = Higher(rank[c], rank[r] + 1)],
           req' = req
    PROVE  Represents'
<1>1. Nodes' = Nodes
  BY DEF Nodes, Indices
<1>2. /\ r \in Nodes /\ parents[r] = r
      /\ c \in Nodes /\ parents[c] = c
  BY DEF Roots
<1>3. IsPartition(block, Nodes)
  BY DEF Represents
<1>4. /\ block[x] = block[r] /\ block[y] = block[c]
      /\ \A i, j \in Nodes : j \in block[i] => block[j] = block[i]
      /\ \A i \in Nodes : i \in block[i]
  BY <1>2, <1>3 DEF IsPartition
<1>5. IsPartition(block', Nodes)
  BY <1>3, UnitedFacts
<1>6. \A i \in Nodes : block'[i] = IF i \in block[r] \cup block[c]
                                   THEN block[r] \cup block[c] ELSE block[i]
  BY <1>3, <1>4 DEF United, IsPartition
<1>7. \A i \in Nodes : parents'[i] = IF i = r THEN c ELSE parents[i]
  BY DEF TypeOK
<1>8. \A i \in Nodes : parents'[i] \in block'[i]
  <2> SUFFICES ASSUME NEW i \in Nodes PROVE parents'[i] \in block'[i]
    OBVIOUS
  <2>1. parents[i] \in block[i]
    BY DEF Represents
  <2>2. block[i] \subseteq block'[i]
    BY <1>4, <1>6
  <2> QED
    BY <1>2, <1>4, <1>6, <1>7, <2>1, <2>2
<1>9. Roots' = IF r = c THEN Roots ELSE Roots \ {r}
  BY <1>1, <1>2, <1>7 DEF Roots
<1>10. \A i, j \in Roots : j \in block[i] => i = j
  BY DEF Represents
<1>11. ASSUME NEW i \in Roots', NEW j \in Roots', j \in block'[i]
       PROVE  i = j
  <2>1. i \in Roots /\ j \in Roots /\ (r # c => i # r /\ j # r)
    BY <1>9
  <2>2. i \in Nodes /\ j \in Nodes
    BY <2>1 DEF Roots
  <2>3. CASE i \notin block[r] \cup block[c]
    BY <1>6, <1>10, <1>11, <2>1, <2>2, <2>3
  <2>4. CASE i \in block[r] \cup block[c]
    <3>1. j \in block[r] \cup block[c]
      BY <1>6, <1>11, <2>2, <2>4
    <3>2. ASSUME NEW k \in Roots, k \in block[r] \cup block[c], r # c => k # r
          PROVE  k = c
      BY <1>10, <3>2
    <3> QED
      BY <2>1, <2>4, <3>1, <3>2
  <2> QED
    BY <2>3, <2>4
<1>12. \A i \in Nodes : parents'[i] # i => rank'[i] < rank'[parents'[i]]
  <2> SUFFICES ASSUME NEW i \in Nodes, parents'[i] # i
               PROVE  rank'[i] < rank'[parents'[i]]
    OBVIOUS
  <2>1. /\ rank \in [Nodes -> Nat] /\ parents \in [Nodes -> Nodes]
        /\ parents[i] # i => rank[i] < rank[parents[i]]
    BY DEF TypeOK, Represents
  <2>2. CASE r = c
    BY <1>2, <1>7, <2>1, <2>2
  <2>3. CASE r # c
    <3>1. \A k \in Nodes : rank'[k] =
             IF k = c THEN Higher(rank[c], rank[r] + 1) ELSE rank[k]
      BY <2>1, <2>3
    <3>2. /\ rank'[c] \in Nat /\ rank'[c] >= rank[c] /\ rank'[c] > rank[r]
      BY <1>2, <2>1, <3>1 DEF Higher
    <3>3. i # c
      BY <1>2, <1>7, <2>3
    <3>4. CASE i = r
      BY <1>2, <1>7, <2>3, <3>1, <3>2, <3>4
    <3>5. CASE i # r
      <4>1. parents'[i] = parents[i] /\ parents[i] \in Nodes
        BY <1>7, <2>1, <3>5
      <4>2. rank'[i] = rank[i] /\ rank[i] < rank[parents[i]]
        BY <2>1, <3>1, <3>3, <4>1
      <4>3. rank[i] \in Nat /\ rank[parents[i]] \in Nat
        BY <2>1, <4>1
      <4>4. rank[parents[i]] <= rank'[parents[i]] /\ rank'[parents[i]] \in Nat
        BY <1>2, <2>1, <3>1, <3>2, <4>1, <4>3
      <4> QED
        BY <4>1, <4>2, <4>3, <4>4
    <3> QED
      BY <3>4, <3>5
  <2> QED
    BY <2>2, <2>3
<1> QED
  BY <1>1, <1>5, <1>8, <1>11, <1>12 DEF Represents

(***************************************************************************)
(* At every step of every find and join the forest represents the          *)
(* partition joined so far, and the find under way is inside its block:    *)
(* rewriting parents while walking them (find) and between the two finds   *)
(* of one join (join) is safe, for transcripts of any length.              *)
(***************************************************************************)
THEOREM ForestInvariance == Spec => []ForestInv
<1>1. Init => ForestInv
  <2> SUFFICES ASSUME Init PROVE ForestInv
    OBVIOUS
  <2>1. \A i \in Nodes : parents[i] = i /\ block[i] = {i}
    BY DEF Init
  <2>2. IsPartition(block, Nodes)
    BY DEF Init, IsPartition
  <2>3. \A i, j \in Roots : j \in block[i] => i = j
    BY <2>1 DEF Roots
  <2>4. Represents
    BY <2>1, <2>2, <2>3 DEF Represents
  <2>5. CursorInv
    BY DEF Init, CursorInv
  <2> QED
    BY <2>4, <2>5 DEF ForestInv
<1>2. TypeOK /\ ForestInv /\ [Next]_vars => ForestInv'
  <2> SUFFICES ASSUME TypeOK, ForestInv, [Next]_vars
               PROVE  ForestInv'
    OBVIOUS
  <2>0. /\ Represents /\ CursorInv
        /\ IsPartition(block, Nodes)
        /\ \A i \in Nodes : i \in block[i]
    BY DEF ForestInv, Represents, IsPartition
  <2>00. ASSUME UNCHANGED <<req, parents, block, rank>>
         PROVE  Represents' /\ Nodes' = Nodes /\ Roots' = Roots
    <3>1. Nodes' = Nodes
      BY <2>00 DEF Nodes, Indices
    <3>2. Roots' = Roots
      BY <2>00, <3>1 DEF Roots
    <3> QED
      BY <2>0, <2>00, <3>1, <3>2 DEF Represents
  <2>1. ASSUME UNCHANGED <<req, forest, at>>
        PROVE  ForestInv'
    BY <2>0, <2>00, <2>1 DEF forest, CursorInv, ForestInv
  <2>2. ASSUME op = "none", UNCHANGED <<req, forest>>
        PROVE  ForestInv'
    BY <2>0, <2>00, <2>2 DEF forest, CursorInv, ForestInv
  <2>3. ASSUME req' = req, NEW i \in Nodes, NEW j \in Nodes, StartJoin(i, j)
        PROVE  ForestInv'
    <3>1. Represents'
      BY <2>00, <2>3 DEF StartJoin
    <3>2. CursorInv'
      BY <2>0, <2>3 DEF StartJoin, CursorInv
    <3> QED
      BY <3>1, <3>2 DEF ForestInv
  <2>4. CASE Validate
    <3>1. CASE op = "none"
      BY <2>2, <2>4, <3>1 DEF Validate
    <3>2. CASE op # "none"
      BY <2>1, <2>4, <3>2 DEF Validate
    <3> QED
      BY <3>1, <3>2
  <2>5. CASE Depend
    <3>1. at \in Nodes
      BY <2>5, NodesAre DEF Depend, TypeOK
    <3>2. (op = "none" /\ UNCHANGED <<req, forest>>)
          \/ (req' = req /\ \E j \in Nodes : StartJoin(at, j))
      BY <2>5 DEF Depend, Idle
    <3> QED
      BY <2>2, <2>3, <3>1, <3>2
  <2>6. CASE Label
    <3>1. at \in Nodes /\ 1..(at - 1) \subseteq Nodes
      BY <2>6, NodesAre DEF Label, TypeOK
    <3>2. (op = "none" /\ UNCHANGED <<req, forest>>)
          \/ (req' = req /\ \E j \in Nodes : StartJoin(at, j))
      BY <2>6, <3>1 DEF Label, Idle
    <3> QED
      BY <2>2, <2>3, <3>1, <3>2
  <2>7. CASE Declared
    BY <2>2, <2>7 DEF Declared, Idle
  <2>8. CASE Answer
    <3>1. (op = "none" /\ UNCHANGED <<req, forest>>)
          \/ (\E r \in waiting : Answers(req, r) /\ StartJoin(CallOf(req, r), r))
      BY <2>8 DEF Answer, Idle
    <3>2. req' = req /\ waiting \subseteq Nodes
      BY <2>8 DEF Answer, TypeOK, Results, Nodes
    <3>3. ASSUME NEW r \in waiting, Answers(req, r), StartJoin(CallOf(req, r), r)
          PROVE  ForestInv'
      <4>1. r \in Nodes /\ CallOf(req, r) \in Nodes
        BY <3>2, <3>3, CallOfIsNode
      <4> QED
        BY <2>3, <3>2, <3>3, <4>1
    <3> QED
      BY <2>2, <3>1, <3>2, <3>3
  <2>9. CASE Paired
    BY <2>2, <2>9 DEF Paired, Idle
  <2>10. CASE Halve
    <3>1. cur \in Nodes
      BY <2>10 DEF Halve, TypeOK
    <3>2. /\ Represents' /\ Roots' = Roots
          /\ parents[parents[cur]] \in block[cur]
      BY <2>0, <2>10, <3>1, HalvingKeepsForest DEF Halve
    <3>3. /\ op' = op /\ link' = link /\ root' = root /\ at' = at
          /\ block' = block /\ cur' = parents[parents[cur]]
      BY <2>10 DEF Halve
    <3>4. ASSUME NEW k \in Nodes, cur \in block[k]
          PROVE  cur' \in block'[k]
      BY <2>0, <3>1, <3>2, <3>3, <3>4 DEF IsPartition
    <3>5. CursorInv'
      BY <2>0, <3>2, <3>3, <3>4 DEF CursorInv, TypeOK
    <3> QED
      BY <3>2, <3>5 DEF ForestInv
  <2>11. CASE LeftFound
    <3>1. Represents' /\ Nodes' = Nodes /\ Roots' = Roots
      BY <2>00, <2>11 DEF LeftFound
    <3>2. cur \in Roots /\ link[2] \in Nodes
      BY <2>11 DEF LeftFound, Roots, TypeOK
    <3>3. CursorInv'
      BY <2>0, <2>11, <3>1, <3>2 DEF LeftFound, CursorInv
    <3> QED
      BY <3>1, <3>3 DEF ForestInv
  <2>12. CASE RightFound
    <3>1. /\ link[1] \in Nodes /\ link[2] \in Nodes
          /\ root \in Roots /\ cur \in Roots
          /\ root \in block[link[1]] /\ cur \in block[link[2]]
      BY <2>0, <2>12 DEF RightFound, CursorInv, Roots, TypeOK
    <3>2. Represents'
      BY <2>0, <2>12, <3>1, LinkingKeepsForest DEF RightFound
    <3>3. CursorInv'
      BY <2>12 DEF RightFound, CursorInv
    <3> QED
      BY <3>2, <3>3 DEF ForestInv
  <2>13. CASE Seek
    <3>1. at \in Nodes /\ at' = at /\ op' = "seek" /\ cur' = at
      BY <2>13, NodesAre DEF Seek, TypeOK
    <3>2. Represents' /\ block' = block
      BY <2>00, <2>13 DEF Seek
    <3>3. CursorInv'
      BY <2>0, <3>1, <3>2 DEF CursorInv
    <3> QED
      BY <3>2, <3>3 DEF ForestInv
  <2>14. CASE PlaceMessage
    <3>1. Represents'
      BY <2>00, <2>14 DEF PlaceMessage
    <3>2. CursorInv'
      BY <2>14 DEF PlaceMessage, CursorInv
    <3> QED
      BY <3>1, <3>2 DEF ForestInv
  <2>15. CASE Assembled
    BY <2>1, <2>15 DEF Assembled
  <2>16. CASE UNCHANGED vars
    BY <2>1, <2>16 DEF vars
  <2> QED
    BY <2>4, <2>5, <2>6, <2>7, <2>8, <2>9, <2>10, <2>11, <2>12, <2>13, <2>14,
       <2>15, <2>16 DEF Next
<1> QED
  BY <1>1, <1>2, TypeCorrect, PTL DEF Spec

-----------------------------------------------------------------------------
\* Joins follow links of the transcript, and joined links stay joined.
LinkInv ==
    /\ op \in {"left", "right"} => link \in Links(req)
    /\ \A l \in joined \cap Links(req) : block[l[1]] = block[l[2]]

\* Links connect messages.
LEMMA LinksArePairs == Links(req) \subseteq Nodes \X Nodes
BY DEF Links, DependencyLinks, LabelLinks, AnswerLinks, Pairs, Nodes

\* A pair is the tuple of its components.
LEMMA PairEta == \A l \in Nodes \X Nodes : l = <<l[1], l[2]>>
OBVIOUS

\* A join started for an entry of depends_on is a link.
LEMMA DependLinks ==
    ASSUME TypeOK, Depend
    PROVE  \/ pc' = "invalid" /\ UNCHANGED forest
           \/ \E l \in Links(req) : StartJoin(l[1], l[2])
<1>1. CASE {j \in Nodes : Message(j).id = Message(at).deps[nth]} = {}
  BY <1>1 DEF Depend
<1>2. CASE {j \in Nodes : Message(j).id = Message(at).deps[nth]} # {}
  <2>1. PICK j \in Nodes : /\ Message(j).id = Message(at).deps[nth]
                           /\ StartJoin(at, j)
    BY <1>2 DEF Depend
  <2>2. at \in Nodes
    BY NodesAre DEF Depend, TypeOK
  <2>3. Message(at).deps \in Seq(Range(Message(at).deps))
    BY <2>2, RequestsAssumption DEF TypeOK, Message, Nodes, Indices
  <2>4. nth \in DOMAIN Message(at).deps
    BY <2>3 DEF Depend, TypeOK
  <2>5. Message(j).id \in DepIds(Message(at))
    BY <2>1, <2>4 DEF DepIds
  <2>6. <<at, j>> \in Links(req)
    BY <2>1, <2>2, <2>5 DEF Links, DependencyLinks, Pairs, Nodes, Message
  <2>7. StartJoin(<<at, j>>[1], <<at, j>>[2])
    BY <2>1
  <2> QED
    BY <2>6, <2>7
<1> QED
  BY <1>1, <1>2

\* A join started for a group label is a link.
LEMMA LabelIsLink ==
    ASSUME TypeOK, Label
    PROVE  \/ UNCHANGED forest
           \/ \E l \in Links(req) : StartJoin(l[1], l[2])
<1>1. CASE {j \in 1..(at - 1) : SameLabel(req, at, j)} = {}
  BY <1>1 DEF Label
<1>2. CASE {j \in 1..(at - 1) : SameLabel(req, at, j)} # {}
  <2>1. PICK j \in 1..(at - 1) :
            /\ SameLabel(req, at, j)
            /\ \A k \in 1..(at - 1) : SameLabel(req, at, k) => k <= j
            /\ StartJoin(at, j)
    BY <1>2 DEF Label
  <2>2. at \in Nodes /\ j \in Nodes /\ j < at /\ Nodes = 1..N /\ N \in Nat
    BY <2>1, NodesAre DEF Label, TypeOK
  <2>3. \A k \in Nodes : k < at /\ SameLabel(req, at, k) => k <= j
    BY <2>1, <2>2
  <2>4. <<at, j>> \in Links(req)
    BY <2>1, <2>2, <2>3 DEF Links, LabelLinks, Pairs, Nodes
  <2>5. StartJoin(<<at, j>>[1], <<at, j>>[2])
    BY <2>1
  <2> QED
    BY <2>4, <2>5
<1> QED
  BY <1>1, <1>2

\* A join of a result to its call is a link.
LEMMA AnswerIsLink ==
    ASSUME TypeOK, Answer
    PROVE  \/ UNCHANGED forest
           \/ \E l \in Links(req) : StartJoin(l[1], l[2])
<1>1. PICK r \in waiting :
        \/ UNCHANGED forest
        \/ /\ Answers(req, r) /\ ~req.individually
           /\ StartJoin(CallOf(req, r), r)
  BY DEF Answer
<1>2. CASE UNCHANGED forest
  BY <1>2
<1>3. CASE Answers(req, r) /\ ~req.individually /\ StartJoin(CallOf(req, r), r)
  <2> DEFINE c == CallOf(req, r)
  <2>1. /\ c \in Nodes /\ c < r
        /\ Issues(req, c, req.messages[r].result)
    BY <1>3 DEF Answers, CallOf, Nodes
  <2>2. r \in Nodes /\ r \in Results(req)
    BY DEF TypeOK, Results, Nodes
  <2>3. <<c, r>> \in Links(req)
    BY <1>3, <2>1, <2>2 DEF Links, AnswerLinks, Pairs, Nodes
  <2>4. StartJoin(<<c, r>>[1], <<c, r>>[2])
    BY <1>3
  <2> QED
    BY <2>3, <2>4
<1> QED
  BY <1>1, <1>2, <1>3

\* Outside the joins, no action touches the partition or the joined links.
Quiet == UNCHANGED <<req, block, joined>>

LEMMA JoinSteps ==
    ASSUME TypeOK, [Next]_vars
    PROVE  \/ Quiet /\ op' \notin {"left", "right"}
           \/ Quiet /\ op' = op /\ link' = link
           \/ Quiet /\ op = "left" /\ link' = link
           \/ Quiet /\ \E l \in Links(req) : link' = l
           \/ RightFound
<1> USE DEF Quiet, forest
<1>1. CASE Validate
  BY <1>1 DEF Validate
<1>2. CASE Depend
  <2>1. CASE UNCHANGED forest
    BY <1>2, <2>1 DEF Depend
  <2>2. CASE \E l \in Links(req) : StartJoin(l[1], l[2])
    BY <1>2, <2>2, LinksArePairs, PairEta DEF Depend, StartJoin
  <2> QED
    BY <1>2, <2>1, <2>2, DependLinks
<1>3. CASE Label
  <2>1. CASE UNCHANGED forest
    BY <1>3, <2>1 DEF Label
  <2>2. CASE \E l \in Links(req) : StartJoin(l[1], l[2])
    BY <1>3, <2>2, LinksArePairs, PairEta DEF Label, StartJoin
  <2> QED
    BY <1>3, <2>1, <2>2, LabelIsLink
<1>4. CASE Declared
  BY <1>4 DEF Declared
<1>5. CASE Answer
  <2>1. CASE UNCHANGED forest
    BY <1>5, <2>1 DEF Answer
  <2>2. CASE \E l \in Links(req) : StartJoin(l[1], l[2])
    BY <1>5, <2>2, LinksArePairs, PairEta DEF Answer, StartJoin
  <2> QED
    BY <1>5, <2>1, <2>2, AnswerIsLink
<1>6. CASE Paired
  BY <1>6 DEF Paired
<1>7. CASE Halve
  BY <1>7 DEF Halve
<1>8. CASE LeftFound
  BY <1>8 DEF LeftFound
<1>9. CASE RightFound
  BY <1>9
<1>10. CASE Seek
  BY <1>10 DEF Seek
<1>11. CASE PlaceMessage
  BY <1>11 DEF PlaceMessage
<1>12. CASE Assembled
  BY <1>12 DEF Assembled
<1>13. CASE UNCHANGED vars
  BY <1>13 DEF vars
<1> QED
  BY <1>1, <1>2, <1>3, <1>4, <1>5, <1>6, <1>7, <1>8, <1>9, <1>10, <1>11,
     <1>12, <1>13 DEF Next

\* A completed join unites the blocks of its two ends.
LEMMA JoinUnites ==
    ASSUME TypeOK, ForestInv, LinkInv, RightFound
    PROVE  /\ req' = req /\ link \in Links(req)
           /\ block' = United(block, link[1], link[2])
           /\ joined' = joined \cup {link}
           /\ \A l \in joined' \cap Links(req) : block'[l[1]] = block'[l[2]]
<1>1. /\ req' = req /\ link \in Links(req)
      /\ block' = United(block, link[1], link[2])
      /\ joined' = joined \cup {link}
  BY DEF RightFound, LinkInv
<1>2. link[1] \in Nodes /\ link[2] \in Nodes /\ IsPartition(block, Nodes)
  BY <1>1, LinksArePairs DEF ForestInv, Represents
<1>3. block'[link[1]] = block'[link[2]]
  BY <1>1, <1>2, UnitedFacts
<1>4. ASSUME NEW l \in joined \cap Links(req)
      PROVE  block'[l[1]] = block'[l[2]]
  <2>1. l[1] \in Nodes /\ l[2] \in Nodes /\ block[l[1]] = block[l[2]]
    BY LinksArePairs DEF LinkInv
  <2>2. United(block, link[1], link[2])[l[1]] = United(block, link[1], link[2])[l[2]]
    BY <1>2, <2>1, UnitedKeeps
  <2> QED
    BY <1>1, <2>2
<1> QED
  BY <1>1, <1>3, <1>4

LEMMA LinkInvariance == Spec => []LinkInv
<1>1. Init => LinkInv
  BY DEF Init, LinkInv
<1>2. TypeOK /\ ForestInv /\ LinkInv /\ [Next]_vars => LinkInv'
  <2> SUFFICES ASSUME TypeOK, ForestInv, LinkInv, [Next]_vars
               PROVE  LinkInv'
    OBVIOUS
  <2>1. CASE RightFound
    <3>1. op' = "none"
      BY <2>1 DEF RightFound
    <3> QED
      BY <2>1, <3>1, JoinUnites DEF LinkInv
  <2>2. CASE ~RightFound
    BY <2>2, JoinSteps DEF LinkInv, Quiet
  <2> QED
    BY <2>1, <2>2
<1> QED
  BY <1>1, <1>2, TypeCorrect, ForestInvariance, PTL DEF Spec

\* Joining two messages of one block changes nothing.
LEMMA RejoinIsStutter ==
    ASSUME NEW I, NEW b, IsPartition(b, I), NEW x \in I, NEW y \in I, b[x] = b[y]
    PROVE  United(b, x, y) = b
<1>1. b = [i \in I |-> b[i]] /\ DOMAIN b = I
  BY DEF IsPartition
<1>2. \A i \in I : i \in b[x] \cup b[y] => b[x] \cup b[y] = b[i]
  BY DEF IsPartition
<1> QED
  BY <1>1, <1>2 DEF United

LEMMA PartitionStarts == Init => P!Init
<1> SUFFICES ASSUME Init
             PROVE  P!Start([nodes |-> Nodes, links |-> Links(req)])
  BY DEF P!Init, Init, Nodes
<1> QED
  BY DEF P!Start, Init

\* Every step honours one more link, or repeats one, or leaves the partition alone.
LEMMA PartitionSteps ==
    TypeOK /\ ForestInv /\ LinkInv /\ [Next]_vars => [P!Next]_(P!vars)
<1> SUFFICES ASSUME TypeOK, ForestInv, LinkInv, [Next]_vars
             PROVE  P!Next \/ UNCHANGED P!vars
  OBVIOUS
<1>1. CASE RightFound
  <2>1. /\ req' = req /\ link \in Links(req)
        /\ block' = United(block, link[1], link[2])
        /\ joined' = joined \cup {link}
    BY <1>1, JoinUnites
  <2>2. Links(req)' = Links(req) /\ Nodes' = Nodes
    BY <2>1 DEF Links, DependencyLinks, LabelLinks, AnswerLinks, Pairs,
                Results, SameLabel, Issues, Nodes, Indices
  <2>3. CASE link \in joined
    <3>1. link[1] \in Nodes /\ link[2] \in Nodes /\ IsPartition(block, Nodes)
      BY <2>1, LinksArePairs DEF ForestInv, Represents
    <3>2. block[link[1]] = block[link[2]]
      BY <2>1, <2>3 DEF LinkInv
    <3>3. block' = block
      BY <2>1, <3>1, <3>2, RejoinIsStutter
    <3> QED
      BY <2>1, <2>2, <2>3, <3>3 DEF P!vars
  <2>4. CASE link \notin joined
    <3>1. P!Unite(link)
      BY <2>1, <2>2, <2>4 DEF P!Unite, P!United, United
    <3> QED
      BY <2>1, <2>4, <3>1 DEF P!Next
  <2> QED
    BY <2>3, <2>4
<1>2. CASE ~RightFound
  <2>1. UNCHANGED <<req, block, joined>>
    BY <1>2, JoinSteps DEF Quiet
  <2>2. Links(req)' = Links(req) /\ Nodes' = Nodes
    BY <2>1 DEF Links, DependencyLinks, LabelLinks, AnswerLinks, Pairs,
                Results, SameLabel, Issues, Nodes, Indices
  <2> QED
    BY <2>1, <2>2 DEF P!vars
<1> QED
  BY <1>1, <1>2

(***************************************************************************)
(* The union-find forest implements the abstract partition: every          *)
(* completed join honours one link of the transcript (or repeats one), and *)
(* nothing else changes the blocks.                                        *)
(***************************************************************************)
THEOREM ForestImplementsPartition == Spec => ImplementsPartition
BY PartitionStarts, PartitionSteps, TypeCorrect, ForestInvariance, LinkInvariance, PTL
   DEF Spec, ImplementsPartition, P!Spec

\* Hence what is proved of the abstract partition holds of the forest's.
LEMMA PartitionHolds == Spec => []Honours(Nodes, Links(req), Links(req) \ joined, block)
<1> DEFINE L == Links(req)
           Inv == Honours(Nodes, L, L \ joined, block)
<1>1. P!Init => Inv
  <2> SUFFICES ASSUME P!Init PROVE Inv
    OBVIOUS
  <2>1. /\ Nodes = Indices(req)
        /\ L \ joined = L /\ block = [i \in Nodes |-> {i}]
    BY DEF P!Init, P!Start, Nodes
  <2>2. L \subseteq Nodes \X Nodes
    BY <2>1 DEF Links, DependencyLinks, LabelLinks, AnswerLinks, Pairs
  <2> HIDE DEF L
  <2> QED
    BY <2>1, <2>2, HonoursStarts
<1>2. Inv /\ [P!Next]_(P!vars) => Inv'
  <2> SUFFICES ASSUME Inv, [P!Next]_(P!vars) PROVE Inv'
    OBVIOUS
  <2>1. Nodes' = Nodes /\ L' = L
    BY DEF P!Next, P!Unite, P!vars
  <2>2. ASSUME NEW l \in L \ joined, P!Unite(l) PROVE Inv'
    <3>1. /\ (L \ joined)' = (L \ joined) \ {l}
          /\ block' = United(block, l[1], l[2])
      BY <2>2 DEF P!Unite, P!United, United
    <3>2. Honours(Nodes, L, (L \ joined) \ {l}, United(block, l[1], l[2]))
      BY HonoursSteps
    <3> QED
      BY <2>1, <3>1, <3>2
  <2>3. CASE UNCHANGED P!vars
    BY <2>1, <2>3 DEF P!vars
  <2> QED
    BY <2>2, <2>3 DEF P!Next
<1> QED
  BY <1>1, <1>2, PartitionStarts, PartitionSteps, TypeCorrect, ForestInvariance,
     LinkInvariance, PTL DEF Spec

-----------------------------------------------------------------------------
\* What validation and joining have dealt with so far.

Entered == pc \notin {"validate", "invalid"}
Judged == pc \in {"assemble", "done"}

\* The rules checked so far hold; a rejected request breaks one.
Named(i, k) == \E j \in Nodes : Message(j).id = Message(i).deps[k]
VerdictInv ==
    /\ pc = "validate" => at = 1 /\ nth = 1
    /\ Entered => Plausible(req)
    /\ pc = "declare" =>
          /\ \A i \in Nodes : i < at => \A k \in DOMAIN Message(i).deps : Named(i, k)
          /\ \A k \in 1..(nth - 1) : at \in Nodes => Named(at, k)
    /\ Entered /\ pc # "declare" => KnownDependencies(req)
    /\ pc = "answer" => \A r \in Results(req) \ waiting : Answers(req, r)
    /\ Judged => \A r \in Results(req) : Answers(req, r)
    /\ pc = "invalid" => ~Valid(req)

\* Everything a request is made of stays as it is.
LEMMA RequestStays ==
    ASSUME [Next]_vars
    PROVE  /\ req' = req
           /\ N' = N /\ Nodes' = Nodes
           /\ Links(req)' = Links(req) /\ Results(req)' = Results(req)
           /\ Plausible(req)' = Plausible(req) /\ Valid(req)' = Valid(req)
           /\ KnownDependencies(req)' = KnownDependencies(req)
<1>1. req' = req
  BY DEF Next, vars, Validate, Depend, Label, Declared, Answer, Paired, Halve, LeftFound,
     RightFound, Seek, PlaceMessage, Assembled
<1> QED
  BY <1>1 DEF N, Nodes, Indices

LEMMA VerdictInvariance == Spec => []VerdictInv
<1>1. Init => VerdictInv
  BY DEF Init, VerdictInv, Entered, Judged
<1>2. TypeOK /\ VerdictInv /\ [Next]_vars => VerdictInv'
  <2> SUFFICES ASSUME TypeOK, VerdictInv, [Next]_vars
               PROVE  VerdictInv'
    OBVIOUS
  <2> USE DEF Entered, Judged
  <2>0. /\ req' = req /\ N \in Nat /\ Nodes = 1..N /\ at \in 1..(N + 1) /\ nth \in Nat \ {0}
        /\ \A i \in Nodes : DOMAIN Message(i).deps = 1..Len(Message(i).deps)
        /\ \A i \in Nodes : Len(Message(i).deps) \in Nat
    <3>1. \A i \in Nodes : Message(i).deps \in Seq(Range(Message(i).deps))
      BY RequestsAssumption DEF TypeOK, Message, Nodes, Indices
    <3>2. \A i \in Nodes : /\ DOMAIN Message(i).deps = 1..Len(Message(i).deps)
                          /\ Len(Message(i).deps) \in Nat
      <4> TAKE i \in Nodes
      <4> QED
        BY <3>1
    <3>3. at \in 1..(N + 1) /\ nth \in Nat \ {0}
      BY DEF TypeOK
    <3>4. req' = req /\ N \in Nat /\ Nodes = 1..N
      BY RequestStays, NodesAre
    <3> QED
      BY <3>2, <3>3, <3>4
  <2>1. ASSUME UNCHANGED <<pc, at, nth, waiting>>
        PROVE  VerdictInv'
    BY <2>0, <2>1 DEF VerdictInv, Named, Message, Nodes, Indices
  <2>2. CASE Validate
    <3>1. Nodes' = Nodes /\ at' = 1 /\ nth' = 1 /\ pc' \in {"declare", "invalid"}
      BY <2>2, RequestStays DEF Validate, VerdictInv
    <3>2. pc' = "declare" => \A i \in Nodes' : ~(i < at')
      BY <2>0, <3>1
    <3> QED
      BY <2>0, <2>2, <3>1, <3>2 DEF Validate, VerdictInv, Valid
  <2>3. CASE Depend
    <3> DEFINE named == {j \in Nodes : Message(j).id = Message(at).deps[nth]}
    <3>0. /\ at \in Nodes /\ nth \in DOMAIN Message(at).deps
          /\ pc = "declare" /\ UNCHANGED <<at, waiting>>
      BY <2>0, <2>3 DEF Depend, Idle
    <3>1. CASE named = {}
      <4>1. pc' = "invalid"
        BY <2>3, <3>1 DEF Depend
      <4>2. ~KnownDependencies(req)
        BY <3>0, <3>1 DEF KnownDependencies, DepIds, Nodes, Message
      <4> QED
        BY <2>0, <4>1, <4>2 DEF VerdictInv, Valid
    <3>2. CASE named # {}
      <4>1. pc' = pc /\ nth' = nth + 1 /\ Named(at, nth)
        BY <2>3, <3>2 DEF Depend, Named
      <4>2. \A k \in 1..(nth' - 1) : Named(at, k)
        BY <2>0, <3>0, <4>1 DEF VerdictInv
      <4> QED
        BY <2>0, <3>0, <4>1, <4>2 DEF VerdictInv, Named, Message, Nodes, Indices
    <3> QED
      BY <3>1, <3>2
  <2>4. CASE Label
    <3>0. /\ at \in Nodes /\ nth > Len(Message(at).deps) /\ pc = "declare"
          /\ pc' = pc /\ at' = at + 1 /\ nth' = 1
      BY <2>0, <2>4 DEF Label, Idle
    <3>1. \A k \in DOMAIN Message(at).deps : Named(at, k)
      BY <2>0, <3>0 DEF VerdictInv
    <3>2. \A i \in Nodes : i < at' => \A k \in DOMAIN Message(i).deps : Named(i, k)
      <4> TAKE i \in Nodes
      <4>1. i < at' => i < at \/ i = at
        BY <2>0, <3>0
      <4> QED
        BY <3>0, <3>1, <4>1 DEF VerdictInv
    <3>3. 1..(nth' - 1) = {}
      BY <3>0
    <3>4. (\A i \in Nodes : i < at => \A k \in DOMAIN Message(i).deps : Named(i, k))'
      BY <2>0, <3>2 DEF Named, Message, Nodes, Indices
    <3> QED
      BY <2>0, <3>0, <3>3, <3>4 DEF VerdictInv
  <2>5. CASE Declared
    <3>1. KnownDependencies(req)
      BY <2>0, <2>5 DEF Declared, Idle, VerdictInv, Named, KnownDependencies, DepIds, Nodes, Message
    <3> QED
      BY <2>0, <2>5, <3>1 DEF Declared, Idle, VerdictInv
  <2>6. CASE Answer
    <3>1. PICK r \in waiting :
            /\ waiting' = waiting \ {r}
            /\ IF ~Answers(req, r) THEN pc' = "invalid" ELSE pc' = pc
      BY <2>6 DEF Answer
    <3>2. r \in Results(req) /\ pc = "answer"
      BY <2>6 DEF TypeOK, Answer, Idle
    <3> QED
      BY <2>0, <3>1, <3>2 DEF VerdictInv, Valid
  <2>7. CASE Paired
    BY <2>0, <2>7 DEF Paired, Idle, VerdictInv
  <2>8. CASE Halve
    BY <2>1, <2>8 DEF Halve
  <2>9. CASE LeftFound \/ RightFound \/ Seek
    BY <2>1, <2>9 DEF LeftFound, RightFound, Seek
  <2>10. CASE PlaceMessage
    BY <2>0, <2>10 DEF PlaceMessage, VerdictInv, TypeOK
  <2>11. CASE Assembled
    BY <2>0, <2>11 DEF Assembled, Idle, VerdictInv
  <2>12. CASE UNCHANGED vars
    BY <2>1, <2>12 DEF vars
  <2> QED
    BY <2>2, <2>3, <2>4, <2>5, <2>6, <2>7, <2>8, <2>9, <2>10, <2>11, <2>12 DEF Next
<1> QED
  BY <1>1, <1>2, TypeCorrect, PTL DEF Spec

(***************************************************************************)
(* A request is rejected exactly when some rule is broken, wherever        *)
(* validation stops and in whatever order results are visited              *)
(* (collectGroups).                                                        *)
(***************************************************************************)
THEOREM VerdictIsRight == Spec => []Verdict
<1>1. VerdictInv => Verdict
  BY DEF VerdictInv, Verdict, Valid, Entered, Judged
<1> QED
  BY <1>1, VerdictInvariance, PTL

-----------------------------------------------------------------------------
\* The links found so far are joined, or one of them is being joined.

Honoured == joined \cup (IF op \in {"left", "right"} THEN {link} ELSE {})

Depends(l, i, k) == l[1] = i /\ Message(l[2]).id = Message(i).deps[k]
ProgressInv ==
    /\ pc = "declare" =>
          /\ \A l \in DependencyLinks(req) \cup LabelLinks(req) : l[1] < at => l \in Honoured
          /\ \A l \in DependencyLinks(req) : \A k \in 1..(nth - 1) :
                Depends(l, at, k) => l \in Honoured
    /\ Entered /\ pc # "declare" => DependencyLinks(req) \cup LabelLinks(req) \subseteq Honoured
    /\ pc = "answer" => \A l \in AnswerLinks(req) : l[2] \notin waiting => l \in Honoured
    /\ Judged => AnswerLinks(req) \subseteq Honoured
    /\ pc = "done" => at = N + 1

\* What is honoured stays so.
LEMMA HonouredStays ==
    ASSUME TypeOK, [Next]_vars
    PROVE  Honoured \subseteq Honoured'
<1> USE DEF Honoured
<1>1. ASSUME UNCHANGED <<op, link, joined>>
      PROVE  Honoured \subseteq Honoured'
  BY <1>1
<1>2. ASSUME op = "none", UNCHANGED joined
      PROVE  Honoured \subseteq Honoured'
  BY <1>2
<1>3. CASE Validate \/ Declared \/ Paired \/ Assembled \/ Halve \/ UNCHANGED vars
  BY <1>1, <1>3 DEF Validate, Declared, Paired, Assembled, Halve, forest, vars
<1>4. CASE Depend \/ Label \/ Answer
  BY <1>2, <1>4 DEF Depend, Label, Answer, Idle, StartJoin, forest
<1>5. CASE LeftFound \/ RightFound
  BY <1>5 DEF LeftFound, RightFound
<1>6. CASE Seek \/ PlaceMessage
  BY <1>6 DEF Seek, PlaceMessage, Idle
<1> QED
  BY <1>3, <1>4, <1>5, <1>6 DEF Next

\* Joining for an entry of depends_on honours the one link it names.
LEMMA DependHonours ==
    ASSUME TypeOK, VerdictInv, Depend, pc' # "invalid",
           NEW l \in DependencyLinks(req), Depends(l, at, nth)
    PROVE  l \in Honoured'
<1>1. PICK j \in Nodes : Message(j).id = Message(at).deps[nth] /\ StartJoin(at, j)
  BY DEF Depend
<1>2. l[1] \in Nodes /\ l[2] \in Nodes /\ l \in Nodes \X Nodes
  BY DEF DependencyLinks, Pairs, Nodes
<1>3. Plausible(req)
  BY DEF VerdictInv, Entered, Depend, Idle
<1>4. l[2] = j
  BY <1>1, <1>2, <1>3 DEF Depends, Plausible, Message, Nodes
<1>5. link' = <<at, j>> /\ op' = "left"
  BY <1>1 DEF StartJoin
<1>6. l = <<at, j>>
  BY <1>2, <1>4, PairEta DEF Depends
<1> QED
  BY <1>5, <1>6 DEF Honoured

\* Joining for a label honours the one link the message has for it.
LEMMA LabelHonours ==
    ASSUME TypeOK, Label, NEW l \in LabelLinks(req), l[1] = at
    PROVE  l \in Honoured'
<1>1. /\ l[1] \in Nodes /\ l[2] \in Nodes /\ l \in Nodes \X Nodes
      /\ l[2] < at /\ SameLabel(req, at, l[2])
      /\ \A k \in Nodes : k < at /\ SameLabel(req, at, k) => k <= l[2]
  BY DEF LabelLinks, Pairs, Nodes
<1>2. N \in Nat /\ Nodes = 1..N /\ at \in 1..(N + 1)
  BY NodesAre DEF TypeOK
<1>3. l[2] \in 1..(at - 1)
  BY <1>1, <1>2
<1>4. PICK j \in 1..(at - 1) :
         /\ SameLabel(req, at, j)
         /\ \A k \in 1..(at - 1) : SameLabel(req, at, k) => k <= j
         /\ StartJoin(at, j)
  BY <1>1, <1>3 DEF Label
<1>5. j = l[2]
  BY <1>1, <1>2, <1>3, <1>4
<1>6. link' = <<at, j>> /\ op' = "left"
  BY <1>4 DEF StartJoin
<1>7. l = <<at, j>>
  BY <1>1, <1>5, PairEta
<1> QED
  BY <1>6, <1>7 DEF Honoured

\* Visiting a result honours the one link to its call.
LEMMA AnswerHonours ==
    ASSUME TypeOK, VerdictInv, Answer, pc' # "invalid",
           NEW l \in AnswerLinks(req), l[2] \in waiting, l[2] \notin waiting'
    PROVE  l \in Honoured'
<1>1. /\ l[1] \in Nodes /\ l[2] \in Nodes /\ l \in Nodes \X Nodes /\ l[1] < l[2]
      /\ ~req.individually /\ Issues(req, l[1], req.messages[l[2]].result)
  BY DEF AnswerLinks, Pairs, Nodes
<1>2. PICK r \in waiting : waiting' = waiting \ {r} /\ Answers(req, r)
                          /\ StartJoin(CallOf(req, r), r)
  BY <1>1 DEF Answer
<1>3. r = l[2]
  BY <1>2
<1>4. /\ CallOf(req, r) \in Nodes
      /\ Issues(req, CallOf(req, r), req.messages[r].result)
  BY <1>2 DEF Answers, CallOf, Nodes
<1>5. Plausible(req)
  BY DEF VerdictInv, Entered, Answer, Idle
<1>6. CallOf(req, r) = l[1]
  BY <1>1, <1>3, <1>4, <1>5 DEF Plausible, Issues, Nodes
<1>7. link' = <<l[1], l[2]>> /\ op' = "left"
  BY <1>2, <1>3, <1>6 DEF StartJoin
<1> QED
  BY <1>1, <1>7, PairEta DEF Honoured

LEMMA ProgressInvariance == Spec => []ProgressInv
<1>1. Init => ProgressInv
  BY DEF Init, ProgressInv, Entered, Judged
<1>2. TypeOK /\ VerdictInv /\ ProgressInv /\ [Next]_vars => ProgressInv'
  <2> SUFFICES ASSUME TypeOK, VerdictInv, ProgressInv, [Next]_vars
               PROVE  ProgressInv'
    OBVIOUS
  <2> USE DEF Entered, Judged
  <2> DEFINE D == DependencyLinks(req)
             L == LabelLinks(req)
             A == AnswerLinks(req)
  <2>0. /\ req' = req /\ D' = D /\ L' = L /\ A' = A /\ N' = N /\ Honoured \subseteq Honoured'
        /\ N \in Nat /\ Nodes = 1..N /\ at \in 1..(N + 1) /\ nth \in Nat \ {0}
        /\ \A l, i, k : Depends(l, i, k)' <=> Depends(l, i, k)
        /\ \A l \in D \cup L \cup A : l[1] \in Nodes /\ l[2] \in Nodes
    BY RequestStays, HonouredStays, NodesAre DEF TypeOK, Depends, Message, DependencyLinks,
       LabelLinks, AnswerLinks, Pairs, Nodes, Results, SameLabel, Issues, Indices
  <2> HIDE DEF D, L, A
  <2>01. /\ pc = "declare" =>
               /\ \A l \in D \cup L : l[1] < at => l \in Honoured
               /\ \A l \in D : \A k \in 1..(nth - 1) : Depends(l, at, k) => l \in Honoured
         /\ Entered /\ pc # "declare" => D \cup L \subseteq Honoured
         /\ pc = "answer" => \A l \in A : l[2] \notin waiting => l \in Honoured
         /\ Judged => A \subseteq Honoured
         /\ pc = "done" => at = N + 1
    BY DEF ProgressInv, D, L, A
  <2>02. SUFFICES
         /\ pc' = "declare" =>
               /\ \A l \in D \cup L : l[1] < at' => l \in Honoured'
               /\ \A l \in D : \A k \in 1..(nth' - 1) : Depends(l, at', k) => l \in Honoured'
         /\ Entered' /\ pc' # "declare" => D \cup L \subseteq Honoured'
         /\ pc' = "answer" => \A l \in A : l[2] \notin waiting' => l \in Honoured'
         /\ Judged' => A \subseteq Honoured'
         /\ pc' = "done" => at' = N + 1
    BY <2>0 DEF ProgressInv, D, L, A, Depends, Message
  <2>1. CASE UNCHANGED <<pc, at, nth, waiting>>
    BY <2>0, <2>01, <2>1
  <2>2. CASE Validate
    BY <2>0, <2>2 DEF Validate, VerdictInv
  <2>3. CASE Depend
    <3>1. CASE pc' = "invalid"
      BY <3>1
    <3>2. CASE pc' # "invalid"
      <4>1. pc' = pc /\ pc = "declare" /\ nth' = nth + 1 /\ at' = at
        BY <2>3, <3>2 DEF Depend, Idle
      <4>2. \A l \in D : Depends(l, at, nth) => l \in Honoured'
        BY <2>3, <3>2, DependHonours DEF D
      <4> QED
        BY <2>0, <2>01, <4>1, <4>2
    <3> QED
      BY <3>1, <3>2
  <2>4. CASE Label
    <3>1. /\ pc' = pc /\ pc = "declare" /\ at' = at + 1 /\ nth' = 1
          /\ at \in Nodes /\ nth > Len(Message(at).deps)
      BY <2>0, <2>4 DEF Label, Idle
    <3>2. \A l \in L : l[1] = at => l \in Honoured'
      BY <2>4, LabelHonours DEF L
    <3>3. ASSUME NEW l \in D, l[1] = at
          PROVE  l \in Honoured
      <4>1. PICK k \in DOMAIN Message(at).deps : Depends(l, at, k)
        BY <3>3 DEF D, DependencyLinks, DepIds, Depends, Message
      <4>2. k \in 1..(nth - 1)
        <5>1. Message(at).deps \in Seq(Range(Message(at).deps))
          BY <3>1, RequestsAssumption DEF TypeOK, Message, Nodes, Indices
        <5>2. k \in 1..Len(Message(at).deps) /\ Len(Message(at).deps) \in Nat
          BY <5>1
        <5> QED
          BY <2>0, <3>1, <5>2
      <4> QED
        BY <2>01, <3>1, <4>1, <4>2
    <3>4. \A l \in D \cup L : l[1] < at' => l[1] < at \/ l[1] = at
      BY <2>0, <3>1
    <3> QED
      BY <2>0, <2>01, <3>1, <3>2, <3>3, <3>4
  <2>5. CASE Declared
    <3>1. pc = "declare" /\ pc' = "answer" /\ at > N /\ waiting' = Results(req)
      BY <2>5 DEF Declared, Idle
    <3>2. \A l \in D \cup L : l[1] < at
      BY <2>0, <3>1
    <3>3. \A l \in A : l[2] \in waiting'
      BY <3>1 DEF A, AnswerLinks
    <3> QED
      BY <2>0, <2>01, <3>1, <3>2, <3>3
  <2>6. CASE Answer
    <3>1. pc = "answer" /\ pc' \in {"answer", "invalid"}
      BY <2>6 DEF Answer, Idle
    <3>2. \A l \in A : pc' # "invalid" /\ l[2] \in waiting /\ l[2] \notin waiting' =>
                       l \in Honoured'
      BY <2>6, AnswerHonours DEF A
    <3> QED
      BY <2>0, <2>01, <3>1, <3>2
  <2>7. CASE Paired
    BY <2>0, <2>01, <2>7 DEF Paired, Idle
  <2>8. CASE Halve \/ LeftFound \/ RightFound \/ Seek
    BY <2>1, <2>8 DEF Halve, LeftFound, RightFound, Seek
  <2>9. CASE PlaceMessage
    <3>1. pc' = pc /\ pc = "assemble"
      BY <2>9 DEF PlaceMessage, TypeOK
    <3> QED
      BY <2>0, <2>01, <3>1
  <2>10. CASE Assembled
    BY <2>0, <2>01, <2>10 DEF Assembled, Idle
  <2>11. CASE UNCHANGED vars
    BY <2>1, <2>11 DEF vars
  <2> QED
    BY <2>2, <2>3, <2>4, <2>5, <2>6, <2>7, <2>8, <2>9, <2>10, <2>11 DEF Next
<1> QED
  BY <1>1, <1>2, TypeCorrect, VerdictInvariance, PTL DEF Spec

-----------------------------------------------------------------------------
\* The groups of the messages placed so far.

\* Until assembly, no message is placed; nothing else moves roots or blocks afterwards.
LEMMA PlacementStays ==
    ASSUME PlacementInv, UNCHANGED <<block, positions, leader>>,
           Nodes' = Nodes, Roots' = Roots, Placed' = Placed
    PROVE  PlacementInv'
BY DEF PlacementInv

LEMMA NothingPlaced ==
    ASSUME TypeOK, PlacementInv, Placed = {}
    PROVE  \A i \in Nodes : positions[i] = 0 /\ leader[i] = 0
BY DEF PlacementInv

LEMMA EmptyPlacement ==
    ASSUME TypeOK, PlacementInv, Placed = {}, Placed' = {}, Nodes' = Nodes,
           UNCHANGED <<positions, leader>>
    PROVE  PlacementInv'
BY NothingPlaced DEF PlacementInv

\* Placing a message: its root leads to the group of the placed messages of its block.
LEMMA PlacingKeeps ==
    ASSUME TypeOK, ForestInv, PlacementInv, PlaceMessage
    PROVE  PlacementInv'
<1>0. /\ pc = "assemble" /\ pc' = pc /\ at' = at + 1 /\ at \in Nodes /\ cur \in Roots
      /\ cur \in Nodes /\ cur \in block[at] /\ N \in Nat /\ Nodes = 1..N
      /\ UNCHANGED <<req, block, parents>>
  BY NodesAre DEF PlaceMessage, TypeOK, ForestInv, CursorInv, Roots
<1>1. /\ Nodes' = Nodes /\ Roots' = Roots
  BY <1>0 DEF Nodes, Indices, Roots
<1>2. Placed = 1..(at - 1) /\ Placed' = Placed \cup {at} /\ Placed \subseteq Nodes
  BY <1>0 DEF Placed
<1>3. /\ \A i \in Nodes : i \in block[i] /\ block[i] \subseteq Nodes
      /\ \A i, j \in Nodes : j \in block[i] => block[j] = block[i]
      /\ \A i, j \in Roots : j \in block[i] => i = j
  BY DEF ForestInv, Represents, IsPartition
<1>4. \A r \in Nodes : positions[r] # 0 => r \in Roots /\ positions[r] \in block[r] \cap Placed
  BY DEF PlacementInv
<1>5. \A i \in Placed : /\ leader[i] \in block[i] \cap Placed
                        /\ \A j \in block[i] \cap Placed : leader[i] <= j
                        /\ \E r \in Roots : r \in block[i] /\ positions[r] = leader[i]
  BY <1>2 DEF PlacementInv
<1>6. \A i \in Nodes \ Placed : leader[i] = 0
  BY DEF PlacementInv
\* A placed message of the same block is led by what the root says.
<1>7. ASSUME NEW j \in block[at] \cap Placed
      PROVE  positions[cur] = leader[j]
  <2>1. PICK r \in Roots : r \in block[j] /\ positions[r] = leader[j]
    BY <1>5
  <2>2. j \in Nodes /\ block[j] = block[at] /\ r \in Nodes
    BY <1>0, <1>2, <1>3 DEF Roots
  <2>3. r \in block[cur]
    BY <1>0, <1>3, <2>1, <2>2
  <2> QED
    BY <1>0, <1>3, <2>1, <2>3
<1>8. /\ \A r \in Nodes : positions'[r] = IF r = cur /\ positions[cur] = 0 THEN at ELSE positions[r]
      /\ \A i \in Nodes : leader'[i] = IF i = at THEN positions'[cur] ELSE leader[i]
  BY <1>0 DEF PlaceMessage, TypeOK
<1>9. /\ positions'[cur] \in block[at] \cap Placed'
      /\ \A j \in block[at] \cap Placed' : positions'[cur] <= j
  <2>1. at \in block[at] /\ block[cur] = block[at]
    BY <1>0, <1>3
  <2>2. CASE positions[cur] = 0
    <3>1. block[at] \cap Placed = {}
      <4>1. 0 \notin Placed
        BY <1>0, <1>2
      <4> QED
        BY <1>5, <1>7, <2>2, <4>1
    <3>2. positions'[cur] = at /\ at <= at
      BY <1>0, <1>8, <2>2
    <3>3. block[at] \cap Placed' = {at}
      BY <1>2, <2>1, <3>1
    <3> QED
      BY <3>2, <3>3
  <2>3. CASE positions[cur] # 0
    <3>1. positions[cur] \in block[at] \cap Placed
      BY <1>0, <1>4, <2>1, <2>3
    <3>2. \A j \in block[at] \cap Placed : positions[cur] <= j
      BY <1>2, <1>3, <1>5, <1>7
    <3>3. positions[cur] <= at
      BY <1>0, <1>2, <3>1
    <3>4. positions'[cur] = positions[cur]
      BY <1>0, <1>8, <2>3
    <3> QED
      BY <1>2, <3>1, <3>2, <3>3, <3>4
  <2> QED
    BY <2>2, <2>3
<1>10. ASSUME NEW r \in Nodes, positions'[r] # 0
       PROVE  r \in Roots /\ positions'[r] \in block[r] \cap Placed'
  <2>1. CASE r = cur
    BY <1>0, <1>3, <1>9, <2>1
  <2>2. CASE r # cur
    BY <1>2, <1>4, <1>8, <1>10, <2>2
  <2> QED
    BY <2>1, <2>2
<1>11. ASSUME NEW i \in Placed'
       PROVE  /\ leader'[i] \in block[i] \cap Placed'
              /\ \A j \in block[i] \cap Placed' : leader'[i] <= j
              /\ \E r \in Roots : r \in block[i] /\ positions'[r] = leader'[i]
  <2>1. CASE i = at
    BY <1>0, <1>8, <1>9, <2>1
  <2>2. CASE i # at
    <3>1. i \in Placed /\ i \in Nodes /\ leader'[i] = leader[i]
      BY <1>2, <1>8, <2>2
    <3>2. leader[i] \in block[i] \cap Placed /\ leader[i] <= at /\ leader[i] # 0
      BY <1>0, <1>2, <1>5, <3>1
    <3>3. \A j \in block[i] \cap Placed' : leader[i] <= j
      BY <1>2, <1>5, <3>1, <3>2
    <3>4. PICK r \in Roots : r \in block[i] /\ positions[r] = leader[i]
      BY <1>5, <3>1
    <3>5. positions'[r] = leader[i]
      BY <1>8, <3>2, <3>4 DEF Roots
    <3> QED
      BY <1>2, <3>1, <3>2, <3>3, <3>4, <3>5
  <2> QED
    BY <2>1, <2>2
<1>12. ASSUME NEW i \in Nodes \ Placed'
       PROVE  leader'[i] = 0
  BY <1>2, <1>6, <1>8
<1> QED
  BY <1>0, <1>1, <1>10, <1>11, <1>12 DEF PlacementInv

LEMMA PlacementInvariance == Spec => []PlacementInv
<1>1. Init => PlacementInv
  BY DEF Init, PlacementInv, Placed
<1>2. TypeOK /\ ForestInv /\ PlacementInv /\ [Next]_vars => PlacementInv'
  <2> SUFFICES ASSUME TypeOK, ForestInv, PlacementInv, [Next]_vars
               PROVE  PlacementInv'
    OBVIOUS
  <2>0. Nodes' = Nodes /\ N' = N /\ req' = req
    BY RequestStays
  <2>1. ASSUME UNCHANGED <<parents, block, places, pc, at>>
        PROVE  PlacementInv'
    <3>1. Roots' = Roots /\ Placed' = Placed
      BY <2>0, <2>1 DEF Roots, Placed
    <3> QED
      BY <2>0, <2>1, <3>1, PlacementStays DEF places
  <2>2. ASSUME Placed = {}, Placed' = {}, UNCHANGED places
        PROVE  PlacementInv'
    BY <2>0, <2>2, EmptyPlacement DEF places
  <2>3. CASE Validate \/ Depend \/ Label \/ Declared \/ Answer
    <3>1. Placed = {} /\ Placed' = {} /\ UNCHANGED places
      BY <2>3 DEF Validate, Depend, Label, Declared, Answer, Idle, Placed
    <3> QED
      BY <2>2, <3>1
  <2>4. CASE Paired
    <3>1. Placed = {} /\ Placed' = {} /\ UNCHANGED places
      BY <2>4 DEF Paired, Idle, Placed
    <3> QED
      BY <2>2, <3>1
  <2>5. CASE Halve
    <3>1. Roots' = Roots
      BY <2>5, HalvingKeepsForest DEF Halve, ForestInv, TypeOK
    <3>2. Placed' = Placed /\ UNCHANGED <<block, positions, leader>>
      BY <2>5 DEF Halve, Placed, places
    <3> QED
      BY <2>0, <3>1, <3>2, PlacementStays
  <2>6. CASE LeftFound \/ Seek
    BY <2>1, <2>6 DEF LeftFound, Seek
  <2>7. CASE RightFound
    <3>1. Placed = {} /\ Placed' = {} /\ UNCHANGED places
      BY <2>7 DEF RightFound, Placed, TypeOK
    <3> QED
      BY <2>2, <3>1
  <2>8. CASE Assembled
    <3>1. Roots' = Roots /\ Placed' = Placed /\ UNCHANGED <<block, positions, leader>>
      BY <2>0, <2>8 DEF Assembled, Idle, Placed, Roots, forest, places
    <3> QED
      BY <2>0, <3>1, PlacementStays
  <2>9. CASE UNCHANGED vars
    BY <2>1, <2>9 DEF vars, forest
  <2> QED
    BY <2>3, <2>4, <2>5, <2>6, <2>7, <2>8, <2>9, PlacingKeeps DEF Next
<1> QED
  BY <1>1, <1>2, TypeCorrect, ForestInvariance, PTL DEF Spec

(***************************************************************************)
(* The groups handed to the engine are the connected components of the     *)
(* transcript's links, each named by its first message, for every request  *)
(* and every order of the results map (collectGroups, assembleGroups).     *)
(***************************************************************************)
THEOREM GroupsAreRight == Spec => []GroupsAreComponents
<1> DEFINE Done == Honours(Nodes, Links(req), Links(req) \ joined, block)
<1>1. TypeOK /\ ProgressInv /\ PlacementInv /\ Done => GroupsAreComponents
  <2> SUFFICES ASSUME TypeOK, ProgressInv, PlacementInv, Done, pc = "done",
                      NEW i \in Nodes
               PROVE  /\ leader[i] \in Block(req, i)
                      /\ \A j \in Block(req, i) : leader[i] <= j
    BY DEF GroupsAreComponents
  <2>1. Links(req) \subseteq joined /\ at = N + 1
    BY DEF ProgressInv, Honoured, Entered, Judged, TypeOK, Links
  <2>2. Links(req) \ joined = {}
    BY <2>1
  <2>3. block[i] = Block(req, i)
    BY <2>2, HonoursEnds DEF Block, Nodes
  <2>4. Placed = Nodes
    BY <2>1, NodesAre DEF Placed
  <2>5. block[i] \subseteq Nodes
    BY DEF Honours, IsPartition
  <2> QED
    BY <2>3, <2>4, <2>5 DEF PlacementInv
<1> HIDE DEF Done
<1> QED
  BY <1>1, TypeCorrect, ProgressInvariance, PlacementInvariance, PartitionHolds, PTL DEF Done

\* The messages gathered under each leader are exactly what Collect says.
Gathered == [g \in {leader[i] : i \in Nodes} |-> {i \in Nodes : leader[i] = g}]
GroupsAreCollected ==
    pc = "done" =>
        /\ Valid(req)
        /\ Gathered = [g \in DOMAIN Collect(req) |-> Collect(req)[g].members]

(***************************************************************************)
(* Engine takes its groups by Collect from a request that is Valid; the    *)
(* groups of groups.go are just those, for every request and every order   *)
(* of the results map.  So what is shown of Engine is about the groups     *)
(* that the union-find makes (engine.go:35, groups.go:18-130).             *)
(***************************************************************************)
THEOREM EngineTakesTheseGroups == Spec => []GroupsAreCollected
<1> DEFINE Parted == IsPartition([i \in Nodes |-> Block(req, i)], Nodes)
           Same == Gathered = [g \in DOMAIN Collect(req) |-> Collect(req)[g].members]
           Done == Honours(Nodes, Links(req), Links(req) \ joined, block)
<1>1. TypeOK /\ ProgressInv /\ Done /\ pc = "done" => Parted
  <2> SUFFICES ASSUME TypeOK, ProgressInv, Done, pc = "done" PROVE Parted
    OBVIOUS
  <2>1. Links(req) \ joined = {}
    BY DEF ProgressInv, Honoured, Entered, Judged, TypeOK, Links
  <2>2. \A i \in Nodes : block[i] = Block(req, i)
    BY <2>1, HonoursEnds DEF Block, Nodes
  <2>3. IsPartition(block, Nodes)
    BY DEF Honours
  <2>4. block = [i \in Nodes |-> Block(req, i)]
    BY <2>2, <2>3 DEF IsPartition
  <2> QED
    BY <2>3, <2>4
<1>2. Parted /\ GroupsAreComponents /\ TypeOK /\ pc = "done" => Same
  <2> SUFFICES ASSUME Parted, GroupsAreComponents, TypeOK, pc = "done" PROVE Same
    OBVIOUS
  <2> DEFINE B(i) == Block(req, i)
             first == {i \in Nodes : \A j \in B(i) : i <= j}
             table == [g \in first |-> [members |-> B(g), protected |-> Protected(req, B(g))]]
  <2>1. /\ \A i \in Nodes : i \in B(i) /\ B(i) \subseteq Nodes
        /\ \A i, j \in Nodes : j \in B(i) => B(j) = B(i)
    BY DEF IsPartition
  <2>2. Nodes \subseteq Nat
    BY NodesAre
  <2>3. /\ DOMAIN Collect(req) = first
        /\ \A g \in first : Collect(req)[g].members = B(g)
    <3>1. \A i \in Indices(req) : [k \in Indices(req) |-> Block(req, k)][i] = B(i)
      OBVIOUS
    <3>2. Collect(req) = table
      BY <3>1 DEF Collect, Nodes
    <3> QED
      BY <3>2
  <2> HIDE DEF B, table
  <2>4. \A i \in Nodes : leader[i] \in B(i) /\ \A j \in B(i) : leader[i] <= j
    BY DEF GroupsAreComponents, B
  <2>5. \A i \in Nodes : leader[i] \in first
    BY <2>1, <2>4
  <2>6. ASSUME NEW g \in first PROVE leader[g] = g
    <3>1. g \in Nodes /\ g \in B(g) /\ leader[g] \in B(g) /\ leader[g] \in Nodes
      BY <2>1, <2>4
    <3>2. g <= leader[g] /\ leader[g] <= g
      BY <2>4, <3>1
    <3>3. g \in Nat /\ leader[g] \in Nat
      BY <2>2, <3>1
    <3> QED
      BY <3>2, <3>3
  <2>7. {leader[i] : i \in Nodes} = first
    BY <2>5, <2>6
  <2>8. ASSUME NEW g \in first PROVE {i \in Nodes : leader[i] = g} = B(g)
    <3>1. ASSUME NEW i \in Nodes, leader[i] = g PROVE i \in B(g)
      BY <2>1, <2>4, <3>1
    <3>2. ASSUME NEW i \in B(g) PROVE i \in Nodes /\ leader[i] = g
      <4>1. i \in Nodes /\ B(i) = B(g)
        BY <2>1
      <4>2. /\ leader[i] \in B(g) /\ \A j \in B(g) : leader[i] <= j
            /\ leader[g] \in B(g) /\ \A j \in B(g) : leader[g] <= j
        BY <2>4, <4>1
      <4>3. leader[i] <= leader[g] /\ leader[g] <= leader[i]
        BY <4>2
      <4>4. leader[i] \in Nat /\ leader[g] \in Nat /\ leader[g] = g
        BY <2>1, <2>2, <2>6, <4>2
      <4> QED
        BY <4>1, <4>3, <4>4
    <3> QED
      BY <3>1, <3>2
  <2> QED
    BY <2>3, <2>7, <2>8 DEF Gathered
<1> HIDE DEF Parted, Same, Done
<1>3. TypeOK /\ ProgressInv /\ Done /\ GroupsAreComponents /\ Verdict => GroupsAreCollected
  BY <1>1, <1>2 DEF Verdict, GroupsAreCollected, Same
<1> QED
  BY <1>3, TypeCorrect, ProgressInvariance, PartitionHolds, GroupsAreRight, VerdictIsRight, PTL
     DEF Done

-----------------------------------------------------------------------------
\* Finds end.

\* A root is no higher than links were joined.
RankInv ==
    /\ IsFiniteSet(joined)
    /\ \A i \in Nodes : rank[i] <= Cardinality(joined)

\* How far the find under way may still have to climb.
Climb == Cardinality(joined) - rank[cur]

LEMMA HigherByOne ==
    ASSUME TypeOK, ForestInv, LinkInv, RankInv, RightFound
    PROVE  RankInv'
<1> DEFINE n == Cardinality(joined)
<1>1. /\ req' = req /\ link \in Links(req) /\ joined' = joined \cup {link}
      /\ parents[cur] = cur /\ op = "right" /\ cur \in Nodes
      /\ rank' = IF root = cur THEN rank
                 ELSE [rank EXCEPT ![cur] = Higher(rank[cur], rank[root] + 1)]
  BY DEF RightFound, LinkInv, TypeOK
<1>2. /\ n \in Nat /\ IsFiniteSet(joined')
      /\ Cardinality(joined') = IF link \in joined THEN n ELSE n + 1
  BY <1>1, FS_CardinalityType, FS_AddElement DEF RankInv
<1> HIDE DEF n
<1>3. Nodes' = Nodes
  BY <1>1 DEF Nodes
<1>4. /\ rank \in [Nodes -> Nat] /\ root \in Nodes /\ root \in Roots /\ cur \in Roots
      /\ cur \in block[link[2]] /\ root \in block[link[1]]
      /\ IsPartition(block, Nodes) /\ link[1] \in Nodes /\ link[2] \in Nodes
      /\ \A i, j \in Roots : j \in block[i] => i = j
  BY <1>1, LinksArePairs DEF TypeOK, ForestInv, Represents, CursorInv, Roots
<1>5. link \in joined => root = cur
  <2> SUFFICES ASSUME link \in joined PROVE root = cur
    OBVIOUS
  <2>1. block[link[1]] = block[link[2]]
    BY <1>1 DEF LinkInv
  <2>2. block[root] = block[link[1]] /\ block[cur] = block[link[2]] /\ cur \in block[cur]
    BY <1>1, <1>4 DEF IsPartition
  <2> QED
    BY <1>4, <2>1, <2>2
<1>6. \A i \in Nodes : rank[i] <= n
  BY DEF RankInv, n
<1>7. ASSUME NEW i \in Nodes PROVE rank'[i] <= Cardinality(joined')
  <2>1. CASE root = cur
    BY <1>1, <1>2, <1>4, <1>6, <2>1
  <2>2. CASE root # cur
    <3>1. Cardinality(joined') = n + 1
      BY <1>2, <1>5, <2>2
    <3>2. rank'[i] = IF i = cur THEN Higher(rank[cur], rank[root] + 1) ELSE rank[i]
      BY <1>1, <1>4, <2>2
    <3>3. /\ rank[i] \in Nat /\ rank[root] \in Nat /\ rank[cur] \in Nat
          /\ rank[i] <= n /\ rank[root] <= n /\ rank[cur] <= n
      BY <1>1, <1>4, <1>6
    <3> QED
      BY <1>2, <3>1, <3>2, <3>3 DEF Higher
  <2> QED
    BY <2>1, <2>2
<1> QED
  BY <1>2, <1>3, <1>7 DEF RankInv

LEMMA RankInvariance == Spec => []RankInv
<1>1. Init => RankInv
  <2> SUFFICES ASSUME Init PROVE RankInv
    OBVIOUS
  <2>1. IsFiniteSet({}) /\ Cardinality({}) = 0
    BY FS_EmptySet
  <2> QED
    BY <2>1 DEF Init, RankInv
<1>2. TypeOK /\ ForestInv /\ LinkInv /\ RankInv /\ [Next]_vars => RankInv'
  <2> SUFFICES ASSUME TypeOK, ForestInv, LinkInv, RankInv, [Next]_vars PROVE RankInv'
    OBVIOUS
  <2>1. CASE RightFound
    BY <2>1, HigherByOne
  <2>2. CASE ~RightFound
    <3>1. UNCHANGED <<req, joined, rank>>
      BY <2>2 DEF Next, Validate, Depend, Label, Declared, Answer, Paired, Halve, LeftFound,
                  Seek, PlaceMessage, Assembled, StartJoin, vars, forest
    <3>2. Nodes' = Nodes
      BY <3>1 DEF Nodes
    <3> QED
      BY <3>1, <3>2 DEF RankInv
  <2> QED
    BY <2>1, <2>2
<1> QED
  BY <1>1, <1>2, TypeCorrect, ForestInvariance, LinkInvariance, PTL DEF Spec

(***************************************************************************)
(* Finds end: each halving step climbs, in a forest no higher than the     *)
(* links joined so far, so that a find takes at most that many steps and   *)
(* never walks in a circle, whatever halving and joining did to the forest *)
(* before (find of groups.go).                                             *)
(***************************************************************************)
THEOREM FindsEnd == Spec => /\ [](op # "none" => Climb \in Nat)
                            /\ [][Halve => Climb' < Climb]_vars
<1>1. TypeOK /\ RankInv => (op # "none" => Climb \in Nat)
  <2> SUFFICES ASSUME TypeOK, RankInv, op # "none" PROVE Climb \in Nat
    OBVIOUS
  <2>1. cur \in Nodes /\ rank[cur] \in Nat
    BY DEF TypeOK
  <2>2. Cardinality(joined) \in Nat /\ rank[cur] <= Cardinality(joined)
    BY <2>1, FS_CardinalityType DEF RankInv
  <2> QED
    BY <2>1, <2>2 DEF Climb
<1>2. TypeOK /\ ForestInv /\ RankInv /\ Halve => Climb' < Climb
  <2> SUFFICES ASSUME TypeOK, ForestInv, RankInv, Halve PROVE Climb' < Climb
    OBVIOUS
  <2> DEFINE q == parents[cur]
             s == parents[q]
  <2>1. /\ cur \in Nodes /\ q \in Nodes /\ s \in Nodes /\ q # cur
        /\ cur' = s /\ rank' = rank /\ joined' = joined
    BY DEF Halve, TypeOK
  <2>2. /\ rank[cur] \in Nat /\ rank[q] \in Nat /\ rank[s] \in Nat
        /\ rank[cur] < rank[q] /\ (s # q => rank[q] < rank[s])
    BY <2>1 DEF TypeOK, ForestInv, Represents
  <2>3. rank[cur] < rank[s]
    BY <2>2
  <2>4. Cardinality(joined) \in Nat
    BY FS_CardinalityType DEF RankInv
  <2> QED
    BY <2>1, <2>2, <2>3, <2>4 DEF Climb
<1> QED
  BY <1>1, <1>2, TypeCorrect, ForestInvariance, RankInvariance, PTL

=============================================================================
