----------------------------- MODULE Partition -----------------------------
(***************************************************************************)
(* What grouping promises: starting from singletons, the two blocks that   *)
(* hold the ends of each link are united, one link at a time and in any    *)
(* order, and the outcome is the partition into connected components.      *)
(* Grouping implements this with the union-find forest of groups.go.       *)
(***************************************************************************)
EXTENDS Integers, FiniteSets, Blocks

CONSTANT Graphs          \* the graphs to partition: records [nodes, links]

VARIABLES
    graph,               \* the graph being partitioned
    todo,                \* links not yet honoured
    block                \* the block of each node so far

vars == <<graph, todo, block>>

IsGraph(G) == G.links \subseteq G.nodes \X G.nodes

Start(G) == /\ graph = G
            /\ todo = G.links
            /\ block = [i \in G.nodes |-> {i}]

Init == \E G \in Graphs : Start(G)

\* Unite the blocks of the two ends of a link.
Unite(l) == /\ l \in todo
            /\ todo' = todo \ {l}
            /\ block' = United(block, l[1], l[2])
            /\ UNCHANGED graph

Next == \E l \in todo : Unite(l)

Spec == Init /\ [][Next]_vars

-----------------------------------------------------------------------------
\* Properties.

(***************************************************************************)
(* The blocks always partition the nodes, honoured links have both ends in *)
(* one block, and no block reaches further than honoured links force it.   *)
(***************************************************************************)
PartitionInv ==
    /\ IsGraph(graph)
    /\ todo \subseteq graph.links
    /\ IsPartition(block, graph.nodes)
    /\ \A l \in graph.links \ todo : block[l[1]] = block[l[2]]
    /\ \A i \in graph.nodes : \A S \in SUBSET graph.nodes :
          i \in S /\ Closed(graph.links \ todo, S) => block[i] \subseteq S

(***************************************************************************)
(* Whatever the order in which links were honoured, the final blocks are   *)
(* the connected components.                                               *)
(***************************************************************************)
OrderIndependent ==
    todo = {} => \A i \in graph.nodes :
                    block[i] = Component(graph.links, graph.nodes, i)

=============================================================================
