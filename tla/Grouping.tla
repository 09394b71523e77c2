------------------------------ MODULE Grouping ------------------------------
(***************************************************************************)
(* collectGroups and assembleGroups of compact/groups.go: validation, then *)
(* a union-find forest with path halving over the messages, joined along   *)
(* the declared dependencies in transcript order and along call/result     *)
(* pairs in the random order of a Go map, then one group per root.         *)
(*                                                                         *)
(* find() is modelled loop step by loop step, because it rewrites the      *)
(* forest while it walks it.  Indices are 1-based.                         *)
(***************************************************************************)
EXTENDS Transcript

CONSTANT Requests        \* the requests a caller may submit

\* A transcript is a list, and so is each depends_on.
ASSUME RequestsAssumption ==
    \A r \in Requests :
        /\ r.messages \in Seq(Range(r.messages))
        /\ \A i \in DOMAIN r.messages :
              r.messages[i].deps \in Seq(Range(r.messages[i].deps))

VARIABLES
    req,         \* the request
    pc,          \* validate, declare, answer, assemble, done, invalid
    at, nth,     \* message under way and its next dependency
    waiting,     \* results the map iteration has not visited yet
    parents,     \* the union-find forest
    op,          \* the find under way: none, left, right, seek
    cur,         \* where that find stands
    link,        \* the pair being joined
    root,        \* the root found for the left end of link
    positions,   \* root -> leader of its group, 0 when none yet
    leader,      \* message -> leader of its group, 0 when not yet placed
    block,       \* history: the partition joined so far
    rank,        \* history: a height bound that rules out cycles
    joined       \* history: the links joined so far

forest == <<parents, op, cur, link, root, block, rank, joined>>
places == <<positions, leader>>
vars == <<req, pc, at, nth, waiting, forest, places>>

N == Len(req.messages)
Nodes == Indices(req)
Message(i) == req.messages[i]

Init ==
    /\ req \in Requests
    /\ pc = "validate"
    /\ at = 1 /\ nth = 1
    /\ waiting = {}
    /\ parents = [i \in Nodes |-> i]
    /\ op = "none"
    /\ cur = 0 /\ link = <<0, 0>> /\ root = 0
    /\ positions = [i \in Nodes |-> 0]
    /\ leader = [i \in Nodes |-> 0]
    /\ block = [i \in Nodes |-> {i}]
    /\ rank = [i \in Nodes |-> 0]
    /\ joined = {}

-----------------------------------------------------------------------------
\* find() and join().

\* Mutant of Halve: the walk does not advance.
HalveInPlace ==
    /\ op # "none"
    /\ parents[cur] # cur
    /\ parents' = [parents EXCEPT ![cur] = parents[parents[cur]]]
    /\ UNCHANGED <<req, pc, at, nth, waiting, op, cur, link, root, block, rank,
                   joined, places>>

\* parents[i] = parents[parents[i]]; i = parents[i]
Halve ==
    /\ op # "none"
    /\ parents[cur] # cur
    /\ parents' = [parents EXCEPT ![cur] = parents[parents[cur]]]
    /\ cur' = parents[parents[cur]]
    /\ UNCHANGED <<req, pc, at, nth, waiting, op, link, root, block, rank,
                   joined, places>>

StartJoin(i, j) ==
    /\ op' = "left"
    /\ cur' = i
    /\ link' = <<i, j>>
    /\ UNCHANGED <<parents, root, block, rank, joined>>

\* The first find of join(a, b) has its answer; start the second.
LeftFound ==
    /\ op = "left"
    /\ parents[cur] = cur
    /\ root' = cur
    /\ op' = "right"
    /\ cur' = link[2]
    /\ UNCHANGED <<req, pc, at, nth, waiting, parents, link, block, rank,
                   joined, places>>

Higher(x, y) == IF x > y THEN x ELSE y

\* Mutant of RightFound: links the message itself, not its root.
RightFoundShallow ==
    /\ op = "right"
    /\ parents[cur] = cur
    /\ parents' = [parents EXCEPT ![link[1]] = cur]
    /\ op' = "none"
    /\ block' = United(block, link[1], link[2])
    /\ rank' = IF root = cur THEN rank
               ELSE [rank EXCEPT ![cur] = Higher(rank[cur], rank[root] + 1)]
    /\ joined' = joined \cup {link}
    /\ UNCHANGED <<req, pc, at, nth, waiting, cur, link, root, places>>

\* parents[find(a)] = find(b)
RightFound ==
    /\ op = "right"
    /\ parents[cur] = cur
    /\ parents' = [parents EXCEPT ![root] = cur]
    /\ op' = "none"
    /\ block' = United(block, link[1], link[2])
    /\ rank' = IF root = cur THEN rank
               ELSE [rank EXCEPT ![cur] = Higher(rank[cur], rank[root] + 1)]
    /\ joined' = joined \cup {link}
    /\ UNCHANGED <<req, pc, at, nth, waiting, cur, link, root, places>>

-----------------------------------------------------------------------------
\* collectGroups.

Validate ==
    /\ pc = "validate"
    /\ pc' = IF Plausible(req) THEN "declare" ELSE "invalid"
    /\ UNCHANGED <<req, at, nth, waiting, forest, places>>

Idle(phase) == pc = phase /\ op = "none"

\* Mutant of Depend: an unknown name is skipped.
DependLenient ==
    /\ Idle("declare") /\ at <= N /\ nth <= Len(Message(at).deps)
    /\ LET named == {j \in Nodes : Message(j).id = Message(at).deps[nth]} IN
       IF named = {} THEN UNCHANGED forest
                     ELSE \E j \in named : StartJoin(at, j)
    /\ nth' = nth + 1
    /\ UNCHANGED <<req, pc, at, waiting, places>>

\* The next entry of the current message's depends_on.
Depend ==
    /\ Idle("declare") /\ at <= N /\ nth <= Len(Message(at).deps)
    /\ LET named == {j \in Nodes : Message(j).id = Message(at).deps[nth]} IN
       IF named = {}
         THEN /\ pc' = "invalid"
              /\ UNCHANGED <<nth, forest>>
         ELSE /\ \E j \in named : StartJoin(at, j)
              /\ nth' = nth + 1
              /\ pc' = pc
    /\ UNCHANGED <<req, at, waiting, places>>

\* Mutant of Label: only for messages that declare no dependency.
LabelElse ==
    /\ Idle("declare") /\ at <= N /\ nth > Len(Message(at).deps)
    /\ LET same == {j \in 1..(at - 1) : SameLabel(req, at, j)} IN
       IF same = {} \/ nth > 1
         THEN UNCHANGED forest
         ELSE \E j \in same : /\ \A k \in same : k <= j
                              /\ StartJoin(at, j)
    /\ at' = at + 1
    /\ nth' = 1
    /\ UNCHANGED <<req, pc, waiting, places>>

\* Its group label, joined to the latest earlier message carrying it.
Label ==
    /\ Idle("declare") /\ at <= N /\ nth > Len(Message(at).deps)
    /\ LET same == {j \in 1..(at - 1) : SameLabel(req, at, j)} IN
       IF same = {}
         THEN UNCHANGED forest
         ELSE \E j \in same : /\ \A k \in same : k <= j
                              /\ StartJoin(at, j)
    /\ at' = at + 1
    /\ nth' = 1
    /\ UNCHANGED <<req, pc, waiting, places>>

Declared ==
    /\ Idle("declare") /\ at > N
    /\ pc' = "answer"
    /\ waiting' = Results(req)
    /\ UNCHANGED <<req, at, nth, forest, places>>

\* Mutant of Answer: joins results to their calls in the individual mode too.
AnswerAlways ==
    /\ Idle("answer")
    /\ \E r \in waiting :
        /\ waiting' = waiting \ {r}
        /\ IF ~Answers(req, r)
             THEN pc' = "invalid" /\ UNCHANGED forest
             ELSE pc' = pc /\ StartJoin(CallOf(req, r), r)
    /\ UNCHANGED <<req, at, nth, places>>

\* Go visits the results map in any order.
Answer ==
    /\ Idle("answer")
    /\ \E r \in waiting :
        /\ waiting' = waiting \ {r}
        /\ IF ~Answers(req, r)
             THEN pc' = "invalid" /\ UNCHANGED forest
             ELSE /\ pc' = pc
                  /\ IF req.individually
                       THEN UNCHANGED forest
                       ELSE StartJoin(CallOf(req, r), r)
    /\ UNCHANGED <<req, at, nth, places>>

Paired ==
    /\ Idle("answer") /\ waiting = {}
    /\ pc' = "assemble"
    /\ at' = 1
    /\ UNCHANGED <<req, nth, waiting, forest, places>>

-----------------------------------------------------------------------------
\* assembleGroups.

Seek ==
    /\ Idle("assemble") /\ at <= N
    /\ op' = "seek"
    /\ cur' = at
    /\ UNCHANGED <<req, pc, at, nth, waiting, parents, link, root, block, rank,
                   joined, places>>

\* The message joins the group of its root, or starts it.
PlaceMessage ==
    /\ op = "seek" /\ parents[cur] = cur
    /\ positions' = IF positions[cur] = 0 THEN [positions EXCEPT ![cur] = at]
                                          ELSE positions
    /\ leader' = [leader EXCEPT ![at] = positions'[cur]]
    /\ op' = "none"
    /\ at' = at + 1
    /\ UNCHANGED <<req, pc, nth, waiting, parents, cur, link, root, block, rank,
                   joined>>

Assembled ==
    /\ Idle("assemble") /\ at > N
    /\ pc' = "done"
    /\ UNCHANGED <<req, at, nth, waiting, forest, places>>

Next == \/ Validate \/ Depend \/ Label \/ Declared \/ Answer \/ Paired
        \/ Halve \/ LeftFound \/ RightFound
        \/ Seek \/ PlaceMessage \/ Assembled

Spec == Init /\ [][Next]_vars

\* collectGroups is one sequential call.
FairSpec == Spec /\ WF_vars(Next)

-----------------------------------------------------------------------------
\* Properties.

Roots == {i \in Nodes : parents[i] = i}

TypeOK ==
    /\ req \in Requests
    /\ pc \in {"validate", "declare", "answer", "assemble", "done", "invalid"}
    /\ at \in 1..(N + 1) /\ nth \in Nat \ {0} /\ waiting \subseteq Results(req)
    /\ parents \in [Nodes -> Nodes] /\ rank \in [Nodes -> Nat]
    /\ op \in {"none", "left", "right", "seek"}
    /\ op # "none" => cur \in Nodes
    /\ op \in {"left", "right"} => link \in Nodes \X Nodes
    /\ op = "right" => root \in Nodes
    /\ op \in {"left", "right"} => pc \in {"declare", "answer"}
    /\ op = "seek" => pc = "assemble" /\ at \in Nodes
    /\ positions \in [Nodes -> Nodes \cup {0}]
    /\ leader \in [Nodes -> Nodes \cup {0}]

\* The forest represents the partition: parents stay inside the block, each
\* block has at most one root, and heights grow towards it.
Represents ==
    /\ IsPartition(block, Nodes)
    /\ \A i \in Nodes : parents[i] \in block[i]
    /\ \A i, j \in Roots : j \in block[i] => i = j
    /\ \A i \in Nodes : parents[i] # i => rank[i] < rank[parents[i]]

\* A find under way walks inside the block it started in, and the root found
\* for the left end is still one when the right end is found.
CursorInv ==
    /\ op = "left"  => cur \in block[link[1]]
    /\ op = "right" => cur \in block[link[2]] /\ root \in block[link[1]] \cap Roots
    /\ op = "seek"  => cur \in block[at]

(***************************************************************************)
(* Path halving rewrites the forest in the middle of a find, between the   *)
(* two finds of one join; the forest nevertheless represents the partition *)
(* joined so far at every step (find and join of groups.go).               *)
(***************************************************************************)
ForestInv == Represents /\ CursorInv

\* The groups of the messages placed so far, each led by its first message.
Placed == IF pc \in {"assemble", "done"} THEN 1..(at - 1) ELSE {}
PlacementInv ==
    /\ \A r \in Nodes : positions[r] # 0 =>
          r \in Roots /\ positions[r] \in block[r] \cap Placed
    /\ \A i \in Nodes : IF i \in Placed
          THEN /\ leader[i] \in block[i] \cap Placed
               /\ \A j \in block[i] \cap Placed : leader[i] <= j
               /\ \E r \in Roots : r \in block[i] /\ positions[r] = leader[i]
          ELSE leader[i] = 0

(***************************************************************************)
(* The groups handed to the engine are exactly the connected components of *)
(* the transcript's links, each named by its first message, whatever the   *)
(* order in which Go iterated the results map.                             *)
(***************************************************************************)
GroupsAreComponents ==
    pc = "done" => \A i \in Nodes :
        /\ leader[i] \in Block(req, i)
        /\ \A j \in Block(req, i) : leader[i] <= j

(***************************************************************************)
(* The verdict does not depend on where validation happens to stop: a      *)
(* request is rejected exactly when some rule is broken, although the      *)
(* dependency and pairing rules are checked while joining is under way.    *)
(***************************************************************************)
Verdict == /\ pc = "done" => Valid(req)
           /\ pc = "invalid" => ~Valid(req)

P == INSTANCE Partition WITH
        Graphs <- {[nodes |-> Indices(r), links |-> Links(r)] : r \in Requests},
        graph  <- [nodes |-> Nodes, links |-> Links(req)],
        todo   <- Links(req) \ joined,
        block  <- block

(***************************************************************************)
(* The union-find forest implements the abstract partition: each completed *)
(* join unites two blocks and nothing else changes them.                   *)
(***************************************************************************)
ImplementsPartition == P!Spec

(***************************************************************************)
(* Every find reaches a root and the call returns: halving never closes a  *)
(* cycle.                                                                  *)
(***************************************************************************)
Terminates == <>(pc \in {"done", "invalid"})

=============================================================================
