----------------------------- MODULE Selection -----------------------------
(***************************************************************************)
(* The greedy budget selection of compact/selection.go: starting from all  *)
(* groups kept verbatim, selectMessages repeatedly applies the single      *)
(* proposal with the smallest marginal loss per token saved, until the     *)
(* total fits the target or no permitted proposal saves anything.          *)
(*                                                                         *)
(* Units.  Probabilities and losses are percent points p in 0..100 as they *)
(* leave the scorer; marginal losses are in 1/2000, the coarsest unit in   *)
(* which every constant of the code (0.001, 0.05*d, ...) is an integer.    *)
(* Floating point weights become exact fractions compared by cross         *)
(* multiplication.                                                         *)
(***************************************************************************)
EXTENDS Integers, FiniteSets, Sequences, Functions

CONSTANTS
    Cases,      \* the selection problems the engine may hand over
    Nil         \* an absent pointer or map

VARIABLES
    input,      \* the problem being solved; read only
    selected,   \* the code's selected slice: one representation per group
    total       \* the running token total

vars == <<input, selected, total>>

Percent == 0..100
MaxLoss == 20            \* selection.go's maxLoss = 0.2
Retain  == 50            \* the 0.5 retention threshold
Epsilon == 2             \* 0.001 in units of 1/2000

\* The proposals, in the order variants() generates them.
ActionSeq == <<"extract", "brief", "reference", "drop">>
Actions   == {"extract", "brief", "reference", "drop"}
Place(a)  == CHOOSE i \in 1..4 : ActionSeq[i] = a

\* A validated Score: at most one of keep and loss, and whatever the policy in
\* force looks at for the offered proposals is a probability.
IsScore(s, offered) ==
    /\ s.keep = Nil \/ s.loss = Nil
    /\ s.keep # Nil => {s.keep.call, s.keep.result} \subseteq Percent
    /\ s.loss # Nil => \A a \in offered \cap DOMAIN s.loss : s.loss[a] \in Percent
    /\ s.keep = Nil /\ s.loss = Nil => {s.relevance, s.detail} \subseteq Percent

(***************************************************************************)
(* A selection problem: groups in scan order, which of them are protected, *)
(* the token cost of each original, the proposals offered for it (only     *)
(* those that save tokens) with their size, and its score.                 *)
(***************************************************************************)
IsInput(c) ==
    /\ c.groups \subseteq Nat
    /\ IsFiniteSet(c.groups)
    /\ c.protected \subseteq c.groups
    /\ c.cost \in [c.groups -> Nat]
    /\ c.offer \in [c.groups -> SUBSET Actions]
    /\ c.size \in [c.groups -> [Actions -> Nat]]
    /\ DOMAIN c.score = c.groups /\ \A g \in c.groups : IsScore(c.score[g], c.offer[g])
    /\ c.target \in Nat
    /\ \A g \in c.groups : \A a \in c.offer[g] : c.size[g][a] < c.cost[g]

ASSUME CasesAssumption == \A c \in Cases : IsInput(c)

-----------------------------------------------------------------------------
\* actionLoss: is the action permitted by the score, and at which loss?

Allowed(s, a) ==
    \/ /\ s.keep # Nil
       /\ s.keep.result < Retain
       /\ \/ a = "brief"
          \/ a = "drop" /\ s.keep.call < Retain
    \/ /\ s.keep = Nil /\ s.loss # Nil
       /\ a \in DOMAIN s.loss
       /\ s.loss[a] < MaxLoss
    \/ /\ s.keep = Nil /\ s.loss = Nil
       /\ s.detail < MaxLoss
       /\ a = "drop" => s.relevance < MaxLoss

Larger(x, y) == IF x > y THEN x ELSE y

KeepLoss(k, a) == IF a = "brief" THEN 20 * k.result
                                 ELSE 20 * Larger(k.call, k.result)

LegacyLoss(s, a) ==
    CASE a = "extract"   -> 20 + s.detail
      [] a = "brief"     -> 40 + 2 * s.detail
      [] a = "reference" -> 100 + 4 * s.detail
      [] a = "drop"      -> 200 + 4 * (s.relevance + s.detail)

LossOf(s, a) ==
    IF s.keep # Nil THEN KeepLoss(s.keep, a)
    ELSE IF s.loss # Nil THEN 20 * s.loss[a]
    ELSE LegacyLoss(s, a)

-----------------------------------------------------------------------------
\* Representations of a group, and the moves between them.

Whole(c, g)      == [action |-> "keep", tokens |-> c.cost[g], loss |-> 0]
Variant(c, g, a) == [action |-> a, tokens |-> c.size[g][a],
                     loss |-> LossOf(c.score[g], a)]

\* The proposals of g that its score permits.
Permitted(c, g) == {a \in c.offer[g] : g \notin c.protected
                                         /\ Allowed(c.score[g], a)}

Keeping(c) == [g \in c.groups |-> Whole(c, g)]

Move == [group : input.groups, action : Actions]
After(m) == Variant(input, m.group, m.action)

\* Mutant of Open: one reduction per group at most.
OpenOnce ==
    {m \in Move : /\ m.action \in Permitted(input, m.group)
                  /\ selected[m.group].action = "keep"
                  /\ After(m).tokens < selected[m.group].tokens}
\* Moves the scan of one iteration considers: permitted and strictly smaller.
Open == {m \in Move : /\ m.action \in Permitted(input, m.group)
                      /\ After(m).tokens < selected[m.group].tokens}

Price(m) == Epsilon + Larger(0, After(m).loss - selected[m.group].loss)
Saving(m) == selected[m.group].tokens - After(m).tokens

\* Mutants of Cheaper: the loss alone, not per token, and the wrong way round.
CheaperOutright(m, n) == Price(m) < Price(n)
CheaperReversed(m, n) == Price(m) * Saving(n) > Price(n) * Saving(m)

Cheaper(m, n) == Price(m) * Saving(n) < Price(n) * Saving(m)
Earlier(m, n) == \/ m.group < n.group
                 \/ m.group = n.group /\ Place(m.action) < Place(n.action)

\* The scan keeps the first move with the strictly smallest weight.
Best(m) == /\ m \in Open
           /\ \A n \in Open : ~Cheaper(n, m)
           /\ \A n \in Open : Earlier(n, m) => Cheaper(m, n)

-----------------------------------------------------------------------------
\* The loop of selectMessages.

Begin(c) == /\ input = c
            /\ selected = Keeping(c)
            /\ total = SumFunction(c.cost)

Init == \E c \in Cases : Begin(c)

\* One iteration: apply the best move and adjust the running total.
Reduce == /\ total > input.target
          /\ \E m \in Open :
                /\ Best(m)
                /\ selected' = [selected EXCEPT ![m.group] = After(m)]
                /\ total' = total - Saving(m)
          /\ UNCHANGED input

Next == Reduce

Spec == Init /\ [][Next]_vars

-----------------------------------------------------------------------------
\* Properties.

Representations(c, g) ==
    {Whole(c, g)} \cup {Variant(c, g, a) : a \in Permitted(c, g)}

(***************************************************************************)
(* Type invariant and choice safety in one: the input is well formed, a    *)
(* protected group is always its original, and every other group is either *)
(* its original or a proposal that was offered and that its score permits, *)
(* with that proposal's size and loss (selectMessages, actionLoss).        *)
(***************************************************************************)
TypeOK ==
    /\ IsInput(input)
    /\ DOMAIN selected = input.groups
    /\ \A g \in input.groups : selected[g] \in Representations(input, g)

(***************************************************************************)
(* Marginal pricing never lands on a dominated representation: whatever    *)
(* permitted proposal is no larger than the chosen one loses at least as   *)
(* much, and strictly more when it is smaller.  This is what the comment   *)
(* at selection.go:54 asks of recomputing marginal costs after each step.  *)
(***************************************************************************)
Undominated ==
    \A g \in input.groups : selected[g].action # "keep" =>
        \A a \in Permitted(input, g) :
            LET v == Variant(input, g, a) IN
            /\ v.tokens < selected[g].tokens => v.loss > selected[g].loss
            /\ v.tokens = selected[g].tokens => v.loss >= selected[g].loss

\* The loop has left with the total still above the target.
Stuck == total > input.target /\ Open = {}

Smallest(g) == \A r \in Representations(input, g) :
                   selected[g].tokens <= r.tokens

(***************************************************************************)
(* Giving up is honest: when the loop stops above the target, no choice of *)
(* permitted representations whatever, greedy or not, would fit it.        *)
(***************************************************************************)
UnmetIsTight ==
    Stuck =>
        /\ \A g \in input.groups : Smallest(g)
        /\ \A f \in [input.groups -> Actions \cup {"keep"}] :
              (\A g \in input.groups :
                   f[g] \in {"keep"} \cup Permitted(input, g)) =>
              SumFunction([g \in input.groups |->
                  IF f[g] = "keep" THEN input.cost[g]
                                   ELSE input.size[g][f[g]]]) > input.target

(***************************************************************************)
(* A step never trades back: exactly one group changes, it gets smaller,   *)
(* its estimated loss never decreases, and the total drops by what it      *)
(* saves.  In particular the clamp of a negative marginal loss at          *)
(* selection.go:71 never bites.                                            *)
(***************************************************************************)
OneWay ==
    [][\E g \in input.groups :
          /\ selected'[g].tokens < selected[g].tokens
          /\ selected'[g].loss >= selected[g].loss
          /\ \A h \in input.groups \ {g} : selected'[h] = selected[h]
          /\ total' = total - (selected[g].tokens - selected'[g].tokens)]_vars

=============================================================================
