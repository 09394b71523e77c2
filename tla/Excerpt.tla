------------------------------ MODULE Excerpt -------------------------------
(***************************************************************************)
(* excerpt and clip of compact/excerpt.go: a text beyond the limit is      *)
(* replaced by its best lines, each clipped at a rune boundary, within a   *)
(* byte budget that is consumed line by line.  One action per line chosen, *)
(* per byte clip() steps back, and per line rendered.                      *)
(***************************************************************************)
EXTENDS Text, FiniteSets, Sequences

CONSTANTS
    Texts,      \* texts: sequences of [text, hits, terms], one per line
    Limits      \* byte limits asked for

VARIABLES
    lines,      \* the lines of the text
    limit,
    pc,         \* scan, clip, done; or whole: the text fits as it is
    line,       \* the line being clipped
    end,        \* clip's cut, moving back to a rune boundary
    remaining,  \* the budget left
    selected,   \* chosen line -> how many of its bytes are shown
    used        \* bytes the chosen lines take in the output

vars == <<lines, limit, pc, line, end, remaining, selected, used>>

\* The lines of a text; strings.Split yields at least one.
IsLines(t) == /\ Len(t) \in Nat \ {0} /\ DOMAIN t = 1..Len(t)
              /\ \A i \in DOMAIN t :
                    IsText(t[i].text) /\ t[i].hits \in Nat /\ t[i].terms \in Nat

ASSUME TextsAssumption == Limits \subseteq Nat /\ \A t \in Texts : IsLines(t)

Reserve == 64           \* kept back for the header
Header  == 39           \* the omission marker in front
Marker  == 17           \* the mark behind a clipped line
Enough  == 32           \* no line is started with less
Margin  == 24           \* kept back for a line's number and mark

Larger(x, y)  == IF x > y THEN x ELSE y
Smaller(x, y) == IF x < y THEN x ELSE y

\* The width of a line number.
Powers == <<10, 100, 1000, 10000, 100000, 1000000, 10000000, 100000000,
            1000000000>>
Digits(n) == 1 + Cardinality({k \in 1..9 : n >= Powers[k]})

Size(i) == lines[i].text.bytes

\* A line in the output: its number, the part shown, perhaps the mark.
Rendered(i, shown) ==
    3 + Digits(i) + shown + (IF shown < Size(i) THEN Marker ELSE 0)

\* Length of a text in bytes, its line ends included.
Length(t) == LET upTo[i \in 0..Len(t)] ==
                     IF i = 0 THEN 0 ELSE upTo[i - 1] + t[i].text.bytes + 1
             IN  upTo[Len(t)] - 1

-----------------------------------------------------------------------------
\* The ranking: boundary lines, error words, and terms of the goal.

Score(i) == (IF i <= 2 \/ i > Len(lines) - 2 THEN 2 ELSE 0)
                + 8 * lines[i].hits + 3 * lines[i].terms

Better(i, j) == Score(i) > Score(j) \/ (Score(i) = Score(j) /\ i <= j)

Unranked == DOMAIN lines \ DOMAIN selected

\* The part of a line that may be shown.
Room == Smaller(remaining - Margin, Larger(80, limit \div 4))

Init ==
    /\ lines \in Texts /\ limit \in Limits
    /\ pc = IF Length(lines) <= limit THEN "whole" ELSE "scan"
    /\ line = 0 /\ end = 0
    /\ remaining = Larger(0, limit - Reserve)
    /\ selected = <<>> /\ used = 0

\* The next line in rank order; clip leaves alone what fits.
Pick(i) ==
    /\ pc = "scan" /\ remaining >= Enough
    /\ i \in Unranked /\ \A j \in Unranked : Better(i, j)
    /\ line' = i
    /\ end' = Smaller(Larger(0, Room), Size(i))
    /\ pc' = "clip"
    /\ UNCHANGED <<lines, limit, remaining, selected, used>>

\* clip() has its cut: the whole line, or the beginning of a rune.
AtCut == end \in lines[line].text.starts \cup {0, Size(line)}

StepBack ==
    /\ pc = "clip" /\ ~AtCut
    /\ end' = end - 1
    /\ UNCHANGED <<lines, limit, pc, line, remaining, selected, used>>

\* Mutants of Show: cuts at any byte; forgets to pay for the line.
ShowBytes ==
    /\ pc = "clip"
    /\ selected' = [i \in DOMAIN selected \cup {line} |->
                        IF i = line THEN end ELSE selected[i]]
    /\ used' = used + Rendered(line, end) + 1
    /\ remaining' = remaining - (Rendered(line, end) + 1)
    /\ pc' = "scan"
    /\ UNCHANGED <<lines, limit, line, end>>
ShowUnpaid ==
    /\ pc = "clip" /\ AtCut
    /\ selected' = [i \in DOMAIN selected \cup {line} |->
                        IF i = line THEN end ELSE selected[i]]
    /\ used' = used + Rendered(line, end) + 1
    /\ remaining' = remaining - (end + 1)
    /\ pc' = "scan"
    /\ UNCHANGED <<lines, limit, line, end>>

Show ==
    /\ pc = "clip" /\ AtCut
    /\ selected' = [i \in DOMAIN selected \cup {line} |->
                        IF i = line THEN end ELSE selected[i]]
    /\ used' = used + Rendered(line, end) + 1
    /\ remaining' = remaining - (Rendered(line, end) + 1)
    /\ pc' = "scan"
    /\ UNCHANGED <<lines, limit, line, end>>

\* Mutant of Stop: a quarter of the budget is enough to show.
StopEarly ==
    /\ pc = "scan"
    /\ remaining < 4 * Enough \/ Unranked = {}
    /\ pc' = "done"
    /\ UNCHANGED <<lines, limit, line, end, remaining, selected, used>>

Stop ==
    /\ pc = "scan"
    /\ remaining < Enough \/ Unranked = {}
    /\ pc' = "done"
    /\ UNCHANGED <<lines, limit, line, end, remaining, selected, used>>

Next == (\E i \in Unranked : Pick(i)) \/ StepBack \/ Show \/ Stop

Spec == Init /\ [][Next]_vars

-----------------------------------------------------------------------------
\* Properties.

TypeOK ==
    /\ lines \in Texts /\ limit \in Limits
    /\ pc \in {"whole", "scan", "clip", "done"}
    /\ pc = "clip" => line \in Unranked
    /\ end \in Nat /\ used \in Nat /\ remaining \in Int
    /\ DOMAIN selected \subseteq DOMAIN lines
    /\ \A i \in DOMAIN selected : selected[i] \in 0..Size(i)

(***************************************************************************)
(* An excerpt never exceeds its limit, for any limit that holds the        *)
(* header: although a line's number, mark and line end come on top of what *)
(* was clipped, and may overdraw the budget, the reserve covers them       *)
(* (excerpt.go:40-51; docs/architecture.md, "up to 1,600 bytes").  Sizes   *)
(* is what callers of excerpt may rely on.                                 *)
(***************************************************************************)
WithinBudget == pc \in {"whole", "done"} /\ limit >= Header =>
    (IF pc = "whole" THEN Length(lines) ELSE Header + used)
        \in Sizes(Length(lines), limit)

(***************************************************************************)
(* Every cut is at a rune boundary, and the latest one that the budget of  *)
(* the line allowed (docs/architecture.md, "preserve UTF-8 boundaries").   *)
(***************************************************************************)
WholeRunes ==
    [][\A i \in DOMAIN selected' \ DOMAIN selected :
          \/ selected'[i] = Size(i) /\ Size(i) <= Room
          \/ Size(i) > Room /\ IsCut(lines[i].text, Room, selected'[i])]_vars

(***************************************************************************)
(* No line is left out in favour of a worse one (docs/architecture.md,     *)
(* "excerpts prioritize matching task terms, error lines, and boundary     *)
(* lines").                                                                *)
(***************************************************************************)
Prioritised == \A i \in DOMAIN selected, j \in Unranked : Score(i) >= Score(j)

(***************************************************************************)
(* An excerpt gives evidence: its lines are the best, it is not the        *)
(* omission marker alone when the limit leaves room for a line, and one    *)
(* that leaves lines out has less than 64 bytes of its limit unspent       *)
(* (excerpt.go:46-63).                                                     *)
(***************************************************************************)
GivesEvidence ==
    pc = "done" =>
        /\ Prioritised
        /\ limit >= Reserve + Enough => selected # <<>>
        /\ Unranked # {} /\ limit >= Reserve => Header + used > limit - 64

=============================================================================
