----------------------------- MODULE Transcript -----------------------------
(***************************************************************************)
(* Requests and what the engine derives from one: validity, links between  *)
(* messages, dependency groups and their protection, the proposals offered *)
(* for a group, and the rewritten transcript.  Pure operators, translated  *)
(* from compact/groups.go, selection.go and engine.go.                     *)
(*                                                                         *)
(* A request is a record                                                   *)
(*   messages, goal, target, recent (Nil: default), partial, individually  *)
(* and a message is a record                                               *)
(*   id, role, wellFormed (id, text, calls pass the lexical checks),       *)
(*   calls (sequence of [id, side]), result (answered call or Nil),        *)
(*   pinned, unresolved, group (label or Nil), deps (sequence of ids),     *)
(*   prose (text that is not blank), raw (some call's arguments are not    *)
(*   in the encoder's own form), form ("keep" or the replacement in        *)
(*   place of the text), tok (size in tokens), short (size per             *)
(*   replacement of the text).                                             *)
(***************************************************************************)
EXTENDS Integers, FiniteSets, Sequences, SequencesExt, Blocks

CONSTANT Nil

DefaultRecent == 4       \* groups.go: recency when recent_messages is absent
MaxMessages == 10000

Indices(req) == DOMAIN req.messages
Calls(m)   == {m.calls[k] : k \in DOMAIN m.calls}
CallIds(m) == {m.calls[k].id : k \in DOMAIN m.calls}
DepIds(m)  == {m.deps[k] : k \in DOMAIN m.deps}

\* A submitted message has its own text, sizes are token counts, and the lexical
\* checks turn away a call without an id.
IsMessage(m) ==
    /\ DOMAIN m = {"id", "role", "wellFormed", "calls", "result", "pinned", "unresolved",
                   "group", "deps", "prose", "raw", "form", "tok", "short"}
    /\ m.wellFormed => \A c \in Calls(m) : c.id # Nil
    /\ m.form = "keep" /\ m.tok \in Nat
    /\ \A a \in {"extract", "brief", "reference"} : m.short[a] \in Nat

IsRequest(req) ==
    /\ DOMAIN req = {"messages", "goal", "target", "recent", "partial", "individually"}
    /\ Len(req.messages) \in Nat /\ Indices(req) = 1..Len(req.messages)
    /\ req.target \in Int
    /\ \A i \in Indices(req) : IsMessage(req.messages[i])

-----------------------------------------------------------------------------
\* collectGroups: validation.

\* The call a result answers was issued by message i.
Issues(req, i, c) == c \in CallIds(req.messages[i])

WellFormed(m) ==
    /\ m.wellFormed
    /\ (m.role = "tool") <=> (m.result # Nil)
    /\ m.calls # <<>> => m.role = "assistant"

\* The first pass: options, every message on its own, and no duplicate.
Plausible(req) ==
    /\ req.goal # ""
    /\ req.target >= 1
    /\ Len(req.messages) \in 1..MaxMessages
    /\ req.recent # Nil => req.recent >= 0
    /\ \A i \in Indices(req) : WellFormed(req.messages[i])
    /\ \A i, j \in Indices(req) : i # j =>
          /\ req.messages[i].id # req.messages[j].id
          /\ req.messages[i].result = req.messages[j].result =>
                req.messages[i].result = Nil
          /\ CallIds(req.messages[i]) \cap CallIds(req.messages[j]) = {}
    /\ \A i \in Indices(req) :
          Cardinality(CallIds(req.messages[i])) = Len(req.messages[i].calls)

\* Every dependency names a message of the transcript.
KnownDependencies(req) ==
    \A i \in Indices(req) : \A d \in DepIds(req.messages[i]) :
        \E j \in Indices(req) : req.messages[j].id = d

\* Every result follows the call it answers.
Answers(req, i) ==
    \E j \in Indices(req) : j < i /\ Issues(req, j, req.messages[i].result)

Results(req) == {i \in Indices(req) : req.messages[i].result # Nil}

Valid(req) ==
    /\ Plausible(req)
    /\ KnownDependencies(req)
    /\ \A i \in Results(req) : Answers(req, i)

-----------------------------------------------------------------------------
\* collectGroups: the links that join messages, and the groups they form.

CallOf(req, i) ==
    CHOOSE j \in Indices(req) : j < i /\ Issues(req, j, req.messages[i].result)

Pairs(req) == Indices(req) \X Indices(req)

\* Mutant of DependencyLinks: only what comes later is joined.
LaterDependencyLinks(req) ==
    {p \in Pairs(req) :
        p[1] < p[2] /\ req.messages[p[2]].id \in DepIds(req.messages[p[1]])}

DependencyLinks(req) ==
    {p \in Pairs(req) :
        req.messages[p[2]].id \in DepIds(req.messages[p[1]])}

SameLabel(req, i, j) == /\ req.messages[i].group # Nil
                        /\ req.messages[i].group = req.messages[j].group

\* A labelled message is joined to the latest one before it with that label.
LabelLinks(req) ==
    {p \in Pairs(req) :
        /\ p[2] < p[1] /\ SameLabel(req, p[1], p[2])
        /\ \A k \in Indices(req) : k < p[1] /\ SameLabel(req, p[1], k) => k <= p[2]}

\* A result is joined to its call, unless results are reduced individually.
AnswerLinks(req) ==
    {p \in Pairs(req) :
        /\ ~req.individually
        /\ p[1] < p[2] /\ p[2] \in Results(req)
        /\ Issues(req, p[1], req.messages[p[2]].result)}

Links(req) == DependencyLinks(req) \cup LabelLinks(req) \cup AnswerLinks(req)

Block(req, i) == Component(Links(req), Indices(req), i)

-----------------------------------------------------------------------------
\* assembleGroups: protection.

Recency(req) == IF req.recent = Nil THEN DefaultRecent ELSE req.recent
IsRecent(req, i) == i > Len(req.messages) - Recency(req)

Answered(req, c) == \E r \in Results(req) : req.messages[r].result = c

\* protection(): the message itself, with the given calls, must stay.
Guarded(req, i, calls) ==
    LET m == req.messages[i] IN
    \/ m.pinned \/ m.unresolved
    \/ m.role \in {"system", "developer", "user"}
    \/ IsRecent(req, i)
    \/ \E c \in calls : c.side \/ ~Answered(req, c.id)

Depended(req, i) ==
    \E j \in Indices(req) : req.messages[i].id \in DepIds(req.messages[j])

\* resultProtection(): the guarantees of the call that result i answers.
Inherited(req, i) ==
    LET p == CallOf(req, i)
        m == req.messages[p] IN
    \/ m.group # Nil \/ m.deps # <<>> \/ Depended(req, p)
    \/ Guarded(req, p, {c \in Calls(m) : c.id = req.messages[i].result})

IsTool(req, i) == req.messages[i].role = "tool"

\* Mutant of Protected: the last message of the group decides.
ProtectedByLast(req, B) ==
    \/ \E i \in B : /\ \A j \in B : j <= i
                    /\ \/ Guarded(req, i, Calls(req.messages[i]))
                       \/ req.individually /\ IsTool(req, i) /\ Inherited(req, i)
    \/ \A i \in B : ~IsTool(req, i)

Protected(req, B) ==
    \/ \E i \in B : Guarded(req, i, Calls(req.messages[i]))
    \/ \E i \in B : req.individually /\ IsTool(req, i) /\ Inherited(req, i)
    \/ \A i \in B : ~IsTool(req, i)

-----------------------------------------------------------------------------
\* represent() and the sizes of originals and proposals.

Represent(m, a) == IF m.role = "tool" /\ a # "keep" THEN [m EXCEPT !.form = a]
                                                     ELSE m
SizeOf(m) == IF m.form = "keep" THEN m.tok ELSE m.short[m.form]

Count(messages) == SumFunction([k \in DOMAIN messages |-> SizeOf(messages[k])])

GroupSize(req, B, a) ==
    IF a = "drop" THEN 0
    ELSE SumFunction([i \in B |-> SizeOf(Represent(req.messages[i], a))])

\* variants(): the actions evaluated for a group.
Proposed(req, B, a) ==
    /\ a = "drop" =>
          /\ ~req.individually
          /\ \A i \in B : ~(req.messages[i].role = "assistant"
                              /\ req.messages[i].prose)
    /\ GroupSize(req, B, a) < GroupSize(req, B, "keep")

\* The groups as the engine keeps them, each named by its first message,
\* which also gives the scan order.
Collect(req) ==
    LET block  == [i \in Indices(req) |-> Block(req, i)]
        first == {i \in Indices(req) : \A j \in block[i] : i <= j}
    IN  [g \in first |-> [members   |-> block[g],
                         protected |-> Protected(req, block[g])]]

\* The members of a set of indices, ascending.
InOrder(S) == [k \in 1..Cardinality(S) |->
                  CHOOSE i \in S : Cardinality({j \in S : j < i}) = k - 1]

\* Mutant of Rewrite: dropping a group removes its results only.
RewriteKeepingCalls(req, groups, form) ==
    LET LeaderOf(i) == CHOOSE g \in DOMAIN groups : i \in groups[g].members
        stay == {i \in Indices(req) : form[LeaderOf(i)] = "drop" => ~IsTool(req, i)}
        order == InOrder(stay)
    IN  [k \in DOMAIN order |->
            Represent(req.messages[order[k]], form[LeaderOf(order[k])])]

\* assemble(): the transcript in its order, each message as its group has it.
Rewrite(req, groups, form) ==
    LET LeaderOf(i) == CHOOSE g \in DOMAIN groups : i \in groups[g].members
        stay == {i \in Indices(req) : form[LeaderOf(i)] # "drop"}
        order == InOrder(stay)
    IN  [k \in DOMAIN order |->
            Represent(req.messages[order[k]], form[LeaderOf(order[k])])]

\* cloneRequest(): a JSON round trip, after which every argument is in the
\* encoder's own form.
Clone(req) ==
    [req EXCEPT !.messages =
        [i \in Indices(req) |-> [req.messages[i] EXCEPT !.raw = FALSE]]]

=============================================================================
