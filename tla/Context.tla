------------------------------ MODULE Context ------------------------------
(***************************************************************************)
(* scoringContext of compact/context.go calling excerpt: the conversation  *)
(* is written out with its texts excerpted, again with shorter excerpts    *)
(* while the result is too long, and in the last resort excerpted as a     *)
(* whole.  The engine's other calls of excerpt, for previews and briefs,   *)
(* start in Excerpt's initial states.                                      *)
(***************************************************************************)
EXTENDS Excerpt

CONSTANTS
    Conversations   \* sequences of [frame, text]: what the builder is given, in
                    \* order, bytes of a message's own and a text to be excerpted

VARIABLES
    pieces,
    try,        \* index of the limit in use
    written,    \* pieces written to the builder
    length,     \* the builder's length
    totals,     \* history: bytes written in each try
    result      \* bytes of the context returned; -1 before the return

building == <<pieces, try, written, length, totals, result>>
allVars == <<vars, building>>

Tries == <<800, 240, 60>>
Most  == 12000

ASSUME ConversationsAssumption ==
    \A c \in Conversations :
        /\ Len(c) \in Nat \ {0} /\ DOMAIN c = 1..Len(c)
        /\ \A i \in DOMAIN c : c[i].frame \in Nat /\ IsLines(c[i].text)

InitContext ==
    /\ try = 1 /\ written = 0 /\ length = 0 /\ totals = <<0, 0, 0>>
    /\ \/ Init /\ pieces = <<>> /\ result = 0
       \/ /\ pieces \in Conversations /\ result = -1
          /\ pc = "idle" /\ lines = <<>> /\ limit = 0 /\ line = 0 /\ end = 0
          /\ remaining = 0 /\ selected = <<>> /\ used = 0

Excerpting == Next /\ UNCHANGED building

\* The next piece, up to its excerpt.
Call ==
    /\ pc = "idle" /\ result = -1 /\ written < Len(pieces)
    /\ lines' = pieces[written + 1].text /\ limit' = Tries[try]
    /\ pc' = IF Length(lines') <= limit' THEN "whole" ELSE "scan"
    /\ remaining' = Larger(0, limit' - Reserve)
    /\ selected' = <<>> /\ used' = 0
    /\ UNCHANGED <<line, end, building>>

Shown == IF pc = "whole" THEN Length(lines) ELSE Header + used

Write ==
    /\ pc \in {"whole", "done"} /\ result = -1
    /\ LET bytes == pieces[written + 1].frame + Shown IN
       /\ length' = length + bytes
       /\ totals' = [totals EXCEPT ![try] = @ + bytes]
    /\ written' = written + 1
    /\ pc' = "idle"
    /\ UNCHANGED <<lines, limit, line, end, remaining, selected, used, pieces, try, result>>

AllWritten == pc = "idle" /\ result = -1 /\ written = Len(pieces)

Return ==
    /\ AllWritten /\ length <= Most
    /\ result' = length
    /\ UNCHANGED <<vars, pieces, try, written, length, totals>>

\* Mutant of TryShorter: keeps what the builder holds.
TryShorterAppending ==
    /\ AllWritten /\ length > Most /\ try < Len(Tries)
    /\ try' = try + 1 /\ written' = 0
    /\ UNCHANGED <<vars, pieces, length, totals, result>>

TryShorter ==
    /\ AllWritten /\ length > Most /\ try < Len(Tries)
    /\ try' = try + 1 /\ written' = 0 /\ length' = 0
    /\ UNCHANGED <<vars, pieces, totals, result>>

ExcerptWhole ==
    /\ AllWritten /\ length > Most /\ try = Len(Tries)
    /\ result' \in Sizes(length, Most)
    /\ UNCHANGED <<vars, pieces, try, written, length, totals>>

NextContext == Excerpting \/ Call \/ Write \/ Return \/ TryShorter \/ ExcerptWhole

SpecContext == InitContext /\ [][NextContext]_allVars

-----------------------------------------------------------------------------
\* Properties.

(***************************************************************************)
(* The context handed to the scorer is bounded, but never shortened more   *)
(* than it must be: it is exact for the longest excerpts with which it     *)
(* fits, and messages are left out only when even the shortest excerpts    *)
(* make it too long, so call identities survive wherever they can          *)
(* (context.go:8-9, 25-30).                                                *)
(***************************************************************************)
NoShorterThanNeeded ==
    pieces # <<>> /\ result # -1 =>
        /\ result <= Most
        /\ \A k \in 1..(try - 1) : totals[k] > Most
        /\ totals[try] <= Most => result = totals[try]
        /\ totals[try] > Most => try = Len(Tries)

(***************************************************************************)
(* The limit docs/configuration.md:50 gives: "| Sampled global context |   *)
(* 4,000 bytes |".  The code keeps to 12,000 (context.go:25-29).           *)
(***************************************************************************)
ContextAsDocumented == pieces # <<>> /\ result # -1 => result <= 4000

=============================================================================
