-------------------------------- MODULE Text --------------------------------
(***************************************************************************)
(* UTF-8 text as far as the byte budgets of the program see it: its length *)
(* in bytes and the offsets at which its runes begin.                      *)
(***************************************************************************)
EXTENDS Integers

IsText(t) == /\ t.bytes \in Nat
             /\ t.starts \subseteq 0..(t.bytes - 1)
             /\ t.bytes > 0 => 0 \in t.starts

Empty == [bytes |-> 0, starts |-> {}]

\* Where clip() and the halving of previews may cut t to at most n bytes.
IsCut(t, n, e) == /\ e \in t.starts \cup {0} /\ e <= n
                  /\ \A k \in t.starts : k <= n => k <= e

\* The first e bytes of t.
Prefix(t, e) == [bytes |-> e, starts |-> {k \in t.starts : k < e}]

\* The bytes excerpt may return for a text of so many, for limits that hold the
\* omission marker of 39 bytes.
Sizes(bytes, limit) ==
    IF bytes <= limit THEN {bytes} ELSE IF limit < 96 THEN {39} ELSE 39..limit

=============================================================================
