---------------------------- MODULE RecencyCache ----------------------------
(***************************************************************************)
(* What the verification cache promises: it holds the Entries keys used    *)
(* last, and nothing else decides what is evicted.                         *)
(***************************************************************************)
EXTENDS Naturals, Sequences

CONSTANTS Keys, Entries

VARIABLE list  \* the resident keys, the one used last first

Init == list = <<>>

\* The place that a use of k gives up: k's own, or the first free one, or the last.
Place(k, p) ==
  IF \E i \in DOMAIN list : list[i] = k
  THEN p \in DOMAIN list /\ list[p] = k
  ELSE p = IF Len(list) < Entries THEN Len(list) + 1 ELSE Entries

\* k goes to the front, and what was before that place moves back by one.
Use(k) ==
  \E p \in 1..Entries :
    /\ Place(k, p)
    /\ list' = [i \in DOMAIN list \cup {p} |-> IF i = 1 THEN k ELSE IF i <= p THEN list[i - 1] ELSE list[i]]

Next == \E k \in Keys : Use(k)

Spec == Init /\ [][Next]_list
=============================================================================
