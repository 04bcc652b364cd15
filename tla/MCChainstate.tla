----------------------------- MODULE MCChainstate -----------------------------
(* One fork: A1 - A2 - A3 and A1 - B2 - B3, and blocks that are refused. *)
EXTENDS Chainstate

CONSTANTS oa, ob, oc, od, G, A1, A2, A3, B2, B3, X2, Y2, Z2, None

MCOutpoints == {oa, ob, oc, od}
MCBlocks == {A1, A2, A3, B2, B3, X2, Y2, Z2}
MCParent == [k \in MCBlocks |->
               CASE k = A1 -> G [] k = A3 -> A2 [] k = B3 -> B2 [] OTHER -> A1]
MCHeight == [k \in MCBlocks \cup {G} |->
               CASE k = G -> 0 [] k = A1 -> 1 [] k \in {A3, B3} -> 3 [] OTHER -> 2]

in(o) == [kind |-> "spend", o |-> o, cb |-> FALSE]
out(o) == [kind |-> "add", o |-> o, cb |-> FALSE]
coinbase(o) == [kind |-> "add", o |-> o, cb |-> TRUE]

\* The transactions oa -> ob and ob -> od are mined at different heights on the
\* two branches, and in one block together on the second.
MCOps == [k \in MCBlocks |->
            CASE k = A1 -> <<coinbase(oa)>>
              [] k = A2 -> <<in(oa), out(ob)>>
              [] k = A3 -> <<coinbase(oc), in(ob), out(od)>>
              [] k = B2 -> <<coinbase(oc)>>
              [] k = B3 -> <<in(oa), out(ob), in(ob), out(od)>>
              [] k = X2 -> <<coinbase(oc), in(oa), out(ob), in(od)>>
              [] k = Y2 -> <<in(oa), out(od)>>
              [] k = Z2 -> <<coinbase(oc), in(oa), out(oa)>>]

MCBad == {Y2}
===============================================================================
