----------------------------- MODULE MCLedgerInbox -----------------------------
(* Instances of LedgerInbox for TLC: rater A signs a chain of three entries,   *)
(* rater B equivocates at its second position, and Me is the inbox's owner.    *)
EXTENDS LedgerInbox

CONSTANTS A, B, Me, a1, a2, a3, b1, b2, b2x, m1, bad

MCRater ==
  [e \in Entries |-> IF e \in {a1, a2, a3} THEN A ELSE IF e = m1 THEN Me ELSE B]

MCPrev ==
  [e \in Entries |->
     CASE e \in {a1, b1, m1} -> Zero
       [] e = a2 -> a1
       [] e = a3 -> a2
       [] e \in {b2, b2x, bad} -> b1]
================================================================================
