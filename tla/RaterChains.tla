------------------------------ MODULE RaterChains ------------------------------
(***************************************************************************)
(* What an inbox promises to the reputation engine and to the peers that   *)
(* read it: for each foreign rater one append-only chain, grown a link at  *)
(* a time, in which every entry names its predecessor.                     *)
(***************************************************************************)
EXTENDS Sequences

CONSTANTS Raters, Admissible, Rater, Prev, Zero

VARIABLE chain

Tip(r) == IF chain[r] = <<>> THEN Zero ELSE chain[r][Len(chain[r])]

Init == chain = [r \in Raters |-> <<>>]

Extend(e) ==
  /\ Prev[e] = Tip(Rater[e])
  /\ chain' = [chain EXCEPT ![Rater[e]] = Append(@, e)]

Next == \E e \in Admissible : Extend(e)

Spec == Init /\ [][Next]_chain
================================================================================
