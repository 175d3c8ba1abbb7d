---------------------------- MODULE MCManualEdits ----------------------------
(* ManualEdits with one page, whose two edits are in one file.             *)
EXTENDS ManualEdits
CONSTANTS p1, e1, e2, f1
PageOfEdit == [e \in {e1, e2} |-> p1]
FileOfEdit == [e \in {e1, e2} |-> f1]
=============================================================================
