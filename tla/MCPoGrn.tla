------------------------------ MODULE MCPoGrn ------------------------------
(* Small instances of PoGrn: one order of one line, two receipts, two      *)
(* users, who are alike.  A lot's number is its receipt's and its line's.  *)
EXTENDS PoGrn, TLC

MCGrns == 1 .. 2
MCLineA == {1}
MCOfOneA == [p \in MCLineA |-> 1]
MCQtyA == [p \in MCLineA |-> 2]
MCQty3A == [p \in MCLineA |-> 3]
MCNoToleranceA == [p \in MCLineA |-> 0]
MCTolerance1A == [p \in MCLineA |-> 1]
MCLotsA == {11, 21}
MCGrnOfA == [l \in MCLotsA |-> l \div 10]
MCLineOfA == [l \in MCLotsA |-> 1]
UsersAlike == Permutations(Users)
=============================================================================
