------------------------------ MODULE MCStores ------------------------------
(* A small store: one order line and its receipt, a general receipt of two *)
(* lines, one indent line and one issue, all of the same product.          *)
EXTENDS Stores, TLC

MCGrns == {1}
MCPoLines == {1}
MCOrderOf == [p \in MCPoLines |-> 1]
MCOrderQty == [p \in MCPoLines |-> 2]
MCTolerance == [p \in MCPoLines |-> 0]
MCGrnLots == {11}
MCGrnOf == [l \in MCGrnLots |-> l \div 10]
MCPoLineOf == [l \in MCGrnLots |-> 1]
MCGenLines == 1 .. 2
MCGenOf == [x \in MCGenLines |-> 1]
MCGenLots == {51, 52}
MCGenLineOf == [l \in MCGenLots |-> l - 50]
MCLots == MCGrnLots \union MCGenLots
UsersAlike == Permutations(Users)
MCIndentLines == {1}
MCProductOf == [x \in MCIndentLines \union MCLots |-> "rod"]
MCIndentQty == [x \in MCIndentLines |-> 1]
=============================================================================
