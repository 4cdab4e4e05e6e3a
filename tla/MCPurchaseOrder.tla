-------------------------- MODULE MCPurchaseOrder --------------------------
(* Small instances of PurchaseOrder: two indent lines of one or two        *)
(* products, two or three orders.                                          *)
EXTENDS PurchaseOrder, TLC

MCLines == 1 .. 2
MCSameProduct == [x \in MCLines |-> 1]
MCTwoProducts == [x \in MCLines |-> x]
MCQty2 == [x \in MCLines |-> IF x = 1 THEN 2 ELSE 1]

\* Orders are alike: nothing depends on which order comes first.
OrdersAlike == Permutations(Orders)

\* The behaviours in which orders are made one after another: whatever goes
\* wrong in one of them is not for two forms that picked the same line.
OneByOne == Cardinality({o \in Orders : picked[o] # {} /\ poState[o] \in PoButtonStates}) <= 1
OneByOneSpec == Init /\ [][Next /\ OneByOne']_vars
=============================================================================
