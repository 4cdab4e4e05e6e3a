-------------------------- MODULE MCPurchaseIndent --------------------------
(* Small instances of PurchaseIndent: one or two indent lines of one       *)
(* product, and one or two purchase indents, which are alike.              *)
EXTENDS PurchaseIndent, TLC

CONSTANTS Pi1, Pi2

MCPis == {Pi1, Pi2}
MCLine == {1}
MCLines == 1 .. 2
MCOneProduct == [d \in MCLines |-> 1]
MCAsked == [d \in MCLines |-> d]
MCLineProduct == [d \in MCLine |-> 1]
MCLineAsked == [d \in MCLine |-> 2]
PisAlike == Permutations(MCPis)
=============================================================================
