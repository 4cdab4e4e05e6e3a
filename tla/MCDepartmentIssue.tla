------------------------ MODULE MCDepartmentIssue ------------------------
(* Small instances of DepartmentIssue: indent lines and lots of one or two *)
(* products, quantities of one or two.                                     *)
EXTENDS DepartmentIssue

MCTwoIndents == 1 .. 2
MCLots == 11 .. 12
MCIndentQty2 == <<1, 2>>
MCOpening == [l \in MCLots |-> IF l = 11 THEN 1 ELSE 2]
MCRods == [x \in MCTwoIndents \union MCLots |-> "rod"]
MCRodsAndPlates == [x \in MCTwoIndents \union MCLots |->
                      IF x \in {2, 12} THEN "plate" ELSE "rod"]
=============================================================================
