---------------------------- MODULE PurchaseOrder ----------------------------
(***************************************************************************)
(* purchase.order made from purchase indent lines (po_type "frompi"), up   *)
(* to its approval: how orders claim indent lines (draft_flag, line_state) *)
(* and what an approval writes back to them.  Lines are priced; one line   *)
(* per product, all of them generated.                                     *)
(*                                                                         *)
(* Handlers are steps and forms may be old, as in DepartmentIssue.  The    *)
(* button "Approve" is no handler but a signal to the workflow engine,     *)
(* which answers it once, in the activity "draft" of the order's instance. *)
(***************************************************************************)
EXTENDS Integers, FiniteSets, Functions

CONSTANTS
    Orders,        \* rows of purchase_order
    PiLines,       \* approved purchase indent lines; ids order a search
    Products,      \* ids; order lines are created in their order
    ProductOf,     \* product_id of an indent line
    PiQty,         \* product_qty of an indent line
    Qtys,          \* quantities a user types
    PoStale        \* TRUE: a click may come from a form read earlier

\* The rows of a table are finitely many.
ASSUME OrderConstantsOK ==
    /\ PiLines \subseteq Nat
    /\ Products \subseteq Nat
    /\ IsFiniteSet(PiLines) /\ IsFiniteSet(Orders)
    /\ ProductOf \in [PiLines -> Products]
    /\ PiQty \in [PiLines -> Nat \ {0}]
    /\ Qtys \subseteq Nat \ {0}
    /\ PoStale \in BOOLEAN

VARIABLES
    poState,       \* the state column
    atStart,       \* the workflow instance waits in its first activity
    picked,        \* kg_poindent_lines
    orderLine,     \* order_line, by product
    poShown,       \* states with buttons that some open form may be showing
    piPending,     \* pending_qty of an indent line
    lineState,     \* line_state of an indent line
    draftFlag      \* draft_flag of an indent line: an order has loaded it

orderVars == <<poState, atStart, picked, orderLine, poShown>>
indentVars == <<piPending, lineState, draftFlag>>
vars == <<orderVars, indentVars>>

-----------------------------------------------------------------------------
(* Types *)

PoStates == {"draft", "confirmed", "approved", "reject", "deleted"}
PoButtonStates == {"draft", "confirmed"}
LineStates == {"process", "noprocess", "cancel"}

\* No line of a product, or one with the indent line it was made from
\* (pi_line_id), the quantity it was made with (pi_qty), and whether it
\* stands for several indent lines (group_flag).
NoOrderLine == [made |-> FALSE]
OrderLine == [made : {TRUE}, qty : Nat, piQty : Nat, pi : PiLines, group : BOOLEAN]

\* Each column has its type: no approval writes a quantity below zero.
PoTypeOK ==
    /\ poState \in [Orders -> PoStates]
    /\ atStart \in [Orders -> BOOLEAN]
    /\ picked \in [Orders -> SUBSET PiLines]
    /\ orderLine \in [Orders -> [Products -> OrderLine \union {NoOrderLine}]]
    /\ poShown \in [Orders -> SUBSET PoButtonStates]
    /\ piPending \in [PiLines -> Nat]
    /\ lineState \in [PiLines -> LineStates]
    /\ draftFlag \in [PiLines -> BOOLEAN]

-----------------------------------------------------------------------------
(* Helpers *)

OrderLines(o) == {p \in Products : orderLine[o][p].made}

\* The indent lines that the lines of an order name.
Named(o) == {orderLine[o][p].pi : p \in OrderLines(o)}

\* The line of order o that names indent line x.
LineFor(o, x) == orderLine[o][ProductOf[x]]

Group(o, p) == {x \in picked[o] : ProductOf[x] = p}
Several(S) == \E x, y \in S : x # y
First(S) == CHOOSE x \in S : \A y \in S : x <= y

\* The first of each group of picked lines; only these are flagged.
Firsts(o) == {x \in picked[o] : x = First(Group(o, ProductOf[x]))}

\* What the form offers to pick.
Offered(x) == piPending[x] > 0 /\ lineState[x] = "process" /\ ~draftFlag[x]

\* Mutant of Unloaded: only what is still picked is released.
UnloadedPicked(o) == Named(o) \intersect picked[o]

\* The indent lines that "Save Record" releases before it loads: those that
\* the lines it deletes name.
Unloaded(o) == Named(o)

\* A form of an order shows state s.
PoShows(o, s) == /\ poState[o] # "deleted"
                 /\ s \in IF PoStale THEN poShown[o] ELSE {poState[o]}

SetOrder(o, s) == /\ poState' = [poState EXCEPT ![o] = s]
                  /\ poShown' = [poShown EXCEPT ![o] = @ \union ({s} \intersect PoButtonStates)]

\* What is pending for the picked lines of each product together.
Totals(o) == {total \in [Products -> 0 .. SumFunctionOnSet(PiQty, PiLines)] :
                 \A p \in Products : total[p] = SumFunctionOnSet(piPending, Group(o, p))}

\* The quantity of a line made from the picked lines of its product.
LoadedQty(S, total) == IF Several(S) THEN total ELSE piPending[First(S)]

\* The line that "Save Record" makes from them.
MadeLine(S, total) == [made |-> TRUE, qty |-> LoadedQty(S, total),
                       piQty |-> LoadedQty(S, total), pi |-> First(S),
                       group |-> Several(S)]

\* The approval compares a line with what it was made with, unless it
\* stands for several indent lines.
Within(l) == l.group \/ l.qty <= l.piQty

\* The approval of an order charges the indent lines its lines name, and
\* none where a line stands for several: the call that would distribute the
\* quantity (update_product_pending_qty) sits in the branch for one.
Charged(o) == {x \in Named(o) : ~LineFor(o, x).group}

\* Mutant of Uncharged: what the order did not take is forgotten.
UnchargedNone(l) == 0

\* Mutant of Uncharged: the quantity is taken off the indent line as it is now.
UnchargedRow(l) == piPending[l.pi] - l.qty

Uncharged(l) == l.piQty - l.qty

\* The approval looks up the i-th picked line for its i-th line.
LookedUp(o, p) == Cardinality({q \in OrderLines(o) : q <= p}) <= Cardinality(picked[o])

-----------------------------------------------------------------------------
(* Operations *)

Init ==
    /\ poState = [o \in Orders |-> "draft"]
    /\ atStart = [o \in Orders |-> TRUE]
    /\ picked = [o \in Orders |-> {}]
    /\ orderLine = [o \in Orders |-> [p \in Products |-> NoOrderLine]]
    /\ poShown = [o \in Orders |-> {"draft"}]
    /\ piPending = PiQty
    /\ lineState = [x \in PiLines |-> "process"]
    /\ draftFlag = [x \in PiLines |-> FALSE]

\* The user picks from the lines on offer and saves the form.  Nothing is
\* flagged yet, so another form may pick the same lines, and update_poline
\* does not look at the flag again.
PickLines(o, S) ==
    /\ poState[o] = "draft"
    /\ \A x \in S \ picked[o] : Offered(x)
    /\ picked' = [picked EXCEPT ![o] = S]
    /\ UNCHANGED <<poState, atStart, orderLine, poShown, indentVars>>

\* Button "Save Record": the lines are deleted and made anew from the picked
\* ones, whatever state the order is in.  A line of quantity zero raises in
\* the division of its discount.
update_poline(o) ==
    /\ PoShows(o, "draft") \/ PoShows(o, "confirmed")
    /\ \E total \in Totals(o) :
          /\ \A x \in picked[o] : total[ProductOf[x]] > 0
          /\ orderLine' = [orderLine EXCEPT ![o] =
                [p \in Products |-> IF Group(o, p) = {} THEN NoOrderLine
                                   ELSE MadeLine(Group(o, p), total[p])]]
    /\ lineState' = [x \in PiLines |->
          IF x \in Unloaded(o) \union Firsts(o) THEN "process" ELSE lineState[x]]
    /\ draftFlag' = [x \in PiLines |->
          x \in Firsts(o) \/ (draftFlag[x] /\ x \notin Unloaded(o))]
    /\ UNCHANGED <<poState, atStart, picked, poShown, piPending>>

\* The user edits the quantity of a line and saves the form.
EditOrderLine(o, p, q) ==
    /\ poState[o] \in {"draft", "confirmed", "reject"}
    /\ p \in OrderLines(o)
    /\ orderLine' = [orderLine EXCEPT ![o][p].qty = q]
    /\ UNCHANGED <<poState, atStart, picked, poShown, indentVars>>

\* kg_purchase_order_line.unlink: the user removes a line.
RemoveOrderLine(o, p) ==
    /\ poState[o] \in {"draft", "confirmed"}
    /\ p \in OrderLines(o)
    /\ LET x == orderLine[o][p].pi IN
          /\ lineState' = [lineState EXCEPT ![x] = "process"]
          /\ draftFlag' = [draftFlag EXCEPT ![x] = FALSE]
          /\ picked' = [picked EXCEPT ![o] = @ \ {x}]
    /\ orderLine' = [orderLine EXCEPT ![o][p] = NoOrderLine]
    /\ UNCHANGED <<poState, atStart, poShown, piPending>>

\* Button "Confirm".
confirm_po(o) ==
    /\ PoShows(o, "draft")
    /\ OrderLines(o) # {}
    /\ SetOrder(o, "confirmed")
    /\ UNCHANGED <<atStart, picked, orderLine, indentVars>>

\* Button "Approve": the signal takes the workflow through wkf_confirm_order
\* and wkf_approve_order.
wkf_approve_order(o) ==
    /\ PoShows(o, "confirmed")
    /\ atStart[o]
    /\ OrderLines(o) # {}
    /\ \A p \in OrderLines(o) : /\ Within(orderLine[o][p])
                                /\ orderLine[o][p].group \/ LookedUp(o, p)
    /\ piPending' = [x \in PiLines |->
          IF x \in Charged(o) THEN Uncharged(LineFor(o, x)) ELSE piPending[x]]
    /\ draftFlag' = [x \in PiLines |-> draftFlag[x] /\ x \notin Charged(o)]
    /\ lineState' = [x \in PiLines |->
          IF x \in Charged(o) /\ piPending'[x] = 0 THEN "noprocess" ELSE lineState[x]]
    /\ atStart' = [atStart EXCEPT ![o] = FALSE]
    /\ SetOrder(o, "approved")
    /\ UNCHANGED <<picked, orderLine>>

\* Button "Reject", with the remark it asks for.
entry_reject(o) ==
    /\ PoShows(o, "confirmed")
    /\ lineState' = [x \in PiLines |-> IF x \in Named(o) THEN "noprocess" ELSE lineState[x]]
    /\ SetOrder(o, "reject")
    /\ UNCHANGED <<atStart, picked, orderLine, piPending, draftFlag>>

\* Deletion releases the lines that are still in process.
unlink(o) ==
    /\ poState[o] = "draft"
    /\ draftFlag' = [x \in PiLines |->
          draftFlag[x] /\ (x \notin Named(o) \/ lineState[x] # "process")]
    /\ picked' = [picked EXCEPT ![o] = {}]
    /\ orderLine' = [orderLine EXCEPT ![o] = [p \in Products |-> NoOrderLine]]
    /\ atStart' = [atStart EXCEPT ![o] = FALSE]
    /\ SetOrder(o, "deleted")
    /\ UNCHANGED <<piPending, lineState>>

\* kg_purchaseindent_manual_closing, entry_approve, for a line that was
\* loaded while it was on offer: refused while an open order names it.
ClosePiLine(x) ==
    /\ lineState[x] # "cancel"
    /\ \A o \in Orders : x \in Named(o) => poState[o] = "approved"
    /\ piPending' = [piPending EXCEPT ![x] = 0]
    /\ lineState' = [lineState EXCEPT ![x] = "cancel"]
    /\ draftFlag' = [draftFlag EXCEPT ![x] = TRUE]
    /\ UNCHANGED orderVars

Next == \/ \E o \in Orders :
              \/ \E S \in SUBSET PiLines : PickLines(o, S)
              \/ update_poline(o)
              \/ \E p \in Products, q \in Qtys : EditOrderLine(o, p, q)
              \/ \E p \in Products : RemoveOrderLine(o, p)
              \/ confirm_po(o)
              \/ wkf_approve_order(o)
              \/ entry_reject(o)
              \/ unlink(o)
        \/ \E x \in PiLines : ClosePiLine(x)

Spec == Init /\ [][Next]_vars

-----------------------------------------------------------------------------
(* Properties *)

\* What is ordered for indent line x, in approved orders.
Ordered(x) == SumFunctionOnSet(
    [o \in Orders |-> IF poState[o] = "approved" /\ x \in Named(o)
                      THEN LineFor(o, x).qty ELSE 0], Orders)

\* Whichever orders overlap and from whichever forms they are driven, no
\* approval gives an indent line more to order than it asked for.
PendingWithinIndent == \A x \in PiLines : piPending[x] \in 0 .. PiQty[x]

\* Nothing is taken off what is to be ordered of an indent line but what
\* approved orders order of it, also when two forms have picked the line, both
\* load it and both are approved.  Only for fresh forms and order lines that
\* stand for one indent line, and until the line is closed.
TakenIsOrdered ==
    \A x \in PiLines :
        lineState[x] = "cancel" \/ piPending[x] + Ordered(x) >= PiQty[x]

\* Order o answers for indent line x: it names it, and has not charged it.
Holds(o, x) == x \in Named(o) /\ (poState[o] = "approved" => LineFor(o, x).group)

\* An indent line is not withheld from the offer for nobody: until it is
\* closed, its draft_flag is set only while some order holds it, whichever
\* orders have loaded it and in whichever order they are loaded anew, approved,
\* rejected or deleted.  Only for fresh forms.
FlagHasOrder ==
    \A x \in PiLines :
        draftFlag[x] => lineState[x] = "cancel" \/ \E o \in Orders : Holds(o, x)

\* The answer of wkf_approve_order, "PO Qty should not be greater than
\* purchase indent Qty": no more of a product is ordered than was asked for.
WithinIndent ==
    \A p \in Products :
        LET lines == {x \in PiLines : ProductOf[x] = p} IN
        SumFunctionOnSet([x \in PiLines |-> Ordered(x)], lines)
          <= SumFunctionOnSet(PiQty, lines)
=============================================================================
