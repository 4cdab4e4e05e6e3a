--------------------------- MODULE PurchaseIndent ---------------------------
(***************************************************************************)
(* purchase.requisition ("purchase indent") made from the lines of         *)
(* department indents, and the manual closing of those lines.  A purchase  *)
(* indent copies what a line asks for when "Save Record" is clicked        *)
(* (update_pil) and writes the line from that copy when it is approved,    *)
(* perhaps after other purchase indents or a closing have changed it.      *)
(*                                                                         *)
(* Handlers are steps and forms may be old, as in DepartmentIssue.  Indent *)
(* lines are in their product's purchase unit and carry one brand, so a    *)
(* purchase indent has one line per product.                               *)
(***************************************************************************)
EXTENDS Integers, FiniteSets, Functions

CONSTANTS
    Pis,           \* rows of purchase_requisition
    DiLines,       \* rows of kg_depindent_line of approved indents, by id
    Products,      \* ids
    ProductOf,     \* product_id of an indent line
    Asked,         \* qty of an indent line
    Qtys,          \* quantities a user types
    PiStale        \* TRUE: a click may come from a form read earlier

\* The rows of a table are finitely many.
ASSUME IndentConstantsOK ==
    /\ DiLines \subseteq Nat
    /\ IsFiniteSet(DiLines) /\ IsFiniteSet(Pis)
    /\ ProductOf \in [DiLines -> Products]
    /\ Asked \in [DiLines -> Nat \ {0}]
    /\ Qtys \subseteq Nat
    /\ PiStale \in BOOLEAN

VARIABLES
    piState,       \* state of a purchase indent
    picked,        \* kg_depindent_lines
    piLine,        \* line_ids, by product
    piShown,       \* states with buttons that some open form may be showing
    poQty,         \* po_qty of an indent line: still to be ordered
    pendingQty,    \* pending_qty of an indent line
    lineState,     \* line_state of an indent line
    closing        \* state of the document that closes an indent line

piVars == <<piState, picked, piLine, piShown>>
diVars == <<poQty, pendingQty, lineState>>
vars == <<piVars, diVars, closing>>

-----------------------------------------------------------------------------
(* Types *)

PiStates == {"draft", "in_progress", "approved", "reject", "deleted"}
PiButtonStates == {"draft", "in_progress"}
LineStates == {"process", "noprocess"}
ClosingStates == {"none", "draft", "confirm", "approved"}

\* No line of a product, or one with the first indent line it stands for
\* (depindent_line_id), what that one had pending and to order when the line
\* was made (dep_indent_qty, po_uom_qty; nobody reads them where it stands
\* for several, group_flag), and its own line_state.
NoPiLine == [made |-> FALSE]
PiLine == [made : {TRUE}, qty : Nat, dep : Int, po : Nat, first : DiLines,
           group : BOOLEAN, state : LineStates]

\* Each column has its type: whatever copies approvals write back, no indent
\* line is left with less than nothing or more than it asked for to order.
IndentTypeOK ==
    /\ piState \in [Pis -> PiStates]
    /\ picked \in [Pis -> SUBSET DiLines]
    /\ piLine \in [Pis -> [Products -> PiLine \union {NoPiLine}]]
    /\ piShown \in [Pis -> SUBSET PiButtonStates]
    /\ poQty \in [DiLines -> Nat]
    /\ \A d \in DiLines : poQty[d] <= Asked[d]
    /\ pendingQty \in [DiLines -> Int]
    /\ lineState \in [DiLines -> LineStates]
    /\ closing \in [DiLines -> ClosingStates]

-----------------------------------------------------------------------------
(* Helpers *)

Made(p) == {r \in Products : piLine[p][r].made}

\* The indent lines that the lines of a purchase indent name.
Firsts(p) == {piLine[p][r].first : r \in Made(p)}

\* The line of purchase indent p that indent line d belongs to.
LineFor(p, d) == piLine[p][ProductOf[d]]

Group(p, r) == {d \in picked[p] : ProductOf[d] = r}
Several(S) == \E d, e \in S : d # e
First(S) == CHOOSE d \in S : \A e \in S : d <= e

\* What the form offers to pick.
Offered(d) == pendingQty[d] > 0 /\ lineState[d] # "process"

\* A form of a purchase indent shows state s.
PiShows(p, s) == /\ piState[p] # "deleted"
                 /\ s \in IF PiStale THEN piShown[p] ELSE {piState[p]}

SetPi(p, s) == /\ piState' = [piState EXCEPT ![p] = s]
               /\ piShown' = [piShown EXCEPT ![p] = @ \union ({s} \intersect PiButtonStates)]

\* What the picked lines of each product have to order together.
Totals(p) == {total \in [Products -> 0 .. SumFunctionOnSet(Asked, DiLines)] :
                 \A r \in Products : total[r] = SumFunctionOnSet(poQty, Group(p, r))}

\* What the picked lines before each one of its product have to order.
Befores(p) == {before \in [DiLines -> 0 .. SumFunctionOnSet(Asked, DiLines)] :
                  \A d \in DiLines : before[d] =
                      SumFunctionOnSet(poQty, {e \in Group(p, ProductOf[d]) : e < d})}

\* The line that "Save Record" makes from the picked lines S of a product.
MadeLine(S, total) == LET qty == IF Several(S) THEN total ELSE poQty[First(S)] IN
    [made |-> TRUE, qty |-> qty, dep |-> pendingQty[First(S)], po |-> qty,
     first |-> First(S), group |-> Several(S), state |-> "noprocess"]

\* Mutant of Exhausted: the line is marked done on each "Save Record".
ExhaustedEver(p, r) == Group(p, r) # {}

\* Nothing is pending for the picked lines of a product.
Exhausted(p, r) == Group(p, r) # {} /\ SumFunctionOnSet(pendingQty, Group(p, r)) = 0

\* The indent lines an approval writes from the copy ...
Singles(p) == {d \in DiLines : /\ LineFor(p, d).made
                               /\ ~LineFor(p, d).group
                               /\ LineFor(p, d).first = d}

\* ... and those it charges with a line that stands for several: the picked
\* ones, until nothing of its quantity is left.
Grouped(p, before) == {d \in picked[p] : /\ LineFor(p, d).made
                                         /\ LineFor(p, d).group
                                         /\ LineFor(p, d).qty > before[d]}

\* Mutant of ToOrder: a quantity above the copy is not looked out for.
ToOrderBare(l) == l.po - l.qty

\* What is left of a single line: all is taken where more is indented.
ToOrder(l) == IF l.qty > l.po THEN 0 ELSE l.po - l.qty

\* Mutant of Pending: only what is to order is cleared.
PendingBare(l) == l.dep - l.qty

Pending(l) == IF l.qty > l.po THEN 0 ELSE l.dep - l.qty

\* Mutant of Rest: each line of a group is charged with the whole quantity.
RestWhole(p, d, before) ==
    LET reaches == LineFor(p, d).qty IN
    IF reaches > poQty[d] THEN 0 ELSE poQty[d] - reaches

\* What is left of a line of a group: what reaches it is taken.
Rest(p, d, before) ==
    LET reaches == LineFor(p, d).qty - before[d] IN
    IF reaches > poQty[d] THEN 0 ELSE poQty[d] - reaches

\* Some purchase indent that is not approved names the line.
Referred(d) == \E p \in Pis, r \in Products :
    piLine[p][r].made /\ piLine[p][r].first = d /\ piLine[p][r].state = "noprocess"

-----------------------------------------------------------------------------
(* Purchase indents *)

Init ==
    /\ piState = [p \in Pis |-> "draft"]
    /\ picked = [p \in Pis |-> {}]
    /\ piLine = [p \in Pis |-> [r \in Products |-> NoPiLine]]
    /\ piShown = [p \in Pis |-> {"draft"}]
    /\ poQty = Asked
    /\ pendingQty = Asked
    /\ lineState = [d \in DiLines |-> "noprocess"]
    /\ closing = [d \in DiLines |-> "none"]

\* The user picks from the lines on offer and saves the form.
PickLines(p, S) ==
    /\ piState[p] \in PiButtonStates
    /\ \A d \in S \ picked[p] : Offered(d)
    /\ picked' = [picked EXCEPT ![p] = S]
    /\ UNCHANGED <<piState, piLine, piShown, diVars, closing>>

\* Button "Save Record": the lines are deleted and made anew from the picked
\* ones, whatever state the purchase indent is in.
update_pil(p) ==
    /\ PiShows(p, "draft") \/ PiShows(p, "in_progress")
    /\ \E total \in Totals(p) :
          piLine' = [piLine EXCEPT ![p] =
              [r \in Products |-> IF Group(p, r) = {} THEN NoPiLine
                                  ELSE MadeLine(Group(p, r), total[r])]]
    /\ lineState' = [d \in DiLines |->
          IF \E r \in Products : Exhausted(p, r) /\ d = First(Group(p, r)) THEN "process"
          ELSE IF d \in Firsts(p) THEN "noprocess" ELSE lineState[d]]
    /\ UNCHANGED <<piState, picked, piShown, poQty, pendingQty, closing>>

\* The user edits the quantity of a line and saves the form.
EditLine(p, r, q) ==
    /\ piState[p] \in PiButtonStates
    /\ r \in Made(p)
    /\ piLine' = [piLine EXCEPT ![p][r].qty = q]
    /\ UNCHANGED <<piState, picked, piShown, diVars, closing>>

\* kg_purchase_indent_line.unlink: the user removes a line.
RemoveLine(p, r) ==
    /\ piState[p] \in PiButtonStates
    /\ r \in Made(p)
    /\ LET d == piLine[p][r].first IN
          /\ lineState' = [lineState EXCEPT ![d] = "noprocess"]
          /\ picked' = [picked EXCEPT ![p] = @ \ {d}]
    /\ piLine' = [piLine EXCEPT ![p][r] = NoPiLine]
    /\ UNCHANGED <<piState, piShown, poQty, pendingQty, closing>>

\* Button "Confirm".
tender_in_progress(p) ==
    /\ PiShows(p, "draft")
    /\ Made(p) # {}
    /\ SetPi(p, "in_progress")
    /\ UNCHANGED <<picked, piLine, diVars, closing>>

\* Button "Approve".
tender_for_approve(p) ==
    /\ PiShows(p, "in_progress")
    /\ Made(p) # {}
    /\ \A r \in Made(p) : piLine[p][r].qty # 0
    /\ SetPi(p, "approved")
    /\ piLine' = [piLine EXCEPT ![p] = [r \in Products |->
          IF r \in Made(p) THEN [piLine[p][r] EXCEPT !.state = "process"] ELSE NoPiLine]]
    /\ \E before \in Befores(p) :
          /\ poQty' = [d \in DiLines |->
                IF d \in Singles(p) THEN ToOrder(LineFor(p, d))
                ELSE IF d \in Grouped(p, before) THEN Rest(p, d, before) ELSE poQty[d]]
          /\ pendingQty' = [d \in DiLines |->
                IF d \in Singles(p) THEN Pending(LineFor(p, d))
                ELSE IF d \in Grouped(p, before) THEN poQty'[d] ELSE pendingQty[d]]
    /\ lineState' = [d \in DiLines |->
          IF d \notin Singles(p) THEN lineState[d]
          ELSE IF poQty'[d] = 0 THEN "process" ELSE "noprocess"]
    /\ UNCHANGED <<picked, closing>>

\* Button "Reject", with the remark it asks for.
tender_reject(p) ==
    /\ PiShows(p, "in_progress")
    /\ SetPi(p, "reject")
    /\ UNCHANGED <<picked, piLine, diVars, closing>>

\* Deletion takes the lines and the picks with it and writes no indent line.
unlink(p) ==
    /\ piState[p] = "draft"
    /\ picked' = [picked EXCEPT ![p] = {}]
    /\ piLine' = [piLine EXCEPT ![p] = [r \in Products |-> NoPiLine]]
    /\ SetPi(p, "deleted")
    /\ UNCHANGED <<diVars, closing>>

-----------------------------------------------------------------------------
(* kg_depindent_manual_closing, for a line the user marks "close" *)

\* Button "Load Item".
load_item(d) ==
    /\ closing[d] = "none"
    /\ Offered(d)
    /\ closing' = [closing EXCEPT ![d] = "draft"]
    /\ UNCHANGED <<piVars, diVars>>

\* Button "Confirm".
entry_confirm(d) ==
    /\ closing[d] = "draft"
    /\ ~Referred(d)
    /\ closing' = [closing EXCEPT ![d] = "confirm"]
    /\ UNCHANGED <<piVars, diVars>>

\* Button "Approve": its search for purchase indents that name the line asks
\* for a department (dep_id) that is not approved, and finds none.
entry_approve(d) ==
    /\ closing[d] = "confirm"
    /\ pendingQty' = [pendingQty EXCEPT ![d] = 0]
    /\ closing' = [closing EXCEPT ![d] = "approved"]
    /\ UNCHANGED <<piVars, poQty, lineState>>

\* Button "Reject"; the line may be loaded into another document.
entry_reject(d) ==
    /\ closing[d] = "confirm"
    /\ closing' = [closing EXCEPT ![d] = "none"]
    /\ UNCHANGED <<piVars, diVars>>

Next == \/ \E p \in Pis :
              \/ \E S \in SUBSET DiLines : PickLines(p, S)
              \/ update_pil(p)
              \/ \E r \in Products, q \in Qtys : EditLine(p, r, q)
              \/ \E r \in Products : RemoveLine(p, r)
              \/ tender_in_progress(p)
              \/ tender_for_approve(p)
              \/ tender_reject(p)
              \/ unlink(p)
        \/ \E d \in DiLines : load_item(d) \/ entry_confirm(d)
                              \/ entry_approve(d) \/ entry_reject(d)

Spec == Init /\ [][Next]_vars

-----------------------------------------------------------------------------
(* Properties *)

\* Until a line is closed, what it has pending is what is still to order:
\* approvals that write both from copies, and those that write them from the
\* row, leave them in step in whatever order they come.
PendingFollows ==
    \A d \in DiLines : closing[d] # "approved" => pendingQty[d] = poQty[d]

\* A line is taken off the offer only when nothing of it is to be ordered,
\* unless a line of its product was closed.
DoneIsDone ==
    \A d \in DiLines : lineState[d] = "process" =>
        \/ poQty[d] = 0
        \/ \E e \in DiLines : ProductOf[e] = ProductOf[d] /\ closing[e] = "approved"

\* What approved purchase indents indent of a product.
Indented(r) == SumFunctionOnSet(
    [p \in Pis |-> IF piState[p] = "approved" /\ piLine[p][r].made
                   THEN piLine[p][r].qty ELSE 0], Pis)

\* Nothing is taken off a department's indent that no approved purchase
\* indent indents, however purchase indents that picked the same lines
\* overlap.  Only for fresh forms: approved again from an old one, a line
\* that stands for several charges them again.
TakenIsIndented ==
    \A r \in Products :
        LET lines == {d \in DiLines : ProductOf[d] = r} IN
        SumFunctionOnSet(Asked, lines) - SumFunctionOnSet(poQty, lines) <= Indented(r)

\* The answer of entry_approve, "You cannot close this indent / Because it
\* was refered in Purchase Indent": no closing is approved while a purchase
\* indent in the making has a line made from the indent line.
ClosedUnreferred ==
    [][\A d \in DiLines : closing'[d] = "approved" /\ closing[d] # "approved" =>
          \A p \in Pis : piState[p] \in PiButtonStates => d \notin Firsts(p)]_vars
=============================================================================
