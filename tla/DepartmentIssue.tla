-------------------------- MODULE DepartmentIssue --------------------------
(***************************************************************************)
(* kg.department.issue: the document by which the main store hands         *)
(* material to a department, against department (or service) indent lines  *)
(* or directly.                                                            *)
(*                                                                         *)
(* Each request runs in one database transaction under snapshot isolation, *)
(* and every handler below writes the rows whose values it depends on, so  *)
(* a committed handler is one atomic step; a handler that raises is rolled *)
(* back and changes nothing.  What is not atomic is the user: a button is  *)
(* shown by the state that the open form has read, the server does not     *)
(* look again, and the request is sent as often as it is clicked or        *)
(* retried.  shown keeps the states that some form may still be showing.   *)
(***************************************************************************)
EXTENDS Integers, FiniteSets, Functions

CONSTANTS
    Issues,        \* documents: rows of kg_department_issue
    IndentLines,   \* approved indent lines; their ids order a search
    Lots,          \* rows of stock_production_lot
    Products,
    ProductOf,     \* product_id of an indent line and of a lot
    IndentQty,     \* qty of an indent line
    OpeningQty,    \* what earlier receipts left in a lot
    Qtys,          \* quantities a user types
    Unit,          \* quantities are floats: the parts a stock unit is counted in
    StaleForms     \* TRUE: a click may come from a form read earlier

\* The rows of a table are finitely many.
ASSUME ConstantsOK ==
    /\ IsFiniteSet(Issues) /\ IsFiniteSet(IndentLines) /\ IsFiniteSet(Lots)
    /\ IndentLines \subseteq Nat
    /\ ProductOf \in [IndentLines \union Lots -> Products]
    /\ IndentQty \in [IndentLines -> Nat]
    /\ OpeningQty \in [Lots -> Nat]
    /\ Qtys \subseteq Nat \ {0}
    /\ Unit \in Nat \ {0}
    /\ StaleForms \in BOOLEAN

VARIABLES
    state,         \* the state column
    mode,          \* dep_issue_type: "from_indent" or "direct"
    chosen,        \* kg_dep_indent_line: the indent lines picked
    line,          \* issue_line_ids, one line per product
    shown,         \* states with buttons that some open form may be showing
    issuePending,  \* issue_pending_qty of an indent line
    lotQty,        \* product_qty of a lot: what was received into it
    lotPending,    \* pending_qty of a lot: what it still holds
    itemQty,       \* kg_item_wise_dept_issue: sum of issue_qty by lot
    moved          \* stock_move of type 'out': product_qty by issue, product

docVars == <<state, mode, chosen, line, shown>>
stockVars == <<lotPending, itemQty, moved>>
vars == <<docVars, issuePending, lotQty, stockVars>>

-----------------------------------------------------------------------------
(* Types *)

States == {"draft", "confirmed", "approve", "done", "reject", "deleted"}

\* The states whose form has buttons.
ButtonStates == {"draft", "confirmed", "approve"}

NoLine == [qty |-> 0, indentQty |-> 0, kind |-> "none", lots |-> {}]

\* kind tells a line generated from indent lines (indent_line_id set) from
\* one that a user added.
Line == [qty : Nat, indentQty : Nat, kind : {"none", "indent", "manual"},
         lots : SUBSET Lots]

DocTypeOK ==
    /\ state \in [Issues -> States]
    /\ mode \in [Issues -> {"from_indent", "direct"}]
    /\ chosen \in [Issues -> SUBSET IndentLines]
    /\ line \in [Issues -> [Products -> Line]]
    /\ shown \in [Issues -> SUBSET ButtonStates]
    /\ moved \in [Issues -> [Products -> Nat]]

StockTypeOK ==
    /\ issuePending \in [IndentLines -> Nat]
    /\ lotQty \in [Lots -> Nat]
    /\ lotPending \in [Lots -> Nat]
    /\ itemQty \in [Lots -> Nat]

\* No quantity of the store goes below zero, and each column has its type.
TypeOK == DocTypeOK /\ StockTypeOK

-----------------------------------------------------------------------------
(* Helpers *)

OfProduct(S, p) == {x \in S : ProductOf[x] = p}

Lines(i) == {p \in Products : line[i][p].kind # "none"}

\* Mutant of Shows: forms that are never read again.
ShowsEver(i, s) == state[i] # "deleted" /\ s \in shown[i]

\* A form shows s: the document is in state s, or some form read it so.
Shows(i, s) == /\ state[i] # "deleted"
               /\ s \in IF StaleForms THEN shown[i] ELSE {state[i]}

SetState(i, s) == /\ state' = [state EXCEPT ![i] = s]
                  /\ shown' = [shown EXCEPT ![i] = @ \union ({s} \intersect ButtonStates)]

Available(L) == SumFunctionOnSet(lotPending, L)

\* Mutant of Covered: the stock is not counted again.
CoveredOnce(l) == l.lots # {}

\* A line names lots, and they hold enough for it.
Covered(l) == /\ l.lots # {}
              /\ Available(l.lots) >= l.qty

Lesser(a, b) == IF a <= b THEN a ELSE b

\* What the lots give.  The lots of a line are emptied one after another in
\* the order of a select without ORDER BY, so at most one is left broached.
LotDraws(i) ==
    {take \in [Lots -> UNION {0 .. lotPending[l] : l \in Lots}] :
        /\ \A l \in Lots : /\ take[l] <= lotPending[l]
                           /\ take[l] > 0 => \E p \in Lines(i) : l \in line[i][p].lots
        /\ \A p \in Lines(i) :
              LET L == line[i][p].lots IN
              /\ SumFunctionOnSet(take, L) = Lesser(line[i][p].qty, Available(L))
              /\ \A l, m \in L : (take[l] \in 1 .. lotPending[l] - 1
                                  /\ take[m] \in 1 .. lotPending[m] - 1) => l = m}

\* Mutants: the row keeps what is left in the lot, and the row is rounded up.
ItemRest(pending, take) == IF take > 0 THEN pending - take ELSE 0
ItemRounded(pending, take) == take + (Unit - 1) - ((take + Unit - 1) % Unit)

\* The lot after a draw, and the item-wise issue row written with it, whose
\* issue_qty is a fields.integer: what is less than a unit is cut off.
LotLeft(pending, take) == pending - take
ItemIssued(pending, take) ==
    LET issued == pending - LotLeft(pending, take) IN issued - (issued % Unit)

\* Mutants: every line is charged the whole quantity, and the charge is
\* converted after it was compared.
WholeQty(i, x, drawn) == line[i][ProductOf[x]].qty
IndentLeftConverted(pending, drawn) == pending - 2 * drawn

\* What of its line's quantity reaches indent line x: the chosen indent
\* lines of the product are served in id order.
QtyReaching(i, x, drawn) ==
    line[i][ProductOf[x]].qty
      - SumFunctionOnSet(drawn, {y \in OfProduct(chosen[i], ProductOf[x]) : y < x})

IndentLeft(pending, drawn) == pending - drawn

\* What the chosen indent lines of each product give up: each as much as
\* reaches it; what they cannot give is not missed.
IndentDraws(i) ==
    {drawn \in [IndentLines -> UNION {0 .. issuePending[x] : x \in IndentLines}] :
        \A x \in IndentLines :
            drawn[x] = IF x \in chosen[i] /\ ProductOf[x] \in Lines(i)
                       THEN Lesser(QtyReaching(i, x, drawn), issuePending[x])
                       ELSE 0}

-----------------------------------------------------------------------------
(* Operations *)

\* A new document; choosing the direct mode also sets its state (onchange).
Init ==
    /\ mode \in [Issues -> {"from_indent", "direct"}]
    /\ state = [i \in Issues |-> IF mode[i] = "direct" THEN "confirmed" ELSE "draft"]
    /\ chosen = [i \in Issues |-> {}]
    /\ line = [i \in Issues |-> [p \in Products |-> NoLine]]
    /\ shown = [i \in Issues |-> {state[i]}]
    /\ issuePending = IndentQty
    /\ lotQty = OpeningQty
    /\ lotPending = OpeningQty
    /\ itemQty = [l \in Lots |-> 0]
    /\ moved = [i \in Issues |-> [p \in Products |-> 0]]

\* The user picks pending indent lines and the client saves the form.
PickIndents(i, S) ==
    /\ state[i] \in {"draft", "confirmed", "approve"}
    /\ mode[i] = "from_indent"
    /\ \A x \in S : issuePending[x] > 0
    /\ chosen' = [chosen EXCEPT ![i] = S]
    /\ UNCHANGED <<state, mode, line, shown, issuePending, lotQty, stockVars>>

\* Button "Save Record": the lines are generated anew from the chosen ones.
update_depindent_to_issue(i) ==
    /\ Shows(i, "draft") \/ Shows(i, "confirmed")
    /\ mode[i] = "from_indent"
    /\ line' = [line EXCEPT ![i] =
          [p \in Products |->
             LET group == OfProduct(chosen[i], p)
                 qty == SumFunctionOnSet(issuePending, group)
             IN IF group = {} THEN NoLine
                ELSE [qty |-> qty, indentQty |-> qty, kind |-> "indent", lots |-> {}]]]
    /\ SetState(i, "confirmed")
    /\ UNCHANGED <<mode, chosen, issuePending, lotQty, stockVars>>

\* The user edits a line, or adds one, and the client saves the form.
EditLine(i, p, q, L) ==
    /\ state[i] \in {"draft", "confirmed", "approve"}
    /\ L \subseteq {l \in OfProduct(Lots, p) : lotPending[l] > 0}
    /\ LET old == line[i][p] IN
       line' = [line EXCEPT ![i][p] =
                  [old EXCEPT !.qty = q, !.lots = L,
                              !.kind = IF old.kind = "none" THEN "manual" ELSE old.kind]]
    /\ UNCHANGED <<state, mode, chosen, shown, issuePending, lotQty, stockVars>>

\* Button "Confirm".
entry_confirm(i) ==
    /\ Shows(i, "confirmed")
    /\ Lines(i) # {}
    /\ \A p \in Lines(i) :
          /\ mode[i] = "from_indent" => line[i][p].kind = "indent"
          /\ Covered(line[i][p])
          /\ line[i][p].qty # 0
          /\ mode[i] # "direct" => line[i][p].qty <= line[i][p].indentQty
    /\ SetState(i, "approve")
    /\ UNCHANGED <<mode, chosen, line, issuePending, lotQty, stockVars>>

\* Button "Issue to Substore".  A line without an indent line has no source
\* location: it raises.  So does a line of zero that comes first, since it leaves
\* remain_qty unbound; after another line it passes, with that line's remainder,
\* and such documents are left out.
action_process(i) ==
    /\ Shows(i, "approve")
    /\ \A p \in Lines(i) :
          /\ mode[i] = "from_indent" => line[i][p].kind = "indent"
          /\ Covered(line[i][p])
          /\ line[i][p].qty > 0
    /\ \E take \in LotDraws(i), drawn \in IndentDraws(i) :
          /\ lotPending' = [l \in Lots |-> LotLeft(lotPending[l], take[l])]
          /\ itemQty' = [l \in Lots |-> itemQty[l] + ItemIssued(lotPending[l], take[l])]
          /\ issuePending' = [x \in IndentLines |-> IndentLeft(issuePending[x], drawn[x])]
    /\ moved' = [moved EXCEPT ![i] = [p \in Products |-> @[p] + line[i][p].qty]]
    /\ SetState(i, "done")
    /\ UNCHANGED <<mode, chosen, line, lotQty>>

\* Button "Reject", with the remark it asks for.
entry_reject(i) ==
    /\ Shows(i, "approve")
    /\ SetState(i, "reject")
    /\ UNCHANGED <<mode, chosen, line, issuePending, lotQty, stockVars>>

\* Deletion is the one operation that looks at the stored state.
unlink(i) ==
    /\ state[i] \in {"confirmed", "draft"}
    /\ SetState(i, "deleted")
    /\ UNCHANGED <<mode, chosen, line, issuePending, lotQty, stockVars>>

Edit(i) == \/ \E S \in SUBSET IndentLines : PickIndents(i, S)
           \/ \E p \in Products, q \in Qtys, L \in SUBSET Lots : EditLine(i, p, q, L)

Next == \E i \in Issues :
          \/ Edit(i)
          \/ update_depindent_to_issue(i)
          \/ entry_confirm(i)
          \/ action_process(i)
          \/ entry_reject(i)
          \/ unlink(i)

Spec == Init /\ [][Next]_vars

-----------------------------------------------------------------------------
(* Properties *)

\* The lot rows and the item-wise issue rows tell the same story: what is
\* left in a lot and what action_process wrote down as issued from it add
\* up to what was received into it, however often and from whichever stale
\* forms documents are processed.
LotLedger == \A l \in Lots : lotPending[l] + itemQty[l] = lotQty[l]

\* With parts of units the rows fall short, and never claim what is still
\* in the lot.
ItemsWithinLot == \A l \in Lots : lotPending[l] + itemQty[l] <= lotQty[l]

\* The stock moves, from which the ledger reports are computed, and the
\* lots, from which stock is issued, agree for each product.
MovesMatchLots ==
    \A p \in Products :
        SumFunctionOnSet([i \in Issues |-> moved[i][p]], Issues)
          = SumFunctionOnSet(itemQty, OfProduct(Lots, p))

\* An indent line is never written down by more than has left the store for
\* its product: action_process carries the rest from one chosen line to the
\* next and does not charge it twice.
IndentChargedOnce ==
    \A p \in Products :
        SumFunctionOnSet([x \in IndentLines |-> IndentQty[x] - issuePending[x]],
                         OfProduct(IndentLines, p))
          <= SumFunctionOnSet([i \in Issues |-> moved[i][p]], Issues)

\* One click, one issue: the quantity moved for a document is that of its
\* lines once it is done and nothing before, and a document that is done
\* stays as it is.  Only for forms that are read afresh for each click.
IssuedOnce ==
    \A i \in Issues, p \in Products :
        moved[i][p] = IF state[i] = "done" THEN line[i][p].qty ELSE 0

\* The store card: a lot's rows implement it, step by step.  Only for whole
\* units.
Card == INSTANCE StockCard WITH received <- lotQty, onhand <- lotPending,
                                withdrawn <- itemQty
CardSpec == Card!CardSpec
=============================================================================
