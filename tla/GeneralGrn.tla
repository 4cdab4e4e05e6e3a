----------------------------- MODULE GeneralGrn -----------------------------
(***************************************************************************)
(* kg.general.grn: the goods receipt without a purchase order.  The store  *)
(* types its lines, one user confirms it, another approves or rejects it;  *)
(* the approval writes the stock moves and makes the lots, as the approval *)
(* of a receipt against orders does, with checks of its own.  Stockable    *)
(* products in the stock unit and without an expiry alert; no row of a     *)
(* batch is empty.                                                         *)
(*                                                                         *)
(* As in PoGrn a handler is one transaction and one step, and the forms    *)
(* that send the clicks may have been read long before.                    *)
(***************************************************************************)
EXTENDS Integers, Functions

CONSTANTS
    GenGrns,       \* rows of kg_general_grn
    GenLines,      \* their lines, each of one product; ids order a receipt
    GenOf,         \* grn_id of a line
    Users,
    NoUser,
    GenQtys,       \* quantities a user types
    GenBatches,    \* sums of batch quantities a user types; 0 is no batch
    Lots,          \* rows of stock_production_lot
    GenLots,       \* the ones made for a line,
    GenLineOf,     \* ... and the line
    GenStale       \* TRUE: a click may come from a form read earlier

\* What the module assumes of its constants; Stores, which instantiates it,
\* makes it an assumption.
GeneralConstantsOK ==
    /\ GenLines \subseteq Nat
    /\ GenOf \in [GenLines -> GenGrns]
    /\ NoUser \notin Users
    /\ GenQtys \subseteq Nat
    /\ GenBatches \subseteq Nat
    /\ GenLots \subseteq Lots
    /\ GenLineOf \in [GenLots -> GenLines]
    /\ \A x \in GenLines : \E l \in GenLots : GenLineOf[l] = x
    /\ \A l, m \in GenLots : GenLineOf[l] = GenLineOf[m] => l = m
    /\ GenStale \in BOOLEAN

VARIABLES
    genState,      \* the state column
    genLine,       \* grn_line
    genShown,      \* buttons that some open form may be showing
    genConfirmedBy, genApprovedBy,
    genMoved,      \* stock_move of type 'in': product_qty by line
    genMovedOld,   \* ... and by the lines that were unlinked since
    lotQty,        \* product_qty of a lot
    lotPending     \* pending_qty of a lot

genVars == <<genState, genLine, genShown, genConfirmedBy, genApprovedBy,
             genMoved, genMovedOld>>
vars == <<genVars, lotQty, lotPending>>

-----------------------------------------------------------------------------
(* Types *)

GenStates == {"draft", "confirmed", "done", "reject", "deleted"}
GenButtons == {"Confirm", "Approve", "Reject"}

\* batch is the sum of the line's batch rows, which its confirm_flag (locked)
\* makes read-only.
GenLine == [entered : BOOLEAN, qty : Nat, batch : Nat, locked : BOOLEAN]
NoGenLine == [entered |-> FALSE, qty |-> 0, batch |-> 0, locked |-> FALSE]

GenTypeOK ==
    /\ genState \in [GenGrns -> GenStates]
    /\ genLine \in [GenLines -> GenLine]
    /\ genShown \in [GenGrns -> SUBSET GenButtons]
    /\ genConfirmedBy \in [GenGrns -> Users \union {NoUser}]
    /\ genApprovedBy \in [GenGrns -> Users \union {NoUser}]
    /\ genMoved \in [GenLines -> Nat]
    /\ genMovedOld \in [GenLines -> Nat]
    /\ lotQty \in [Lots -> Nat]
    /\ lotPending \in [Lots -> Nat]

-----------------------------------------------------------------------------
(* Helpers *)

LinesOf(g) == {x \in GenLines : GenOf[x] = g /\ genLine[x].entered}

\* Mutant of ButtonsOf: "Confirm" is there again after the approval.
ButtonsOfDone(s) == CASE s \in {"draft", "done"} -> {"Confirm"}
                      [] s = "confirmed" -> {"Approve", "Reject"}
                      [] OTHER -> {}

\* The buttons of a form.  The one that cancels is invisible.
ButtonsOf(s) == CASE s = "draft" -> {"Confirm"}
                  [] s = "confirmed" -> {"Approve", "Reject"}
                  [] OTHER -> {}

GenShows(g, b) == /\ genState[g] # "deleted"
                  /\ b \in IF GenStale THEN genShown[g] ELSE ButtonsOf(genState[g])

SetGen(g, s) ==
    /\ genState' = [genState EXCEPT ![g] = s]
    /\ genShown' = [genShown EXCEPT ![g] = @ \union ButtonsOf(s)]

\* Saving asks for a line, and for a quantity in the first one only.
CheckLineQty(g) ==
    /\ LinesOf(g)' # {}
    /\ \A x \in LinesOf(g)' : (\A y \in LinesOf(g)' : x <= y) => genLine'[x].qty > 0

\* The batches of a line with the ones of the lines before it: the count is
\* not reset from line to line.
BatchesUpTo(g, x) == SumFunctionOnSet([y \in GenLines |-> genLine[y].batch],
                                      {y \in LinesOf(g) : y <= x})

\* Only the last line of a receipt has its batches locked.
LastLine(g) == CHOOSE x \in LinesOf(g) : \A y \in LinesOf(g) : y <= x

\* What goes into the lot of a line: batch by batch where it has batches.
IntoLot(g, l) ==
    IF l \in GenLots /\ GenLineOf[l] \in LinesOf(g)
    THEN LET x == genLine[GenLineOf[l]] IN IF x.batch > 0 THEN x.batch ELSE x.qty
    ELSE 0

-----------------------------------------------------------------------------
(* Operations *)

Init ==
    /\ genState = [g \in GenGrns |-> "draft"]
    /\ genLine = [x \in GenLines |-> NoGenLine]
    /\ genShown = [g \in GenGrns |-> {"Confirm"}]
    /\ genConfirmedBy = [g \in GenGrns |-> NoUser]
    /\ genApprovedBy = [g \in GenGrns |-> NoUser]
    /\ genMoved = [x \in GenLines |-> 0]
    /\ genMovedOld = [x \in GenLines |-> 0]
    /\ lotQty = [l \in Lots |-> 0]
    /\ lotPending = [l \in Lots |-> 0]

\* The user types or edits a line and saves the form.
EnterLine(x, q, b) ==
    /\ genState[GenOf[x]] \in {"draft", "confirmed"}
    /\ genLine[x].locked => b = genLine[x].batch
    /\ genLine' = [genLine EXCEPT ![x] = [@ EXCEPT !.entered = TRUE, !.qty = q, !.batch = b]]
    /\ CheckLineQty(GenOf[x])
    /\ UNCHANGED <<genState, genShown, genConfirmedBy, genApprovedBy, genMoved,
                   genMovedOld, lotQty, lotPending>>

\* The user removes a line and saves the form; its stock move stays behind.
RemoveLine(x) ==
    /\ genState[GenOf[x]] \in {"draft", "confirmed"}
    /\ genLine[x].entered
    /\ genLine' = [genLine EXCEPT ![x] = NoGenLine]
    /\ CheckLineQty(GenOf[x])
    /\ genMovedOld' = [genMovedOld EXCEPT ![x] = @ + genMoved[x]]
    /\ genMoved' = [genMoved EXCEPT ![x] = 0]
    /\ UNCHANGED <<genState, genShown, genConfirmedBy, genApprovedBy, lotQty, lotPending>>

\* Button "Confirm": no look at the stored state.
entry_confirm(g, u) ==
    /\ GenShows(g, "Confirm")
    /\ LinesOf(g) # {}
    /\ \A x \in LinesOf(g) :
          genLine[x].batch > 0 => BatchesUpTo(g, x) <= genLine[x].qty
    /\ genLine' = [genLine EXCEPT ![LastLine(g)] = [@ EXCEPT !.locked = TRUE]]
    /\ genConfirmedBy' = [genConfirmedBy EXCEPT ![g] = u]
    /\ SetGen(g, "confirmed")
    /\ UNCHANGED <<genApprovedBy, genMoved, genMovedOld, lotQty, lotPending>>

\* Button "Approve".  The moves of a line are deleted and written again, its
\* lots are only added; an empty line raises in the division of its price.
entry_approve(g, u) ==
    /\ GenShows(g, "Approve")
    /\ genState[g] = "confirmed"
    /\ genConfirmedBy[g] # u
    /\ \A x \in LinesOf(g) : genLine[x].qty > 0
    /\ genMoved' = [x \in GenLines |-> IF x \in LinesOf(g) THEN genLine[x].qty
                                       ELSE genMoved[x]]
    /\ lotQty' = [l \in Lots |-> lotQty[l] + IntoLot(g, l)]
    /\ lotPending' = [l \in Lots |-> lotPending[l] + IntoLot(g, l)]
    /\ genApprovedBy' = [genApprovedBy EXCEPT ![g] = u]
    /\ SetGen(g, "done")
    /\ UNCHANGED <<genLine, genConfirmedBy, genMovedOld>>

\* Button "Reject", with a remark: no look at the stored state either.
entry_reject(g) ==
    /\ GenShows(g, "Reject")
    /\ SetGen(g, "reject")
    /\ UNCHANGED <<genLine, genConfirmedBy, genApprovedBy, genMoved, genMovedOld,
                   lotQty, lotPending>>

\* Deletion asks for the state "draft".  The lines stay, without a receipt.
unlink(g) ==
    /\ genState[g] = "draft"
    /\ LinesOf(g) # {}
    /\ SetGen(g, "deleted")
    /\ UNCHANGED <<genLine, genConfirmedBy, genApprovedBy, genMoved, genMovedOld,
                   lotQty, lotPending>>

Next == \/ \E x \in GenLines : \/ \E q \in GenQtys, b \in GenBatches : EnterLine(x, q, b)
                               \/ RemoveLine(x)
        \/ \E g \in GenGrns : \/ \E u \in Users : entry_confirm(g, u)
                              \/ \E u \in Users : entry_approve(g, u)
                              \/ entry_reject(g)
                              \/ unlink(g)

Spec == Init /\ [][Next]_vars

-----------------------------------------------------------------------------
(* Properties *)

\* What general receipts brought into the store is what the approved ones
\* list, line by line, in the lots and in the stock moves: a receipt that is
\* rejected, deleted or still waiting left nothing there, and none is taken
\* in twice although its lots are only ever added.  Only for fresh forms,
\* and where a line's batches, if it has any, are its quantity.
ApprovedInStock ==
    \A l \in GenLots :
        LET x == GenLineOf[l]
            listed == IF genState[GenOf[x]] = "done" THEN genLine[x].qty ELSE 0
        IN lotQty[l] = listed /\ genMoved[x] + genMovedOld[x] = listed
=============================================================================
