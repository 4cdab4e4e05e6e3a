------------------------------- MODULE PoGrn -------------------------------
(***************************************************************************)
(* kg.po.grn: the goods receipt against approved purchase orders.  A       *)
(* receipt is loaded with the pending quantities of the orders picked for  *)
(* it, confirmed, and approved by another user; the approval writes the    *)
(* order lines, the stock moves and the lots.  Priced lines (billing type  *)
(* "cost") in the stock unit; purchase_order_line.line_state never         *)
(* "cancel" (only an amendment writes it).                                 *)
(*                                                                         *)
(* As in DepartmentIssue a handler is one transaction and one step, and    *)
(* the forms that send the clicks may have been read long before.          *)
(***************************************************************************)
EXTENDS Integers, FiniteSets, Functions

CONSTANTS
    Orders,        \* approved purchase orders; ids in the order of a list
    PoLines,       \* their lines, each of another product
    OrderOf,       \* order_id of a line
    OrderQty,      \* product_qty of a line
    Tolerance,     \* what the product's tolerance_plus adds to it, rounded up
    Grns,          \* rows of kg_po_grn
    Users,
    NoUser,
    Qtys,          \* quantities a user types
    Rejects,       \* rejected_items a user types; 0 leaves the flag unset
    Batches,       \* sums of batch quantities a user types; 0 is no batch
    Removable,     \* lines that users remove from a receipt
    Lots,          \* rows of stock_production_lot
    GrnLots,       \* the ones made for a receipt line,
    GrnOf,         \* ... the receipt (po_grn_id)
    PoLineOf,      \* ... and the order line of that receipt line
    GrnStale,      \* TRUE: a click may come from a form read earlier
    MaxReceived,   \* bound of the model: on what an order line receives
    MaxReturn      \* ... and on what one receipt sends back of an order

\* The rows of a table are finitely many.
ASSUME GrnConstantsOK ==
    /\ Orders \subseteq Nat
    /\ OrderOf \in [PoLines -> Orders]
    /\ \A o \in Orders : \E p \in PoLines : OrderOf[p] = o
    /\ OrderQty \in [PoLines -> Nat]
    /\ Tolerance \in [PoLines -> Nat]
    /\ NoUser \notin Users
    /\ Qtys \subseteq Nat
    /\ Rejects \subseteq Nat
    /\ Batches \subseteq Nat
    /\ Removable \subseteq PoLines
    /\ IsFiniteSet(Lots)
    /\ GrnLots \subseteq Lots
    /\ GrnOf \in [GrnLots -> Grns]
    /\ PoLineOf \in [GrnLots -> PoLines]
    /\ \A g \in Grns, p \in PoLines : \E l \in GrnLots : GrnOf[l] = g /\ PoLineOf[l] = p
    /\ \A l, m \in GrnLots : GrnOf[l] = GrnOf[m] /\ PoLineOf[l] = PoLineOf[m] => l = m
    /\ GrnStale \in BOOLEAN
    /\ MaxReceived \in Nat
    /\ MaxReturn \in Nat

VARIABLES
    grnState,      \* the state column
    confirmFlag,   \* confirm_flag: hides "Load Items" and freezes po_ids
    grnOrders,     \* po_ids
    grnLine,       \* line_ids, at most one for an order line
    grnShown,      \* buttons that some open form may be showing
    confirmedBy, approvedBy,
    grnFlag,       \* grn_flag of an order: a receipt for it is confirmed
    closed,        \* closing_flag of an order
    poPending,     \* pending_qty of an order line
    received,      \* received_qty of an order line
    returned,      \* qty on the rejection gate passes, by order line
    movedIn,       \* stock_move of type 'in': product_qty by receipt line
    movedOld,      \* ... and by the receipt lines that were unlinked since
    lotQty,        \* product_qty of a lot
    lotPending     \* pending_qty of a lot

grnVars == <<grnState, confirmFlag, grnOrders, grnLine, grnShown, confirmedBy, approvedBy>>
orderVars == <<grnFlag, closed, poPending, received, returned>>
lotVars == <<movedIn, movedOld, lotQty, lotPending>>
vars == <<grnVars, orderVars, lotVars>>

-----------------------------------------------------------------------------
(* Types *)

GrnStates == {"item_load", "draft", "confirmed", "done", "deleted"}
AllButtons == {"Load", "Confirm", "Approve"}

\* pending is po_pending_qty, the order line's pending quantity when the
\* receipt line was loaded; batch is the sum of its batch rows, which its
\* own confirm_flag (locked) makes read-only.
GrnLine == [loaded : BOOLEAN, qty : Nat, pending : Nat, rejected : Nat,
            batch : Nat, locked : BOOLEAN]
NoGrnLine == [loaded |-> FALSE, qty |-> 0, pending |-> 0, rejected |-> 0,
              batch |-> 0, locked |-> FALSE]

\* Each column has its type.  The pending quantity of an order line is the
\* one that may go below zero.
GrnTypeOK ==
    /\ grnState \in [Grns -> GrnStates]
    /\ confirmFlag \in [Grns -> BOOLEAN]
    /\ grnOrders \in [Grns -> SUBSET Orders]
    /\ grnLine \in [Grns -> [PoLines -> GrnLine]]
    /\ grnShown \in [Grns -> SUBSET AllButtons]
    /\ confirmedBy \in [Grns -> Users \union {NoUser}]
    /\ approvedBy \in [Grns -> Users \union {NoUser}]
    /\ grnFlag \in [Orders -> BOOLEAN]
    /\ closed \in [Orders -> BOOLEAN]
    /\ poPending \in [PoLines -> Int]
    /\ received \in [PoLines -> Nat]
    /\ returned \in [PoLines -> Nat]
    /\ movedIn \in [Grns -> [PoLines -> Nat]]
    /\ movedOld \in [Grns -> [PoLines -> Nat]]
    /\ lotQty \in [Lots -> Nat]
    /\ lotPending \in [Lots -> Nat]

-----------------------------------------------------------------------------
(* Helpers *)

LinesOf(o) == {p \in PoLines : OrderOf[p] = o}
GrnLines(g) == {p \in PoLines : grnLine[g][p].loaded}
OrdersOf(g) == {OrderOf[p] : p \in GrnLines(g)}

\* The buttons of a form: by state, and "Load Items" until the first confirm.
Buttons(s, flag) == (IF flag THEN {} ELSE {"Load"})
                      \union (IF s = "draft" THEN {"Confirm"} ELSE {})
                      \union (IF s = "confirmed" THEN {"Approve"} ELSE {})

\* Mutant of GrnShows: forms that are never read again.
GrnShowsEver(g, b) == grnState[g] # "deleted" /\ b \in grnShown[g]

GrnShows(g, b) ==
    /\ grnState[g] # "deleted"
    /\ b \in IF GrnStale THEN grnShown[g] ELSE Buttons(grnState[g], confirmFlag[g])

SetGrn(g, s, flag) ==
    /\ grnState' = [grnState EXCEPT ![g] = s]
    /\ confirmFlag' = [confirmFlag EXCEPT ![g] = flag]
    /\ grnShown' = [grnShown EXCEPT ![g] =
                      @ \union (IF s = "deleted" THEN {} ELSE Buttons(s, flag))]

\* Mutant of Unlink: the moves go by the quantity that the line holds now.
UnlinkByQty(g, S) ==
    /\ movedOld' = [movedOld EXCEPT ![g] =
          [p \in PoLines |-> @[p] + IF p \in S THEN grnLine[g][p].qty ELSE 0]]
    /\ movedIn' = [movedIn EXCEPT ![g] =
          [p \in PoLines |-> IF p \in S THEN @[p] - grnLine[g][p].qty ELSE @[p]]]

\* Unlinked receipt lines leave their stock moves behind, without a line.
Unlink(g, S) ==
    /\ movedOld' = [movedOld EXCEPT ![g] =
          [p \in PoLines |-> @[p] + IF p \in S THEN movedIn[g][p] ELSE 0]]
    /\ movedIn' = [movedIn EXCEPT ![g] =
          [p \in PoLines |-> IF p \in S THEN 0 ELSE @[p]]]

\* A line as "Load Items" makes it.
LoadedLine(p) == [loaded |-> TRUE, qty |-> poPending[p], pending |-> poPending[p],
                  rejected |-> 0, batch |-> 0, locked |-> FALSE]

\* The list of the purchase orders shows this one of a receipt's first.
FirstOrder(g) == CHOOSE o \in grnOrders[g] : \A q \in grnOrders[g] : o <= q

\* Whether the approval looks at rejections: some receipt line of the first
\* order, of whichever receipt, has its rejection flag set.
RejectionSeen(g) == \E h \in Grns : \E p \in GrnLines(h) :
                       OrderOf[p] = FirstOrder(g) /\ grnLine[h][p].rejected > 0

\* The quantity that goes back for a line of this receipt.
GoesBack(g, p) == IF p \in GrnLines(g) /\ RejectionSeen(g)
                  THEN grnLine[g][p].rejected ELSE 0

\* ... and for an order, written down on the gate pass line by line.
GateQty(g) == {back \in [Orders -> 0 .. MaxReturn] : \A o \in Orders :
    back[o] = SumFunctionOnSet([p \in PoLines |-> GoesBack(g, p)], LinesOf(o))}

AnyRow == {row \in [Orders -> PoLines] : \A o \in Orders : OrderOf[row[o]] = o}

\* Mutant of AfterReturn: it is taken off what the receipt had read.
AfterReturnSnapshot(g, row, back, p) ==
    IF \E q \in LinesOf(OrderOf[p]) : GoesBack(g, q) > 0
    THEN grnLine[g][row[OrderOf[p]]].pending - back[OrderOf[p]]
    ELSE poPending[p]

\* A rejection writes every line of its order with what is left of one of
\* them: the first row of a select without ORDER BY.
AfterReturn(g, row, back, p) ==
    IF \E q \in LinesOf(OrderOf[p]) : GoesBack(g, q) > 0
    THEN poPending[row[OrderOf[p]]] - back[OrderOf[p]]
    ELSE poPending[p]

\* Mutant of StillPending: the snapshot is written back.
StillPendingOld(open, l) == IF l.pending < l.qty THEN 0 ELSE l.pending - l.qty

StillPending(open, l) == IF open < l.qty THEN 0 ELSE open - l.qty

\* Mutant of LotReceipt: the lots get what was expected.
LotReceiptExpected(l) == l.pending

\* What goes into the lots of a line: batch by batch where it has batches.
LotReceipt(l) == IF l.batch > 0 THEN l.batch ELSE l.qty

IntoLot(g, l) == IF l \in GrnLots /\ GrnOf[l] = g /\ PoLineOf[l] \in GrnLines(g)
                 THEN LotReceipt(grnLine[g][PoLineOf[l]]) ELSE 0

\* Mutant of FlagKept: no order is released.
FlagKeptAll(g, o) == grnFlag[o]

\* The approval releases the orders of the lines.
FlagKept(g, o) == grnFlag[o] /\ o \notin OrdersOf(g)

\* Mutant of MayApprove: any user may.
MayApproveAny(g, u) == u \in Users

MayApprove(g, u) == confirmedBy[g] # u

-----------------------------------------------------------------------------
(* Operations *)

Init ==
    /\ grnState = [g \in Grns |-> "item_load"]
    /\ confirmFlag = [g \in Grns |-> FALSE]
    /\ grnOrders = [g \in Grns |-> {}]
    /\ grnLine = [g \in Grns |-> [p \in PoLines |-> NoGrnLine]]
    /\ grnShown = [g \in Grns |-> {"Load"}]
    /\ confirmedBy = [g \in Grns |-> NoUser]
    /\ approvedBy = [g \in Grns |-> NoUser]
    /\ grnFlag = [o \in Orders |-> FALSE]
    /\ closed = [o \in Orders |-> FALSE]
    /\ poPending = OrderQty
    /\ received = [p \in PoLines |-> 0]
    /\ returned = [p \in PoLines |-> 0]
    /\ movedIn = [g \in Grns |-> [p \in PoLines |-> 0]]
    /\ movedOld = movedIn
    /\ lotQty = [l \in Lots |-> 0]
    /\ lotPending = [l \in Lots |-> 0]

\* The user picks orders that still expect goods and saves the form.
PickOrders(g, S) ==
    /\ grnState[g] \in {"item_load", "draft"}
    /\ ~confirmFlag[g]
    /\ \A o \in S \ grnOrders[g] : /\ ~grnFlag[o]
                                   /\ \E p \in LinesOf(o) : poPending[p] > 0
    /\ grnOrders' = [grnOrders EXCEPT ![g] = S]
    /\ UNCHANGED <<grnState, confirmFlag, grnLine, grnShown, confirmedBy, approvedBy,
                   orderVars, lotVars>>

\* Button "Load Items": the lines are made anew, whatever the state was.
update_potogrn(g) ==
    /\ GrnShows(g, "Load")
    /\ grnLine' = [grnLine EXCEPT ![g] =
          [p \in PoLines |-> IF /\ OrderOf[p] \in grnOrders[g]
                                /\ ~closed[OrderOf[p]]
                                /\ poPending[p] > 0
                             THEN LoadedLine(p) ELSE NoGrnLine]]
    /\ Unlink(g, GrnLines(g))
    /\ SetGrn(g, "draft", confirmFlag[g])
    /\ UNCHANGED <<grnOrders, confirmedBy, approvedBy, orderVars, lotQty, lotPending>>

\* The user edits a line and saves the form.
EditLine(g, p, q, r, b) ==
    /\ grnState[g] \in {"draft", "confirmed"}
    /\ p \in GrnLines(g)
    /\ grnLine[g][p].locked => b = grnLine[g][p].batch
    /\ grnLine' = [grnLine EXCEPT ![g][p] =
                     [@ EXCEPT !.qty = q, !.rejected = r, !.batch = b]]
    /\ UNCHANGED <<grnState, confirmFlag, grnOrders, grnShown, confirmedBy, approvedBy,
                   orderVars, lotVars>>

\* The user removes a line and saves the form.
RemoveLine(g, p) ==
    /\ grnState[g] \in {"draft", "confirmed"}
    /\ p \in GrnLines(g)
    /\ grnLine' = [grnLine EXCEPT ![g][p] = NoGrnLine]
    /\ Unlink(g, {p})
    /\ UNCHANGED <<grnState, confirmFlag, grnOrders, grnShown, confirmedBy, approvedBy,
                   orderVars, lotQty, lotPending>>

\* Button "Confirm".
po_grn_confirm(g, u) ==
    /\ GrnShows(g, "Confirm")
    /\ GrnLines(g) # {}
    /\ \A p \in GrnLines(g) :
          /\ grnLine[g][p].batch > 0 => grnLine[g][p].batch = grnLine[g][p].qty
          /\ grnLine[g][p].qty # 0
    /\ grnFlag' = [o \in Orders |-> grnFlag[o] \/ o \in OrdersOf(g)]
    /\ grnLine' = [grnLine EXCEPT ![g] =
          [p \in PoLines |-> IF p \in GrnLines(g) THEN [@[p] EXCEPT !.locked = TRUE]
                             ELSE @[p]]]
    /\ confirmedBy' = [confirmedBy EXCEPT ![g] = u]
    /\ SetGrn(g, "confirmed", TRUE)
    /\ UNCHANGED <<grnOrders, approvedBy, closed, poPending, received, returned, lotVars>>

\* Button "Approve": the one handler that looks at the stored state.  A zero
\* line raises in the division of the price by its quantity.
kg_po_grn_approve(g, u) ==
    /\ GrnShows(g, "Approve")
    /\ grnState[g] = "confirmed"
    /\ grnOrders[g] # {}
    /\ MayApprove(g, u)
    /\ \A p \in GrnLines(g) :
          LET l == grnLine[g][p] IN
          /\ l.rejected > 0 => poPending[p] - l.qty >= l.rejected
          /\ l.qty <= l.pending + Tolerance[p]
          /\ l.qty > 0
          /\ received[p] + l.qty <= MaxReceived
    /\ \E row \in AnyRow, back \in GateQty(g) :
          poPending' = [p \in PoLines |->
              LET open == AfterReturn(g, row, back, p)
              IN IF p \in GrnLines(g) THEN StillPending(open, grnLine[g][p]) ELSE open]
    /\ received' = [p \in PoLines |->
          received[p] + IF p \in GrnLines(g) THEN grnLine[g][p].qty ELSE 0]
    /\ returned' = [p \in PoLines |-> returned[p] + GoesBack(g, p)]
    /\ grnFlag' = [o \in Orders |-> FlagKept(g, o)]
    /\ movedIn' = [movedIn EXCEPT ![g] =
          [p \in PoLines |-> IF p \in GrnLines(g) THEN grnLine[g][p].qty ELSE @[p]]]
    /\ lotQty' = [l \in Lots |-> lotQty[l] + IntoLot(g, l)]
    /\ lotPending' = [l \in Lots |-> lotPending[l] + IntoLot(g, l)]
    /\ movedOld' = movedOld
    /\ approvedBy' = [approvedBy EXCEPT ![g] = u]
    /\ SetGrn(g, "done", TRUE)
    /\ UNCHANGED <<grnOrders, grnLine, confirmedBy, closed>>

\* Deletion asks for the state "draft".  The lines stay, without a receipt.
unlink(g) ==
    /\ grnState[g] = "draft"
    /\ SetGrn(g, "deleted", confirmFlag[g])
    /\ UNCHANGED <<grnOrders, grnLine, confirmedBy, approvedBy, orderVars, lotVars>>

\* kg_po_manual_closing, entry_approve: the order expects no more goods.
CloseOrder(o) ==
    /\ ~closed[o]
    /\ closed' = [closed EXCEPT ![o] = TRUE]
    /\ poPending' = [p \in PoLines |-> IF OrderOf[p] = o THEN 0 ELSE poPending[p]]
    /\ UNCHANGED <<grnVars, grnFlag, received, returned, lotVars>>

EditGrn(g) == \/ \E S \in SUBSET Orders : PickOrders(g, S)
              \/ \E p \in PoLines, q \in Qtys, r \in Rejects, b \in Batches :
                    EditLine(g, p, q, r, b)
              \/ \E p \in Removable : RemoveLine(g, p)

Next == \/ \E g \in Grns : \/ EditGrn(g)
                           \/ update_potogrn(g)
                           \/ \E u \in Users : po_grn_confirm(g, u)
                           \/ \E u \in Users : kg_po_grn_approve(g, u)
                           \/ unlink(g)
        \/ \E o \in Orders : CloseOrder(o)

Spec == Init /\ [][Next]_vars

-----------------------------------------------------------------------------
(* Properties *)

\* What an order line still expects follows from what was received for it,
\* however receipts overlap and from whichever forms they are driven: until
\* the order is closed or goods of it go back, the pending quantity is the
\* ordered less the received one, and nothing once that is exceeded.
OpenQty ==
    \A p \in PoLines :
        \/ closed[OrderOf[p]]
        \/ \E q \in LinesOf(OrderOf[p]) : returned[q] > 0
        \/ poPending[p] = IF OrderQty[p] < received[p] THEN 0
                          ELSE OrderQty[p] - received[p]

\* The same with what went back, for an order of a single line.
OpenQtyReturned ==
    \A p \in PoLines :
        \/ closed[OrderOf[p]]
        \/ LinesOf(OrderOf[p]) # {p}
        \/ poPending[p] = IF OrderQty[p] < received[p] + returned[p] THEN 0
                          ELSE OrderQty[p] - received[p] - returned[p]

\* The order's account and the store's agree: the received quantity of an
\* order line is what its lots took in, also when a receipt is approved
\* again from a stale form.  Only where a line's batches, if it has any,
\* are its quantity.
ReceivedInLots ==
    \A p \in PoLines :
        received[p] = SumFunctionOnSet(lotQty, {l \in GrnLots : PoLineOf[l] = p})

\* The stock moves, which kg_po_grn_approve deletes and writes again for a
\* line, and the lots, which it only adds, agree.  Only for forms that are
\* read afresh for each click, and where a line's batches are its quantity.
MovesInMatchLots ==
    \A l \in GrnLots :
        movedIn[GrnOf[l]][PoLineOf[l]] + movedOld[GrnOf[l]][PoLineOf[l]] = lotQty[l]

\* Two users take goods in: the approver of a receipt that is done is not
\* the user who confirmed it last, whichever forms they clicked in.
FourEyes ==
    \A g \in Grns : grnState[g] = "done" =>
        approvedBy[g] # NoUser /\ approvedBy[g] # confirmedBy[g]

\* Receipt g of order o is confirmed and waits for approval.
Awaits(g, o) == grnState[g] = "confirmed" /\ o \in OrdersOf(g)

\* An order is withheld from new receipts only while a confirmed receipt for
\* it waits for approval, so no order is withheld for ever.  Only for fresh
\* forms, and where no line is removed.
FlagHasGrn == \A o \in Orders : grnFlag[o] => \E g \in Grns : Awaits(g, o)

\* Receipt g no longer waits for approval of order o, and was not approved: an
\* old form has loaded it again, or the user has removed its lines of o.
TakenBack(g, o) == Awaits(g, o) /\ grnState'[g] # "done" /\ ~Awaits(g, o)'

\* What is left of it from any form: whichever of several receipts of an order
\* are confirmed, approved, edited or deleted in whichever order, no step leaves
\* the order withheld without a receipt waiting, but one that takes a confirmed
\* receipt back (kg_po_grn_approve releases the orders of its lines, although
\* other receipts of them may have set the flag).
WithheldWhileWaiting ==
    [][\A o \in Orders :
          grnFlag'[o] /\ (grnFlag[o] => \E g \in Grns : Awaits(g, o))
            => \E g \in Grns : Awaits(g, o)' \/ TakenBack(g, o)]_vars

\* The answer of kg_po_grn_approve, "GRN Qty should not be greater than PO
\* Qty": no more is received for an order line than was ordered.
WithinOrder == \A p \in PoLines : received[p] <= OrderQty[p] + Tolerance[p]
=============================================================================
