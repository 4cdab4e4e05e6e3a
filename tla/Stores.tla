------------------------------- MODULE Stores -------------------------------
(***************************************************************************)
(* The main store: goods receipts against orders, general receipts and     *)
(* department issues over the same lots.  A receipt's approval makes the   *)
(* lots that a department's issue then takes from; the handlers run in     *)
(* transactions of their own and share no other row.  The store starts     *)
(* empty.                                                                  *)
(***************************************************************************)
EXTENDS Integers, Functions

CONSTANTS
    Orders, PoLines, OrderOf, OrderQty, Tolerance, Grns, Users, NoUser,
    Rejects, Batches, Removable, GrnLots, GrnOf, PoLineOf, GrnStale, MaxReceived, MaxReturn,
    GenGrns, GenLines, GenOf, GenQtys, GenBatches, GenLots, GenLineOf, GenStale,
    Issues, IndentLines, Products, ProductOf, IndentQty, Unit, StaleForms,
    Lots, Qtys

\* A lot is made for a line of one kind of receipt; quantities are whole.
ASSUME StoresOK == /\ Unit = 1
                   /\ GenLots = Lots \ GrnLots

VARIABLES
    grnState, confirmFlag, grnOrders, grnLine, grnShown, confirmedBy, approvedBy,
    grnFlag, closed, poPending, received, returned, movedIn, movedOld,
    state, mode, chosen, line, shown, issuePending, itemQty, moved,
    genState, genLine, genShown, genConfirmedBy, genApprovedBy, genMoved, genMovedOld,
    lotQty, lotPending

receiptVars == <<grnState, confirmFlag, grnOrders, grnLine, grnShown, confirmedBy,
                 approvedBy, grnFlag, closed, poPending, received, returned, movedIn, movedOld>>
issueVars == <<state, mode, chosen, line, shown, issuePending, itemQty, moved>>
generalVars == <<genState, genLine, genShown, genConfirmedBy, genApprovedBy,
                 genMoved, genMovedOld>>
vars == <<receiptVars, generalVars, issueVars, lotQty, lotPending>>

Receipt == INSTANCE PoGrn
General == INSTANCE GeneralGrn
Issue == INSTANCE DepartmentIssue WITH OpeningQty <- [l \in Lots |-> 0]

\* What the parts assume of their constants.
ASSUME ReceiptOK == Receipt!GrnConstantsOK
ASSUME GeneralOK == General!GeneralConstantsOK
ASSUME IssueOK == Issue!ConstantsOK

Init == Receipt!Init /\ General!Init /\ Issue!Init

Next == \/ Receipt!Next /\ UNCHANGED <<generalVars, issueVars>>
        \/ General!Next /\ UNCHANGED <<receiptVars, issueVars>>
        \/ Issue!Next /\ UNCHANGED <<receiptVars, generalVars>>

Spec == Init /\ [][Next]_vars

-----------------------------------------------------------------------------
(* Properties *)

\* What receipts moved into a lot, as the stock moves tell it.
MovedInto(l) ==
    IF l \in GrnLots
    THEN movedIn[GrnOf[l]][PoLineOf[l]] + movedOld[GrnOf[l]][PoLineOf[l]]
    ELSE genMoved[GenLineOf[l]] + genMovedOld[GenLineOf[l]]

\* The item ledger, which kg_item_ledger computes from the stock moves, shows
\* for each product what the lots hold for issue: what receipts moved in
\* less what issues moved out, however they interleave.  Receipts from
\* fresh forms whose batches are their quantity; issues from any form; no
\* opening entries of a year.
LedgerShowsStock ==
    \A p \in Products :
        LET lots == {l \in Lots : ProductOf[l] = p} IN
        SumFunctionOnSet([l \in Lots |-> MovedInto(l)], lots)
          = SumFunctionOnSet([i \in Issues |-> moved[i][p]], Issues)
              + SumFunctionOnSet(lotPending, lots)

\* PoGrn's property of fresh forms, with issues drawing on the lots
\* meanwhile: an order is withheld from new receipts only while a confirmed
\* receipt for it waits for approval.
FlagHasGrn == Receipt!FlagHasGrn

\* PoGrn's property of fresh forms, with other receipts next to it: the
\* stock moves that an approval writes are what it brought into the lots.
MovesInMatchLots == Receipt!MovesInMatchLots

\* What came in without an order is what the approved general receipts list:
\* GeneralGrn's property of fresh forms, with the lots shared.
ApprovedInStock == General!ApprovedInStock

\* The store implements the store card: goods enter the lots only by an
\* approved receipt and leave them only by an issue that writes them down.
Card == INSTANCE StockCard WITH received <- lotQty, onhand <- lotPending,
                                withdrawn <- itemQty
StoreCard == Card!CardSpec
=============================================================================
