---------------------------- MODULE StoresProofs ----------------------------
(***************************************************************************)
(* The store of receipts and issues, for every number of orders, receipts, *)
(* documents and lots.  What the modules of the receipts and of the issue  *)
(* prove of their own steps is used here by instance (RP, IP); the rest is *)
(* what each part leaves alone of the others.  From whichever forms the    *)
(* store implements the store card.  With receipts from fresh forms the    *)
(* ledger, the moves and the approved receipts show what the lots hold.    *)
(***************************************************************************)
EXTENDS Stores, Sums, TLAPS

RP == INSTANCE PoGrnProofs
IP == INSTANCE DepartmentIssueProofs WITH OpeningQty <- [l \in Lots |-> 0]

LEMMA PartConstants == RP!GrnConstantsOK /\ IP!ConstantsOK
BY ReceiptOK, IssueOK DEF RP!GrnConstantsOK, Receipt!GrnConstantsOK, IP!ConstantsOK,
   Issue!ConstantsOK, RP!IsFiniteSet, Receipt!IsFiniteSet, IP!IsFiniteSet, Issue!IsFiniteSet

LEMMA StoreConstants == /\ Unit = 1
                        /\ GenLots = Lots \ GrnLots
                        /\ IsFiniteSet(Lots)
                        /\ GrnLots \subseteq Lots
                        /\ GrnOf \in [GrnLots -> Grns]
                        /\ PoLineOf \in [GrnLots -> PoLines]
                        /\ General!GeneralConstantsOK
BY StoresOK, ReceiptOK, GeneralOK DEF Receipt!GrnConstantsOK, Receipt!IsFiniteSet, IsFiniteSet

-----------------------------------------------------------------------------
(* The steps of the parts are the steps that their proofs are about *)

LEMMA SameReceipt == /\ Receipt!Init <=> RP!Init
                     /\ Receipt!Next <=> RP!Next
BY DEF Receipt!grnVars, RP!grnVars, Receipt!orderVars, RP!orderVars, Receipt!lotVars,
   RP!lotVars, Receipt!NoGrnLine, RP!NoGrnLine, Receipt!LinesOf, RP!LinesOf,
   Receipt!GrnLines, RP!GrnLines, Receipt!OrdersOf, RP!OrdersOf, Receipt!Buttons,
   RP!Buttons, Receipt!GrnShows, RP!GrnShows, Receipt!SetGrn, RP!SetGrn, Receipt!Unlink,
   RP!Unlink, Receipt!LoadedLine, RP!LoadedLine, Receipt!FirstOrder, RP!FirstOrder,
   Receipt!RejectionSeen, RP!RejectionSeen, Receipt!GoesBack, RP!GoesBack,
   Receipt!GateQty, RP!GateQty, Receipt!AnyRow, RP!AnyRow, Receipt!AfterReturn,
   RP!AfterReturn, Receipt!StillPending, RP!StillPending, Receipt!LotReceipt,
   RP!LotReceipt, Receipt!IntoLot, RP!IntoLot, Receipt!FlagKept, RP!FlagKept,
   Receipt!MayApprove, RP!MayApprove, Receipt!Init, RP!Init, Receipt!PickOrders,
   RP!PickOrders, Receipt!update_potogrn, RP!update_potogrn, Receipt!EditLine,
   RP!EditLine, Receipt!RemoveLine, RP!RemoveLine, Receipt!po_grn_confirm,
   RP!po_grn_confirm, Receipt!kg_po_grn_approve, RP!kg_po_grn_approve, Receipt!unlink,
   RP!unlink, Receipt!CloseOrder, RP!CloseOrder, Receipt!EditGrn, RP!EditGrn,
   Receipt!Next, RP!Next, Receipt!SumFunctionOnSet, RP!SumFunctionOnSet,
   Receipt!FoldFunctionOnSet, RP!FoldFunctionOnSet, Receipt!MapThenFoldSet,
   RP!MapThenFoldSet

LEMMA SameIssue == /\ Issue!Init <=> IP!Init
                   /\ Issue!Next <=> IP!Next
BY DEF Issue!stockVars, IP!stockVars, Issue!ButtonStates, IP!ButtonStates, Issue!NoLine,
   IP!NoLine, Issue!OfProduct, IP!OfProduct, Issue!Lines, IP!Lines, Issue!Shows,
   IP!Shows, Issue!SetState, IP!SetState, Issue!Available, IP!Available, Issue!Covered,
   IP!Covered, Issue!Lesser, IP!Lesser, Issue!LotDraws, IP!LotDraws, Issue!LotLeft,
   IP!LotLeft, Issue!ItemIssued, IP!ItemIssued, Issue!QtyReaching, IP!QtyReaching,
   Issue!IndentLeft, IP!IndentLeft, Issue!IndentDraws, IP!IndentDraws, Issue!Init,
   IP!Init, Issue!PickIndents, IP!PickIndents, Issue!update_depindent_to_issue,
   IP!update_depindent_to_issue, Issue!EditLine, IP!EditLine, Issue!entry_confirm,
   IP!entry_confirm, Issue!action_process, IP!action_process, Issue!entry_reject,
   IP!entry_reject, Issue!unlink, IP!unlink, Issue!Edit, IP!Edit, Issue!Next, IP!Next,
   Issue!SumFunctionOnSet, IP!SumFunctionOnSet, Issue!FoldFunctionOnSet,
   IP!FoldFunctionOnSet, Issue!MapThenFoldSet, IP!MapThenFoldSet

-----------------------------------------------------------------------------
(* The invariant *)

LotsTyped == /\ lotQty \in [Lots -> Nat]
             /\ lotPending \in [Lots -> Nat]
             /\ itemQty \in [Lots -> Nat]

PartsInv == RP!GrnInv /\ IP!StockTypeOK /\ IP!DocInv

GenTyped == genLine \in [GenLines -> General!GenLine]

StoreInv == LotsTyped /\ PartsInv /\ GenTyped

LEMMA StoreInvInit == Init => StoreInv
<1> SUFFICES ASSUME Init PROVE StoreInv
  OBVIOUS
<1>1. RP!GrnInv
  BY SameReceipt, PartConstants, RP!GrnInvInit DEF Init
<1>2. IP!StoreInv /\ IP!DocInv
  BY SameIssue, PartConstants, IP!StoreInvInit, IP!DocInvInit DEF Init
<1>3. IP!StockTypeOK
  BY <1>2 DEF IP!StoreInv
<1>4. LotsTyped
  BY <1>3 DEF IP!StockTypeOK, LotsTyped
<1>5. GenTyped
  BY DEF Init, General!Init, GenTyped, General!GenLine, General!NoGenLine
<1> QED BY <1>1, <1>2, <1>3, <1>4, <1>5 DEF StoreInv, PartsInv

\* Steps of the other parts keep the receipts' columns, and the issues'.
LEMMA OthersKeepReceipts ==
    ASSUME RP!GrnInv, UNCHANGED receiptVars,
           lotQty' \in [Lots -> Nat], lotPending' \in [Lots -> Nat]
    PROVE  RP!GrnInv'
<1>1. RP!GrnTypeOK'
  BY DEF RP!GrnInv, RP!GrnTypeOK, receiptVars
<1>2. RP!FourEyes' /\ RP!OpenQty'
  BY DEF RP!GrnInv, RP!FourEyes, RP!OpenQty, RP!LinesOf, receiptVars
<1> QED BY <1>1, <1>2 DEF RP!GrnInv

LEMMA OthersKeepIssues ==
    ASSUME IP!StockTypeOK, IP!DocInv, UNCHANGED issueVars,
           lotQty' \in [Lots -> Nat], lotPending' \in [Lots -> Nat]
    PROVE  IP!StockTypeOK' /\ IP!DocInv'
<1>1. IP!StockTypeOK'
  BY DEF IP!StockTypeOK, issueVars
<1>2. IP!DocInv'
  BY DEF IP!DocInv, IP!DocTypeOK, IP!LineOwnsLots, IP!NoLineNoQty, IP!OfProduct, issueVars
<1> QED BY <1>1, <1>2

-----------------------------------------------------------------------------
(* The receipts against orders *)

\* The approval brings a natural number into each lot, the same into both
\* columns of it.
LEMMA ApproveBringsIn ==
    ASSUME StoreInv, NEW g \in Grns, NEW u \in Users, Receipt!kg_po_grn_approve(g, u)
    PROVE  \A l \in Lots : /\ lotQty[l] <= lotQty'[l]
                           /\ lotPending'[l] = lotPending[l] + (lotQty'[l] - lotQty[l])
<1>1. ASSUME NEW l \in Lots
      PROVE  Receipt!IntoLot(g, l) \in Nat
  <2>1. l \in GrnLots => grnLine[g][PoLineOf[l]] \in RP!GrnLine
    BY StoreConstants DEF StoreInv, PartsInv, RP!GrnInv, RP!GrnTypeOK
  <2> QED BY <2>1 DEF Receipt!IntoLot, Receipt!LotReceipt, RP!GrnLine
<1>2. /\ lotQty' = [l \in Lots |-> lotQty[l] + Receipt!IntoLot(g, l)]
      /\ lotPending' = [l \in Lots |-> lotPending[l] + Receipt!IntoLot(g, l)]
  BY DEF Receipt!kg_po_grn_approve
<1> QED BY <1>1, <1>2 DEF StoreInv, LotsTyped

\* A step of the receipts, said of the lots alone: a StockCard receipt.
LEMMA ReceiptStep ==
    ASSUME StoreInv, Receipt!Next, UNCHANGED <<generalVars, issueVars>>
    PROVE  StoreInv' /\ (Card!Receive \/ UNCHANGED <<lotQty, lotPending, itemQty>>)
<1>1. RP!GrnInv'
  BY SameReceipt, PartConstants, RP!GrnInvStep DEF StoreInv, PartsInv
<1>2. lotQty' \in [Lots -> Nat] /\ lotPending' \in [Lots -> Nat] /\ itemQty' = itemQty
  BY <1>1 DEF RP!GrnInv, RP!GrnTypeOK, issueVars
<1>3. IP!StockTypeOK' /\ IP!DocInv'
  BY <1>2, OthersKeepIssues DEF StoreInv, PartsInv
<1>4. StoreInv'
  BY <1>1, <1>2, <1>3 DEF StoreInv, PartsInv, LotsTyped, GenTyped, generalVars
<1>5. ASSUME NEW g \in Grns, NEW u \in Users, Receipt!kg_po_grn_approve(g, u)
      PROVE  Card!Receive
  <2>1. \A l \in Lots : /\ lotQty[l] <= lotQty'[l]
                        /\ lotPending'[l] = lotPending[l] + (lotQty'[l] - lotQty[l])
    BY <1>5, ApproveBringsIn
  <2>2. lotPending' = [l \in Lots |-> lotPending[l] + (lotQty'[l] - lotQty[l])]
    BY <1>2, <2>1
  <2> QED BY <1>2, <2>1, <2>2 DEF Card!Receive
<1>6. \/ \E g \in Grns, u \in Users : Receipt!kg_po_grn_approve(g, u)
      \/ UNCHANGED <<lotQty, lotPending>>
  BY DEF Receipt!Next, Receipt!EditGrn, Receipt!PickOrders, Receipt!EditLine,
         Receipt!RemoveLine, Receipt!update_potogrn, Receipt!po_grn_confirm, Receipt!unlink,
         Receipt!CloseOrder, Receipt!lotVars
<1> QED BY <1>2, <1>4, <1>5, <1>6

-----------------------------------------------------------------------------
(* The general receipts *)

LEMMA GeneralBringsIn ==
    ASSUME StoreInv, NEW g \in GenGrns, NEW u \in Users, General!entry_approve(g, u)
    PROVE  /\ GenTyped'
           /\ lotQty' \in [Lots -> Nat] /\ lotPending' \in [Lots -> Nat]
           /\ \A l \in Lots : /\ lotQty[l] <= lotQty'[l]
                              /\ lotPending'[l] = lotPending[l] + (lotQty'[l] - lotQty[l])
<1> USE DEF StoreInv, GenTyped
<1>1. ASSUME NEW l \in Lots
      PROVE  General!IntoLot(g, l) \in Nat
  <2>1. l \in GenLots => genLine[GenLineOf[l]] \in General!GenLine
    BY StoreConstants DEF General!GeneralConstantsOK
  <2> QED BY <2>1 DEF General!IntoLot, General!GenLine
<1>2. /\ lotQty' = [l \in Lots |-> lotQty[l] + General!IntoLot(g, l)]
      /\ lotPending' = [l \in Lots |-> lotPending[l] + General!IntoLot(g, l)]
      /\ genLine' = genLine
  BY DEF General!entry_approve
<1> QED BY <1>1, <1>2 DEF LotsTyped

\* What is typed into a line is a line.
LEMMA GenLineKeepsType ==
    ASSUME NEW l \in General!GenLine, NEW q \in Nat, NEW b \in Nat
    PROVE  /\ [l EXCEPT !.entered = TRUE, !.qty = q, !.batch = b] \in General!GenLine
           /\ [l EXCEPT !.locked = TRUE] \in General!GenLine
BY DEF General!GenLine

LEMMA EnterTyped ==
    ASSUME StoreInv, NEW x \in GenLines, NEW q \in GenQtys, NEW b \in GenBatches,
           General!EnterLine(x, q, b)
    PROVE  GenTyped' /\ UNCHANGED <<lotQty, lotPending>>
<1>1. q \in Nat /\ b \in Nat
  BY StoreConstants DEF General!GeneralConstantsOK
<1>2. genLine[x] \in General!GenLine
  BY DEF StoreInv, GenTyped
<1>3. [genLine[x] EXCEPT !.entered = TRUE, !.qty = q, !.batch = b] \in General!GenLine
  BY <1>1, <1>2, GenLineKeepsType
<1> QED BY <1>3 DEF General!EnterLine, StoreInv, GenTyped

LEMMA GenConfirmTyped ==
    ASSUME StoreInv, NEW g \in GenGrns, NEW u \in Users, General!entry_confirm(g, u)
    PROVE  GenTyped' /\ UNCHANGED <<lotQty, lotPending>>
<1>1. \A x \in GenLines : [genLine[x] EXCEPT !.locked = TRUE] \in General!GenLine
  BY GenLineKeepsType DEF StoreInv, GenTyped
<1> QED BY <1>1 DEF General!entry_confirm, StoreInv, GenTyped

\* A step of the general receipts: a StockCard receipt too.
LEMMA GeneralStep ==
    ASSUME StoreInv, General!Next, UNCHANGED <<receiptVars, issueVars>>
    PROVE  StoreInv' /\ (Card!Receive \/ UNCHANGED <<lotQty, lotPending, itemQty>>)
<1>1. itemQty' = itemQty
  BY DEF issueVars
<1>2. ASSUME GenTyped', lotQty' \in [Lots -> Nat], lotPending' \in [Lots -> Nat]
      PROVE  StoreInv'
  BY <1>1, <1>2, OthersKeepReceipts, OthersKeepIssues DEF StoreInv, PartsInv, LotsTyped
<1>3. ASSUME NEW g \in GenGrns, NEW u \in Users, General!entry_approve(g, u)
      PROVE  StoreInv' /\ Card!Receive
  <2>1. /\ GenTyped'
        /\ lotQty' \in [Lots -> Nat] /\ lotPending' \in [Lots -> Nat]
        /\ \A l \in Lots : /\ lotQty[l] <= lotQty'[l]
                           /\ lotPending'[l] = lotPending[l] + (lotQty'[l] - lotQty[l])
    BY <1>3, GeneralBringsIn
  <2>2. lotPending' = [l \in Lots |-> lotPending[l] + (lotQty'[l] - lotQty[l])]
    BY <2>1
  <2> QED BY <1>1, <1>2, <2>1, <2>2 DEF Card!Receive
<1>4. ASSUME NEW x \in GenLines, General!RemoveLine(x)
      PROVE  GenTyped' /\ UNCHANGED <<lotQty, lotPending>>
  BY <1>4 DEF General!RemoveLine, StoreInv, GenTyped, General!NoGenLine, General!GenLine
<1>5. ASSUME NEW g \in GenGrns, General!entry_reject(g) \/ General!unlink(g)
      PROVE  GenTyped' /\ UNCHANGED <<lotQty, lotPending>>
  BY <1>5 DEF General!entry_reject, General!unlink, StoreInv, GenTyped
<1>6. CASE GenTyped' /\ UNCHANGED <<lotQty, lotPending>>
  BY <1>1, <1>2, <1>6 DEF StoreInv, LotsTyped
<1> QED BY <1>3, <1>4, <1>5, <1>6, EnterTyped, GenConfirmTyped DEF General!Next

-----------------------------------------------------------------------------
(* The issues *)

\* A step of the issues, said of the lots alone: a StockCard withdrawal.
LEMMA IssueStep ==
    ASSUME StoreInv, Issue!Next, UNCHANGED <<receiptVars, generalVars>>
    PROVE  /\ StoreInv' /\ UNCHANGED lotQty
           /\ Card!Withdraw \/ UNCHANGED <<lotPending, itemQty>>
<1>1. IP!Next /\ IP!StockTypeOK /\ IP!DocInv /\ Unit = 1
  BY SameIssue, StoreConstants DEF StoreInv, PartsInv
<1>2. IP!StockTypeOK'
  BY <1>1, PartConstants, IP!StoreInvStep
<1>3. IP!DocInv'
  BY <1>1, PartConstants, IP!DocInvStep
<1>4. lotQty' \in [Lots -> Nat] /\ lotPending' \in [Lots -> Nat] /\ itemQty' \in [Lots -> Nat]
  BY <1>2 DEF IP!StockTypeOK
<1>5. RP!GrnInv'
  BY <1>4, OthersKeepReceipts DEF StoreInv, PartsInv
<1>6. StoreInv'
  BY <1>2, <1>3, <1>4, <1>5 DEF StoreInv, PartsInv, LotsTyped, GenTyped, generalVars
<1>7. CASE IP!StockUntouched
  BY <1>6, <1>7 DEF IP!StockUntouched
<1>8. ASSUME NEW i \in Issues, IP!action_process(i)
      PROVE  lotQty' = lotQty /\ Card!Withdraw
  <2>1. /\ lotQty' = lotQty
        /\ \A l \in Lots : /\ lotPending'[l] <= lotPending[l]
                           /\ itemQty'[l] = itemQty[l] + (lotPending[l] - lotPending'[l])
    BY <1>1, <1>8, PartConstants, IP!ProcessWithdraws
  <2>2. itemQty' = [l \in Lots |-> itemQty[l] + (lotPending[l] - lotPending'[l])]
    BY <1>4, <2>1
  <2> QED BY <1>4, <2>1, <2>2 DEF Card!Withdraw
<1> QED BY <1>1, <1>6, <1>7, <1>8, PartConstants, IP!StoreSteps

-----------------------------------------------------------------------------
(* The store card *)

LEMMA StoreStep ==
    StoreInv /\ [Next]_vars => StoreInv' /\ [Card!CardNext]_(Card!cardVars)
<1> SUFFICES ASSUME StoreInv, [Next]_vars
             PROVE  StoreInv' /\ [Card!CardNext]_(Card!cardVars)
  OBVIOUS
<1>1. CASE UNCHANGED vars
  <2>1. UNCHANGED <<receiptVars, generalVars, issueVars, lotQty, lotPending, itemQty>>
    BY <1>1 DEF vars, issueVars
  <2>2. LotsTyped' /\ GenTyped'
    BY <2>1 DEF StoreInv, LotsTyped, GenTyped, generalVars
  <2>3. PartsInv'
    BY <2>1, <2>2, OthersKeepReceipts, OthersKeepIssues DEF StoreInv, PartsInv, LotsTyped
  <2> QED BY <2>1, <2>2, <2>3 DEF StoreInv, Card!cardVars
<1> QED BY <1>1, ReceiptStep, GeneralStep, IssueStep DEF Next, Card!CardNext, Card!cardVars

\* StoreCard: whatever receipts bring in and issues take out, in whichever
\* order and from whichever forms, the lots behave as a store card.
THEOREM StoreImplementsCard == Spec => StoreCard
<1>1. Init => Card!CardInit
  BY DEF Init, Receipt!Init, Issue!Init, Card!CardInit, Card!CardTypeOK
<1> QED
  BY <1>1, StoreInvInit, StoreStep, PTL DEF Spec, StoreCard, Card!CardSpec

-----------------------------------------------------------------------------
(* What the card promises of its columns: lotQty received, lotPending on hand, *)
(* itemQty withdrawn.                                                          *)

CardInv == Card!CardTypeOK /\ Card!CardBalanced

LEMMA CardInvInit == Card!CardInit => CardInv
BY DEF Card!CardInit, CardInv, Card!CardTypeOK, Card!CardBalanced

LEMMA CardInvStep == CardInv /\ [Card!CardNext]_(Card!cardVars) => CardInv'
<1> SUFFICES ASSUME CardInv, [Card!CardNext]_(Card!cardVars)
             PROVE  CardInv'
  OBVIOUS
<1> USE DEF CardInv, Card!CardTypeOK, Card!CardBalanced
<1>1. CASE Card!Receive
  <2>1. lotQty' \in [Lots -> Nat] /\ itemQty' = itemQty
    BY <1>1 DEF Card!Receive
  <2>2. ASSUME NEW l \in Lots
        PROVE  /\ lotPending'[l] = lotPending[l] + (lotQty'[l] - lotQty[l])
               /\ lotPending'[l] \in Nat
    BY <1>1 DEF Card!Receive
  <2>3. lotPending' \in [Lots -> Nat]
    BY <1>1, <2>2 DEF Card!Receive
  <2> QED BY <2>1, <2>2, <2>3
<1>2. CASE Card!Withdraw
  <2>1. lotQty' = lotQty /\ lotPending' \in [Lots -> Nat]
    BY <1>2 DEF Card!Withdraw
  <2>2. ASSUME NEW l \in Lots
        PROVE  /\ itemQty'[l] = itemQty[l] + (lotPending[l] - lotPending'[l])
               /\ itemQty'[l] \in Nat
    BY <1>2 DEF Card!Withdraw
  <2>3. itemQty' \in [Lots -> Nat]
    BY <1>2, <2>2 DEF Card!Withdraw
  <2> QED BY <2>1, <2>2, <2>3
<1>3. CASE UNCHANGED (Card!cardVars)
  BY <1>3 DEF Card!cardVars
<1> QED BY <1>1, <1>2, <1>3 DEF Card!CardNext

\* CardBalanced: what is on a store card and what was withdrawn from it add
\* up to what was received; so it is for whatever implements the card.
THEOREM CardKeepsBalance == Card!CardSpec => []Card!CardBalanced
<1>1. CardInv => Card!CardBalanced
  BY DEF CardInv
<1> QED BY <1>1, CardInvInit, CardInvStep, PTL DEF Card!CardSpec

\* The lots of the store are balanced, since they implement the card.
LEMMA StoreBalanced == Spec => []Card!CardBalanced
BY StoreImplementsCard, CardKeepsBalance, PTL DEF StoreCard

-----------------------------------------------------------------------------
(* What the approved general receipts list *)

\* The batches of a general receipt's line, where it has any, are its quantity.
WholeGenBatches == \A x \in GenLines : genLine[x].batch \in {0, genLine[x].qty}

\* The invariant: so they are, and a line that is not there has none.
GenColumnsTyped == /\ genState \in [GenGrns -> General!GenStates]
                   /\ genMoved \in [GenLines -> Nat]
                   /\ genMovedOld \in [GenLines -> Nat]
PlainLines == /\ WholeGenBatches
              /\ \A x \in GenLines : ~genLine[x].entered => genLine[x].qty = 0
ListedInv == StoreInv /\ GenColumnsTyped /\ PlainLines /\ ApprovedInStock

LEMMA ListedInit == Init => ListedInv
<1> SUFFICES ASSUME Init PROVE ListedInv
  OBVIOUS
<1>1. GenColumnsTyped /\ PlainLines
  BY DEF Init, General!Init, GenColumnsTyped, General!GenStates, PlainLines, WholeGenBatches, General!NoGenLine
<1>2. ApprovedInStock
  BY StoreConstants DEF General!GeneralConstantsOK, Init, General!Init, ApprovedInStock, General!ApprovedInStock,
     General!NoGenLine
<1> QED BY <1>1, <1>2, StoreInvInit DEF ListedInv

\* A lot of a general receipt, its line and its receipt.
LEMMA LotLine ==
    ASSUME NEW l \in GenLots
    PROVE  /\ l \in Lots /\ l \notin GrnLots
           /\ GenLineOf[l] \in GenLines /\ GenOf[GenLineOf[l]] \in GenGrns
BY StoreConstants DEF General!GeneralConstantsOK

\* The other parts of the store leave these lots' received quantity alone.
LEMMA ListedOthers ==
    ASSUME ListedInv, StoreInv', UNCHANGED generalVars,
           \A l \in GenLots : lotQty'[l] = lotQty[l]
    PROVE  ListedInv'
BY DEF ListedInv, generalVars, GenColumnsTyped, PlainLines, WholeGenBatches, ApprovedInStock,
       General!ApprovedInStock

LEMMA ListedReceipt ==
    ASSUME ListedInv, StoreInv', Receipt!Next, UNCHANGED <<generalVars, issueVars>>
    PROVE  ListedInv'
<1>1. ASSUME NEW g \in Grns, NEW u \in Users, Receipt!kg_po_grn_approve(g, u),
             NEW l \in GenLots
      PROVE  lotQty'[l] = lotQty[l]
  <2>1. l \in Lots /\ Receipt!IntoLot(g, l) = 0
    BY LotLine DEF Receipt!IntoLot
  <2>2. lotQty'[l] = lotQty[l] + Receipt!IntoLot(g, l)
    BY <1>1, <2>1 DEF Receipt!kg_po_grn_approve
  <2> QED BY <2>1, <2>2 DEF ListedInv, StoreInv, LotsTyped
<1>2. \/ \E g \in Grns, u \in Users : Receipt!kg_po_grn_approve(g, u)
      \/ lotQty' = lotQty
  BY DEF Receipt!Next, Receipt!EditGrn, Receipt!PickOrders, Receipt!EditLine,
         Receipt!RemoveLine, Receipt!update_potogrn, Receipt!po_grn_confirm, Receipt!unlink,
         Receipt!CloseOrder, Receipt!lotVars
<1> QED BY <1>1, <1>2, ListedOthers DEF generalVars

LEMMA ListedIssue ==
    ASSUME ListedInv, StoreInv', Issue!Next, UNCHANGED <<receiptVars, generalVars>>
    PROVE  ListedInv'
<1>1. lotQty' = lotQty
  BY DEF Issue!Next, Issue!Edit, Issue!stockVars, Issue!PickIndents, Issue!EditLine,
         Issue!update_depindent_to_issue, Issue!entry_confirm, Issue!entry_reject,
         Issue!unlink, Issue!action_process
<1> QED BY <1>1, ListedOthers DEF generalVars

\* A receipt that is not done when it is edited or moved on, and not then.
LEMMA ListedDocStep ==
    ASSUME ListedInv, StoreInv', GenColumnsTyped', PlainLines', NEW g \in GenGrns,
           genState[g] # "done", genState'[g] # "done",
           \A h \in GenGrns \ {g} : genState'[h] = genState[h],
           \A x \in GenLines : GenOf[x] # g => genLine'[x].qty = genLine[x].qty,
           UNCHANGED <<genMoved, genMovedOld, lotQty>>
    PROVE  ListedInv'
<1>1. ApprovedInStock'
  BY LotLine DEF ListedInv, ApprovedInStock, General!ApprovedInStock
<1> QED BY <1>1 DEF ListedInv

\* What SetGen makes of the states.
LEMMA SetGenWrites ==
    ASSUME GenColumnsTyped, NEW g \in GenGrns, NEW s \in General!GenStates,
           General!SetGen(g, s)
    PROVE  /\ genState' \in [GenGrns -> General!GenStates] /\ genState'[g] = s
           /\ \A h \in GenGrns \ {g} : genState'[h] = genState[h]
BY DEF GenColumnsTyped, General!SetGen

LEMMA ListedEnter ==
    ASSUME ListedInv, StoreInv', WholeGenBatches', NEW x \in GenLines,
           NEW q \in GenQtys, NEW b \in GenBatches, General!EnterLine(x, q, b)
    PROVE  ListedInv'
<1> USE DEF ListedInv
<1>1. GenOf[x] \in GenGrns /\ genState[GenOf[x]] # "done" /\ genState' = genState
  BY StoreConstants DEF General!GeneralConstantsOK, General!EnterLine
<1>2. genLine[x] \in General!GenLine
  BY DEF StoreInv, GenTyped
<1>3. /\ genLine'[x].batch = b /\ genLine'[x].qty = q /\ genLine'[x].entered
      /\ \A y \in GenLines \ {x} : genLine'[y] = genLine[y]
  BY <1>2 DEF General!EnterLine, General!GenLine, StoreInv, GenTyped
<1>4. PlainLines'
  BY <1>3 DEF PlainLines, WholeGenBatches
<1>5. UNCHANGED <<genMoved, genMovedOld, lotQty>> /\ GenColumnsTyped'
  BY DEF General!EnterLine, GenColumnsTyped
<1> QED BY <1>1, <1>3, <1>4, <1>5, ListedDocStep

LEMMA ListedRemove ==
    ASSUME ListedInv, StoreInv', NEW x \in GenLines, General!RemoveLine(x)
    PROVE  ListedInv'
<1> USE DEF ListedInv
<1>1. GenOf[x] \in GenGrns /\ genState[GenOf[x]] # "done" /\ genState' = genState
  BY StoreConstants DEF General!GeneralConstantsOK, General!RemoveLine
<1>2. /\ genLine'[x] = General!NoGenLine
      /\ \A y \in GenLines \ {x} : genLine'[y] = genLine[y]
  BY DEF General!RemoveLine, StoreInv, GenTyped
<1>3. PlainLines'
  BY <1>2 DEF PlainLines, WholeGenBatches, General!NoGenLine
<1>4. /\ genMoved' = [genMoved EXCEPT ![x] = 0]
      /\ genMovedOld' = [genMovedOld EXCEPT ![x] = genMovedOld[x] + genMoved[x]]
      /\ lotQty' = lotQty
  BY DEF General!RemoveLine
<1>5. GenColumnsTyped'
  BY <1>1, <1>4 DEF GenColumnsTyped
<1>6. ASSUME NEW l \in GenLots
      PROVE  LET y == GenLineOf[l]
                 listed == IF genState'[GenOf[y]] = "done" THEN genLine'[y].qty ELSE 0
             IN lotQty'[l] = listed /\ genMoved'[y] + genMovedOld'[y] = listed
  <2>1. GenLineOf[l] \in GenLines
    BY LotLine
  <2>2. CASE GenLineOf[l] = x
    <3>1. lotQty[l] = 0 /\ genMoved[x] + genMovedOld[x] = 0
      BY <1>1, <2>2 DEF ApprovedInStock, General!ApprovedInStock
    <3>2. genMoved'[x] + genMovedOld'[x] = 0
      BY <1>4, <3>1 DEF GenColumnsTyped
    <3> QED BY <1>1, <1>4, <2>2, <3>1, <3>2
  <2>3. CASE GenLineOf[l] # x
    BY <1>1, <1>2, <1>4, <2>1, <2>3 DEF ApprovedInStock, General!ApprovedInStock, GenColumnsTyped
  <2> QED BY <2>2, <2>3
<1>7. ApprovedInStock'
  BY <1>6 DEF ApprovedInStock, General!ApprovedInStock
<1> QED BY <1>3, <1>5, <1>7

LEMMA ListedConfirm ==
    ASSUME ListedInv, StoreInv', ~GenStale, NEW g \in GenGrns, NEW u \in Users,
           General!entry_confirm(g, u)
    PROVE  ListedInv'
<1> USE DEF ListedInv
<1>1. genState[g] = "draft"
  BY DEF General!entry_confirm, General!GenShows, General!ButtonsOf
<1>2. /\ genState' \in [GenGrns -> General!GenStates] /\ genState'[g] = "confirmed"
      /\ \A h \in GenGrns \ {g} : genState'[h] = genState[h]
  BY SetGenWrites DEF General!entry_confirm, General!GenStates
<1>3. \A x \in GenLines : /\ genLine'[x].entered = genLine[x].entered
                          /\ genLine'[x].qty = genLine[x].qty
                          /\ genLine'[x].batch = genLine[x].batch
  BY DEF General!entry_confirm, StoreInv, GenTyped, General!GenLine
<1>4. PlainLines'
  BY <1>3 DEF PlainLines, WholeGenBatches
<1>5. UNCHANGED <<genMoved, genMovedOld, lotQty>> /\ GenColumnsTyped'
  BY <1>2 DEF General!entry_confirm, GenColumnsTyped
<1> QED BY <1>1, <1>2, <1>3, <1>4, <1>5, ListedDocStep

LEMMA ListedReject ==
    ASSUME ListedInv, StoreInv', ~GenStale, NEW g \in GenGrns,
           General!entry_reject(g) \/ General!unlink(g)
    PROVE  ListedInv'
<1> USE DEF ListedInv
<1>1. genState[g] \in {"draft", "confirmed"}
  BY DEF General!entry_reject, General!GenShows, General!ButtonsOf, General!unlink
<1>2. /\ genState' \in [GenGrns -> General!GenStates] /\ genState'[g] \in {"reject", "deleted"}
      /\ \A h \in GenGrns \ {g} : genState'[h] = genState[h]
  BY SetGenWrites DEF General!entry_reject, General!unlink, General!GenStates
<1>3. UNCHANGED <<genLine, genMoved, genMovedOld, lotQty>>
  BY DEF General!entry_reject, General!unlink
<1>4. PlainLines' /\ GenColumnsTyped'
  BY <1>2, <1>3 DEF PlainLines, WholeGenBatches, GenColumnsTyped
<1> QED BY <1>1, <1>2, <1>3, <1>4, ListedDocStep

LEMMA ListedApprove ==
    ASSUME ListedInv, StoreInv', NEW g \in GenGrns, NEW u \in Users,
           General!entry_approve(g, u)
    PROVE  ListedInv'
<1> USE DEF ListedInv
<1>1. /\ genState' \in [GenGrns -> General!GenStates] /\ genState'[g] = "done"
      /\ \A h \in GenGrns \ {g} : genState'[h] = genState[h]
  BY SetGenWrites DEF General!entry_approve, General!GenStates
<1>2. /\ genState[g] = "confirmed"
      /\ genLine' = genLine /\ genMovedOld' = genMovedOld
      /\ genMoved' = [x \in GenLines |-> IF x \in General!LinesOf(g) THEN genLine[x].qty
                                         ELSE genMoved[x]]
      /\ lotQty' = [l \in Lots |-> lotQty[l] + General!IntoLot(g, l)]
  BY DEF General!entry_approve
<1>3. \A x \in GenLines : genLine[x].qty \in Nat
  BY DEF StoreInv, GenTyped, General!GenLine
<1>4. PlainLines'
  BY <1>2 DEF PlainLines, WholeGenBatches
<1>5. GenColumnsTyped'
  BY <1>1, <1>2, <1>3 DEF GenColumnsTyped
<1>6. ASSUME NEW l \in GenLots
      PROVE  LET x == GenLineOf[l]
                 listed == IF genState'[GenOf[x]] = "done" THEN genLine'[x].qty ELSE 0
             IN lotQty'[l] = listed /\ genMoved'[x] + genMovedOld'[x] = listed
  <2> DEFINE x == GenLineOf[l]
             into == IF GenOf[x] = g /\ genLine[x].entered THEN genLine[x].qty ELSE 0
  <2>1. l \in Lots /\ x \in GenLines /\ GenOf[x] \in GenGrns
    BY LotLine
  <2>2. x \in General!LinesOf(g) <=> GenOf[x] = g /\ genLine[x].entered
    BY <2>1 DEF General!LinesOf
  <2>3. General!IntoLot(g, l) = into
    BY <1>3, <2>1, <2>2 DEF General!IntoLot, PlainLines, WholeGenBatches
  <2>4. lotQty'[l] = lotQty[l] + into
    BY <1>2, <2>1, <2>3
  <2>5. lotQty[l] \in Nat /\ genMoved[x] \in Nat /\ genMovedOld[x] \in Nat
    BY <2>1 DEF StoreInv, LotsTyped, GenColumnsTyped
  <2>6. CASE GenOf[x] = g
    <3>1. lotQty[l] = 0 /\ genMoved[x] + genMovedOld[x] = 0
      BY <1>2, <2>6 DEF ApprovedInStock, General!ApprovedInStock
    <3>2. genLine[x].qty = into /\ into \in Nat
      BY <1>3, <2>1, <2>6 DEF PlainLines, WholeGenBatches
    <3>3. genMoved'[x] = into
      BY <1>2, <2>1, <2>2, <2>5, <2>6, <3>1
    <3> QED BY <1>1, <1>2, <2>4, <2>5, <2>6, <3>1, <3>2, <3>3
  <2>7. CASE GenOf[x] # g
    <3>1. genMoved'[x] = genMoved[x] /\ lotQty'[l] = lotQty[l]
      BY <1>2, <2>1, <2>2, <2>4, <2>5, <2>7
    <3>2. genState'[GenOf[x]] = genState[GenOf[x]]
      BY <1>1, <2>1, <2>7
    <3> QED BY <1>2, <3>1, <3>2 DEF ApprovedInStock, General!ApprovedInStock
  <2> QED BY <2>6, <2>7
<1>7. ApprovedInStock'
  BY <1>6 DEF ApprovedInStock, General!ApprovedInStock
<1> QED BY <1>4, <1>5, <1>7

LEMMA ListedStep ==
    ASSUME ~GenStale, ListedInv, WholeGenBatches', StoreInv', [Next]_vars
    PROVE  ListedInv'
<1>1. CASE General!Next
  BY <1>1, ListedEnter, ListedRemove, ListedConfirm, ListedApprove, ListedReject
  DEF General!Next
<1>2. CASE UNCHANGED vars
  BY <1>2, ListedOthers DEF vars
<1> QED BY <1>1, <1>2, ListedReceipt, ListedIssue DEF Next

\* ApprovedInStock: from fresh forms, and as long as a line's batches are its
\* quantity, what came into the store without an order is what the approved
\* general receipts list, in the lots and in the stock moves, whatever orders
\* bring in and issues take out.
THEOREM ApprovedReceiptsInStock ==
    ASSUME ~GenStale
    PROVE  Spec /\ []WholeGenBatches => []ApprovedInStock
<1>1. ListedInv => StoreInv /\ ApprovedInStock
  BY DEF ListedInv
<1>2. ListedInv /\ WholeGenBatches' /\ [Next]_vars => ListedInv'
  BY <1>1, StoreStep, ListedStep
<1> QED BY <1>1, <1>2, ListedInit, PTL DEF Spec

-----------------------------------------------------------------------------
(* The receipts' own properties, next to the other parts *)

\* The general receipts and the issues leave the receipts' lots as they were
\* received.
LEMMA OthersKeepGrnLots ==
    ASSUME StoreInv, StoreInv', General!Next \/ Issue!Next \/ UNCHANGED vars
    PROVE  \A l \in GrnLots : lotQty'[l] = lotQty[l]
<1>1. ASSUME NEW g \in GenGrns, NEW u \in Users, General!entry_approve(g, u),
             NEW l \in GrnLots
      PROVE  lotQty'[l] = lotQty[l]
  <2>1. l \in Lots /\ l \notin GenLots
    BY StoreConstants
  <2>2. lotQty'[l] = lotQty[l] + General!IntoLot(g, l) /\ General!IntoLot(g, l) = 0
    BY <1>1, <2>1 DEF General!entry_approve, General!IntoLot
  <2> QED BY <2>1, <2>2 DEF StoreInv, LotsTyped
<1>2. CASE lotQty' = lotQty
  BY <1>2
<1>3. CASE General!Next
  BY <1>1, <1>2, <1>3 DEF General!Next, General!EnterLine, General!RemoveLine,
     General!entry_confirm, General!entry_reject, General!unlink
<1>4. CASE Issue!Next
  BY <1>2, <1>4
  DEF Issue!Next, Issue!Edit, Issue!stockVars, Issue!PickIndents, Issue!EditLine,
      Issue!update_depindent_to_issue, Issue!entry_confirm, Issue!entry_reject,
      Issue!unlink, Issue!action_process
<1> QED BY <1>2, <1>3, <1>4 DEF vars

\* The invariants that PoGrnProofs finds for fresh forms are kept by them.
LEMMA OthersKeepFresh ==
    ASSUME StoreInv', RP!FreshInv, UNCHANGED receiptVars,
           \A l \in GrnLots : lotQty'[l] = lotQty[l]
    PROVE  RP!FreshInv'
<1>1. RP!GrnTypeOK'
  BY DEF StoreInv, PartsInv, RP!GrnInv
<1>2. RP!FlagByState' /\ RP!NothingBeforeDone' /\ RP!NoneUnlinked' /\ RP!MovesInMatchLots'
  BY DEF RP!FreshInv, RP!FlagByState, RP!NothingBeforeDone, RP!NoneUnlinked,
         RP!MovesInMatchLots, receiptVars
<1>3. RP!WholeBatches'
  BY DEF RP!FreshInv, RP!WholeBatches, RP!LotReceipt, receiptVars
<1> QED BY <1>1, <1>2, <1>3 DEF RP!FreshInv

LEMMA OthersKeepFlags ==
    ASSUME StoreInv', RP!FlagInv, UNCHANGED receiptVars
    PROVE  RP!FlagInv'
<1>1. RP!GrnTypeOK'
  BY DEF StoreInv, PartsInv, RP!GrnInv
<1>2. RP!FlagByState' /\ RP!FlagHasGrn'
  BY DEF RP!FlagInv, RP!FlagByState, RP!FlagHasGrn, RP!Awaits, RP!OrdersOf, RP!GrnLines,
         receiptVars
<1> QED BY <1>1, <1>2 DEF RP!FlagInv

LEMMA StoreFresh ==
    ASSUME ~GrnStale, StoreInv, StoreInv', RP!FreshInv, RP!WholeBatches', [Next]_vars
    PROVE  RP!FreshInv'
<1>1. CASE Receipt!Next
  <2>1. RP!Next /\ RP!GrnTypeOK'
    BY <1>1, SameReceipt DEF StoreInv, PartsInv, RP!GrnInv
  <2> QED BY <2>1, PartConstants, RP!FreshStep
<1>2. CASE (General!Next \/ Issue!Next \/ UNCHANGED vars) /\ UNCHANGED receiptVars
  BY <1>2, OthersKeepGrnLots, OthersKeepFresh
<1> QED BY <1>1, <1>2 DEF Next, vars

\* MovesInMatchLots: with receipts from fresh forms, and as long as batches are
\* the lines' quantities, the stock moves that approvals write are what they
\* brought into the lots, whatever else goes on in the store.
THEOREM StoreMovesMatchLots ==
    ASSUME ~GrnStale
    PROVE  Spec /\ []RP!WholeBatches => []MovesInMatchLots
<1>1. Init => RP!FreshInv
  BY SameReceipt, PartConstants, RP!FreshInit DEF Init
<1>2. RP!FreshInv => MovesInMatchLots
  BY DEF RP!FreshInv, RP!MovesInMatchLots, MovesInMatchLots, Receipt!MovesInMatchLots
<1>3. StoreInv /\ RP!FreshInv /\ RP!WholeBatches' /\ [Next]_vars => (StoreInv /\ RP!FreshInv)'
  BY StoreStep, StoreFresh
<1> QED BY <1>1, <1>2, <1>3, StoreInvInit, PTL DEF Spec

LEMMA StoreFlags ==
    ASSUME ~GrnStale, Removable = {}, StoreInv, StoreInv', RP!FlagInv, [Next]_vars
    PROVE  RP!FlagInv'
<1>1. CASE Receipt!Next
  <2>1. RP!Next /\ RP!GrnTypeOK'
    BY <1>1, SameReceipt DEF StoreInv, PartsInv, RP!GrnInv
  <2> QED BY <2>1, PartConstants, RP!FlagStep
<1>2. CASE UNCHANGED receiptVars
  BY <1>2, OthersKeepFlags
<1> QED BY <1>1, <1>2 DEF Next, vars

\* FlagHasGrn: from fresh forms, and where no line is removed from a receipt,
\* an order is withheld only while a confirmed receipt of it waits, whatever
\* else goes on in the store.
THEOREM StoreWithholdsForReceipt ==
    ASSUME ~GrnStale, Removable = {}
    PROVE  Spec => []FlagHasGrn
<1>1. Init => RP!FlagInv
  <2> SUFFICES ASSUME Init PROVE RP!FlagInv
    OBVIOUS
  <2>1. RP!GrnTypeOK
    BY StoreInvInit DEF StoreInv, PartsInv, RP!GrnInv
  <2>2. RP!FlagByState /\ RP!FlagHasGrn
    BY DEF Init, Receipt!Init, RP!FlagByState, RP!FlagHasGrn, RP!Awaits
  <2> QED BY <2>1, <2>2 DEF RP!FlagInv
<1>2. RP!FlagInv => FlagHasGrn
  BY DEF RP!FlagInv, RP!FlagHasGrn, FlagHasGrn, Receipt!FlagHasGrn, RP!Awaits,
         Receipt!Awaits, RP!OrdersOf,
         Receipt!OrdersOf, RP!GrnLines, Receipt!GrnLines
<1>3. StoreInv /\ RP!FlagInv /\ [Next]_vars => (StoreInv /\ RP!FlagInv)'
  BY StoreStep, StoreFlags
<1> QED BY <1>1, <1>2, <1>3, StoreInvInit, PTL DEF Spec

-----------------------------------------------------------------------------
(* The ledger *)

\* The other parts of the store leave the issues' moves and rows alone.
LEMMA StoreMoves ==
    ASSUME StoreInv, IP!MovesMatchLots, [Next]_vars
    PROVE  IP!MovesMatchLots'
<1>1. CASE Issue!Next
  <2>1. IP!Next /\ IP!StockTypeOK /\ IP!DocInv
    BY <1>1, SameIssue DEF StoreInv, PartsInv
  <2> QED BY <2>1, PartConstants, StoreConstants, IP!MovesMatchStep
<1>2. CASE UNCHANGED issueVars
  BY <1>2 DEF issueVars, IP!MovesMatchLots, IP!OfProduct
<1> QED BY <1>1, <1>2 DEF Next, vars

LEMMA SameSum ==
    ASSUME NEW f, NEW S
    PROVE  SumFunctionOnSet(f, S) = IP!SumFunctionOnSet(f, S)
BY DEF SumFunctionOnSet, FoldFunctionOnSet, MapThenFoldSet, IP!SumFunctionOnSet,
   IP!FoldFunctionOnSet, IP!MapThenFoldSet

\* Lot by lot the moves into a lot are what it received, so what it holds and
\* what has left it.
LEMMA MovedIntoLot ==
    ASSUME StoreInv, Card!CardBalanced, ApprovedInStock, MovesInMatchLots, NEW l \in Lots
    PROVE  /\ MovedInto(l) = lotPending[l] + itemQty[l]
           /\ lotPending[l] \in Int /\ itemQty[l] \in Int
<1>1. MovedInto(l) = lotQty[l]
  <2>1. CASE l \in GrnLots
    BY <2>1 DEF MovedInto, MovesInMatchLots, Receipt!MovesInMatchLots
  <2>2. CASE l \notin GrnLots
    BY <2>2, StoreConstants DEF MovedInto, ApprovedInStock, General!ApprovedInStock
  <2> QED BY <2>1, <2>2
<1>2. lotPending[l] + itemQty[l] = lotQty[l]
  BY DEF Card!CardBalanced
<1> QED BY <1>1, <1>2 DEF StoreInv, LotsTyped

LEMMA LedgerAdds ==
    ASSUME StoreInv, Card!CardBalanced, ApprovedInStock, MovesInMatchLots, IP!MovesMatchLots
    PROVE  LedgerShowsStock
<1> SUFFICES ASSUME NEW p \in Products
             PROVE  LET lots == {l \in Lots : ProductOf[l] = p} IN
                    SumFunctionOnSet([l \in Lots |-> MovedInto(l)], lots)
                      = SumFunctionOnSet([i \in Issues |-> moved[i][p]], Issues)
                          + SumFunctionOnSet(lotPending, lots)
  BY DEF LedgerShowsStock
<1> DEFINE P == {l \in Lots : ProductOf[l] = p}
           into == [l \in Lots |-> MovedInto(l)]
           out == [i \in Issues |-> moved[i][p]]
<1>1. IsFiniteSet(P)
  BY StoreConstants, FS_Subset
<1>2. \A l \in P : /\ lotPending[l] \in Int /\ itemQty[l] \in Int
                   /\ into[l] = lotPending[l] + itemQty[l]
  BY MovedIntoLot
<1>3. SumFunctionOnSet(out, Issues) = SumFunctionOnSet(itemQty, P)
  <2>1. IP!SumFunctionOnSet(out, Issues) = IP!SumFunctionOnSet(itemQty, P)
    BY DEF IP!MovesMatchLots, IP!OfProduct
  <2> HIDE DEF out, P
  <2> QED BY <2>1, SameSum
<1> HIDE DEF P, into, out
<1>4. SumFunctionOnSet(into, P) = SumFunctionOnSet(lotPending, P) + SumFunctionOnSet(itemQty, P)
  BY <1>1, <1>2, SumAdd
<1>5. SumFunctionOnSet(lotPending, P) \in Int /\ SumFunctionOnSet(itemQty, P) \in Int
  BY <1>1, <1>2, SumIsInt
<1>6. SumFunctionOnSet(into, P) = SumFunctionOnSet(out, Issues) + SumFunctionOnSet(lotPending, P)
  BY <1>3, <1>4, <1>5
<1> QED BY <1>6 DEF P, into, out

\* LedgerShowsStock: with receipts from fresh forms, and as long as batches are
\* the lines' quantities, what the ledger computes for a product from the stock
\* moves is what its lots hold for issue, from whichever forms issues come and
\* however receipts and issues interleave.
THEOREM LedgerIsStock ==
    ASSUME ~GrnStale, ~GenStale
    PROVE  Spec /\ []RP!WholeBatches /\ []WholeGenBatches => []LedgerShowsStock
<1>1. Init => IP!MovesMatchLots
  BY SameIssue, PartConstants, IP!MovesMatchInit DEF Init
<1>2. StoreInv /\ IP!MovesMatchLots /\ [Next]_vars => (StoreInv /\ IP!MovesMatchLots)'
  BY StoreStep, StoreMoves
<1>3. StoreInv /\ Card!CardBalanced /\ ApprovedInStock /\ MovesInMatchLots /\ IP!MovesMatchLots
         => LedgerShowsStock
  BY LedgerAdds
<1>4. Spec => [](StoreInv /\ IP!MovesMatchLots)
  BY <1>1, <1>2, StoreInvInit, PTL DEF Spec
<1> QED
  BY <1>3, <1>4, StoreBalanced, ApprovedReceiptsInStock, StoreMovesMatchLots, PTL
=============================================================================
