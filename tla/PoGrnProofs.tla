---------------------------- MODULE PoGrnProofs ----------------------------
(***************************************************************************)
(* What holds of the goods receipt for every number of orders, receipts,   *)
(* lines and users.  GrnInv is inductive with no help from the forms: it   *)
(* holds from stale ones too, and so does what it carries: what an order   *)
(* line received is in its lots, and what a rejection adds to the account  *)
(* of an order of one line.  FreshInv is what fresh forms add: a receipt   *)
(* that is confirmed or done is out of reach of "Load Items" and of a      *)
(* second confirmation, so it reaches the moves and the lots once.         *)
(***************************************************************************)
EXTENDS PoGrn, Sums, TLAPS

GrnInv == GrnTypeOK /\ FourEyes /\ OpenQty

LEMMA GrnInvInit == Init => GrnInv
<1> SUFFICES ASSUME Init PROVE GrnInv
  OBVIOUS
<1>1. GrnTypeOK
  BY GrnConstantsOK DEF Init, GrnTypeOK, GrnStates, AllButtons, GrnLine, NoGrnLine
<1>2. FourEyes
  BY DEF Init, FourEyes
<1>3. OpenQty
  BY GrnConstantsOK DEF Init, OpenQty
<1> QED BY <1>1, <1>2, <1>3 DEF GrnInv

\* The three columns that SetGrn writes.
LEMMA SetGrnTyped ==
    ASSUME GrnTypeOK, NEW g \in Grns, NEW s \in GrnStates, NEW flag \in BOOLEAN,
           SetGrn(g, s, flag)
    PROVE  /\ grnState' \in [Grns -> GrnStates]
           /\ confirmFlag' \in [Grns -> BOOLEAN]
           /\ grnShown' \in [Grns -> SUBSET AllButtons]
           /\ grnState'[g] = s
           /\ \A h \in Grns \ {g} : grnState'[h] = grnState[h]
<1>1. Buttons(s, flag) \subseteq AllButtons
  BY DEF Buttons, AllButtons
<1> QED BY <1>1 DEF GrnTypeOK, SetGrn

\* Steps that touch neither an order's quantities nor the store.
LEMMA DocStep ==
    ASSUME GrnInv,
           UNCHANGED <<closed, poPending, received, returned, lotQty, lotPending>>,
           movedIn' \in [Grns -> [PoLines -> Nat]],
           movedOld' \in [Grns -> [PoLines -> Nat]],
           grnState' \in [Grns -> GrnStates],
           confirmFlag' \in [Grns -> BOOLEAN],
           grnShown' \in [Grns -> SUBSET AllButtons],
           grnOrders' \in [Grns -> SUBSET Orders],
           grnLine' \in [Grns -> [PoLines -> GrnLine]],
           confirmedBy' \in [Grns -> Users \union {NoUser}],
           UNCHANGED approvedBy,
           grnFlag' \in [Orders -> BOOLEAN],
           \A g \in Grns : grnState'[g] = "done" =>
               grnState[g] = "done" /\ confirmedBy'[g] = confirmedBy[g]
    PROVE  GrnInv'
<1>1. GrnTypeOK'
  BY DEF GrnInv, GrnTypeOK
<1>2. FourEyes'
  BY DEF GrnInv, FourEyes
<1>3. OpenQty'
  BY DEF GrnInv, OpenQty
<1> QED BY <1>1, <1>2, <1>3 DEF GrnInv

\* Stock moves that stay, and those that lose their line.
LEMMA MovesStay ==
    ASSUME GrnInv, UNCHANGED lotVars
    PROVE  /\ movedIn' \in [Grns -> [PoLines -> Nat]]
           /\ movedOld' \in [Grns -> [PoLines -> Nat]]
           /\ UNCHANGED <<lotQty, lotPending>>
BY DEF GrnInv, GrnTypeOK, lotVars

LEMMA UnlinkTyped ==
    ASSUME GrnInv, NEW g \in Grns, NEW S, Unlink(g, S)
    PROVE  /\ movedIn' \in [Grns -> [PoLines -> Nat]]
           /\ movedOld' \in [Grns -> [PoLines -> Nat]]
BY DEF GrnInv, GrnTypeOK, Unlink

LEMMA PickOrdersInv ==
    ASSUME GrnInv, NEW g \in Grns, NEW S \in SUBSET Orders, PickOrders(g, S)
    PROVE  GrnInv'
<1>1. grnOrders' \in [Grns -> SUBSET Orders]
  BY DEF PickOrders, GrnInv, GrnTypeOK
<1> QED BY <1>1, MovesStay, DocStep DEF PickOrders, GrnInv, GrnTypeOK, orderVars

LEMMA LoadInv ==
    ASSUME GrnInv, NEW g \in Grns, update_potogrn(g)
    PROVE  GrnInv'
<1>1. ASSUME NEW p \in PoLines, poPending[p] > 0
      PROVE  LoadedLine(p) \in GrnLine
  BY <1>1 DEF LoadedLine, GrnLine, GrnInv, GrnTypeOK
<1>2. grnLine' \in [Grns -> [PoLines -> GrnLine]]
  BY <1>1 DEF update_potogrn, NoGrnLine, GrnLine, GrnInv, GrnTypeOK
<1>3. confirmFlag[g] \in BOOLEAN /\ "draft" \in GrnStates
  BY DEF GrnInv, GrnTypeOK, GrnStates
<1>4. /\ grnState' \in [Grns -> GrnStates]
      /\ confirmFlag' \in [Grns -> BOOLEAN]
      /\ grnShown' \in [Grns -> SUBSET AllButtons]
      /\ grnState'[g] = "draft"
      /\ \A h \in Grns \ {g} : grnState'[h] = grnState[h]
  BY <1>3, SetGrnTyped DEF update_potogrn, GrnInv
<1>5. \A h \in Grns : grnState'[h] = "done" => grnState[h] = "done"
  BY <1>4
<1> QED BY <1>2, <1>4, <1>5, UnlinkTyped, DocStep DEF update_potogrn, GrnInv, GrnTypeOK, orderVars

\* An edited line is a line.
LEMMA LineEdited ==
    ASSUME NEW l \in GrnLine, NEW q \in Nat, NEW r \in Nat, NEW b \in Nat
    PROVE  [l EXCEPT !.qty = q, !.rejected = r, !.batch = b] \in GrnLine
BY DEF GrnLine

LEMMA LineLocked ==
    ASSUME NEW l \in GrnLine
    PROVE  [l EXCEPT !.locked = TRUE] \in GrnLine
BY DEF GrnLine

LEMMA EditLineInv ==
    ASSUME GrnInv, NEW g \in Grns, NEW p \in PoLines, NEW q \in Qtys, NEW r \in Rejects,
           NEW b \in Batches, EditLine(g, p, q, r, b)
    PROVE  GrnInv'
<1>1. q \in Nat /\ r \in Nat /\ b \in Nat
  BY GrnConstantsOK
<1>2. [grnLine[g][p] EXCEPT !.qty = q, !.rejected = r, !.batch = b] \in GrnLine
  <2>1. grnLine[g][p] \in GrnLine
    BY DEF GrnInv, GrnTypeOK
  <2> QED BY <1>1, <2>1, LineEdited
<1>3. grnLine' \in [Grns -> [PoLines -> GrnLine]]
  BY <1>2 DEF EditLine, GrnInv, GrnTypeOK
<1> QED BY <1>3, MovesStay, DocStep DEF EditLine, GrnInv, GrnTypeOK, orderVars

LEMMA RemoveLineInv ==
    ASSUME GrnInv, NEW g \in Grns, NEW p \in PoLines, RemoveLine(g, p)
    PROVE  GrnInv'
<1>1. grnLine' \in [Grns -> [PoLines -> GrnLine]]
  BY DEF RemoveLine, NoGrnLine, GrnLine, GrnInv, GrnTypeOK
<1> QED BY <1>1, UnlinkTyped, DocStep DEF RemoveLine, GrnInv, GrnTypeOK, orderVars

LEMMA ConfirmInv ==
    ASSUME GrnInv, NEW g \in Grns, NEW u \in Users, po_grn_confirm(g, u)
    PROVE  GrnInv'
<1>1. ASSUME NEW p \in PoLines
      PROVE  grnLine[g][p] \in GrnLine /\ [grnLine[g][p] EXCEPT !.locked = TRUE] \in GrnLine
  <2>1. grnLine[g][p] \in GrnLine
    BY DEF GrnInv, GrnTypeOK
  <2> QED BY <2>1, LineLocked
<1>2. grnLine' \in [Grns -> [PoLines -> GrnLine]]
  BY <1>1 DEF po_grn_confirm, GrnInv, GrnTypeOK
<1>3. /\ grnState' \in [Grns -> GrnStates]
      /\ confirmFlag' \in [Grns -> BOOLEAN]
      /\ grnShown' \in [Grns -> SUBSET AllButtons]
      /\ grnState'[g] = "confirmed"
      /\ \A h \in Grns \ {g} : grnState'[h] = grnState[h]
  BY SetGrnTyped DEF po_grn_confirm, GrnInv, GrnStates
<1>4. confirmedBy' \in [Grns -> Users \union {NoUser}]
  BY DEF po_grn_confirm, GrnInv, GrnTypeOK
<1>5. grnFlag' \in [Orders -> BOOLEAN]
  BY DEF po_grn_confirm, GrnInv, GrnTypeOK
<1>6. \A h \in Grns : grnState'[h] = "done" =>
          grnState[h] = "done" /\ confirmedBy'[h] = confirmedBy[h]
  BY <1>3 DEF po_grn_confirm, GrnInv, GrnTypeOK
<1>7. UNCHANGED <<closed, poPending, received, returned, lotVars>>
      /\ grnOrders' = grnOrders /\ approvedBy' = approvedBy
  BY DEF po_grn_confirm
<1> QED BY <1>2, <1>3, <1>4, <1>5, <1>6, <1>7, MovesStay, DocStep DEF GrnInv, GrnTypeOK

LEMMA UnlinkInv ==
    ASSUME GrnInv, NEW g \in Grns, unlink(g)
    PROVE  GrnInv'
<1>1. confirmFlag[g] \in BOOLEAN /\ "deleted" \in GrnStates
  BY DEF GrnInv, GrnTypeOK, GrnStates
<1>2. /\ grnState' \in [Grns -> GrnStates]
      /\ confirmFlag' \in [Grns -> BOOLEAN]
      /\ grnShown' \in [Grns -> SUBSET AllButtons]
      /\ grnState'[g] = "deleted"
      /\ \A h \in Grns \ {g} : grnState'[h] = grnState[h]
  BY <1>1, SetGrnTyped DEF unlink, GrnInv
<1>3. \A h \in Grns : grnState'[h] = "done" => grnState[h] = "done"
  BY <1>2
<1> QED BY <1>2, <1>3, MovesStay, DocStep DEF unlink, GrnInv, GrnTypeOK, orderVars

LEMMA CloseOrderInv ==
    ASSUME GrnInv, NEW o \in Orders, CloseOrder(o)
    PROVE  GrnInv'
<1>1. GrnTypeOK'
  BY DEF CloseOrder, GrnInv, GrnTypeOK, grnVars, lotVars
<1>2. FourEyes'
  BY DEF CloseOrder, GrnInv, FourEyes, grnVars
<1>3. OpenQty'
  BY GrnConstantsOK DEF CloseOrder, GrnInv, GrnTypeOK, OpenQty, LinesOf
<1> QED BY <1>1, <1>2, <1>3 DEF GrnInv

-----------------------------------------------------------------------------
(* The approval *)

LEMMA ApproveTyped ==
    ASSUME GrnInv, NEW g \in Grns, NEW u \in Users, kg_po_grn_approve(g, u)
    PROVE  /\ GrnTypeOK'
           /\ grnState'[g] = "done"
           /\ \A h \in Grns \ {g} : grnState'[h] = grnState[h]
<1> USE DEF GrnInv
<1>1. /\ grnState' \in [Grns -> GrnStates]
      /\ confirmFlag' \in [Grns -> BOOLEAN]
      /\ grnShown' \in [Grns -> SUBSET AllButtons]
      /\ grnState'[g] = "done"
      /\ \A h \in Grns \ {g} : grnState'[h] = grnState[h]
  BY SetGrnTyped DEF kg_po_grn_approve, GrnStates
<1>2. ASSUME NEW p \in PoLines
      PROVE  grnLine[g][p].qty \in Nat /\ LotReceipt(grnLine[g][p]) \in Nat
             /\ GoesBack(g, p) \in Nat
  BY DEF GrnTypeOK, GrnLine, LotReceipt, GoesBack
<1>3. poPending' \in [PoLines -> Int]
  <2>1. PICK row \in AnyRow, back \in GateQty(g) :
          poPending' = [p \in PoLines |->
              LET open == AfterReturn(g, row, back, p)
              IN IF p \in GrnLines(g) THEN StillPending(open, grnLine[g][p]) ELSE open]
    BY DEF kg_po_grn_approve
  <2>2. back \in [Orders -> Int] /\ row \in [Orders -> PoLines]
    BY GrnConstantsOK DEF GateQty, AnyRow
  <2>3. ASSUME NEW p \in PoLines
        PROVE  AfterReturn(g, row, back, p) \in Int
    <3>1. OrderOf[p] \in Orders /\ poPending \in [PoLines -> Int]
      BY GrnConstantsOK DEF GrnTypeOK
    <3> QED BY <2>2, <3>1 DEF AfterReturn
  <2>4. ASSUME NEW p \in PoLines
        PROVE  StillPending(AfterReturn(g, row, back, p), grnLine[g][p]) \in Int
    BY <1>2, <2>3 DEF StillPending
  <2> QED BY <2>1, <2>3, <2>4
<1>4. received' \in [PoLines -> Nat] /\ returned' \in [PoLines -> Nat]
  BY <1>2 DEF kg_po_grn_approve, GrnTypeOK
<1>5. ASSUME NEW l \in Lots
      PROVE  IntoLot(g, l) \in Nat
  BY <1>2, GrnConstantsOK DEF IntoLot
<1>6. lotQty' \in [Lots -> Nat] /\ lotPending' \in [Lots -> Nat]
  BY <1>5 DEF kg_po_grn_approve, GrnTypeOK
<1>7. movedIn' \in [Grns -> [PoLines -> Nat]] /\ movedOld' \in [Grns -> [PoLines -> Nat]]
  BY <1>2 DEF kg_po_grn_approve, GrnTypeOK
<1>8. grnFlag' \in [Orders -> BOOLEAN]
  BY DEF kg_po_grn_approve, GrnTypeOK, FlagKept
<1>9. approvedBy' \in [Grns -> Users \union {NoUser}]
  BY DEF kg_po_grn_approve, GrnTypeOK
<1>10. UNCHANGED <<grnOrders, grnLine, confirmedBy, closed>>
  BY DEF kg_po_grn_approve
<1> QED BY <1>1, <1>3, <1>4, <1>6, <1>7, <1>8, <1>9, <1>10 DEF GrnTypeOK

LEMMA ApproveFourEyes ==
    ASSUME GrnInv, NEW g \in Grns, NEW u \in Users, kg_po_grn_approve(g, u)
    PROVE  FourEyes'
<1>1. \A h \in Grns \ {g} : grnState'[h] = grnState[h]
  BY ApproveTyped
<1>2. /\ confirmedBy' = confirmedBy
      /\ approvedBy' = [approvedBy EXCEPT ![g] = u]
      /\ confirmedBy[g] # u
  BY DEF kg_po_grn_approve, MayApprove
<1>3. u # NoUser
  BY GrnConstantsOK
<1> QED BY <1>1, <1>2, <1>3 DEF GrnInv, GrnTypeOK, FourEyes

LEMMA ApproveOpenQty ==
    ASSUME GrnInv, NEW g \in Grns, NEW u \in Users, kg_po_grn_approve(g, u)
    PROVE  OpenQty'
<1> SUFFICES ASSUME NEW p \in PoLines,
                    ~closed'[OrderOf[p]],
                    \A q \in LinesOf(OrderOf[p]) : ~(returned'[q] > 0)
             PROVE  poPending'[p] = IF OrderQty[p] < received'[p] THEN 0
                                    ELSE OrderQty[p] - received'[p]
  BY DEF OpenQty
<1>1. closed' = closed
  BY DEF kg_po_grn_approve
<1>2. ASSUME NEW q \in LinesOf(OrderOf[p])
      PROVE  returned[q] = 0 /\ GoesBack(g, q) = 0
  <2>1. q \in PoLines /\ returned[q] \in Nat /\ GoesBack(g, q) \in Nat
    BY DEF LinesOf, GrnInv, GrnTypeOK, GrnLine, GoesBack
  <2>2. returned'[q] = returned[q] + GoesBack(g, q)
    BY <2>1 DEF kg_po_grn_approve
  <2> QED BY <2>1, <2>2
<1>3. poPending[p] = IF OrderQty[p] < received[p] THEN 0 ELSE OrderQty[p] - received[p]
  BY <1>1, <1>2 DEF GrnInv, OpenQty
<1>4. poPending'[p] = IF p \in GrnLines(g) THEN StillPending(poPending[p], grnLine[g][p])
                      ELSE poPending[p]
  <2>1. PICK row \in AnyRow, back \in GateQty(g) :
          poPending' = [x \in PoLines |->
              LET open == AfterReturn(g, row, back, x)
              IN IF x \in GrnLines(g) THEN StillPending(open, grnLine[g][x]) ELSE open]
    BY DEF kg_po_grn_approve
  <2>2. AfterReturn(g, row, back, p) = poPending[p]
    BY <1>2 DEF AfterReturn
  <2> QED BY <2>1, <2>2
<1>5. received'[p] = received[p] + (IF p \in GrnLines(g) THEN grnLine[g][p].qty ELSE 0)
  BY DEF kg_po_grn_approve
<1>6. received[p] \in Nat /\ OrderQty[p] \in Nat /\ grnLine[g][p].qty \in Nat
  BY GrnConstantsOK DEF GrnInv, GrnTypeOK, GrnLine
<1> QED BY <1>3, <1>4, <1>5, <1>6 DEF StillPending

LEMMA ApproveInv ==
    ASSUME GrnInv, NEW g \in Grns, NEW u \in Users, kg_po_grn_approve(g, u)
    PROVE  GrnInv'
BY ApproveTyped, ApproveFourEyes, ApproveOpenQty DEF GrnInv

LEMMA GrnInvStep == GrnInv /\ [Next]_vars => GrnInv'
<1> SUFFICES ASSUME GrnInv, [Next]_vars
             PROVE  GrnInv'
  OBVIOUS
<1>1. ASSUME NEW g \in Grns, EditGrn(g)
      PROVE  GrnInv'
  BY <1>1, PickOrdersInv, EditLineInv, RemoveLineInv, GrnConstantsOK DEF EditGrn
<1>2. CASE UNCHANGED vars
  BY <1>2 DEF vars, grnVars, orderVars, lotVars, GrnInv, GrnTypeOK, FourEyes, OpenQty
<1> QED BY <1>1, <1>2, LoadInv, ConfirmInv, ApproveInv, UnlinkInv, CloseOrderInv DEF Next

\* GrnTypeOK: every column of receipts, order lines, moves and lots keeps
\* its type; received, returned and lot quantities never go below zero.
THEOREM GrnTyped == Spec => []GrnTypeOK
<1>1. GrnInv => GrnTypeOK
  BY DEF GrnInv
<1> QED BY <1>1, GrnInvInit, GrnInvStep, PTL DEF Spec

\* FourEyes: a receipt that is done was approved by another user than the
\* one who confirmed it.
THEOREM ApprovedByAnother == Spec => []FourEyes
<1>1. GrnInv => FourEyes
  BY DEF GrnInv
<1> QED BY <1>1, GrnInvInit, GrnInvStep, PTL DEF Spec

\* OpenQty: the pending quantity of an order line follows from the ordered
\* and the received one until its order is closed or goods go back.
THEOREM PendingFollowsReceipts == Spec => []OpenQty
<1>1. GrnInv => OpenQty
  BY DEF GrnInv
<1> QED BY <1>1, GrnInvInit, GrnInvStep, PTL DEF Spec

-----------------------------------------------------------------------------
(* What receipts bring into the lots *)

\* The batches of a line, where it has any, are its quantity.  The code asks
\* for that at the confirmation alone, so the theorems that need it assume it
\* of the behaviour.
WholeBatches == \A g \in Grns, p \in PoLines : LotReceipt(grnLine[g][p]) = grnLine[g][p].qty

\* What users may type for it to be so, as in the runs.
BatchesTyped == \A q \in Qtys, b \in Batches : b \in {0, q}

LEMMA WholeStep ==
    ASSUME GrnTypeOK, WholeBatches, BatchesTyped, [Next]_vars
    PROVE  WholeBatches'
<1>0. /\ LotReceipt(NoGrnLine) = NoGrnLine.qty
      /\ \A p \in PoLines : LotReceipt(LoadedLine(p)) = LoadedLine(p).qty
  BY DEF LotReceipt, NoGrnLine, LoadedLine
<1>1. ASSUME NEW g \in Grns, NEW p \in PoLines, NEW q \in Qtys, NEW r \in Rejects,
             NEW b \in Batches, EditLine(g, p, q, r, b)
      PROVE  WholeBatches'
  <2> DEFINE l == [grnLine[g][p] EXCEPT !.qty = q, !.rejected = r, !.batch = b]
  <2>1. grnLine' = [grnLine EXCEPT ![g][p] = l]
    BY <1>1 DEF EditLine
  <2>2. l.batch = b /\ l.qty = q
    BY DEF GrnTypeOK, GrnLine
  <2> HIDE DEF l
  <2>3. LotReceipt(l) = l.qty
    BY <2>2, GrnConstantsOK DEF BatchesTyped, LotReceipt
  <2> QED BY <2>1, <2>3 DEF WholeBatches, GrnTypeOK
<1>2. ASSUME NEW g \in Grns, NEW p \in PoLines, RemoveLine(g, p)
      PROVE  WholeBatches'
  BY <1>0, <1>2 DEF RemoveLine, WholeBatches, GrnTypeOK
<1>3. ASSUME NEW g \in Grns, update_potogrn(g)
      PROVE  WholeBatches'
  BY <1>0, <1>3 DEF update_potogrn, WholeBatches, GrnTypeOK
<1>4. ASSUME NEW g \in Grns, NEW u \in Users, po_grn_confirm(g, u)
      PROVE  WholeBatches'
  <2>1. ASSUME NEW h \in Grns, NEW p \in PoLines
        PROVE  grnLine'[h][p].batch = grnLine[h][p].batch
               /\ grnLine'[h][p].qty = grnLine[h][p].qty
    <3>1. grnLine[h][p] \in GrnLine
      BY DEF GrnTypeOK
    <3> QED BY <1>4, <3>1 DEF po_grn_confirm, GrnTypeOK, GrnLine
  <2> QED BY <2>1 DEF WholeBatches, LotReceipt
<1>5. CASE grnLine' = grnLine
  BY <1>5 DEF WholeBatches
<1> QED
  BY <1>1, <1>2, <1>3, <1>4, <1>5, GrnConstantsOK
  DEF Next, EditGrn, PickOrders, kg_po_grn_approve, unlink, CloseOrder, grnVars, vars

\* An approval brings into the lots of a line what it counts as received:
\* it writes one lot of the line, the receipt's own.
LEMMA ApproveInLots ==
    ASSUME GrnTypeOK, WholeBatches, ReceivedInLots, NEW g \in Grns, NEW u \in Users,
           kg_po_grn_approve(g, u), NEW p \in PoLines
    PROVE  received'[p] = SumFunctionOnSet(lotQty', {l \in GrnLots : PoLineOf[l] = p})
<1> DEFINE S == {l \in GrnLots : PoLineOf[l] = p}
           into == IF p \in GrnLines(g) THEN grnLine[g][p].qty ELSE 0
<1>1. IsFiniteSet(S) /\ S \subseteq Lots
  BY GrnConstantsOK, FS_Subset
<1>2. PICK m \in S : GrnOf[m] = g /\ \A l \in S \ {m} : GrnOf[l] # g
  BY GrnConstantsOK
<1>3. into \in Nat
  BY DEF GrnTypeOK, GrnLine
<1>4. received'[p] = received[p] + into
  BY DEF kg_po_grn_approve
<1>5. IntoLot(g, m) = into
  BY <1>2 DEF IntoLot, WholeBatches
<1>6. lotQty'[m] = lotQty[m] + into
  BY <1>1, <1>5 DEF kg_po_grn_approve
<1>7. \A l \in S : lotQty[l] \in Nat /\ lotQty[l] \in Int
  BY <1>1 DEF GrnTypeOK
<1>8. \A l \in S \ {m} : lotQty'[l] = lotQty[l]
  <2> SUFFICES ASSUME NEW l \in S \ {m} PROVE lotQty'[l] = lotQty[l]
    OBVIOUS
  <2>1. IntoLot(g, l) = 0
    BY <1>2 DEF IntoLot
  <2>2. lotQty'[l] = lotQty[l] + IntoLot(g, l)
    BY <1>1 DEF kg_po_grn_approve
  <2> QED BY <1>7, <2>1, <2>2
<1>9. received[p] = SumFunctionOnSet(lotQty, S)
  BY DEF ReceivedInLots
<1> HIDE DEF S, into
<1>10. \A l \in S : lotQty[l] \in Int /\ lotQty'[l] \in Int
  BY <1>2, <1>3, <1>6, <1>7, <1>8
<1>11. m \in S /\ IsFiniteSet(S)
  BY <1>1, <1>2
<1>12. SumFunctionOnSet(lotQty', S) = SumFunctionOnSet(lotQty, S) + (lotQty'[m] - lotQty[m])
  BY <1>8, <1>10, <1>11, SumChanged
<1>13. lotQty'[m] - lotQty[m] = into
  BY <1>2, <1>3, <1>6, <1>7
<1>14. received'[p] = SumFunctionOnSet(lotQty', S)
  BY <1>4, <1>9, <1>12, <1>13
<1> QED BY <1>14 DEF S

LEMMA InLotsStep ==
    ASSUME GrnTypeOK, WholeBatches, ReceivedInLots, [Next]_vars
    PROVE  ReceivedInLots'
<1>1. ASSUME NEW g \in Grns, NEW u \in Users, kg_po_grn_approve(g, u)
      PROVE  ReceivedInLots'
  BY <1>1, ApproveInLots DEF ReceivedInLots
<1>2. CASE UNCHANGED <<received, lotQty>>
  BY <1>2 DEF ReceivedInLots
<1> QED
  BY <1>1, <1>2
  DEF Next, EditGrn, PickOrders, EditLine, RemoveLine, update_potogrn, po_grn_confirm, unlink,
      CloseOrder, orderVars, lotVars, vars

\* Where only such batches are typed no others are ever there.
LEMMA TypedAreWhole ==
    ASSUME BatchesTyped
    PROVE  Spec => []WholeBatches
<1>1. Init => WholeBatches
  BY DEF Init, WholeBatches, NoGrnLine, LotReceipt
<1>2. GrnInv /\ WholeBatches /\ [Next]_vars => WholeBatches'
  BY WholeStep DEF GrnInv
<1> QED BY <1>1, <1>2, GrnInvInit, GrnInvStep, PTL DEF Spec

\* ReceivedInLots: as long as a line's batches are its quantity, what an order
\* line received is what its lots took in, from whichever forms and however
\* often a receipt is approved.
THEOREM ReceivedReachesLots == Spec /\ []WholeBatches => []ReceivedInLots
<1> DEFINE Inv == GrnInv /\ ReceivedInLots
<1>1. Init => Inv
  <2> SUFFICES ASSUME Init PROVE Inv
    OBVIOUS
  <2>2. ASSUME NEW p \in PoLines
        PROVE  received[p] = SumFunctionOnSet(lotQty, {l \in GrnLots : PoLineOf[l] = p})
    <3> DEFINE S == {l \in GrnLots : PoLineOf[l] = p}
    <3>1. IsFiniteSet(S) /\ \A l \in S : lotQty[l] = 0
      BY GrnConstantsOK, FS_Subset DEF Init
    <3> HIDE DEF S
    <3>2. SumFunctionOnSet(lotQty, S) = 0
      BY <3>1, SumZero
    <3> QED BY <3>2 DEF Init, S
  <2>3. ReceivedInLots
    BY <2>2 DEF ReceivedInLots
  <2> QED BY <2>3, GrnInvInit
<1>2. Inv /\ WholeBatches /\ [Next]_vars => Inv'
  BY GrnInvStep, InLotsStep DEF GrnInv
<1> QED BY <1>1, <1>2, PTL DEF Spec

-----------------------------------------------------------------------------
(* What goes back *)

\* The order of a single line: the row that a rejection reads is the line
\* itself, and what it takes off is what goes back of it.
LEMMA ApproveReturned ==
    ASSUME GrnInv, OpenQtyReturned, NEW g \in Grns, NEW u \in Users,
           kg_po_grn_approve(g, u)
    PROVE  OpenQtyReturned'
<1> SUFFICES ASSUME NEW p \in PoLines, ~closed'[OrderOf[p]], LinesOf(OrderOf[p]) = {p}
             PROVE  poPending'[p] = IF OrderQty[p] < received'[p] + returned'[p] THEN 0
                                    ELSE OrderQty[p] - received'[p] - returned'[p]
  BY DEF OpenQtyReturned
<1> DEFINE o == OrderOf[p]
           l == grnLine[g][p]
           into == IF p \in GrnLines(g) THEN l.qty ELSE 0
           gone == GoesBack(g, p)
<1>1. poPending[p] = IF OrderQty[p] < received[p] + returned[p] THEN 0
                     ELSE OrderQty[p] - received[p] - returned[p]
  BY DEF kg_po_grn_approve, OpenQtyReturned
<1>2. received'[p] = received[p] + into /\ returned'[p] = returned[p] + gone
  BY DEF kg_po_grn_approve
<1>3. /\ received[p] \in Nat /\ returned[p] \in Nat /\ OrderQty[p] \in Nat
      /\ poPending[p] \in Int /\ into \in Nat /\ l.qty \in Nat /\ l.rejected \in Nat
      /\ o \in Orders
  BY GrnConstantsOK DEF GrnInv, GrnTypeOK, GrnLine
<1>4. gone \in Nat /\ (gone > 0 => p \in GrnLines(g) /\ gone = l.rejected)
  BY <1>3 DEF GoesBack
<1>5. gone > 0 => poPending[p] - l.qty >= gone
  BY <1>4 DEF kg_po_grn_approve
<1>6. poPending'[p] = IF p \in GrnLines(g) THEN StillPending(poPending[p] - gone, l)
                      ELSE poPending[p] - gone
  <2>1. PICK row \in AnyRow, back \in GateQty(g) :
          poPending' = [x \in PoLines |->
              LET open == AfterReturn(g, row, back, x)
              IN IF x \in GrnLines(g) THEN StillPending(open, grnLine[g][x]) ELSE open]
    BY DEF kg_po_grn_approve
  <2>2. row[o] = p
    BY <1>3 DEF AnyRow, LinesOf
  <2>3. back[o] = gone
    <3> DEFINE f == [x \in PoLines |-> GoesBack(g, x)]
    <3>1. f[p] = gone /\ f[p] \in Int
      BY <1>4
    <3>2. back[o] = SumFunctionOnSet(f, {p})
      BY <1>3 DEF GateQty
    <3> HIDE DEF f
    <3>3. SumFunctionOnSet(f, {p}) = f[p]
      BY <3>1, SumOne
    <3> QED BY <3>1, <3>2, <3>3
  <2>4. AfterReturn(g, row, back, p) = poPending[p] - gone
    <3>1. CASE gone > 0
      BY <2>2, <2>3, <3>1 DEF AfterReturn
    <3>2. CASE gone = 0
      BY <1>3, <3>2 DEF AfterReturn
    <3> QED BY <1>4, <3>1, <3>2
  <2> QED BY <2>1, <2>4
<1>7. p \notin GrnLines(g) => gone = 0 /\ into = 0
  BY DEF GoesBack
<1>8. p \in GrnLines(g) => into = l.qty
  OBVIOUS
<1> HIDE DEF into, gone, l
<1>9. CASE p \in GrnLines(g)
  BY <1>1, <1>2, <1>3, <1>4, <1>5, <1>6, <1>8, <1>9 DEF StillPending
<1>10. CASE p \notin GrnLines(g)
  BY <1>1, <1>2, <1>3, <1>6, <1>7, <1>10
<1> QED BY <1>9, <1>10

LEMMA ReturnedStep ==
    ASSUME GrnInv, OpenQtyReturned, [Next]_vars
    PROVE  OpenQtyReturned'
<1>1. ASSUME NEW o \in Orders, CloseOrder(o)
      PROVE  OpenQtyReturned'
  <2>1. ASSUME NEW p \in PoLines, ~closed'[OrderOf[p]]
        PROVE  ~closed[OrderOf[p]] /\ poPending'[p] = poPending[p]
    BY <1>1, <2>1, GrnConstantsOK DEF CloseOrder, GrnInv, GrnTypeOK
  <2>2. received' = received /\ returned' = returned
    BY <1>1 DEF CloseOrder
  <2>3. \A p \in PoLines : LinesOf(OrderOf[p])' = LinesOf(OrderOf[p])
    BY DEF LinesOf
  <2> QED BY <2>1, <2>2, <2>3 DEF OpenQtyReturned
<1>2. CASE UNCHANGED <<closed, poPending, received, returned>>
  BY <1>2 DEF OpenQtyReturned, LinesOf
<1> QED
  BY <1>1, <1>2, ApproveReturned
  DEF Next, EditGrn, PickOrders, EditLine, RemoveLine, update_potogrn, po_grn_confirm, unlink,
      orderVars, vars

\* OpenQtyReturned: for an order of a single line, what it still expects is
\* what was ordered less what was received and less what went back, however
\* receipts overlap and from whichever forms.
THEOREM PendingFollowsReturns == Spec => []OpenQtyReturned
<1>1. Init => OpenQtyReturned
  BY GrnConstantsOK DEF Init, OpenQtyReturned
<1>2. GrnInv /\ OpenQtyReturned /\ [Next]_vars => OpenQtyReturned'
  BY ReturnedStep
<1> QED BY <1>1, <1>2, GrnInvInit, GrnInvStep, PTL DEF Spec

-----------------------------------------------------------------------------
(* Fresh forms *)

\* The flag that hides "Load Items" tells the states beyond the first confirm.
FlagByState == \A g \in Grns : confirmFlag[g] <=> grnState[g] \in {"confirmed", "done"}

\* Nothing reaches the store before the receipt is done.
NothingBeforeDone ==
    \A l \in GrnLots : grnState[GrnOf[l]] # "done" =>
        lotQty[l] = 0 /\ movedIn[GrnOf[l]][PoLineOf[l]] = 0

\* No line with a stock move is ever unlinked.
NoneUnlinked == \A l \in GrnLots : movedOld[GrnOf[l]][PoLineOf[l]] = 0

FreshInv == /\ GrnTypeOK /\ FlagByState /\ NothingBeforeDone /\ NoneUnlinked /\ WholeBatches
            /\ MovesInMatchLots

LEMMA FreshInit == Init => FreshInv
<1> SUFFICES ASSUME Init PROVE FreshInv
  OBVIOUS
<1>1. GrnTypeOK
  BY GrnInvInit DEF GrnInv
<1>2. FlagByState /\ NothingBeforeDone /\ NoneUnlinked /\ WholeBatches /\ MovesInMatchLots
  BY GrnConstantsOK DEF Init, FlagByState, NothingBeforeDone, NoneUnlinked, WholeBatches, NoGrnLine,
     LotReceipt, MovesInMatchLots
<1> QED BY <1>1, <1>2 DEF FreshInv

\* What SetGrn makes of the state and of the flag.
LEMMA SetGrnWrites ==
    ASSUME GrnTypeOK, NEW g \in Grns, NEW s, NEW flag, SetGrn(g, s, flag)
    PROVE  /\ grnState'[g] = s /\ confirmFlag'[g] = flag
           /\ \A h \in Grns \ {g} : /\ grnState'[h] = grnState[h]
                                    /\ confirmFlag'[h] = confirmFlag[h]
BY DEF GrnTypeOK, SetGrn

\* A step of a receipt that reaches neither moves nor lots.
LEMMA FreshDocStep ==
    ASSUME FreshInv, GrnTypeOK', UNCHANGED lotVars, FlagByState', WholeBatches',
           \A g \in Grns : grnState[g] = "done" => grnState'[g] = "done"
    PROVE  FreshInv'
<1>1. NothingBeforeDone' /\ NoneUnlinked'
  BY GrnConstantsOK DEF FreshInv, NothingBeforeDone, NoneUnlinked, lotVars
<1>2. MovesInMatchLots'
  BY DEF FreshInv, MovesInMatchLots, lotVars
<1> QED BY <1>1, <1>2 DEF FreshInv

\* Before a receipt is done it has no stock moves to leave behind.
LEMMA FreshUnlink ==
    ASSUME FreshInv, NEW g \in Grns, NEW S, grnState[g] # "done", Unlink(g, S)
    PROVE  \A l \in GrnLots : /\ movedIn'[GrnOf[l]][PoLineOf[l]] = movedIn[GrnOf[l]][PoLineOf[l]]
                           /\ movedOld'[GrnOf[l]][PoLineOf[l]] = movedOld[GrnOf[l]][PoLineOf[l]]
<1> SUFFICES ASSUME NEW l \in GrnLots
             PROVE  /\ movedIn'[GrnOf[l]][PoLineOf[l]] = movedIn[GrnOf[l]][PoLineOf[l]]
                    /\ movedOld'[GrnOf[l]][PoLineOf[l]] = movedOld[GrnOf[l]][PoLineOf[l]]
  OBVIOUS
<1>1. GrnOf[l] \in Grns /\ PoLineOf[l] \in PoLines
  BY GrnConstantsOK
<1>2. GrnOf[l] = g => /\ movedIn[g][PoLineOf[l]] = 0
                      /\ movedOld[g][PoLineOf[l]] = 0
  BY DEF FreshInv, NothingBeforeDone, NoneUnlinked
<1> QED BY <1>1, <1>2 DEF FreshInv, GrnTypeOK, Unlink

\* A step that unlinks lines of a receipt that is not done.
LEMMA FreshUnlinkStep ==
    ASSUME FreshInv, GrnTypeOK', FlagByState', WholeBatches', UNCHANGED lotQty,
           NEW g \in Grns, NEW S, grnState[g] # "done", Unlink(g, S),
           \A h \in Grns : grnState[h] = "done" => grnState'[h] = "done"
    PROVE  FreshInv'
<1>1. \A l \in GrnLots : /\ movedIn'[GrnOf[l]][PoLineOf[l]] = movedIn[GrnOf[l]][PoLineOf[l]]
                      /\ movedOld'[GrnOf[l]][PoLineOf[l]] = movedOld[GrnOf[l]][PoLineOf[l]]
  BY FreshUnlink
<1>2. NothingBeforeDone' /\ NoneUnlinked'
  BY <1>1, GrnConstantsOK DEF FreshInv, NothingBeforeDone, NoneUnlinked
<1>3. MovesInMatchLots'
  BY <1>1 DEF FreshInv, MovesInMatchLots
<1> QED BY <1>2, <1>3 DEF FreshInv

LEMMA FreshApprove ==
    ASSUME FreshInv, GrnTypeOK', NEW g \in Grns, NEW u \in Users, kg_po_grn_approve(g, u)
    PROVE  FreshInv'
<1> USE DEF FreshInv
<1>1. /\ grnState'[g] = "done" /\ confirmFlag'[g] = TRUE
      /\ \A h \in Grns \ {g} : /\ grnState'[h] = grnState[h]
                               /\ confirmFlag'[h] = confirmFlag[h]
  BY SetGrnWrites DEF kg_po_grn_approve
<1>2. grnState[g] = "confirmed" /\ grnLine' = grnLine
  BY DEF kg_po_grn_approve
<1>3. FlagByState'
  BY <1>1 DEF FlagByState
<1>4. WholeBatches'
  BY <1>2 DEF WholeBatches, LotReceipt
<1>5. ASSUME NEW l \in GrnLots, GrnOf[l] # g
      PROVE  /\ lotQty'[l] = lotQty[l]
             /\ movedIn'[GrnOf[l]][PoLineOf[l]] = movedIn[GrnOf[l]][PoLineOf[l]]
  <2>1. l \in Lots /\ IntoLot(g, l) = 0 /\ lotQty[l] \in Nat
    BY <1>5, GrnConstantsOK DEF IntoLot, GrnTypeOK
  <2> QED BY <1>5, <2>1, GrnConstantsOK DEF kg_po_grn_approve, GrnTypeOK
<1>6. ASSUME NEW l \in GrnLots, GrnOf[l] = g
      PROVE  movedIn'[GrnOf[l]][PoLineOf[l]] = lotQty'[l]
  <2>1. PoLineOf[l] \in PoLines /\ lotQty[l] = 0 /\ movedIn[g][PoLineOf[l]] = 0
    BY <1>2, <1>6, GrnConstantsOK DEF NothingBeforeDone
  <2>2. IntoLot(g, l) = IF PoLineOf[l] \in GrnLines(g)
                        THEN grnLine[g][PoLineOf[l]].qty ELSE 0
    BY <1>6, <2>1 DEF IntoLot, LotReceipt, WholeBatches
  <2>3. grnLine[g][PoLineOf[l]].qty \in Nat
    BY <2>1 DEF GrnTypeOK, GrnLine
  <2>4. lotQty'[l] = IntoLot(g, l)
    <3>1. l \in Lots
      BY GrnConstantsOK
    <3> QED BY <2>1, <2>2, <2>3, <3>1 DEF kg_po_grn_approve
  <2>5. movedIn'[g][PoLineOf[l]] = IF PoLineOf[l] \in GrnLines(g)
                                   THEN grnLine[g][PoLineOf[l]].qty ELSE 0
    BY <2>1 DEF kg_po_grn_approve, GrnTypeOK
  <2> QED BY <1>6, <2>2, <2>4, <2>5
<1>7. NoneUnlinked'
  BY DEF kg_po_grn_approve, NoneUnlinked
<1>8. MovesInMatchLots'
  <2>1. ASSUME NEW l \in GrnLots
        PROVE  movedIn'[GrnOf[l]][PoLineOf[l]] + movedOld'[GrnOf[l]][PoLineOf[l]] = lotQty'[l]
    <3>1. movedOld'[GrnOf[l]][PoLineOf[l]] = 0 /\ movedOld[GrnOf[l]][PoLineOf[l]] = 0
      BY <1>7 DEF NoneUnlinked
    <3>2. movedIn[GrnOf[l]][PoLineOf[l]] + 0 = lotQty[l]
      BY <3>1 DEF MovesInMatchLots
    <3>3. /\ movedIn[GrnOf[l]][PoLineOf[l]] \in Nat
          /\ movedIn'[GrnOf[l]][PoLineOf[l]] \in Nat
      BY GrnConstantsOK DEF GrnTypeOK
    <3>4. movedIn'[GrnOf[l]][PoLineOf[l]] = lotQty'[l]
      BY <1>5, <1>6, <3>2, <3>3
    <3> QED BY <3>1, <3>3, <3>4
  <2> QED BY <2>1 DEF MovesInMatchLots
<1>9. NothingBeforeDone'
  BY <1>1, <1>5, GrnConstantsOK DEF NothingBeforeDone
<1> QED BY <1>3, <1>4, <1>7, <1>8, <1>9

LEMMA FreshStep ==
    ASSUME ~GrnStale, FreshInv, WholeBatches', GrnTypeOK', [Next]_vars
    PROVE  FreshInv'
<1> USE DEF FreshInv
<1>0. WholeBatches'
  OBVIOUS
<1>1. ASSUME NEW g \in Grns, NEW S \in SUBSET Orders, PickOrders(g, S)
      PROVE  FreshInv'
  BY <1>0, <1>1, FreshDocStep DEF PickOrders, FlagByState
<1>2. ASSUME NEW g \in Grns, NEW p \in PoLines, NEW q \in Qtys, NEW r \in Rejects,
             NEW b \in Batches, EditLine(g, p, q, r, b)
      PROVE  FreshInv'
  <2>1. FlagByState' /\ grnState' = grnState /\ UNCHANGED lotVars
    BY <1>2 DEF EditLine, FlagByState
  <2> QED BY <1>0, <2>1, FreshDocStep
<1>3. ASSUME NEW g \in Grns, NEW p \in PoLines, RemoveLine(g, p)
      PROVE  FreshInv'
  <2>1. FlagByState' /\ grnState' = grnState /\ lotQty' = lotQty
    BY <1>3 DEF RemoveLine, FlagByState
  <2>2. grnState[g] # "done" /\ Unlink(g, {p})
    BY <1>3 DEF RemoveLine
  <2> QED BY <1>0, <2>1, <2>2, FreshUnlinkStep
<1>4. ASSUME NEW g \in Grns, update_potogrn(g)
      PROVE  FreshInv'
  <2>1. confirmFlag[g] = FALSE /\ grnState[g] \notin {"confirmed", "done"}
    BY <1>4 DEF update_potogrn, GrnShows, Buttons, FlagByState, GrnTypeOK
  <2>2. /\ grnState'[g] = "draft" /\ confirmFlag'[g] = FALSE
        /\ \A h \in Grns \ {g} : /\ grnState'[h] = grnState[h]
                                 /\ confirmFlag'[h] = confirmFlag[h]
    BY <1>4, <2>1, SetGrnWrites DEF update_potogrn
  <2>3. FlagByState'
    BY <2>2 DEF FlagByState
  <2>4. Unlink(g, GrnLines(g)) /\ lotQty' = lotQty
    BY <1>4 DEF update_potogrn
  <2> QED BY <1>0, <2>1, <2>2, <2>3, <2>4, FreshUnlinkStep
<1>5. ASSUME NEW g \in Grns, NEW u \in Users, po_grn_confirm(g, u)
      PROVE  FreshInv'
  <2>1. grnState[g] = "draft"
    BY <1>5 DEF po_grn_confirm, GrnShows, Buttons
  <2>2. /\ grnState'[g] = "confirmed" /\ confirmFlag'[g] = TRUE
        /\ \A h \in Grns \ {g} : /\ grnState'[h] = grnState[h]
                                 /\ confirmFlag'[h] = confirmFlag[h]
    BY <1>5, SetGrnWrites DEF po_grn_confirm
  <2>3. FlagByState'
    BY <2>2 DEF FlagByState
  <2> QED BY <1>0, <1>5, <2>1, <2>2, <2>3, FreshDocStep DEF po_grn_confirm
<1>6. ASSUME NEW g \in Grns, unlink(g)
      PROVE  FreshInv'
  <2>1. grnState[g] = "draft" /\ confirmFlag[g] = FALSE
    BY <1>6 DEF unlink, FlagByState, GrnTypeOK
  <2>2. /\ grnState'[g] = "deleted" /\ confirmFlag'[g] = FALSE
        /\ \A h \in Grns \ {g} : /\ grnState'[h] = grnState[h]
                                 /\ confirmFlag'[h] = confirmFlag[h]
    BY <1>6, <2>1, SetGrnWrites DEF unlink
  <2>3. FlagByState'
    BY <2>2 DEF FlagByState
  <2> QED BY <1>0, <1>6, <2>1, <2>2, <2>3, FreshDocStep DEF unlink
<1>7. ASSUME NEW o \in Orders, CloseOrder(o)
      PROVE  FreshInv'
  BY <1>0, <1>7, FreshDocStep DEF CloseOrder, grnVars, FlagByState
<1>8. CASE UNCHANGED vars
  BY <1>0, <1>8, FreshDocStep DEF vars, grnVars, FlagByState
<1> QED
  BY <1>1, <1>2, <1>3, <1>4, <1>5, <1>6, <1>7, <1>8, FreshApprove, GrnConstantsOK
  DEF Next, EditGrn

\* MovesInMatchLots: where every click comes from a fresh form, and as long as
\* a line's batches are its quantity, the stock moves of the receipts, which
\* the ledger counts, are what went into the lots, which are issued from.
THEOREM MovesFollowLots ==
    ASSUME ~GrnStale
    PROVE  Spec /\ []WholeBatches => []MovesInMatchLots
<1>1. FreshInv => MovesInMatchLots
  BY DEF FreshInv
<1>2. GrnInv => GrnTypeOK
  BY DEF GrnInv
<1>3. FreshInv /\ WholeBatches' /\ GrnTypeOK' /\ [Next]_vars => FreshInv'
  BY FreshStep
<1> QED BY <1>1, <1>2, <1>3, GrnInvInit, GrnInvStep, FreshInit, PTL DEF Spec

-----------------------------------------------------------------------------
(* The flag that withholds an order *)

FlagInv == GrnTypeOK /\ FlagByState /\ FlagHasGrn

\* A step that sets no flag and takes no line from a confirmed receipt.
LEMMA FlagDocStep ==
    ASSUME FlagInv, GrnTypeOK', FlagByState', grnFlag' = grnFlag,
           \A g \in Grns : grnState[g] = "confirmed" =>
               grnState'[g] = "confirmed" /\ OrdersOf(g) \subseteq OrdersOf(g)'
    PROVE  FlagInv'
<1>1. FlagHasGrn'
  BY DEF FlagInv, FlagHasGrn, Awaits
<1> QED BY <1>1 DEF FlagInv

\* Receipts whose lines stay as they are keep their orders.
LEMMA SameLines ==
    ASSUME NEW g \in Grns,
           \A p \in PoLines : grnLine[g][p].loaded => grnLine'[g][p].loaded
    PROVE  OrdersOf(g) \subseteq OrdersOf(g)'
BY DEF OrdersOf, GrnLines

LEMMA FlagConfirm ==
    ASSUME ~GrnStale, FlagInv, GrnTypeOK', NEW g \in Grns, NEW u \in Users,
           po_grn_confirm(g, u)
    PROVE  FlagInv'
<1> USE DEF FlagInv
<1>1. grnState[g] = "draft"
  BY DEF po_grn_confirm, GrnShows, Buttons
<1>2. /\ grnState'[g] = "confirmed" /\ confirmFlag'[g] = TRUE
      /\ \A h \in Grns \ {g} : /\ grnState'[h] = grnState[h]
                               /\ confirmFlag'[h] = confirmFlag[h]
  BY SetGrnWrites DEF po_grn_confirm
<1>3. ASSUME NEW h \in Grns, NEW p \in PoLines, grnLine[h][p].loaded
      PROVE  grnLine'[h][p].loaded
  <2>1. grnLine[h][p] \in GrnLine
    BY DEF GrnTypeOK
  <2>2. [grnLine[h][p] EXCEPT !.locked = TRUE].loaded
    BY <1>3, <2>1 DEF GrnLine
  <2> QED BY <1>3, <2>2 DEF po_grn_confirm, GrnTypeOK
<1>4. \A h \in Grns : OrdersOf(h) \subseteq OrdersOf(h)'
  BY <1>3, SameLines
<1>5. FlagByState'
  BY <1>2 DEF FlagByState
<1>6. ASSUME NEW o \in Orders, grnFlag'[o]
      PROVE  \E h \in Grns : grnState'[h] = "confirmed" /\ o \in OrdersOf(h)'
  <2>1. CASE o \in OrdersOf(g)
    BY <1>2, <1>4, <2>1
  <2>2. CASE grnFlag[o]
    <3>1. PICK h \in Grns : grnState[h] = "confirmed" /\ o \in OrdersOf(h)
      BY <2>2 DEF FlagHasGrn, Awaits
    <3> QED BY <1>1, <1>2, <1>4, <3>1
  <2> QED BY <1>6, <2>1, <2>2 DEF po_grn_confirm
<1>7. FlagHasGrn'
  BY <1>6 DEF FlagHasGrn, Awaits
<1> QED BY <1>5, <1>7

LEMMA FlagApprove ==
    ASSUME FlagInv, GrnTypeOK', NEW g \in Grns, NEW u \in Users, kg_po_grn_approve(g, u)
    PROVE  FlagInv'
<1> USE DEF FlagInv
<1>1. /\ grnState'[g] = "done" /\ confirmFlag'[g] = TRUE
      /\ \A h \in Grns \ {g} : /\ grnState'[h] = grnState[h]
                               /\ confirmFlag'[h] = confirmFlag[h]
  BY SetGrnWrites DEF kg_po_grn_approve
<1>2. FlagByState'
  BY <1>1 DEF FlagByState
<1>3. \A h \in Grns : OrdersOf(h) \subseteq OrdersOf(h)'
  BY SameLines DEF kg_po_grn_approve
<1>4. ASSUME NEW o \in Orders, grnFlag'[o]
      PROVE  \E h \in Grns : grnState'[h] = "confirmed" /\ o \in OrdersOf(h)'
  <2>1. grnFlag[o] /\ o \notin OrdersOf(g)
    BY <1>4 DEF kg_po_grn_approve, FlagKept
  <2>2. PICK h \in Grns : grnState[h] = "confirmed" /\ o \in OrdersOf(h)
    BY <2>1 DEF FlagHasGrn, Awaits
  <2> QED BY <1>1, <1>3, <2>1, <2>2
<1>5. FlagHasGrn'
  BY <1>4 DEF FlagHasGrn, Awaits
<1> QED BY <1>2, <1>5

LEMMA FlagStep ==
    ASSUME ~GrnStale, Removable = {}, FlagInv, GrnTypeOK', [Next]_vars
    PROVE  FlagInv'
<1> USE DEF FlagInv
<1>1. ASSUME NEW g \in Grns, NEW S \in SUBSET Orders, PickOrders(g, S)
      PROVE  FlagInv'
  BY <1>1, FlagDocStep, SameLines DEF PickOrders, FlagByState, orderVars
<1>2. ASSUME NEW g \in Grns, NEW p \in PoLines, NEW q \in Qtys, NEW r \in Rejects,
             NEW b \in Batches, EditLine(g, p, q, r, b)
      PROVE  FlagInv'
  <2>1. [grnLine[g][p] EXCEPT !.qty = q, !.rejected = r, !.batch = b].loaded
    BY <1>2 DEF EditLine, GrnLines, GrnTypeOK, GrnLine
  <2>2. grnLine' = [grnLine EXCEPT ![g][p] =
                      [grnLine[g][p] EXCEPT !.qty = q, !.rejected = r, !.batch = b]]
    BY <1>2 DEF EditLine
  <2>3. ASSUME NEW h \in Grns, NEW x \in PoLines, grnLine[h][x].loaded
        PROVE  grnLine'[h][x].loaded
    BY <2>1, <2>2, <2>3 DEF GrnTypeOK
  <2>4. \A h \in Grns : OrdersOf(h) \subseteq OrdersOf(h)'
    BY <2>3, SameLines
  <2>5. FlagByState' /\ grnState' = grnState /\ grnFlag' = grnFlag
    BY <1>2 DEF EditLine, FlagByState, orderVars
  <2> QED BY <2>4, <2>5, FlagDocStep
<1>3. ASSUME NEW g \in Grns, update_potogrn(g)
      PROVE  FlagInv'
  <2>1. confirmFlag[g] = FALSE /\ grnState[g] \notin {"confirmed", "done"}
    BY <1>3 DEF update_potogrn, GrnShows, Buttons, FlagByState, GrnTypeOK
  <2>2. /\ grnState'[g] = "draft" /\ confirmFlag'[g] = FALSE
        /\ \A h \in Grns \ {g} : /\ grnState'[h] = grnState[h]
                                 /\ confirmFlag'[h] = confirmFlag[h]
    BY <1>3, <2>1, SetGrnWrites DEF update_potogrn
  <2>3. \A h \in Grns \ {g} : OrdersOf(h) \subseteq OrdersOf(h)'
    <3>1. \A h \in Grns \ {g} : grnLine'[h] = grnLine[h]
      BY <1>3 DEF update_potogrn, GrnTypeOK
    <3> QED BY <3>1, SameLines
  <2>4. FlagByState' /\ grnFlag' = grnFlag
    BY <1>3, <2>2 DEF FlagByState, update_potogrn, orderVars
  <2> QED BY <2>1, <2>2, <2>3, <2>4, FlagDocStep
<1>4. ASSUME NEW g \in Grns, unlink(g)
      PROVE  FlagInv'
  <2>1. grnState[g] = "draft" /\ confirmFlag[g] = FALSE
    BY <1>4 DEF unlink, FlagByState, GrnTypeOK
  <2>2. /\ grnState'[g] = "deleted" /\ confirmFlag'[g] = FALSE
        /\ \A h \in Grns \ {g} : /\ grnState'[h] = grnState[h]
                                 /\ confirmFlag'[h] = confirmFlag[h]
    BY <1>4, <2>1, SetGrnWrites DEF unlink
  <2>3. grnLine' = grnLine /\ grnFlag' = grnFlag /\ FlagByState'
    BY <1>4, <2>2 DEF unlink, orderVars, FlagByState
  <2> QED BY <2>1, <2>2, <2>3, FlagDocStep, SameLines
<1>5. ASSUME NEW o \in Orders, CloseOrder(o)
      PROVE  FlagInv'
  BY <1>5, FlagDocStep, SameLines DEF CloseOrder, grnVars, FlagByState
<1>6. CASE UNCHANGED vars
  BY <1>6, FlagDocStep, SameLines DEF vars, grnVars, orderVars, FlagByState
<1> QED
  BY <1>1, <1>2, <1>3, <1>4, <1>5, <1>6, FlagConfirm, FlagApprove DEF Next, EditGrn

\* FlagHasGrn: where every click comes from a fresh form and no line is
\* removed, an order is withheld from new receipts only while a confirmed
\* receipt of it waits for approval.
THEOREM WithheldOrdersHaveReceipt ==
    ASSUME ~GrnStale, Removable = {}
    PROVE  Spec => []FlagHasGrn
<1>1. Init => FlagByState /\ FlagHasGrn
  BY DEF Init, FlagByState, FlagHasGrn, Awaits
<1>2. GrnInv => GrnTypeOK
  BY DEF GrnInv
<1>3. FlagInv /\ GrnTypeOK' /\ [Next]_vars => FlagInv'
  BY FlagStep
<1>4. GrnTypeOK /\ FlagByState /\ FlagHasGrn <=> FlagInv
  BY DEF FlagInv
<1> QED BY <1>1, <1>2, <1>3, <1>4, GrnInvInit, GrnInvStep, PTL DEF Spec

-----------------------------------------------------------------------------
(* Orders that are withheld, from any form *)

\* What a step leaves of the orders that are withheld for a waiting receipt.
StaysWithheld == \A o \in Orders :
    grnFlag'[o] /\ (grnFlag[o] => \E g \in Grns : Awaits(g, o))
      => \E g \in Grns : Awaits(g, o)' \/ TakenBack(g, o)

\* Where no flag is written and no confirmed receipt is approved there is
\* nothing to show: a receipt that no longer waits was taken back.
LEMMA NoFlagWritten ==
    ASSUME grnFlag' = grnFlag,
           \A g \in Grns : grnState[g] = "confirmed" => grnState'[g] # "done"
    PROVE  StaysWithheld
BY DEF StaysWithheld, Awaits, TakenBack

\* A confirmation flags the orders of its receipt, which waits for them then.
LEMMA ConfirmWithholds ==
    ASSUME GrnTypeOK, NEW g \in Grns, NEW u \in Users, po_grn_confirm(g, u)
    PROVE  StaysWithheld
<1>1. grnState'[g] = "confirmed" /\ \A h \in Grns \ {g} : grnState'[h] = grnState[h]
  BY SetGrnWrites DEF po_grn_confirm
<1>2. ASSUME NEW p \in PoLines, grnLine[g][p].loaded
      PROVE  grnLine'[g][p].loaded
  <2>1. grnLine[g][p] \in GrnLine
    BY DEF GrnTypeOK
  <2>2. [grnLine[g][p] EXCEPT !.locked = TRUE].loaded
    BY <1>2, <2>1 DEF GrnLine
  <2> QED BY <1>2, <2>2 DEF po_grn_confirm, GrnTypeOK, GrnLines
<1>3. OrdersOf(g) \subseteq OrdersOf(g)'
  BY <1>2, SameLines
<1>4. SUFFICES ASSUME NEW o \in Orders, grnFlag'[o], grnFlag[o] => \E h \in Grns : Awaits(h, o)
      PROVE  \E h \in Grns : Awaits(h, o)' \/ TakenBack(h, o)
  BY DEF StaysWithheld
<1>5. CASE o \in OrdersOf(g)
  BY <1>1, <1>3, <1>5 DEF Awaits
<1>6. CASE grnFlag[o]
  <2>1. PICK h \in Grns : Awaits(h, o)
    BY <1>4, <1>6
  <2>2. grnState'[h] = "confirmed"
    BY <1>1, <2>1 DEF Awaits
  <2> QED BY <2>1, <2>2 DEF TakenBack
<1> QED BY <1>4, <1>5, <1>6 DEF po_grn_confirm

\* An approval releases the orders of its lines: what it leaves withheld, another
\* receipt waits for.
LEMMA ApproveReleases ==
    ASSUME GrnTypeOK, NEW g \in Grns, NEW u \in Users, kg_po_grn_approve(g, u)
    PROVE  StaysWithheld
<1>1. \A h \in Grns \ {g} : grnState'[h] = grnState[h]
  BY SetGrnWrites DEF kg_po_grn_approve
<1>2. \A h \in Grns : OrdersOf(h)' = OrdersOf(h)
  BY DEF kg_po_grn_approve, OrdersOf, GrnLines
<1>3. SUFFICES ASSUME NEW o \in Orders, grnFlag'[o], grnFlag[o] => \E h \in Grns : Awaits(h, o)
      PROVE  \E h \in Grns : Awaits(h, o)'
  BY DEF StaysWithheld
<1>4. grnFlag[o] /\ o \notin OrdersOf(g)
  BY <1>3 DEF kg_po_grn_approve, FlagKept
<1>5. PICK h \in Grns : Awaits(h, o)
  BY <1>3, <1>4
<1> QED BY <1>1, <1>2, <1>4, <1>5 DEF Awaits

LEMMA WithheldStep == ASSUME GrnTypeOK, Next PROVE StaysWithheld
<1>1. ASSUME NEW g \in Grns, EditGrn(g)
      PROVE  StaysWithheld
  BY <1>1, NoFlagWritten DEF EditGrn, PickOrders, EditLine, RemoveLine, orderVars
<1>2. ASSUME NEW g \in Grns, update_potogrn(g)
      PROVE  StaysWithheld
  <2>1. grnState'[g] = "draft" /\ \A h \in Grns \ {g} : grnState'[h] = grnState[h]
    BY <1>2, SetGrnWrites DEF update_potogrn
  <2> QED BY <1>2, <2>1, NoFlagWritten DEF update_potogrn, orderVars
<1>3. ASSUME NEW g \in Grns, unlink(g)
      PROVE  StaysWithheld
  <2>1. grnState'[g] = "deleted" /\ \A h \in Grns \ {g} : grnState'[h] = grnState[h]
    BY <1>3, SetGrnWrites DEF unlink
  <2> QED BY <1>3, <2>1, NoFlagWritten DEF unlink, orderVars
<1>4. ASSUME NEW o \in Orders, CloseOrder(o)
      PROVE  StaysWithheld
  BY <1>4, NoFlagWritten DEF CloseOrder, grnVars
<1> QED
  BY <1>1, <1>2, <1>3, <1>4, ConfirmWithholds, ApproveReleases DEF Next

\* WithheldWhileWaiting: from whichever forms and however receipts overlap, no
\* step but one that takes a confirmed receipt back leaves an order withheld
\* for which no receipt waits.
THEOREM WithheldIsWaitedFor == Spec => WithheldWhileWaiting
<1>1. GrnTypeOK /\ Next => StaysWithheld
  BY WithheldStep
<1>2. GrnInv => GrnTypeOK
  BY DEF GrnInv
<1>3. GrnInv /\ [Next]_vars => [StaysWithheld]_vars
  BY <1>1, <1>2
<1> QED BY <1>3, GrnInvInit, GrnInvStep, PTL DEF Spec, WithheldWhileWaiting, StaysWithheld
=============================================================================
