----------------------- MODULE DepartmentIssueProofs -----------------------
(***************************************************************************)
(* What holds of the department issue for every number of documents, lots  *)
(* and users.  The store's quantities stay natural numbers, the item-wise  *)
(* issue rows never claim what is still in the lot, and where quantities   *)
(* are whole units the rows balance and the handlers implement the store   *)
(* card: this needs nothing about the documents, so no stale form can      *)
(* break it.  What documents move is what leaves the lots and no less than *)
(* what indents are charged, because a line draws from lots and indents of *)
(* its own product alone (DocInv).  A document moves its lines once where  *)
(* forms are fresh.                                                        *)
(***************************************************************************)
EXTENDS DepartmentIssue, Sums, TLAPS

StoreInv == StockTypeOK /\ ItemsWithinLot

\* For whole units.
BalanceInv == StockTypeOK /\ LotLedger

\* What a document does that issues nothing.
StockUntouched == UNCHANGED <<issuePending, lotQty, lotPending, itemQty>>

\* The draws of LotDraws and IndentDraws are within what is there.
LEMMA LotDrawsBounded ==
    ASSUME StockTypeOK, NEW i \in Issues, NEW take \in LotDraws(i)
    PROVE  /\ take \in [Lots -> Nat]
           /\ \A l \in Lots : take[l] <= lotPending[l]
<1>1. take \in [Lots -> UNION {0 .. lotPending[l] : l \in Lots}]
      /\ \A l \in Lots : take[l] <= lotPending[l]
  BY DEF LotDraws
<1>2. UNION {0 .. lotPending[l] : l \in Lots} \subseteq Nat
  BY DEF StockTypeOK
<1> QED BY <1>1, <1>2

LEMMA IndentDrawsBounded ==
    ASSUME StockTypeOK, NEW i \in Issues, NEW drawn \in IndentDraws(i)
    PROVE  /\ drawn \in [IndentLines -> Nat]
           /\ \A x \in IndentLines : drawn[x] <= issuePending[x]
<1>1. drawn \in [IndentLines -> UNION {0 .. issuePending[x] : x \in IndentLines}]
  BY DEF IndentDraws
<1>2. UNION {0 .. issuePending[x] : x \in IndentLines} \subseteq Nat
  BY DEF StockTypeOK
<1>3. drawn \in [IndentLines -> Nat]
  BY <1>1, <1>2
<1>4. ASSUME NEW x \in IndentLines
      PROVE  drawn[x] <= issuePending[x]
  <2>1. \/ drawn[x] = Lesser(QtyReaching(i, x, drawn), issuePending[x])
        \/ drawn[x] = 0
    BY DEF IndentDraws
  <2>2. issuePending[x] \in Nat
    BY DEF StockTypeOK
  <2> QED BY <1>3, <2>1, <2>2 DEF Lesser
<1> QED BY <1>3, <1>4

\* Only "Issue to Substore" touches the store.
LEMMA StoreSteps ==
    [Next]_vars => StockUntouched \/ \E i \in Issues : action_process(i)
BY DEF Next, Edit, vars, docVars, stockVars, StockUntouched, PickIndents, EditLine,
       update_depindent_to_issue, entry_confirm, entry_reject, unlink

\* A draw cut off to whole units.
LEMMA CutOff ==
    ASSUME NEW n \in Nat, NEW t \in Nat, t <= n
    PROVE  /\ ItemIssued(n, t) \in Nat
           /\ ItemIssued(n, t) <= n - LotLeft(n, t)
           /\ Unit = 1 => ItemIssued(n, t) = n - LotLeft(n, t)
<1>1. n - LotLeft(n, t) = t
  BY DEF LotLeft
<1>2. t % Unit \in Nat /\ t % Unit <= t
  BY ConstantsOK
<1>3. Unit = 1 => t % Unit = 0
  BY ConstantsOK
<1> QED BY <1>1, <1>2, <1>3 DEF ItemIssued

\* The step that issues, said of the store alone.
LEMMA ProcessWithdraws ==
    ASSUME StockTypeOK, NEW i \in Issues, action_process(i)
    PROVE  /\ issuePending' \in [IndentLines -> Nat]
           /\ lotQty' = lotQty
           /\ lotPending' \in [Lots -> Nat]
           /\ itemQty' \in [Lots -> Nat]
           /\ \A l \in Lots :
                 /\ lotPending'[l] <= lotPending[l]
                 /\ itemQty'[l] <= itemQty[l] + (lotPending[l] - lotPending'[l])
                 /\ Unit = 1 =>
                      itemQty'[l] = itemQty[l] + (lotPending[l] - lotPending'[l])
<1>1. PICK take \in LotDraws(i), drawn \in IndentDraws(i) :
         /\ lotPending' = [l \in Lots |-> LotLeft(lotPending[l], take[l])]
         /\ itemQty' = [l \in Lots |-> itemQty[l] + ItemIssued(lotPending[l], take[l])]
         /\ issuePending' = [x \in IndentLines |-> IndentLeft(issuePending[x], drawn[x])]
  BY DEF action_process
<1>2. /\ take \in [Lots -> Nat]
      /\ \A l \in Lots : take[l] <= lotPending[l]
  BY LotDrawsBounded
<1>3. /\ drawn \in [IndentLines -> Nat]
      /\ \A x \in IndentLines : drawn[x] <= issuePending[x]
  BY IndentDrawsBounded
<1>4. lotQty' = lotQty
  BY DEF action_process
<1>5. issuePending' \in [IndentLines -> Nat]
  BY <1>1, <1>3 DEF StockTypeOK, IndentLeft
<1>6. lotPending' \in [Lots -> Nat]
  BY <1>1, <1>2 DEF StockTypeOK, LotLeft
<1>7. ASSUME NEW l \in Lots
      PROVE  /\ ItemIssued(lotPending[l], take[l]) \in Nat
             /\ lotPending'[l] <= lotPending[l]
             /\ itemQty'[l] <= itemQty[l] + (lotPending[l] - lotPending'[l])
             /\ Unit = 1 => itemQty'[l] = itemQty[l] + (lotPending[l] - lotPending'[l])
  <2>1. lotPending[l] \in Nat /\ take[l] \in Nat /\ take[l] <= lotPending[l]
        /\ itemQty[l] \in Nat
    BY <1>2 DEF StockTypeOK
  <2>2. /\ ItemIssued(lotPending[l], take[l]) \in Nat
        /\ ItemIssued(lotPending[l], take[l]) <= lotPending[l] - lotPending'[l]
        /\ Unit = 1 => ItemIssued(lotPending[l], take[l]) = lotPending[l] - lotPending'[l]
    BY <1>1, <2>1, CutOff
  <2>3. lotPending'[l] \in Nat /\ lotPending'[l] <= lotPending[l]
    BY <1>1, <2>1 DEF LotLeft
  <2>4. itemQty'[l] = itemQty[l] + ItemIssued(lotPending[l], take[l])
    BY <1>1
  <2> QED BY <2>1, <2>2, <2>3, <2>4
<1>8. itemQty' \in [Lots -> Nat]
  BY <1>1, <1>7 DEF StockTypeOK
<1> QED BY <1>4, <1>5, <1>6, <1>7, <1>8

-----------------------------------------------------------------------------

LEMMA StoreInvInit == Init => StoreInv /\ BalanceInv
BY ConstantsOK DEF Init, StoreInv, BalanceInv, StockTypeOK, LotLedger, ItemsWithinLot

LEMMA StoreInvStep ==
    ASSUME StockTypeOK, [Next]_vars
    PROVE  /\ StockTypeOK'
           /\ ItemsWithinLot => ItemsWithinLot'
           /\ Unit = 1 /\ LotLedger => LotLedger'
<1>1. CASE StockUntouched
  BY <1>1 DEF StockUntouched, StockTypeOK, ItemsWithinLot, LotLedger
<1>2. ASSUME NEW i \in Issues, action_process(i)
      PROVE  /\ StockTypeOK'
             /\ ItemsWithinLot => ItemsWithinLot'
             /\ Unit = 1 /\ LotLedger => LotLedger'
  <2>1. StockTypeOK'
    BY <1>2, ProcessWithdraws DEF StockTypeOK
  <2>2. ASSUME NEW l \in Lots
        PROVE  /\ lotQty[l] \in Nat /\ lotPending[l] \in Nat /\ itemQty[l] \in Nat
               /\ lotPending'[l] \in Nat /\ itemQty'[l] \in Nat /\ lotQty'[l] = lotQty[l]
               /\ itemQty'[l] <= itemQty[l] + (lotPending[l] - lotPending'[l])
               /\ Unit = 1 => itemQty'[l] = itemQty[l] + (lotPending[l] - lotPending'[l])
    BY <1>2, <2>1, ProcessWithdraws DEF StockTypeOK
  <2>3. ItemsWithinLot => ItemsWithinLot'
    BY <2>2 DEF ItemsWithinLot
  <2>4. Unit = 1 /\ LotLedger => LotLedger'
    BY <2>2 DEF LotLedger
  <2> QED BY <2>1, <2>3, <2>4
<1> QED BY <1>1, <1>2, StoreSteps

\* The quantities of the store keep their types; none goes below zero.
THEOREM StockTyped == Spec => []StockTypeOK
<1>1. Init => StockTypeOK
  BY StoreInvInit DEF StoreInv
<1>2. StockTypeOK /\ [Next]_vars => StockTypeOK'
  BY StoreInvStep
<1> QED BY <1>1, <1>2, PTL DEF Spec

\* ItemsWithinLot: the item-wise issue rows, whose quantities are cut off to
\* whole units, never claim for a lot what it still holds.
THEOREM ItemRowsWithinLots == Spec => []ItemsWithinLot
<1>1. Init => StoreInv
  BY StoreInvInit
<1>2. StoreInv /\ [Next]_vars => StoreInv'
  BY StoreInvStep DEF StoreInv
<1>3. StoreInv => ItemsWithinLot
  BY DEF StoreInv
<1> QED BY <1>1, <1>2, <1>3, PTL DEF Spec

\* LotLedger: in whole units, a lot's pending quantity and the item-wise
\* issue rows written from it always add up to its received quantity.
THEOREM LotsBalance ==
    ASSUME Unit = 1
    PROVE  Spec => []LotLedger
<1>1. Init => BalanceInv
  BY StoreInvInit
<1>2. BalanceInv /\ [Next]_vars => BalanceInv'
  BY StoreInvStep DEF BalanceInv
<1>3. BalanceInv => LotLedger
  BY DEF BalanceInv
<1> QED BY <1>1, <1>2, <1>3, PTL DEF Spec

-----------------------------------------------------------------------------

LEMMA CardInitial == Init => Card!CardInit
BY ConstantsOK DEF Init, Card!CardInit, Card!CardTypeOK

LEMMA CardStep ==
    ASSUME Unit = 1, StockTypeOK, [Next]_vars
    PROVE  [Card!CardNext]_(Card!cardVars)
<1>1. CASE StockUntouched
  BY <1>1 DEF StockUntouched, Card!cardVars
<1>2. ASSUME NEW i \in Issues, action_process(i)
      PROVE  Card!Withdraw
  <2>1. /\ lotQty' = lotQty
        /\ lotPending' \in [Lots -> Nat]
        /\ itemQty' \in [Lots -> Nat]
        /\ \A l \in Lots : /\ lotPending'[l] <= lotPending[l]
                           /\ itemQty'[l] = itemQty[l] + (lotPending[l] - lotPending'[l])
    BY <1>2, ProcessWithdraws
  <2>2. itemQty' = [l \in Lots |-> itemQty[l] + (lotPending[l] - lotPending'[l])]
    BY <2>1
  <2> QED BY <2>1, <2>2 DEF Card!Withdraw
<1> QED BY <1>1, <1>2, StoreSteps DEF Card!CardNext

\* CardSpec: in whole units, every behaviour of the department issue is one
\* of the store card.
THEOREM ImplementsStockCard ==
    ASSUME Unit = 1
    PROVE  Spec => CardSpec
<1>1. Init => Card!CardInit
  BY CardInitial
<1>2. StockTypeOK /\ [Next]_vars => [Card!CardNext]_(Card!cardVars)
  BY CardStep
<1>3. Spec => []StockTypeOK
  BY StockTyped
<1> QED BY <1>1, <1>2, <1>3, PTL DEF Spec, CardSpec, Card!CardSpec

-----------------------------------------------------------------------------
(* The documents *)

\* What LineOwnsLots adds for the lots: a line takes only lots of its own
\* product, so no lot is taken from by two lines of a document.
LineOwnsLots ==
    \A i \in Issues, p \in Products : line[i][p].lots \subseteq OfProduct(Lots, p)

\* A product without a line has nothing to issue.
NoLineNoQty ==
    \A i \in Issues, p \in Products : line[i][p].kind = "none" => line[i][p].qty = 0

DocInv == DocTypeOK /\ LineOwnsLots /\ NoLineNoQty

LEMMA DocInvInit == Init => DocInv
<1> SUFFICES ASSUME Init PROVE DocInv
  OBVIOUS
<1>1. \A i \in Issues : state[i] \in {"draft", "confirmed"} /\ shown[i] = {state[i]}
  BY DEF Init
<1>2. shown \in [Issues -> SUBSET ButtonStates] /\ state \in [Issues -> States]
  BY <1>1 DEF Init, ButtonStates, States
<1>3. NoLine \in Line
  BY DEF NoLine, Line
<1>4. DocTypeOK
  BY <1>2, <1>3 DEF Init, DocTypeOK
<1>5. LineOwnsLots /\ NoLineNoQty
  BY DEF Init, LineOwnsLots, NoLineNoQty, NoLine
<1> QED
  BY <1>4, <1>5 DEF DocInv

\* The state and the forms after a button.
LEMMA SetStateTyped ==
    ASSUME DocTypeOK, NEW i \in Issues, NEW s \in States, SetState(i, s)
    PROVE  state' \in [Issues -> States] /\ shown' \in [Issues -> SUBSET ButtonStates]
BY DEF DocTypeOK, SetState, ButtonStates

\* A line generated from indent lines asks for what they still lack.
LEMMA UpdateKeepsDocs ==
    ASSUME StockTypeOK, DocInv, NEW i \in Issues, update_depindent_to_issue(i)
    PROVE  DocInv'
<1> DEFINE group(p) == OfProduct(chosen[i], p)
           Wanted(p) == SumFunctionOnSet(issuePending, group(p))
           NewLine(p) == IF group(p) = {} THEN NoLine
                         ELSE [qty |-> Wanted(p), indentQty |-> Wanted(p),
                               kind |-> "indent", lots |-> {}]
<1>1. ASSUME NEW p \in Products
      PROVE  Wanted(p) \in Nat
  <2>1. group(p) \subseteq IndentLines
    BY DEF DocInv, DocTypeOK, OfProduct
  <2>2. IsFiniteSet(group(p)) /\ \A x \in group(p) : issuePending[x] \in Nat
    BY <2>1, ConstantsOK, FS_Subset DEF StockTypeOK
  <2> HIDE DEF group
  <2> QED
    BY <2>2, SumIsNat
<1> HIDE DEF Wanted
<1>2. ASSUME NEW p \in Products
      PROVE  /\ NewLine(p) \in Line
             /\ NewLine(p).lots = {}
             /\ NewLine(p).kind = "none" => NewLine(p).qty = 0
  BY <1>1 DEF Line, NoLine
<1>3. line' = [line EXCEPT ![i] = [p \in Products |-> NewLine(p)]]
  BY DEF update_depindent_to_issue, Wanted
<1> HIDE DEF NewLine, group
<1>4. line \in [Issues -> [Products -> Line]]
  BY DEF DocInv, DocTypeOK
<1>5. line' \in [Issues -> [Products -> Line]]
  BY <1>2, <1>3, <1>4
<1>6. ASSUME NEW j \in Issues, NEW p \in Products
      PROVE  line'[j][p] = IF j = i THEN NewLine(p) ELSE line[j][p]
  BY <1>3, <1>4
<1>7. LineOwnsLots' /\ NoLineNoQty'
  BY <1>2, <1>6 DEF DocInv, LineOwnsLots, NoLineNoQty
<1>8. state' \in [Issues -> States] /\ shown' \in [Issues -> SUBSET ButtonStates]
  BY SetStateTyped DEF update_depindent_to_issue, States, DocInv
<1>9. UNCHANGED <<mode, chosen, moved>>
  BY DEF update_depindent_to_issue, stockVars
<1> QED
  BY <1>5, <1>7, <1>8, <1>9 DEF DocInv, DocTypeOK

LEMMA EditKeepsDocs ==
    ASSUME DocInv, NEW i \in Issues, Edit(i)
    PROVE  DocInv'
<1>1. ASSUME NEW S \in SUBSET IndentLines, PickIndents(i, S)
      PROVE  DocInv'
  BY <1>1 DEF PickIndents, DocInv, DocTypeOK, LineOwnsLots, NoLineNoQty, stockVars
<1>2. ASSUME NEW p \in Products, NEW q \in Qtys, NEW L \in SUBSET Lots, EditLine(i, p, q, L)
      PROVE  DocInv'
  <2> DEFINE old == line[i][p]
             n == [old EXCEPT !.qty = q, !.lots = L,
                              !.kind = IF old.kind = "none" THEN "manual" ELSE old.kind]
  <2>1. line \in [Issues -> [Products -> Line]]
    BY DEF DocInv, DocTypeOK
  <2>2. old \in Line /\ q \in Nat
    BY <2>1, ConstantsOK
  <2>3. n \in Line /\ n.lots = L /\ n.kind # "none"
    BY <2>2 DEF Line
  <2>4. L \subseteq OfProduct(Lots, p)
    BY <1>2 DEF EditLine
  <2>5. line' = [line EXCEPT ![i][p] = n]
    BY <1>2 DEF EditLine
  <2> HIDE DEF n
  <2>6. line' \in [Issues -> [Products -> Line]]
    BY <2>1, <2>3, <2>5
  <2>7. ASSUME NEW j \in Issues, NEW r \in Products
        PROVE  line'[j][r] = IF j = i /\ r = p THEN n ELSE line[j][r]
    BY <2>1, <2>5
  <2>8. LineOwnsLots' /\ NoLineNoQty'
    BY <2>3, <2>4, <2>7 DEF DocInv, LineOwnsLots, NoLineNoQty
  <2> QED
    BY <1>2, <2>6, <2>8 DEF EditLine, DocInv, DocTypeOK, stockVars
<1> QED
  BY <1>1, <1>2 DEF Edit

\* Issuing adds the lines' quantities to what was moved.
LEMMA ProcessKeepsDocs ==
    ASSUME DocInv, NEW i \in Issues, action_process(i)
    PROVE  DocInv'
<1>1. state' \in [Issues -> States] /\ shown' \in [Issues -> SUBSET ButtonStates]
  BY SetStateTyped DEF action_process, States, DocInv
<1>2. UNCHANGED <<mode, chosen, line>>
  BY DEF action_process
<1>3. moved' = [moved EXCEPT ![i] = [p \in Products |-> @[p] + line[i][p].qty]]
  BY DEF action_process
<1>4. ASSUME NEW p \in Products
      PROVE  moved[i][p] + line[i][p].qty \in Nat
  BY DEF DocInv, DocTypeOK, Line
<1>5. moved' \in [Issues -> [Products -> Nat]]
  BY <1>3, <1>4 DEF DocInv, DocTypeOK
<1> QED
  BY <1>1, <1>2, <1>5 DEF DocInv, DocTypeOK, LineOwnsLots, NoLineNoQty

LEMMA ButtonKeepsDocs ==
    ASSUME DocInv, NEW i \in Issues, entry_confirm(i) \/ entry_reject(i) \/ unlink(i)
    PROVE  DocInv'
<1>1. \E s \in States : SetState(i, s)
  BY DEF entry_confirm, entry_reject, unlink, States
<1>2. UNCHANGED <<mode, chosen, line, moved>>
  BY DEF entry_confirm, entry_reject, unlink, stockVars
<1> QED
  BY <1>1, <1>2, SetStateTyped DEF DocInv, DocTypeOK, LineOwnsLots, NoLineNoQty

LEMMA DocInvStep == StockTypeOK /\ DocInv /\ [Next]_vars => DocInv'
<1> SUFFICES ASSUME StockTypeOK, DocInv, [Next]_vars PROVE DocInv'
  OBVIOUS
<1>1. CASE UNCHANGED vars
  BY <1>1 DEF vars, docVars, stockVars, DocInv, DocTypeOK, LineOwnsLots, NoLineNoQty
<1>2. CASE Next
  BY <1>2, UpdateKeepsDocs, EditKeepsDocs, ProcessKeepsDocs, ButtonKeepsDocs DEF Next
<1> QED
  BY <1>1, <1>2

LEMMA DocsTyped == Spec => [](StockTypeOK /\ DocInv)
<1>1. Init => StockTypeOK /\ DocInv
  BY StoreInvInit, DocInvInit DEF StoreInv
<1>2. StockTypeOK /\ DocInv /\ [Next]_vars => (StockTypeOK /\ DocInv)'
  BY StoreInvStep, DocInvStep
<1> QED
  BY <1>1, <1>2, PTL DEF Spec

\* TypeOK: every column of the documents and of the store keeps its type;
\* what a line generated from indent lines asks for is a quantity.
THEOREM IssueTyped == Spec => []TypeOK
<1>1. StockTypeOK /\ DocInv => TypeOK
  BY DEF DocInv, TypeOK
<1> QED
  BY <1>1, DocsTyped, PTL

-----------------------------------------------------------------------------
(* What moved and what left the lots *)

\* The lots of a product give what its line asks for, neither more (they are
\* no other line's lots) nor less (the line is covered).
LEMMA DrawsAreTheLine ==
    ASSUME StockTypeOK, DocInv, NEW i \in Issues, action_process(i),
           NEW take \in LotDraws(i), NEW p \in Products
    PROVE  SumFunctionOnSet(take, OfProduct(Lots, p)) = line[i][p].qty
<1> DEFINE P == OfProduct(Lots, p)
           L == line[i][p].lots
<1>1. IsFiniteSet(P) /\ L \subseteq P /\ P \subseteq Lots
  BY ConstantsOK, FS_Subset DEF DocInv, LineOwnsLots, OfProduct
<1>2. \A l \in P : take[l] \in Int /\ take[l] \in Nat
  BY <1>1, LotDrawsBounded
<1>3. ASSUME NEW l \in P, p \in Lines(i) => l \notin L
      PROVE  take[l] = 0
  <2>1. ASSUME NEW q \in Lines(i), l \in line[i][q].lots
        PROVE  FALSE
    <3>1. q \in Products /\ l \in OfProduct(Lots, q)
      BY <2>1 DEF Lines, DocInv, LineOwnsLots
    <3>2. q = p
      BY <3>1 DEF OfProduct
    <3> QED
      BY <1>3, <2>1, <3>2
  <2>2. ~ (take[l] > 0)
    BY <1>1, <2>1 DEF LotDraws
  <2> QED
    BY <1>2, <2>2
<1>4. CASE p \in Lines(i)
  <2>1. SumFunctionOnSet(take, L) = Lesser(line[i][p].qty, Available(L))
    BY <1>4 DEF LotDraws
  <2>2. Available(L) >= line[i][p].qty
    BY <1>4 DEF action_process, Covered
  <2>3. line[i][p].qty \in Nat
    BY DEF DocInv, DocTypeOK, Line
  <2>4. Available(L) \in Nat
    <3>1. IsFiniteSet(L) /\ \A l \in L : lotPending[l] \in Nat
      BY <1>1, FS_Subset DEF StockTypeOK
    <3> HIDE DEF L
    <3> QED
      BY <3>1, SumIsNat DEF Available
  <2>5. Lesser(line[i][p].qty, Available(L)) = line[i][p].qty
    BY <2>2, <2>3, <2>4 DEF Lesser
  <2>6. \A l \in P \ L : take[l] = 0
    BY <1>3
  <2> HIDE DEF P, L
  <2>7. SumFunctionOnSet(take, P) = SumFunctionOnSet(take, L)
    BY <1>1, <1>2, <2>6, SumWithin
  <2> QED
    BY <2>1, <2>5, <2>7 DEF P
<1>5. CASE p \notin Lines(i)
  <2>1. line[i][p].qty = 0
    BY <1>5 DEF Lines, DocInv, NoLineNoQty
  <2>2. \A l \in P : take[l] = 0
    BY <1>3, <1>5
  <2> HIDE DEF P
  <2>3. SumFunctionOnSet(take, P) = 0
    BY <1>1, <2>2, SumZero
  <2> QED
    BY <2>1, <2>3 DEF P
<1> QED
  BY <1>4, <1>5

\* In whole units, the item-wise rows of a product grow by the line's
\* quantity, and its lots shrink by it.
LEMMA ProcessMovesLots ==
    ASSUME Unit = 1, StockTypeOK, DocInv, NEW i \in Issues, action_process(i),
           NEW p \in Products
    PROVE  /\ SumFunctionOnSet(itemQty', OfProduct(Lots, p))
                = SumFunctionOnSet(itemQty, OfProduct(Lots, p)) + line[i][p].qty
           /\ SumFunctionOnSet(lotPending, OfProduct(Lots, p))
                = SumFunctionOnSet(lotPending', OfProduct(Lots, p)) + line[i][p].qty
<1> DEFINE P == OfProduct(Lots, p)
<1>1. PICK take \in LotDraws(i) :
         /\ lotPending' = [l \in Lots |-> LotLeft(lotPending[l], take[l])]
         /\ itemQty' = [l \in Lots |-> itemQty[l] + ItemIssued(lotPending[l], take[l])]
  BY DEF action_process
<1>2. IsFiniteSet(P) /\ P \subseteq Lots
  BY ConstantsOK, FS_Subset DEF OfProduct
<1>3. ASSUME NEW l \in P
      PROVE  /\ itemQty[l] \in Int /\ take[l] \in Int /\ lotPending'[l] \in Int
             /\ itemQty'[l] = itemQty[l] + take[l]
             /\ lotPending[l] = lotPending'[l] + take[l]
  <2>1. l \in Lots /\ take[l] \in Nat /\ take[l] <= lotPending[l]
    BY <1>2, LotDrawsBounded
  <2>2. itemQty[l] \in Nat /\ lotPending[l] \in Nat
    BY <2>1 DEF StockTypeOK
  <2>3. lotPending'[l] = lotPending[l] - take[l]
    BY <1>1, <2>1 DEF LotLeft
  <2>4. ItemIssued(lotPending[l], take[l]) = lotPending[l] - LotLeft(lotPending[l], take[l])
    BY <2>1, <2>2, CutOff
  <2>5. ItemIssued(lotPending[l], take[l]) = take[l]
    BY <2>1, <2>2, <2>4 DEF LotLeft
  <2> QED
    BY <1>1, <2>1, <2>2, <2>3, <2>5
<1>4. SumFunctionOnSet(take, P) = line[i][p].qty
  BY DrawsAreTheLine
<1> HIDE DEF P
<1>5. SumFunctionOnSet(itemQty', P) = SumFunctionOnSet(itemQty, P) + SumFunctionOnSet(take, P)
  BY <1>2, <1>3, SumAdd
<1>6. SumFunctionOnSet(lotPending, P)
        = SumFunctionOnSet(lotPending', P) + SumFunctionOnSet(take, P)
  BY <1>2, <1>3, SumAdd
<1> QED
  BY <1>4, <1>5, <1>6 DEF P

\* The moves of a product, over the documents.
MovesOf(p) == SumFunctionOnSet([i \in Issues |-> moved[i][p]], Issues)

LEMMA MovesOfTyped == ASSUME DocInv, NEW p \in Products PROVE MovesOf(p) \in Nat
<1> DEFINE m == [i \in Issues |-> moved[i][p]]
<1>1. \A i \in Issues : m[i] \in Nat
  BY DEF DocInv, DocTypeOK
<1> HIDE DEF m
<1>2. SumFunctionOnSet(m, Issues) \in Nat
  BY <1>1, ConstantsOK, SumIsNat
<1> QED
  BY <1>2 DEF m, MovesOf

LEMMA ProcessMoves ==
    ASSUME DocInv, NEW i \in Issues, action_process(i), NEW p \in Products
    PROVE  MovesOf(p)' = MovesOf(p) + line[i][p].qty
<1> DEFINE m == [j \in Issues |-> moved[j][p]]
           n == [j \in Issues |-> moved'[j][p]]
<1>1. moved \in [Issues -> [Products -> Nat]]
  BY DEF DocInv, DocTypeOK
<1>2. line[i][p].qty \in Nat
  BY DEF DocInv, DocTypeOK, Line
<1>3. moved' = [moved EXCEPT ![i] = [q \in Products |-> @[q] + line[i][q].qty]]
  BY DEF action_process
<1>4. /\ \A j \in Issues : m[j] \in Int /\ n[j] \in Int
      /\ n[i] - m[i] = line[i][p].qty
      /\ \A j \in Issues \ {i} : n[j] = m[j]
  BY <1>1, <1>2, <1>3
<1> HIDE DEF m, n
<1>5. SumFunctionOnSet(n, Issues) = SumFunctionOnSet(m, Issues) + (n[i] - m[i])
  BY <1>4, ConstantsOK, SumChanged
<1>6. SumFunctionOnSet(n, Issues) = SumFunctionOnSet(m, Issues) + line[i][p].qty
  BY <1>4, <1>5
<1> QED
  BY <1>6 DEF m, n, MovesOf

\* Only "Issue to Substore" writes moves.
LEMMA MovesSteps ==
    [Next]_vars => \/ UNCHANGED <<moved, itemQty, issuePending>>
                   \/ \E i \in Issues : action_process(i)
BY DEF Next, Edit, vars, docVars, stockVars, PickIndents, EditLine,
       update_depindent_to_issue, entry_confirm, entry_reject, unlink

LEMMA MovesMatchInit == Init => MovesMatchLots
<1> SUFFICES ASSUME Init, NEW p \in Products
             PROVE  MovesOf(p) = SumFunctionOnSet(itemQty, OfProduct(Lots, p))
  BY DEF MovesMatchLots, MovesOf
<1> DEFINE m == [i \in Issues |-> moved[i][p]]
           P == OfProduct(Lots, p)
<1>1. (\A i \in Issues : m[i] = 0) /\ (\A l \in P : itemQty[l] = 0)
  BY DEF Init, OfProduct
<1>2. IsFiniteSet(Issues) /\ IsFiniteSet(P)
  BY ConstantsOK, FS_Subset DEF OfProduct
<1> HIDE DEF m, P
<1>3. SumFunctionOnSet(m, Issues) = 0 /\ SumFunctionOnSet(itemQty, P) = 0
  BY <1>1, <1>2, SumZero
<1> QED
  BY <1>3 DEF m, P, MovesOf

LEMMA MovesMatchStep ==
    ASSUME Unit = 1, StockTypeOK, DocInv, MovesMatchLots, [Next]_vars
    PROVE  MovesMatchLots'
<1> SUFFICES ASSUME NEW p \in Products
             PROVE  MovesOf(p)' = SumFunctionOnSet(itemQty', OfProduct(Lots, p))
  BY DEF MovesMatchLots, MovesOf
<1>1. MovesOf(p) = SumFunctionOnSet(itemQty, OfProduct(Lots, p))
  BY DEF MovesMatchLots, MovesOf
<1>2. CASE UNCHANGED <<moved, itemQty, issuePending>>
  BY <1>1, <1>2 DEF MovesOf
<1>3. ASSUME NEW i \in Issues, action_process(i)
      PROVE  MovesOf(p)' = SumFunctionOnSet(itemQty', OfProduct(Lots, p))
  BY <1>1, <1>3, ProcessMoves, ProcessMovesLots
<1> QED
  BY <1>2, <1>3, MovesSteps

\* MovesMatchLots: in whole units, the stock moves of a product, from which
\* the ledger is computed, add up to what the item-wise rows say has left
\* its lots, whatever documents are processed from whichever forms.
THEOREM MovesMatchRows ==
    ASSUME Unit = 1
    PROVE  Spec => []MovesMatchLots
<1>1. Init => StockTypeOK /\ DocInv /\ MovesMatchLots
  BY StoreInvInit, DocInvInit, MovesMatchInit DEF StoreInv
<1>2. StockTypeOK /\ DocInv /\ MovesMatchLots /\ [Next]_vars => MovesMatchLots'
  BY MovesMatchStep
<1> QED
  BY <1>1, <1>2, DocsTyped, PTL DEF Spec

-----------------------------------------------------------------------------
(* What indent lines are charged *)

\* The chosen indent lines of a product give up no more than its line issues.
LEMMA DrawnWithinLine ==
    ASSUME StockTypeOK, DocInv, NEW i \in Issues, NEW drawn \in IndentDraws(i),
           NEW p \in Products
    PROVE  SumFunctionOnSet(drawn, OfProduct(IndentLines, p)) <= line[i][p].qty
<1> DEFINE P == OfProduct(IndentLines, p)
           C == OfProduct(chosen[i], p)
           q == line[i][p].qty
<1>1. C \subseteq P /\ P \subseteq IndentLines
  BY DEF DocInv, DocTypeOK, OfProduct
<1>2. IsFiniteSet(P) /\ IsFiniteSet(C) /\ C \subseteq Nat
  BY <1>1, ConstantsOK, FS_Subset
<1>3. q \in Nat
  BY DEF DocInv, DocTypeOK, Line
<1>4. \A x \in IndentLines : drawn[x] \in Nat /\ drawn[x] \in Int
  BY IndentDrawsBounded
<1>5. CASE p \in Lines(i)
  <2>1. ASSUME NEW x \in P \ C
        PROVE  drawn[x] = 0
    BY <1>1 DEF IndentDraws, OfProduct
  <2>2. ASSUME NEW x \in C
        PROVE  drawn[x] <= q - SumFunctionOnSet(drawn, {y \in C : y < x})
    <3>1. x \in IndentLines /\ x \in chosen[i] /\ ProductOf[x] = p
      BY <1>1 DEF OfProduct
    <3>2. drawn[x] = Lesser(QtyReaching(i, x, drawn), issuePending[x])
      BY <1>5, <3>1 DEF IndentDraws
    <3>3. QtyReaching(i, x, drawn) = q - SumFunctionOnSet(drawn, {y \in C : y < x})
      BY <3>1 DEF QtyReaching
    <3>4. SumFunctionOnSet(drawn, {y \in C : y < x}) \in Int
      <4> DEFINE D == {y \in C : y < x}
      <4>1. IsFiniteSet(D) /\ \A y \in D : drawn[y] \in Int
        BY <1>1, <1>2, <1>4, FS_Subset
      <4> HIDE DEF D
      <4>2. SumFunctionOnSet(drawn, D) \in Int
        BY <4>1, SumIsInt
      <4> QED
        BY <4>2 DEF D
    <3>5. issuePending[x] \in Nat
      BY <3>1 DEF StockTypeOK
    <3>6. QtyReaching(i, x, drawn) \in Int
      BY <1>3, <3>3, <3>4
    <3>7. drawn[x] <= QtyReaching(i, x, drawn)
      BY <3>2, <3>5, <3>6 DEF Lesser
    <3> QED
      BY <3>3, <3>7
  <2>3. \A x \in C : drawn[x] \in Int
    BY <1>1, <1>4
  <2> HIDE DEF P, C, q
  <2>4. SumFunctionOnSet(drawn, P) = SumFunctionOnSet(drawn, C)
    BY <1>1, <1>2, <2>1, <2>3, SumWithin
  <2>5. SumFunctionOnSet(drawn, C) <= q
    BY <1>2, <1>3, <2>2, <2>3, HandedOn
  <2> QED
    BY <2>4, <2>5 DEF P, q
<1>6. CASE p \notin Lines(i)
  <2>1. \A x \in P : drawn[x] = 0
    BY <1>6 DEF IndentDraws, OfProduct
  <2> HIDE DEF P
  <2>2. SumFunctionOnSet(drawn, P) = 0
    BY <1>2, <2>1, SumZero
  <2> QED
    BY <1>3, <2>2 DEF P
<1> QED
  BY <1>5, <1>6

\* What the indent lines of a product were written down by.
ChargedOf(p) ==
    SumFunctionOnSet([x \in IndentLines |-> IndentQty[x] - issuePending[x]],
                     OfProduct(IndentLines, p))

LEMMA ProcessCharges ==
    ASSUME StockTypeOK, DocInv, NEW i \in Issues, action_process(i), NEW p \in Products
    PROVE  /\ ChargedOf(p) \in Int /\ ChargedOf(p)' \in Int
           /\ ChargedOf(p)' <= ChargedOf(p) + line[i][p].qty
<1> DEFINE P == OfProduct(IndentLines, p)
           c == [x \in IndentLines |-> IndentQty[x] - issuePending[x]]
           d == [x \in IndentLines |-> IndentQty[x] - issuePending'[x]]
<1>1. PICK drawn \in IndentDraws(i) :
         issuePending' = [x \in IndentLines |-> IndentLeft(issuePending[x], drawn[x])]
  BY DEF action_process
<1>2. IsFiniteSet(P) /\ P \subseteq IndentLines
  BY ConstantsOK, FS_Subset DEF OfProduct
<1>3. ASSUME NEW x \in P
      PROVE  /\ c[x] \in Int /\ drawn[x] \in Int /\ d[x] \in Int
             /\ d[x] = c[x] + drawn[x]
  <2>1. x \in IndentLines
    BY <1>2
  <2>2. issuePending[x] \in Nat /\ drawn[x] \in Nat /\ IndentQty[x] \in Nat
    BY <2>1, ConstantsOK, IndentDrawsBounded DEF StockTypeOK
  <2>3. issuePending'[x] = issuePending[x] - drawn[x]
    BY <1>1, <2>1 DEF IndentLeft
  <2>4. c[x] = IndentQty[x] - issuePending[x] /\ d[x] = IndentQty[x] - issuePending'[x]
    BY <2>1
  <2> QED
    BY <2>2, <2>3, <2>4
<1>4. SumFunctionOnSet(drawn, P) <= line[i][p].qty
  BY DrawnWithinLine
<1> HIDE DEF P, c, d
<1>5. SumFunctionOnSet(d, P) = SumFunctionOnSet(c, P) + SumFunctionOnSet(drawn, P)
  BY <1>2, <1>3, SumAdd
<1>6. /\ SumFunctionOnSet(d, P) \in Int /\ SumFunctionOnSet(c, P) \in Int
      /\ SumFunctionOnSet(drawn, P) \in Int
  BY <1>2, <1>3, SumIsInt
<1>7. line[i][p].qty \in Nat
  BY DEF DocInv, DocTypeOK, Line
<1>8. SumFunctionOnSet(d, P) <= SumFunctionOnSet(c, P) + line[i][p].qty
  BY <1>4, <1>5, <1>6, <1>7
<1>9. ChargedOf(p) = SumFunctionOnSet(c, P) /\ ChargedOf(p)' = SumFunctionOnSet(d, P)
  BY DEF ChargedOf, P, c, d
<1> QED
  BY <1>6, <1>8, <1>9

LEMMA ChargedInit == Init => IndentChargedOnce
<1> SUFFICES ASSUME Init, NEW p \in Products PROVE ChargedOf(p) <= MovesOf(p)
  BY DEF IndentChargedOnce, ChargedOf, MovesOf
<1> DEFINE P == OfProduct(IndentLines, p)
           c == [x \in IndentLines |-> IndentQty[x] - issuePending[x]]
<1>1. \A x \in P : c[x] = 0
  BY ConstantsOK DEF Init, OfProduct
<1>2. IsFiniteSet(P)
  BY ConstantsOK, FS_Subset DEF OfProduct
<1> HIDE DEF P, c
<1>3. SumFunctionOnSet(c, P) = 0
  BY <1>1, <1>2, SumZero
<1>4. MovesOf(p) \in Nat
  BY DocInvInit, MovesOfTyped
<1>5. ChargedOf(p) = 0
  BY <1>3 DEF ChargedOf, P, c
<1> QED
  BY <1>4, <1>5

LEMMA ChargedStep ==
    ASSUME StockTypeOK, DocInv, IndentChargedOnce, [Next]_vars
    PROVE  IndentChargedOnce'
<1> SUFFICES ASSUME NEW p \in Products PROVE ChargedOf(p)' <= MovesOf(p)'
  BY DEF IndentChargedOnce, ChargedOf, MovesOf
<1>1. ChargedOf(p) <= MovesOf(p)
  BY DEF IndentChargedOnce, ChargedOf, MovesOf
<1>2. CASE UNCHANGED <<moved, itemQty, issuePending>>
  BY <1>1, <1>2 DEF MovesOf, ChargedOf
<1>3. ASSUME NEW i \in Issues, action_process(i)
      PROVE  ChargedOf(p)' <= MovesOf(p)'
  <2>1. MovesOf(p)' = MovesOf(p) + line[i][p].qty
    BY <1>3, ProcessMoves
  <2>2. /\ ChargedOf(p) \in Int /\ ChargedOf(p)' \in Int
        /\ ChargedOf(p)' <= ChargedOf(p) + line[i][p].qty
    BY <1>3, ProcessCharges
  <2>3. MovesOf(p) \in Nat
    BY MovesOfTyped
  <2>4. line[i][p].qty \in Nat
    BY DEF DocInv, DocTypeOK, Line
  <2> QED
    BY <1>1, <2>1, <2>2, <2>3, <2>4
<1> QED
  BY <1>2, <1>3, MovesSteps

\* IndentChargedOnce: the indent lines of a product are written down by no
\* more than has left the store for it, in whatever parts of a unit and from
\* whichever forms: what one chosen line cannot give reaches the next, and is
\* not charged twice.
THEOREM IndentLinesChargedOnce == Spec => []IndentChargedOnce
<1>1. Init => IndentChargedOnce
  BY ChargedInit
<1>2. StockTypeOK /\ DocInv /\ IndentChargedOnce /\ [Next]_vars => IndentChargedOnce'
  BY ChargedStep
<1> QED
  BY <1>1, <1>2, DocsTyped, PTL DEF Spec

-----------------------------------------------------------------------------
(* One click, one issue *)

LEMMA IssuedInit == Init => IssuedOnce
<1> SUFFICES ASSUME Init, NEW i \in Issues, NEW p \in Products
             PROVE  state[i] # "done" /\ moved[i][p] = 0
  BY DEF IssuedOnce
<1> QED
  BY DEF Init

\* The documents that an operation can touch are not done; issuing is what
\* makes them done.
LEMMA IssuedStep ==
    ASSUME ~ StaleForms, DocInv, IssuedOnce, [Next]_vars
    PROVE  IssuedOnce'
<1> USE DEF Shows
<1>1. /\ state \in [Issues -> States] /\ line \in [Issues -> [Products -> Line]]
      /\ moved \in [Issues -> [Products -> Nat]]
  BY DEF DocInv, DocTypeOK
<1>2. ASSUME NEW i \in Issues, state[i] # "done", state'[i] # "done",
             \A j \in Issues \ {i} : state'[j] = state[j] /\ line'[j] = line[j],
             UNCHANGED moved
      PROVE  IssuedOnce'
  <2> SUFFICES ASSUME NEW j \in Issues, NEW p \in Products
               PROVE  moved'[j][p] = IF state'[j] = "done" THEN line'[j][p].qty ELSE 0
    BY DEF IssuedOnce
  <2>1. moved[j][p] = IF state[j] = "done" THEN line[j][p].qty ELSE 0
    BY DEF IssuedOnce
  <2> QED
    BY <1>2, <2>1
<1>3. ASSUME NEW i \in Issues, Edit(i)
      PROVE  IssuedOnce'
  <2>1. ASSUME NEW S \in SUBSET IndentLines, PickIndents(i, S)
        PROVE  IssuedOnce'
    BY <2>1 DEF PickIndents, stockVars, IssuedOnce
  <2>2. ASSUME NEW p \in Products, NEW q \in Qtys, NEW L \in SUBSET Lots, EditLine(i, p, q, L)
        PROVE  IssuedOnce'
    <3>1. state[i] # "done" /\ UNCHANGED <<state, moved>>
      BY <2>2 DEF EditLine, stockVars
    <3>2. \A j \in Issues \ {i} : line'[j] = line[j]
      BY <1>1, <2>2 DEF EditLine
    <3> QED
      BY <1>2, <3>1, <3>2
  <2> QED
    BY <1>3, <2>1, <2>2 DEF Edit
<1>4. ASSUME NEW i \in Issues, update_depindent_to_issue(i)
      PROVE  IssuedOnce'
  <2>1. state[i] # "done" /\ UNCHANGED moved
    BY <1>4 DEF update_depindent_to_issue, stockVars
  <2>2. state' = [state EXCEPT ![i] = "confirmed"]
    BY <1>4 DEF update_depindent_to_issue, SetState
  <2>3. \A j \in Issues \ {i} : line'[j] = line[j]
    BY <1>1, <1>4 DEF update_depindent_to_issue
  <2> QED
    BY <1>1, <1>2, <2>1, <2>2, <2>3
<1>5. ASSUME NEW i \in Issues, entry_confirm(i) \/ entry_reject(i) \/ unlink(i)
      PROVE  IssuedOnce'
  <2>1. state[i] # "done" /\ UNCHANGED <<moved, line>>
    BY <1>5 DEF entry_confirm, entry_reject, unlink, stockVars
  <2>2. \E s \in {"approve", "reject", "deleted"} : state' = [state EXCEPT ![i] = s]
    BY <1>5 DEF entry_confirm, entry_reject, unlink, SetState
  <2> QED
    BY <1>1, <1>2, <2>1, <2>2
<1>6. ASSUME NEW i \in Issues, action_process(i)
      PROVE  IssuedOnce'
  <2>1. state[i] = "approve" /\ UNCHANGED line
    BY <1>6 DEF action_process
  <2>2. state' = [state EXCEPT ![i] = "done"]
    BY <1>6 DEF action_process, SetState
  <2>3. moved' = [moved EXCEPT ![i] = [p \in Products |-> @[p] + line[i][p].qty]]
    BY <1>6 DEF action_process
  <2> SUFFICES ASSUME NEW j \in Issues, NEW p \in Products
               PROVE  moved'[j][p] = IF state'[j] = "done" THEN line[j][p].qty ELSE 0
    BY <2>1 DEF IssuedOnce
  <2>4. moved[j][p] = IF state[j] = "done" THEN line[j][p].qty ELSE 0
    BY DEF IssuedOnce
  <2>5. line[j][p].qty \in Nat
    BY <1>1 DEF Line
  <2>6. CASE j = i
    <3>1. moved[i][p] = 0
      BY <2>1, <2>4, <2>6
    <3>2. moved'[i][p] = moved[i][p] + line[i][p].qty /\ state'[i] = "done"
      BY <1>1, <2>2, <2>3
    <3> QED
      BY <2>5, <2>6, <3>1, <3>2
  <2>7. CASE j # i
    BY <1>1, <2>2, <2>3, <2>4, <2>7
  <2> QED
    BY <2>6, <2>7
<1>7. CASE UNCHANGED vars
  BY <1>7 DEF vars, docVars, stockVars, IssuedOnce
<1> QED
  BY <1>3, <1>4, <1>5, <1>6, <1>7 DEF Next

\* IssuedOnce: where each click comes from a freshly read form, a document's
\* moves are its lines' quantities once it is done and nothing before.
THEOREM FreshFormsIssueOnce ==
    ASSUME ~ StaleForms
    PROVE  Spec => []IssuedOnce
<1>1. Init => IssuedOnce
  BY IssuedInit
<1>2. StockTypeOK /\ DocInv /\ IssuedOnce /\ [Next]_vars => IssuedOnce'
  BY IssuedStep
<1> QED
  BY <1>1, <1>2, DocsTyped, PTL DEF Spec
=============================================================================
