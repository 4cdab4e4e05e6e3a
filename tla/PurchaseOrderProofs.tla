------------------------ MODULE PurchaseOrderProofs ------------------------
(***************************************************************************)
(* What holds of purchase orders for every set of orders and indent lines: *)
(* the type invariant with the range of the pending quantity, from any     *)
(* form; for fresh forms that no indent line is flagged for nobody, and,   *)
(* as long as no order line stands for several indent lines, that nothing  *)
(* is taken off an indent line that no approved order orders.  Nothing is  *)
(* assumed of what users pick: two forms may load the same line.           *)
(***************************************************************************)
EXTENDS PurchaseOrder, Sums, TLAPS

\* A line names an indent line of its product, and one that stands for that
\* line alone was made with no more than it asked for.
LinesMade ==
    \A o \in Orders : \A p \in OrderLines(o) :
        LET l == orderLine[o][p] IN
        /\ ProductOf[l.pi] = p
        /\ ~l.group => l.piQty <= PiQty[l.pi]

\* The inductive invariant, from any form.
PoInv == PoTypeOK /\ PendingWithinIndent /\ LinesMade

Open(o) == poState[o] \in {"draft", "confirmed"}

-----------------------------------------------------------------------------
(* Lemmas about the helpers *)

\* The first of some indent lines is one of them.
LEMMA FirstIsOne ==
    ASSUME NEW S \in SUBSET PiLines, S # {}
    PROVE  First(S) \in S
<1>1. S \subseteq Nat
  BY OrderConstantsOK
<1>2. PICK x \in S : \A y \in S : ~ (<<y, x>> \in OpToRel(<, Nat))
  BY <1>1, NatLessThanWellFounded, WFMin
<1>3. \A y \in S : x <= y
  <2> TAKE y \in S
  <2>1. ~ (y < x)
    BY <1>1, <1>2 DEF OpToRel
  <2> QED
    BY <1>1, <2>1
<1> QED
  BY <1>3 DEF First

\* SetOrder keeps the types of what it writes.
LEMMA SetOrderTyped ==
    ASSUME PoTypeOK, NEW o \in Orders, NEW s \in PoStates, SetOrder(o, s)
    PROVE  /\ poState' \in [Orders -> PoStates]
           /\ poShown' \in [Orders -> SUBSET PoButtonStates]
  BY DEF PoTypeOK, SetOrder

\* Steps that write no quantity and no line keep the invariant.
LEMMA LinesKept ==
    ASSUME PoInv, PoTypeOK', UNCHANGED <<orderLine, piPending>>
    PROVE  PoInv'
  BY DEF PoInv, PendingWithinIndent, LinesMade, OrderLines

\* What is pending for an indent line is at most what it asked for.
LEMMA PendingBounded ==
    ASSUME PoInv, NEW x \in PiLines
    PROVE  piPending[x] \in Nat /\ PiQty[x] \in Nat /\ piPending[x] <= PiQty[x]
<1>1. PiQty[x] \in Nat
  BY OrderConstantsOK
<1>2. piPending[x] \in 0 .. PiQty[x]
  BY DEF PoInv, PendingWithinIndent
<1> QED
  BY <1>1, <1>2

-----------------------------------------------------------------------------
(* The invariant and the operations *)

LEMMA PoInvInit == Init => PoInv
<1> SUFFICES ASSUME Init PROVE PoInv
  OBVIOUS
<1>1. PoTypeOK
  BY OrderConstantsOK DEF Init, PoTypeOK, PoStates, PoButtonStates, LineStates, NoOrderLine
<1>2. PendingWithinIndent
  BY OrderConstantsOK DEF Init, PendingWithinIndent
<1>3. LinesMade
  BY DEF Init, LinesMade, OrderLines, NoOrderLine
<1> QED
  BY <1>1, <1>2, <1>3 DEF PoInv

LEMMA PickLinesInv ==
    ASSUME PoInv, NEW o \in Orders, NEW S \in SUBSET PiLines, PickLines(o, S)
    PROVE  PoInv'
<1>1. PoTypeOK'
  BY DEF PoInv, PickLines, PoTypeOK, indentVars
<1> QED
  BY <1>1, LinesKept DEF PickLines, indentVars

\* A line made from picked lines has its type and is one of LinesMade.
LEMMA LineMade ==
    ASSUME PoInv, NEW o \in Orders, NEW p \in Products, NEW total \in Totals(o),
           Group(o, p) # {}
    PROVE  LET l == MadeLine(Group(o, p), total[p]) IN
           /\ l \in OrderLine
           /\ ProductOf[l.pi] = p
           /\ ~l.group => l.piQty <= PiQty[l.pi]
<1> DEFINE S == Group(o, p)
           l == MadeLine(S, total[p])
<1>1. S \in SUBSET PiLines
  BY DEF PoInv, PoTypeOK, Group
<1>2. First(S) \in S
  BY <1>1, FirstIsOne
<1>3. First(S) \in PiLines /\ ProductOf[First(S)] = p
  BY <1>1, <1>2 DEF Group
<1>4. total[p] \in Nat
  BY DEF Totals
<1>5. piPending[First(S)] \in Nat /\ piPending[First(S)] <= PiQty[First(S)]
  BY <1>3, PendingBounded
<1>6. LoadedQty(S, total[p]) \in Nat
  BY <1>4, <1>5 DEF LoadedQty
<1>7. ~Several(S) => LoadedQty(S, total[p]) <= PiQty[First(S)]
  BY <1>5 DEF LoadedQty
<1>8. l = [made |-> TRUE, qty |-> LoadedQty(S, total[p]), piQty |-> LoadedQty(S, total[p]),
           pi |-> First(S), group |-> Several(S)]
  BY DEF MadeLine
<1>9. Several(S) \in BOOLEAN
  BY DEF Several
<1> HIDE DEF S
<1>10. l \in OrderLine
  BY <1>3, <1>6, <1>8, <1>9 DEF OrderLine
<1>11. ProductOf[l.pi] = p /\ (~l.group => l.piQty <= PiQty[l.pi])
  BY <1>3, <1>7, <1>8
<1> QED
  BY <1>10, <1>11 DEF S

LEMMA UpdateInv ==
    ASSUME PoInv, NEW o \in Orders, update_poline(o)
    PROVE  PoInv'
<1>1. PICK total \in Totals(o) : orderLine' = [orderLine EXCEPT ![o] =
                [p \in Products |-> IF Group(o, p) = {} THEN NoOrderLine
                                   ELSE MadeLine(Group(o, p), total[p])]]
  BY DEF update_poline
<1>2. orderLine' \in [Orders -> [Products -> OrderLine \union {NoOrderLine}]]
  BY <1>1, LineMade DEF PoInv, PoTypeOK
<1>3. lineState' \in [PiLines -> LineStates] /\ draftFlag' \in [PiLines -> BOOLEAN]
  BY DEF PoInv, PoTypeOK, update_poline, LineStates
<1>4. PoTypeOK'
  BY <1>2, <1>3 DEF PoInv, PoTypeOK, update_poline
<1>5. PendingWithinIndent'
  BY DEF PoInv, PendingWithinIndent, update_poline
<1>6. LinesMade'
  <2> SUFFICES ASSUME NEW q \in Orders, NEW p \in OrderLines(q)'
               PROVE  /\ ProductOf[orderLine'[q][p].pi] = p
                      /\ ~orderLine'[q][p].group =>
                            orderLine'[q][p].piQty <= PiQty[orderLine'[q][p].pi]
    BY DEF LinesMade
  <2>0. p \in Products /\ orderLine'[q][p].made
    BY DEF OrderLines
  <2>1. CASE q = o
    <3>1. Group(o, p) # {}
      BY <1>1, <2>0, <2>1 DEF NoOrderLine, PoInv, PoTypeOK
    <3>2. orderLine'[q][p] = MadeLine(Group(o, p), total[p])
      BY <1>1, <2>0, <2>1, <3>1 DEF PoInv, PoTypeOK
    <3> QED
      BY <2>0, <3>1, <3>2, LineMade
  <2>2. CASE q # o
    <3>1. orderLine'[q] = orderLine[q]
      BY <1>1, <2>2 DEF PoInv, PoTypeOK
    <3> QED
      BY <2>0, <3>1 DEF PoInv, LinesMade, OrderLines
  <2> QED
    BY <2>1, <2>2
<1> QED
  BY <1>4, <1>5, <1>6 DEF PoInv

LEMMA EditOrderLineInv ==
    ASSUME PoInv, NEW o \in Orders, NEW p \in Products, NEW n \in Qtys, EditOrderLine(o, p, n)
    PROVE  PoInv'
<1>1. n \in Nat
  BY OrderConstantsOK
<1>2. orderLine[o][p] \in OrderLine
  BY DEF PoInv, PoTypeOK, EditOrderLine, OrderLines, NoOrderLine
<1>3. [orderLine[o][p] EXCEPT !.qty = n] \in OrderLine
  BY <1>1, <1>2 DEF OrderLine
<1>4. orderLine' = [orderLine EXCEPT ![o] =
                      [orderLine[o] EXCEPT ![p] = [orderLine[o][p] EXCEPT !.qty = n]]]
  BY DEF EditOrderLine
<1>5. PoTypeOK'
  <2>1. orderLine' \in [Orders -> [Products -> OrderLine \union {NoOrderLine}]]
    BY <1>3, <1>4 DEF PoInv, PoTypeOK
  <2> QED
    BY <2>1 DEF PoInv, PoTypeOK, EditOrderLine, indentVars
<1>6. PendingWithinIndent'
  BY DEF PoInv, PendingWithinIndent, EditOrderLine, indentVars
<1>7. LinesMade'
  <2> SUFFICES ASSUME NEW q \in Orders, NEW r \in OrderLines(q)'
               PROVE  /\ ProductOf[orderLine'[q][r].pi] = r
                      /\ ~orderLine'[q][r].group =>
                            orderLine'[q][r].piQty <= PiQty[orderLine'[q][r].pi]
    BY DEF LinesMade
  <2>0. r \in Products /\ orderLine'[q][r].made
    BY DEF OrderLines
  <2>1. CASE q = o /\ r = p
    <3>1. orderLine'[q][r] = [orderLine[o][p] EXCEPT !.qty = n]
      BY <1>4, <2>1 DEF PoInv, PoTypeOK
    <3>2. /\ orderLine'[q][r].pi = orderLine[o][p].pi
          /\ orderLine'[q][r].piQty = orderLine[o][p].piQty
          /\ orderLine'[q][r].group = orderLine[o][p].group
      BY <1>2, <3>1 DEF OrderLine
    <3> QED
      BY <2>1, <3>2 DEF PoInv, LinesMade, EditOrderLine
  <2>2. CASE ~(q = o /\ r = p)
    <3>1. orderLine'[q][r] = orderLine[q][r]
      BY <1>4, <2>0, <2>2 DEF PoInv, PoTypeOK
    <3> QED
      BY <2>0, <3>1 DEF PoInv, LinesMade, OrderLines
  <2> QED
    BY <2>1, <2>2
<1> QED
  BY <1>5, <1>6, <1>7 DEF PoInv

\* The lines that are left of an order are what they were.
LEMMA LinesDropped ==
    ASSUME PoInv, PoTypeOK', UNCHANGED piPending,
           \A q \in Orders : \A r \in Products :
               orderLine'[q][r] \in {orderLine[q][r], NoOrderLine}
    PROVE  PoInv'
<1>1. PendingWithinIndent'
  BY DEF PoInv, PendingWithinIndent
<1>2. LinesMade'
  <2> SUFFICES ASSUME NEW q \in Orders, NEW r \in OrderLines(q)'
               PROVE  /\ ProductOf[orderLine'[q][r].pi] = r
                      /\ ~orderLine'[q][r].group =>
                            orderLine'[q][r].piQty <= PiQty[orderLine'[q][r].pi]
    BY DEF LinesMade
  <2>1. r \in Products /\ orderLine'[q][r].made
    BY DEF OrderLines
  <2>2. orderLine'[q][r] = orderLine[q][r]
    BY <2>1 DEF NoOrderLine
  <2> QED
    BY <2>1, <2>2 DEF PoInv, LinesMade, OrderLines
<1> QED
  BY <1>1, <1>2 DEF PoInv

LEMMA RemoveOrderLineInv ==
    ASSUME PoInv, NEW o \in Orders, NEW p \in Products, RemoveOrderLine(o, p)
    PROVE  PoInv'
<1>1. orderLine' = [orderLine EXCEPT ![o] = [orderLine[o] EXCEPT ![p] = NoOrderLine]]
  BY DEF RemoveOrderLine
<1>2. orderLine' \in [Orders -> [Products -> OrderLine \union {NoOrderLine}]]
  BY <1>1 DEF PoInv, PoTypeOK
<1>3. PoTypeOK'
  BY <1>2 DEF PoInv, PoTypeOK, RemoveOrderLine, LineStates
<1>4. \A q \in Orders : \A r \in Products :
         orderLine'[q][r] \in {orderLine[q][r], NoOrderLine}
  BY <1>1 DEF PoInv, PoTypeOK
<1> QED
  BY <1>3, <1>4, LinesDropped DEF RemoveOrderLine

LEMMA ConfirmInv ==
    ASSUME PoInv, NEW o \in Orders, confirm_po(o)
    PROVE  PoInv'
<1>1. SetOrder(o, "confirmed") /\ UNCHANGED <<atStart, picked, orderLine, indentVars>>
  BY DEF confirm_po
<1>2. PoTypeOK'
  BY <1>1, SetOrderTyped DEF PoInv, PoTypeOK, PoStates, indentVars
<1> QED
  BY <1>1, <1>2, LinesKept DEF indentVars

\* What an approval leaves of an indent line that it charges.
LEMMA ChargedWithin ==
    ASSUME PoInv, NEW o \in Orders, NEW x \in Charged(o),
           \A p \in OrderLines(o) : Within(orderLine[o][p])
    PROVE  x \in PiLines /\ Uncharged(LineFor(o, x)) \in 0 .. PiQty[x]
<1>1. PICK p \in OrderLines(o) : x = orderLine[o][p].pi
  BY DEF Charged, Named
<1>2. p \in Products /\ orderLine[o][p] \in OrderLine
  BY DEF PoInv, PoTypeOK, OrderLines, NoOrderLine
<1>3. ProductOf[x] = p
  BY <1>1 DEF PoInv, LinesMade
<1>4. LineFor(o, x) = orderLine[o][p] /\ ~orderLine[o][p].group
  BY <1>3 DEF LineFor, Charged
<1>5. x \in PiLines /\ orderLine[o][p].qty \in Nat /\ orderLine[o][p].piQty \in Nat
  BY <1>1, <1>2 DEF OrderLine
<1>6. PiQty[x] \in Nat
  BY <1>5, OrderConstantsOK
<1>7. orderLine[o][p].qty <= orderLine[o][p].piQty
  BY <1>1, <1>4 DEF Within
<1>8. orderLine[o][p].piQty <= PiQty[x]
  BY <1>1, <1>4 DEF PoInv, LinesMade
<1> QED
  BY <1>4, <1>5, <1>6, <1>7, <1>8 DEF Uncharged

LEMMA ApproveInv ==
    ASSUME PoInv, NEW o \in Orders, wkf_approve_order(o)
    PROVE  PoInv'
<1>1. \A p \in OrderLines(o) : Within(orderLine[o][p])
  BY DEF wkf_approve_order
<1>2. \A x \in PiLines : piPending'[x] \in 0 .. PiQty[x]
  <2> TAKE x \in PiLines
  <2>1. piPending'[x] = IF x \in Charged(o) THEN Uncharged(LineFor(o, x)) ELSE piPending[x]
    BY DEF wkf_approve_order
  <2>2. CASE x \in Charged(o)
    BY <1>1, <2>1, <2>2, ChargedWithin
  <2>3. CASE x \notin Charged(o)
    BY <2>1, <2>3 DEF PoInv, PendingWithinIndent
  <2> QED
    BY <2>2, <2>3
<1>3. piPending' \in [PiLines -> Nat]
  <2>1. \A x \in PiLines : piPending'[x] \in Nat
    BY <1>2, OrderConstantsOK
  <2>2. piPending' = [x \in PiLines |-> piPending'[x]]
    BY DEF wkf_approve_order
  <2> QED
    BY <2>1, <2>2
<1>4. lineState' \in [PiLines -> LineStates] /\ draftFlag' \in [PiLines -> BOOLEAN]
  BY DEF PoInv, PoTypeOK, wkf_approve_order, LineStates
<1>5. PoTypeOK'
  <2>1. SetOrder(o, "approved") /\ UNCHANGED <<picked, orderLine>>
    BY DEF wkf_approve_order
  <2>2. poState' \in [Orders -> PoStates] /\ poShown' \in [Orders -> SUBSET PoButtonStates]
    BY <2>1, SetOrderTyped DEF PoInv, PoStates
  <2>3. atStart' \in [Orders -> BOOLEAN]
    BY DEF PoInv, PoTypeOK, wkf_approve_order
  <2> QED
    BY <1>3, <1>4, <2>1, <2>2, <2>3 DEF PoInv, PoTypeOK
<1>6. PendingWithinIndent'
  BY <1>2 DEF PendingWithinIndent
<1>7. LinesMade'
  BY DEF PoInv, LinesMade, OrderLines, wkf_approve_order
<1> QED
  BY <1>5, <1>6, <1>7 DEF PoInv

LEMMA RejectInv ==
    ASSUME PoInv, NEW o \in Orders, entry_reject(o)
    PROVE  PoInv'
<1>1. SetOrder(o, "reject") /\ UNCHANGED <<atStart, picked, orderLine, piPending, draftFlag>>
  BY DEF entry_reject
<1>2. lineState' \in [PiLines -> LineStates]
  BY DEF PoInv, PoTypeOK, entry_reject, LineStates
<1>3. PoTypeOK'
  BY <1>1, <1>2, SetOrderTyped DEF PoInv, PoTypeOK, PoStates
<1> QED
  BY <1>1, <1>3, LinesKept

LEMMA UnlinkInv ==
    ASSUME PoInv, NEW o \in Orders, unlink(o)
    PROVE  PoInv'
<1>1. /\ SetOrder(o, "deleted")
      /\ UNCHANGED <<piPending, lineState>>
      /\ orderLine' = [orderLine EXCEPT ![o] = [p \in Products |-> NoOrderLine]]
  BY DEF unlink
<1>2. orderLine' \in [Orders -> [Products -> OrderLine \union {NoOrderLine}]]
  BY <1>1 DEF PoInv, PoTypeOK
<1>3. poState' \in [Orders -> PoStates] /\ poShown' \in [Orders -> SUBSET PoButtonStates]
  BY <1>1, SetOrderTyped DEF PoInv, PoStates
<1>4. /\ picked' \in [Orders -> SUBSET PiLines]
      /\ atStart' \in [Orders -> BOOLEAN]
      /\ draftFlag' \in [PiLines -> BOOLEAN]
  BY DEF PoInv, PoTypeOK, unlink
<1>5. PoTypeOK'
  BY <1>1, <1>2, <1>3, <1>4 DEF PoInv, PoTypeOK
<1>6. \A q \in Orders : \A r \in Products :
         orderLine'[q][r] \in {orderLine[q][r], NoOrderLine}
  BY <1>1 DEF PoInv, PoTypeOK
<1> QED
  BY <1>1, <1>5, <1>6, LinesDropped

LEMMA CloseInv ==
    ASSUME PoInv, NEW x \in PiLines, ClosePiLine(x)
    PROVE  PoInv'
<1>1. PoTypeOK'
  BY DEF PoInv, PoTypeOK, ClosePiLine, orderVars, LineStates
<1>2. \A y \in PiLines : piPending'[y] \in 0 .. PiQty[y]
  <2> TAKE y \in PiLines
  <2>1. piPending'[y] = 0 \/ piPending'[y] = piPending[y]
    BY DEF PoInv, PoTypeOK, ClosePiLine
  <2>2. piPending[y] \in Nat /\ PiQty[y] \in Nat /\ piPending[y] <= PiQty[y]
    BY PendingBounded
  <2> QED
    BY <2>1, <2>2
<1>3. PendingWithinIndent'
  BY <1>2 DEF PendingWithinIndent
<1>4. LinesMade'
  BY DEF PoInv, LinesMade, OrderLines, ClosePiLine, orderVars
<1> QED
  BY <1>1, <1>3, <1>4 DEF PoInv

LEMMA PoInvStep == PoInv /\ [Next]_vars => PoInv'
<1> SUFFICES ASSUME PoInv, [Next]_vars PROVE PoInv'
  OBVIOUS
<1>1. CASE UNCHANGED vars
  BY <1>1 DEF vars, orderVars, indentVars, PoInv, PoTypeOK, PendingWithinIndent,
              LinesMade, OrderLines
<1>2. ASSUME NEW o \in Orders, NEW S \in SUBSET PiLines, PickLines(o, S) PROVE PoInv'
  BY <1>2, PickLinesInv
<1>3. ASSUME NEW o \in Orders, update_poline(o) PROVE PoInv'
  BY <1>3, UpdateInv
<1>4. ASSUME NEW o \in Orders, NEW p \in Products, NEW n \in Qtys, EditOrderLine(o, p, n)
      PROVE PoInv'
  BY <1>4, EditOrderLineInv
<1>5. ASSUME NEW o \in Orders, NEW p \in Products, RemoveOrderLine(o, p) PROVE PoInv'
  BY <1>5, RemoveOrderLineInv
<1>6. ASSUME NEW o \in Orders, confirm_po(o) PROVE PoInv'
  BY <1>6, ConfirmInv
<1>7. ASSUME NEW o \in Orders, wkf_approve_order(o) PROVE PoInv'
  BY <1>7, ApproveInv
<1>8. ASSUME NEW o \in Orders, entry_reject(o) PROVE PoInv'
  BY <1>8, RejectInv
<1>9. ASSUME NEW o \in Orders, unlink(o) PROVE PoInv'
  BY <1>9, UnlinkInv
<1>10. ASSUME NEW x \in PiLines, ClosePiLine(x) PROVE PoInv'
  BY <1>10, CloseInv
<1> QED
  BY <1>1, <1>2, <1>3, <1>4, <1>5, <1>6, <1>7, <1>8, <1>9, <1>10 DEF Next

-----------------------------------------------------------------------------
(* The flags and the operations, for fresh forms *)

\* A flagged line that is out of process and not closed is named by a rejected
\* order, which keeps it.
RejectedKept ==
    \A x \in PiLines : draftFlag[x] /\ lineState[x] = "noprocess" =>
        \E o \in Orders : poState[o] = "reject" /\ x \in Named(o)

\* The inductive invariant: an order that is deleted releases only lines in
\* process, so somebody else must hold the others.
FlagInv == PoInv /\ FlagHasOrder /\ RejectedKept

\* The lines of an order name indent lines.
LEMMA NamedTyped ==
    ASSUME PoInv, NEW o \in Orders
    PROVE  Named(o) \subseteq PiLines
<1> SUFFICES ASSUME NEW p \in OrderLines(o) PROVE orderLine[o][p].pi \in PiLines
  BY DEF Named
<1>1. orderLine[o][p] \in OrderLine \union {NoOrderLine} /\ orderLine[o][p].made
  BY DEF PoInv, PoTypeOK, OrderLines
<1>2. orderLine[o][p] \in OrderLine
  BY <1>1 DEF NoOrderLine
<1> QED
  BY <1>2 DEF OrderLine

\* The line for a named indent line is the one that names it.
LEMMA LineForNamed ==
    ASSUME PoInv, NEW o \in Orders, NEW x \in Named(o)
    PROVE  /\ x \in PiLines /\ ProductOf[x] \in OrderLines(o)
           /\ LineFor(o, x) \in OrderLine /\ LineFor(o, x).pi = x
<1>1. PICK p \in OrderLines(o) : x = orderLine[o][p].pi
  BY DEF Named
<1>2. ProductOf[x] = p
  BY <1>1 DEF PoInv, LinesMade
<1>3. orderLine[o][p] \in OrderLine \union {NoOrderLine} /\ orderLine[o][p].made
  BY DEF PoInv, PoTypeOK, OrderLines
<1>4. orderLine[o][p] \in OrderLine
  BY <1>3 DEF NoOrderLine
<1> QED
  BY <1>1, <1>2, <1>4 DEF LineFor, OrderLine

\* What an order names and holds follows from its row and its lines.
LEMMA HoldsFollows ==
    ASSUME NEW o \in Orders, poState'[o] = poState[o], orderLine'[o] = orderLine[o]
    PROVE  /\ Named(o)' = Named(o)
           /\ \A x : Holds(o, x)' <=> Holds(o, x)
  BY DEF Holds, Named, OrderLines, LineFor

\* A step keeps the flags if each line flagged after it was flagged before and
\* keeps its holders, or is closed, newly held, or kept by a rejected order.
LEMMA FlagsKept ==
    ASSUME FlagInv, PoInv',
           \A x \in PiLines : draftFlag'[x] =>
              \/ /\ draftFlag[x]
                 /\ lineState'[x] = lineState[x]
                 /\ \A q \in Orders : Holds(q, x) => Holds(q, x)'
                 /\ \A q \in Orders : poState[q] = "reject" /\ x \in Named(q) =>
                                         poState'[q] = "reject" /\ x \in Named(q)'
              \/ lineState'[x] = "cancel"
              \/ lineState'[x] = "process" /\ \E q \in Orders : Holds(q, x)'
              \/ \E q \in Orders : poState'[q] = "reject" /\ x \in Named(q)'
    PROVE  FlagInv'
<1>1. FlagHasOrder'
  <2> SUFFICES ASSUME NEW x \in PiLines, draftFlag'[x], lineState'[x] # "cancel"
               PROVE  \E q \in Orders : Holds(q, x)'
    BY DEF FlagHasOrder
  <2>1. \A q \in Orders : poState'[q] = "reject" /\ x \in Named(q)' => Holds(q, x)'
    BY DEF Holds
  <2>2. draftFlag[x] /\ lineState[x] # "cancel" => \E q \in Orders : Holds(q, x)
    BY DEF FlagInv, FlagHasOrder
  <2> QED
    BY <2>1, <2>2
<1>2. RejectedKept'
  <2> SUFFICES ASSUME NEW x \in PiLines, draftFlag'[x], lineState'[x] = "noprocess"
               PROVE  \E q \in Orders : poState'[q] = "reject" /\ x \in Named(q)'
    BY DEF RejectedKept
  <2>1. draftFlag[x] /\ lineState[x] = "noprocess" =>
           \E q \in Orders : poState[q] = "reject" /\ x \in Named(q)
    BY DEF FlagInv, RejectedKept
  <2> QED
    BY <2>1
<1> QED
  BY <1>1, <1>2 DEF FlagInv

\* The user picks, edits, or confirms: no flag is written.
LEMMA FormFlags ==
    ASSUME FlagInv, PoInv', ~PoStale, NEW o \in Orders,
           \/ \E S \in SUBSET PiLines : PickLines(o, S)
           \/ \E p \in Products, n \in Qtys : EditOrderLine(o, p, n)
           \/ confirm_po(o)
    PROVE  FlagInv'
<1>1. /\ UNCHANGED <<draftFlag, lineState>>
      /\ \A q \in Orders : /\ poState'[q] = "approved" <=> poState[q] = "approved"
                           /\ poState[q] = "reject" => poState'[q] = "reject"
  BY DEF PickLines, EditOrderLine, confirm_po, PoShows, SetOrder, indentVars,
         FlagInv, PoInv, PoTypeOK
<1>2. ASSUME NEW q \in Orders, NEW r \in Products
      PROVE  /\ orderLine'[q][r].made <=> orderLine[q][r].made
             /\ orderLine[q][r].made => /\ orderLine'[q][r].pi = orderLine[q][r].pi
                                        /\ orderLine'[q][r].group = orderLine[q][r].group
  <2>1. CASE UNCHANGED orderLine
    BY <2>1
  <2>2. ASSUME NEW p \in Products, NEW n \in Qtys, EditOrderLine(o, p, n)
        PROVE  /\ orderLine'[q][r].made <=> orderLine[q][r].made
               /\ orderLine[q][r].made => /\ orderLine'[q][r].pi = orderLine[q][r].pi
                                          /\ orderLine'[q][r].group = orderLine[q][r].group
    <3>1. orderLine[o][p] \in OrderLine
      <4>1. orderLine[o][p] \in OrderLine \union {NoOrderLine} /\ orderLine[o][p].made
        BY <2>2 DEF EditOrderLine, OrderLines, FlagInv, PoInv, PoTypeOK
      <4> QED
        BY <4>1 DEF NoOrderLine
    <3>2. CASE q = o /\ r = p
      <4>1. orderLine'[q][r] = [orderLine[q][r] EXCEPT !.qty = n]
        BY <2>2, <3>2 DEF EditOrderLine, FlagInv, PoInv, PoTypeOK
      <4> QED
        BY <3>1, <3>2, <4>1 DEF OrderLine
    <3>3. CASE ~ (q = o /\ r = p)
      <4>1. orderLine'[q][r] = orderLine[q][r]
        BY <2>2, <3>3 DEF EditOrderLine, FlagInv, PoInv, PoTypeOK
      <4> QED
        BY <4>1
    <3> QED
      BY <3>2, <3>3
  <2>3. UNCHANGED orderLine \/ \E p \in Products, n \in Qtys : EditOrderLine(o, p, n)
    BY DEF PickLines, confirm_po
  <2> QED
    BY <2>1, <2>2, <2>3
<1>3. \A q \in Orders : OrderLines(q)' = OrderLines(q)
  BY <1>2 DEF OrderLines
<1>4. \A q \in Orders : Named(q)' = Named(q)
  BY <1>2, <1>3 DEF Named, OrderLines
<1>5. ASSUME NEW q \in Orders, NEW x \in PiLines, Holds(q, x)
      PROVE  Holds(q, x)'
  <2>1. x \in Named(q) /\ x \in Named(q)'
    BY <1>4, <1>5 DEF Holds
  <2>2. ProductOf[x] \in Products /\ LineFor(q, x).made
    BY <2>1, LineForNamed DEF FlagInv, OrderLines, LineFor
  <2>3. LineFor(q, x)'.group = LineFor(q, x).group
    BY <1>2, <2>2 DEF LineFor
  <2> QED
    BY <1>1, <1>5, <2>1, <2>3 DEF Holds
<1> QED
  BY <1>1, <1>4, <1>5, FlagsKept

\* "Save Record": what the order named is released, what it names is flagged.
LEMMA UpdateFlags ==
    ASSUME FlagInv, PoInv', ~PoStale, NEW o \in Orders, update_poline(o)
    PROVE  FlagInv'
<1>0. PoTypeOK
  BY DEF FlagInv, PoInv
<1>1. Open(o) /\ poState' = poState
  BY DEF update_poline, PoShows, Open
<1>2. PICK total \in Totals(o) : orderLine' = [orderLine EXCEPT ![o] =
                [p \in Products |-> IF Group(o, p) = {} THEN NoOrderLine
                                   ELSE MadeLine(Group(o, p), total[p])]]
  BY DEF update_poline
<1>3. \A q \in Orders \ {o} : orderLine'[q] = orderLine[q]
  BY <1>0, <1>2 DEF PoTypeOK
<1>4. ASSUME NEW x \in Firsts(o)
      PROVE  Holds(o, x)'
  <2> DEFINE p == ProductOf[x]
  <2>1. x \in Group(o, p) /\ x = First(Group(o, p)) /\ p \in Products
    BY <1>0, OrderConstantsOK DEF Firsts, Group, PoTypeOK
  <2>2. orderLine'[o][p] = MadeLine(Group(o, p), total[p])
    BY <1>0, <1>2, <2>1 DEF PoTypeOK
  <2>3. orderLine'[o][p].made /\ orderLine'[o][p].pi = x
    BY <2>1, <2>2 DEF MadeLine
  <2>4. x \in Named(o)'
    BY <2>1, <2>3 DEF Named, OrderLines
  <2> QED
    BY <1>1, <2>4 DEF Holds, Open
<1>5. ASSUME NEW x \in PiLines, draftFlag'[x], x \notin Firsts(o)
      PROVE  /\ draftFlag[x] /\ x \notin Named(o)
             /\ lineState'[x] = lineState[x]
  BY <1>5 DEF update_poline, Unloaded
<1>6. \A x \in Firsts(o) : x \in PiLines => lineState'[x] = "process"
  BY DEF update_poline
<1>7. \A q \in Orders \ {o} : Named(q)' = Named(q) /\ \A x : Holds(q, x)' <=> Holds(q, x)
  BY <1>1, <1>3, HoldsFollows
<1>8. ASSUME NEW x \in PiLines, draftFlag'[x]
      PROVE  \/ /\ draftFlag[x]
                /\ lineState'[x] = lineState[x]
                /\ \A q \in Orders : Holds(q, x) => Holds(q, x)'
                /\ \A q \in Orders : poState[q] = "reject" /\ x \in Named(q) =>
                                        poState'[q] = "reject" /\ x \in Named(q)'
             \/ lineState'[x] = "process" /\ \E q \in Orders : Holds(q, x)'
  <2>1. CASE x \in Firsts(o)
    BY <1>4, <1>6, <2>1
  <2>2. CASE x \notin Firsts(o)
    <3>1. draftFlag[x] /\ x \notin Named(o) /\ lineState'[x] = lineState[x]
      BY <1>5, <1>8, <2>2
    <3>2. \A q \in Orders : Holds(q, x) => Holds(q, x)'
      BY <1>7, <3>1 DEF Holds
    <3>3. \A q \in Orders : poState[q] = "reject" /\ x \in Named(q) =>
                               poState'[q] = "reject" /\ x \in Named(q)'
      BY <1>1, <1>7, <3>1
    <3> QED
      BY <3>1, <3>2, <3>3
  <2> QED
    BY <2>1, <2>2
<1> QED
  BY <1>8, FlagsKept

\* A line that the user removes releases what it names.
LEMMA RemoveOrderLineFlags ==
    ASSUME FlagInv, PoInv', NEW o \in Orders, NEW p \in Products, RemoveOrderLine(o, p)
    PROVE  FlagInv'
<1> DEFINE y == orderLine[o][p].pi
<1>0. PoInv /\ PoTypeOK
  BY DEF FlagInv, PoInv
<1>1. /\ Open(o) /\ p \in OrderLines(o)
      /\ poState' = poState
      /\ orderLine' = [orderLine EXCEPT ![o] = [orderLine[o] EXCEPT ![p] = NoOrderLine]]
      /\ lineState' = [lineState EXCEPT ![y] = "process"]
      /\ draftFlag' = [draftFlag EXCEPT ![y] = FALSE]
  BY DEF RemoveOrderLine, Open
<1>2. y \in PiLines
  BY <1>0, <1>1, NamedTyped DEF Named
<1>3. \A q \in Orders \ {o} : Named(q)' = Named(q) /\ \A x : Holds(q, x)' <=> Holds(q, x)
  <2>1. \A q \in Orders \ {o} : orderLine'[q] = orderLine[q] /\ poState'[q] = poState[q]
    BY <1>0, <1>1 DEF PoTypeOK
  <2> QED
    BY <2>1, HoldsFollows
<1>4. ASSUME NEW x \in PiLines, draftFlag'[x]
      PROVE  /\ draftFlag[x]
             /\ lineState'[x] = lineState[x]
             /\ \A q \in Orders : Holds(q, x) => Holds(q, x)'
             /\ \A q \in Orders : poState[q] = "reject" /\ x \in Named(q) =>
                                     poState'[q] = "reject" /\ x \in Named(q)'
  <2>1. x # y /\ draftFlag[x] /\ lineState'[x] = lineState[x]
    BY <1>0, <1>1, <1>2, <1>4 DEF PoTypeOK
  <2>2. x \in Named(o) => x \in Named(o)'
    <3> SUFFICES ASSUME x \in Named(o) PROVE x \in Named(o)'
      OBVIOUS
    <3>1. PICK r \in OrderLines(o) : x = orderLine[o][r].pi
      BY DEF Named
    <3>2. r # p /\ r \in Products /\ orderLine'[o][r] = orderLine[o][r]
      BY <1>0, <1>1, <2>1, <3>1 DEF OrderLines, PoTypeOK
    <3> QED
      BY <3>1, <3>2 DEF Named, OrderLines
  <2>3. Holds(o, x) => Holds(o, x)'
    BY <1>1, <2>2 DEF Holds, Open
  <2> QED
    BY <1>1, <1>3, <2>1, <2>2, <2>3 DEF Open
<1> QED
  BY <1>4, FlagsKept

\* An approval releases what it charges; what it does not charge it holds.
LEMMA ApproveFlags ==
    ASSUME FlagInv, PoInv', ~PoStale, NEW o \in Orders, wkf_approve_order(o)
    PROVE  FlagInv'
<1>0. PoInv /\ PoTypeOK
  BY DEF FlagInv, PoInv
<1>1. /\ Open(o) /\ orderLine' = orderLine
      /\ poState' = [poState EXCEPT ![o] = "approved"]
  BY DEF wkf_approve_order, PoShows, Open, SetOrder
<1>2. \A q \in Orders \ {o} : /\ poState'[q] = poState[q]
                              /\ Named(q)' = Named(q)
                              /\ \A x : Holds(q, x)' <=> Holds(q, x)
  BY <1>0, <1>1, HoldsFollows DEF PoTypeOK
<1>3. ASSUME NEW x \in PiLines, draftFlag'[x]
      PROVE  /\ draftFlag[x]
             /\ lineState'[x] = lineState[x]
             /\ \A q \in Orders : Holds(q, x) => Holds(q, x)'
             /\ \A q \in Orders : poState[q] = "reject" /\ x \in Named(q) =>
                                     poState'[q] = "reject" /\ x \in Named(q)'
  <2>1. draftFlag[x] /\ x \notin Charged(o) /\ lineState'[x] = lineState[x]
    BY <1>3 DEF wkf_approve_order
  <2>2. x \in Named(o) => LineFor(o, x).group
    BY <2>1 DEF Charged
  <2>3. Holds(o, x) => Holds(o, x)'
    BY <1>1, <2>2 DEF Holds, Named, OrderLines, LineFor
  <2> QED
    BY <1>1, <1>2, <2>1, <2>3 DEF Open
<1> QED
  BY <1>3, FlagsKept

\* A rejected order keeps what it names.
LEMMA RejectFlags ==
    ASSUME FlagInv, PoInv', ~PoStale, NEW o \in Orders, entry_reject(o)
    PROVE  FlagInv'
<1>0. PoInv /\ PoTypeOK
  BY DEF FlagInv, PoInv
<1>1. /\ Open(o) /\ UNCHANGED <<orderLine, draftFlag>>
      /\ poState' = [poState EXCEPT ![o] = "reject"]
      /\ lineState' = [x \in PiLines |-> IF x \in Named(o) THEN "noprocess" ELSE lineState[x]]
  BY DEF entry_reject, PoShows, Open, SetOrder
<1>2. \A q \in Orders : Named(q)' = Named(q)
  BY <1>1 DEF Named, OrderLines
<1>3. \A q \in Orders \ {o} : /\ poState'[q] = poState[q]
                              /\ \A x : Holds(q, x)' <=> Holds(q, x)
  BY <1>0, <1>1, HoldsFollows DEF PoTypeOK
<1>4. poState'[o] = "reject"
  BY <1>0, <1>1 DEF PoTypeOK
<1>5. ASSUME NEW x \in PiLines, draftFlag'[x]
      PROVE  \/ /\ draftFlag[x]
                /\ lineState'[x] = lineState[x]
                /\ \A q \in Orders : Holds(q, x) => Holds(q, x)'
                /\ \A q \in Orders : poState[q] = "reject" /\ x \in Named(q) =>
                                        poState'[q] = "reject" /\ x \in Named(q)'
             \/ \E q \in Orders : poState'[q] = "reject" /\ x \in Named(q)'
  <2>1. CASE x \in Named(o)
    BY <1>2, <1>4, <2>1
  <2>2. CASE x \notin Named(o)
    <3>1. draftFlag[x] /\ lineState'[x] = lineState[x]
      BY <1>1, <1>5, <2>2
    <3>2. \A q \in Orders : Holds(q, x) => Holds(q, x)'
      BY <1>3, <2>2 DEF Holds
    <3> QED
      BY <1>2, <1>3, <2>2, <3>1, <3>2
  <2> QED
    BY <2>1, <2>2
<1> QED
  BY <1>5, FlagsKept

\* A deletion releases what is in process; the rest is closed or a rejected
\* order's.
LEMMA UnlinkFlags ==
    ASSUME FlagInv, PoInv', NEW o \in Orders, unlink(o)
    PROVE  FlagInv'
<1>0. PoInv /\ PoTypeOK
  BY DEF FlagInv, PoInv
<1>1. /\ Open(o) /\ lineState' = lineState
      /\ poState' = [poState EXCEPT ![o] = "deleted"]
      /\ orderLine' = [orderLine EXCEPT ![o] = [p \in Products |-> NoOrderLine]]
  BY DEF unlink, Open, SetOrder
<1>2. \A q \in Orders \ {o} : /\ poState'[q] = poState[q]
                              /\ Named(q)' = Named(q)
                              /\ \A x : Holds(q, x)' <=> Holds(q, x)
  <2>1. \A q \in Orders \ {o} : orderLine'[q] = orderLine[q] /\ poState'[q] = poState[q]
    BY <1>0, <1>1 DEF PoTypeOK
  <2> QED
    BY <2>1, HoldsFollows
<1>3. ASSUME NEW x \in PiLines, draftFlag'[x]
      PROVE  \/ /\ draftFlag[x]
                /\ lineState'[x] = lineState[x]
                /\ \A q \in Orders : Holds(q, x) => Holds(q, x)'
                /\ \A q \in Orders : poState[q] = "reject" /\ x \in Named(q) =>
                                        poState'[q] = "reject" /\ x \in Named(q)'
             \/ lineState'[x] = "cancel"
             \/ \E q \in Orders : poState'[q] = "reject" /\ x \in Named(q)'
  <2>1. draftFlag[x] /\ (x \notin Named(o) \/ lineState[x] # "process")
    BY <1>3 DEF unlink
  <2>2. CASE x \notin Named(o)
    <3>1. \A q \in Orders : Holds(q, x) => Holds(q, x)'
      BY <1>2, <2>2 DEF Holds
    <3> QED
      BY <1>1, <1>2, <2>1, <2>2, <3>1
  <2>3. CASE lineState[x] = "noprocess"
    <3>1. PICK q \in Orders : poState[q] = "reject" /\ x \in Named(q)
      BY <2>1, <2>3 DEF FlagInv, RejectedKept
    <3>2. q # o
      BY <1>1, <3>1 DEF Open
    <3> QED
      BY <1>2, <3>1, <3>2
  <2>4. CASE lineState[x] = "cancel"
    BY <1>1, <2>4
  <2> QED
    BY <1>0, <2>1, <2>2, <2>3, <2>4 DEF PoTypeOK, LineStates
<1> QED
  BY <1>3, FlagsKept

LEMMA CloseFlags ==
    ASSUME FlagInv, PoInv', NEW y \in PiLines, ClosePiLine(y)
    PROVE  FlagInv'
<1>0. PoTypeOK
  BY DEF FlagInv, PoInv
<1>1. /\ UNCHANGED <<poState, orderLine>>
      /\ lineState' = [lineState EXCEPT ![y] = "cancel"]
      /\ draftFlag' = [draftFlag EXCEPT ![y] = TRUE]
  BY DEF ClosePiLine, orderVars
<1>2. \A q \in Orders : Named(q)' = Named(q) /\ \A x : Holds(q, x)' <=> Holds(q, x)
  BY <1>1, HoldsFollows
<1>3. \A x \in PiLines : x = y \/ (draftFlag'[x] = draftFlag[x] /\ lineState'[x] = lineState[x])
  BY <1>0, <1>1 DEF PoTypeOK
<1>4. lineState'[y] = "cancel"
  BY <1>0, <1>1 DEF PoTypeOK
<1> QED
  BY <1>1, <1>2, <1>3, <1>4, FlagsKept

LEMMA FlagInvInit == Init => FlagInv
<1> SUFFICES ASSUME Init PROVE FlagInv
  OBVIOUS
<1>1. \A x \in PiLines : ~draftFlag[x]
  BY DEF Init
<1> QED
  BY <1>1, PoInvInit DEF FlagInv, FlagHasOrder, RejectedKept

LEMMA FlagInvStep ==
    ASSUME ~PoStale
    PROVE  FlagInv /\ [Next]_vars => FlagInv'
<1> SUFFICES ASSUME FlagInv, [Next]_vars PROVE FlagInv'
  OBVIOUS
<1>0. PoInv'
  BY PoInvStep DEF FlagInv
<1>1. CASE UNCHANGED vars
  BY <1>0, <1>1, HoldsFollows, FlagsKept DEF vars, orderVars, indentVars
<1>2. ASSUME NEW o \in Orders,
             \/ \E S \in SUBSET PiLines : PickLines(o, S)
             \/ \E p \in Products, n \in Qtys : EditOrderLine(o, p, n)
             \/ confirm_po(o)
      PROVE  FlagInv'
  BY <1>0, <1>2, FormFlags
<1>3. ASSUME NEW o \in Orders, update_poline(o) PROVE FlagInv'
  BY <1>0, <1>3, UpdateFlags
<1>4. ASSUME NEW o \in Orders, NEW p \in Products, RemoveOrderLine(o, p) PROVE FlagInv'
  BY <1>0, <1>4, RemoveOrderLineFlags
<1>5. ASSUME NEW o \in Orders, wkf_approve_order(o) PROVE FlagInv'
  BY <1>0, <1>5, ApproveFlags
<1>6. ASSUME NEW o \in Orders, entry_reject(o) PROVE FlagInv'
  BY <1>0, <1>6, RejectFlags
<1>7. ASSUME NEW o \in Orders, unlink(o) PROVE FlagInv'
  BY <1>0, <1>7, UnlinkFlags
<1>8. ASSUME NEW x \in PiLines, ClosePiLine(x) PROVE FlagInv'
  BY <1>0, <1>8, CloseFlags
<1> QED
  BY <1>1, <1>2, <1>3, <1>4, <1>5, <1>6, <1>7, <1>8 DEF Next

-----------------------------------------------------------------------------
(* Theorems *)

\* From any form and however orders overlap, no approval leaves an indent
\* line with less than nothing or with more than it asked for to order.
THEOREM IndentPendingKept == Spec => [](PoTypeOK /\ PendingWithinIndent)
<1>1. PoInv => PoTypeOK /\ PendingWithinIndent
  BY DEF PoInv
<1> QED
  BY PoInvInit, PoInvStep, <1>1, PTL DEF Spec

\* FlagHasOrder, for fresh forms and whatever users pick: as long as an indent
\* line is not closed, it is flagged only while some order holds it.
THEOREM FlagsHaveOrder ==
    ASSUME ~PoStale
    PROVE  Spec => []FlagHasOrder
<1>1. FlagInv => FlagHasOrder
  BY DEF FlagInv
<1>2. FlagInv /\ [Next]_vars => FlagInv'
  BY FlagInvStep
<1> QED
  BY FlagInvInit, <1>1, <1>2, PTL DEF Spec

-----------------------------------------------------------------------------
(* What is ordered, for fresh forms, as long as no order line stands for    *)
(* several indent lines                                                     *)

Alone == \A o \in Orders : \A p \in OrderLines(o) : ~orderLine[o][p].group

\* What an open order's line was made with may be more than is pending now,
\* since another order may have charged the indent line since, but with what
\* approved orders order it is never less than what the indent asked for.
NamedPending ==
    \A o \in Orders : Open(o) =>
        \A x \in Named(o) : /\ lineState[x] # "cancel"
                            /\ LineFor(o, x).piQty + Ordered(x) >= PiQty[x]

\* A closed line has nothing pending, so it is never loaded again.
ClosedEmpty == \A x \in PiLines : lineState[x] = "cancel" => piPending[x] = 0

TakenInv == PoInv /\ Alone /\ NamedPending /\ ClosedEmpty /\ TakenIsOrdered

\* What order o orders of indent line x.
OrderedBy(o, x) == IF poState[o] = "approved" /\ x \in Named(o) THEN LineFor(o, x).qty ELSE 0

LEMMA OrdersTyped ==
    ASSUME PoInv, NEW o \in Orders, NEW x
    PROVE  /\ OrderedBy(o, x) \in Nat
           /\ x \in Named(o) => LineFor(o, x).qty \in Nat /\ LineFor(o, x).piQty \in Nat
<1>1. x \in Named(o) => LineFor(o, x).qty \in Nat /\ LineFor(o, x).piQty \in Nat
  BY LineForNamed DEF OrderLine
<1> QED
  BY <1>1 DEF OrderedBy

LEMMA OrderedTyped == ASSUME PoInv, NEW x PROVE Ordered(x) \in Nat
<1> DEFINE f == [o \in Orders |-> OrderedBy(o, x)]
<1>1. \A o \in Orders : f[o] \in Nat
  BY OrdersTyped
<1>2. Ordered(x) = SumFunctionOnSet(f, Orders)
  BY DEF Ordered, OrderedBy
<1> HIDE DEF f
<1> QED
  BY <1>1, <1>2, OrderConstantsOK, SumIsNat

\* What is ordered depends on the approved orders only.
LEMMA OrderedKept ==
    ASSUME \A o \in Orders :
               /\ poState'[o] = "approved" <=> poState[o] = "approved"
               /\ poState[o] = "approved" => orderLine'[o] = orderLine[o],
           NEW x
    PROVE  Ordered(x)' = Ordered(x)
<1>1. ASSUME NEW o \in Orders
      PROVE  OrderedBy(o, x)' = OrderedBy(o, x)
  <2>1. poState[o] = "approved" => Named(o)' = Named(o) /\ LineFor(o, x)' = LineFor(o, x)
    BY DEF Named, OrderLines, LineFor
  <2> QED
    BY <2>1 DEF OrderedBy
<1>2. [o \in Orders |-> OrderedBy(o, x)'] = [o \in Orders |-> OrderedBy(o, x)]
  BY <1>1
<1>3. /\ Ordered(x) = SumFunctionOnSet([o \in Orders |-> OrderedBy(o, x)], Orders)
      /\ Ordered(x)' = SumFunctionOnSet([o \in Orders |-> OrderedBy(o, x)'], Orders)
  BY DEF Ordered, OrderedBy
<1> QED
  BY <1>2, <1>3

\* Steps that approve and close nothing.
LEMMA TakenKept ==
    ASSUME TakenInv, PoInv', Alone', NamedPending', piPending' = piPending,
           \A x \in PiLines : lineState'[x] = "cancel" <=> lineState[x] = "cancel",
           \A x \in PiLines : Ordered(x)' = Ordered(x)
    PROVE  TakenInv'
<1>1. TakenIsOrdered' /\ ClosedEmpty'
  BY DEF TakenInv, TakenIsOrdered, ClosedEmpty
<1> QED
  BY <1>1 DEF TakenInv

\* Steps after which the lines of the open orders are some of those before.
LEMMA NamedPendingKept ==
    ASSUME TakenInv, PoInv',
           \A x \in PiLines : lineState'[x] = "cancel" <=> lineState[x] = "cancel",
           \A x \in PiLines : Ordered(x)' = Ordered(x),
           \A o \in Orders : Open(o)' => Open(o),
           \A o \in Orders : \A p \in Products :
               orderLine'[o][p].made => /\ orderLine[o][p].made
                                        /\ orderLine'[o][p].pi = orderLine[o][p].pi
                                        /\ orderLine'[o][p].piQty = orderLine[o][p].piQty
                                        /\ orderLine'[o][p].group = orderLine[o][p].group
    PROVE  Alone' /\ NamedPending'
<1>1. Alone'
  BY DEF TakenInv, Alone, OrderLines
<1>2. ASSUME NEW o \in Orders, Open(o)', NEW x \in Named(o)'
      PROVE  lineState'[x] # "cancel" /\ LineFor(o, x)'.piQty + Ordered(x)' >= PiQty[x]
  <2>1. PICK p \in OrderLines(o)' : x = orderLine'[o][p].pi
    BY DEF Named
  <2>2. p \in OrderLines(o) /\ x = orderLine[o][p].pi /\ p \in Products
        /\ orderLine'[o][p].piQty = orderLine[o][p].piQty
    BY <2>1 DEF OrderLines
  <2>3. x \in Named(o) /\ Open(o) /\ ProductOf[x] = p /\ x \in PiLines
    BY <1>2, <2>2, LineForNamed DEF Named, TakenInv, PoInv, LinesMade
  <2>4. lineState[x] # "cancel" /\ LineFor(o, x).piQty + Ordered(x) >= PiQty[x]
    BY <2>3 DEF TakenInv, NamedPending
  <2> QED
    BY <2>2, <2>3, <2>4 DEF LineFor
<1>3. NamedPending'
  BY <1>2 DEF NamedPending
<1> QED
  BY <1>1, <1>3

\* What is made from a picked line that is the only one of its product.
LEMMA LoadedAlone ==
    ASSUME PoInv, NEW o \in Orders, NEW x \in picked[o], ~Several(Group(o, ProductOf[x]))
    PROVE  /\ x \in PiLines
           /\ Group(o, ProductOf[x]) = {x}
           /\ First(Group(o, ProductOf[x])) = x
           /\ SumFunctionOnSet(piPending, Group(o, ProductOf[x])) = piPending[x]
<1>1. x \in PiLines /\ picked[o] \subseteq PiLines
  BY DEF PoInv, PoTypeOK
<1>2. Group(o, ProductOf[x]) = {x}
  BY <1>1 DEF Group, Several
<1>3. First({x}) = x
  BY <1>1, FirstIsOne
<1>4. SumFunctionOnSet(piPending, {x}) = piPending[x]
  BY <1>1, SumOne DEF PoInv, PoTypeOK
<1> QED
  BY <1>1, <1>2, <1>3, <1>4

LEMMA UpdateTaken ==
    ASSUME TakenInv, PoInv', Alone', ~PoStale, NEW o \in Orders, update_poline(o)
    PROVE  TakenInv'
<1> USE DEF TakenInv
<1>0. PoInv /\ PoInv' /\ PoTypeOK
  BY DEF PoInv
<1>1. Open(o) /\ UNCHANGED <<poState, picked, piPending>>
  BY DEF update_poline, PoShows, Open
<1>2. PICK total \in Totals(o) :
        /\ \A x \in picked[o] : total[ProductOf[x]] > 0
        /\ orderLine' = [orderLine EXCEPT ![o] =
              [p \in Products |-> IF Group(o, p) = {} THEN NoOrderLine
                                 ELSE MadeLine(Group(o, p), total[p])]]
  BY DEF update_poline
<1>3. \A q \in Orders \ {o} : orderLine'[q] = orderLine[q]
  BY <1>0, <1>2 DEF PoTypeOK
<1>4. ASSUME NEW x \in picked[o]
      PROVE  ~Several(Group(o, ProductOf[x]))
  <2> DEFINE p == ProductOf[x]
  <2>1. x \in Group(o, p) /\ p \in Products
    BY <1>0, OrderConstantsOK DEF Group, PoTypeOK
  <2>2. orderLine'[o][p] = MadeLine(Group(o, p), total[p])
    BY <1>0, <1>2, <2>1 DEF PoTypeOK
  <2>3. orderLine'[o][p].made /\ orderLine'[o][p].group = Several(Group(o, p))
    BY <2>2 DEF MadeLine
  <2> QED
    BY <2>1, <2>3 DEF Alone, OrderLines
<1>5. ASSUME NEW p \in OrderLines(o)'
      PROVE  \E x \in picked[o] : /\ ProductOf[x] = p
                                  /\ orderLine'[o][p].pi = x
                                  /\ ~orderLine'[o][p].group
                                  /\ orderLine'[o][p].piQty = piPending[x]
  <2>1. p \in Products /\ orderLine'[o][p].made
    BY DEF OrderLines
  <2>2. orderLine'[o][p] = IF Group(o, p) = {} THEN NoOrderLine
                           ELSE MadeLine(Group(o, p), total[p])
    BY <1>0, <1>2, <2>1 DEF PoTypeOK
  <2>3. PICK x \in Group(o, p) : orderLine'[o][p] = MadeLine(Group(o, p), total[p])
    BY <2>1, <2>2 DEF NoOrderLine
  <2>4. x \in picked[o] /\ ProductOf[x] = p
    BY DEF Group
  <2>5. ~Several(Group(o, p)) /\ First(Group(o, p)) = x
    BY <1>0, <1>4, <2>4, LoadedAlone
  <2> QED
    BY <2>3, <2>4, <2>5 DEF MadeLine, LoadedQty
<1>6. ASSUME NEW x \in picked[o]
      PROVE  x \in PiLines /\ lineState[x] # "cancel" /\ x \in Firsts(o)
  <2>1. x \in PiLines /\ First(Group(o, ProductOf[x])) = x
        /\ SumFunctionOnSet(piPending, Group(o, ProductOf[x])) = piPending[x]
    BY <1>0, <1>4, LoadedAlone
  <2>2. total[ProductOf[x]] = piPending[x]
    BY <2>1, OrderConstantsOK DEF Totals
  <2>3. piPending[x] # 0
    BY <1>2, <2>2
  <2> QED
    BY <2>1, <2>3 DEF ClosedEmpty, Firsts
<1>7. \A x \in Named(o) : lineState[x] # "cancel"
  BY <1>1 DEF NamedPending
<1>8. \A x \in PiLines : lineState'[x] = IF x \in Named(o) \union Firsts(o) THEN "process"
                                         ELSE lineState[x]
  BY DEF update_poline, Unloaded
<1>9. \A x \in PiLines : lineState'[x] = "cancel" <=> lineState[x] = "cancel"
  BY <1>6, <1>7, <1>8 DEF Firsts
<1>10. \A q \in Orders : poState[q] = "approved" => orderLine'[q] = orderLine[q]
  BY <1>1, <1>3 DEF Open
<1>11. \A x : Ordered(x)' = Ordered(x)
  BY <1>1, <1>10, OrderedKept
<1>12. NamedPending'
  <2> SUFFICES ASSUME NEW q \in Orders, Open(q)', NEW x \in Named(q)'
               PROVE  lineState'[x] # "cancel" /\ LineFor(q, x)'.piQty + Ordered(x)' >= PiQty[x]
    BY DEF NamedPending
  <2>1. CASE q = o
    <3>1. PICK p \in OrderLines(o)' : x = orderLine'[o][p].pi
      BY <2>1 DEF Named
    <3>2. x \in picked[o] /\ ProductOf[x] = p /\ orderLine'[o][p].piQty = piPending[x]
      BY <1>5, <3>1
    <3>3. x \in PiLines /\ lineState[x] # "cancel" /\ lineState'[x] # "cancel"
      BY <1>6, <1>9, <3>2
    <3>4. piPending[x] + Ordered(x) >= PiQty[x]
      BY <3>3 DEF TakenIsOrdered
    <3>5. LineFor(q, x)'.piQty = piPending[x]
      BY <2>1, <3>2 DEF LineFor
    <3> QED
      BY <1>11, <3>3, <3>4, <3>5
  <2>2. CASE q # o
    <3>1. x \in Named(q) /\ Open(q) /\ LineFor(q, x)' = LineFor(q, x)
      BY <1>1, <1>3, <2>2 DEF Named, OrderLines, LineFor, Open
    <3>2. /\ x \in PiLines /\ lineState[x] # "cancel"
          /\ LineFor(q, x).piQty + Ordered(x) >= PiQty[x]
      BY <1>0, <3>1, LineForNamed DEF NamedPending
    <3> QED
      BY <1>9, <1>11, <3>1, <3>2
  <2> QED
    BY <2>1, <2>2
<1> HIDE DEF TakenInv
<1> QED
  BY <1>0, <1>1, <1>9, <1>11, <1>12, TakenKept

\* The user's own changes of a form.
LEMMA FormTaken ==
    ASSUME TakenInv, PoInv', NEW o \in Orders,
           \/ \E S \in SUBSET PiLines : PickLines(o, S)
           \/ \E p \in Products, n \in Qtys : EditOrderLine(o, p, n)
           \/ \E p \in Products : RemoveOrderLine(o, p)
    PROVE  TakenInv'
<1>0. PoInv /\ PoInv' /\ PoTypeOK
  BY DEF TakenInv, PoInv
<1>1. UNCHANGED <<poState, piPending>> /\ poState[o] # "approved"
  BY DEF PickLines, EditOrderLine, RemoveOrderLine, indentVars
<1>2. \A q \in Orders \ {o} : orderLine'[q] = orderLine[q]
  BY <1>0 DEF PickLines, EditOrderLine, RemoveOrderLine, PoTypeOK
<1>3. ASSUME NEW p \in Products, orderLine'[o][p].made
      PROVE  /\ orderLine[o][p].made
             /\ orderLine'[o][p].pi = orderLine[o][p].pi
             /\ orderLine'[o][p].piQty = orderLine[o][p].piQty
             /\ orderLine'[o][p].group = orderLine[o][p].group
  <2>1. CASE orderLine'[o][p] = orderLine[o][p]
    BY <1>3, <2>1
  <2>2. ASSUME NEW r \in Products, NEW n \in Qtys, EditOrderLine(o, r, n), p = r
        PROVE  /\ orderLine[o][p].made
               /\ orderLine'[o][p].pi = orderLine[o][p].pi
               /\ orderLine'[o][p].piQty = orderLine[o][p].piQty
               /\ orderLine'[o][p].group = orderLine[o][p].group
    <3>1. orderLine[o][p] \in OrderLine
      <4>1. orderLine[o][p] \in OrderLine \union {NoOrderLine} /\ orderLine[o][p].made
        BY <1>0, <2>2 DEF EditOrderLine, OrderLines, PoTypeOK
      <4> QED
        BY <4>1 DEF NoOrderLine
    <3>2. orderLine'[o][p] = [orderLine[o][p] EXCEPT !.qty = n]
      BY <1>0, <2>2 DEF EditOrderLine, PoTypeOK
    <3> QED
      BY <3>1, <3>2 DEF OrderLine
  <2>3. ASSUME NEW r \in Products, RemoveOrderLine(o, r), p = r
        PROVE  FALSE
    <3>1. orderLine'[o][p] = NoOrderLine
      BY <1>0, <2>3 DEF RemoveOrderLine, PoTypeOK
    <3> QED
      BY <1>3, <3>1 DEF NoOrderLine
  <2>4. \/ orderLine'[o][p] = orderLine[o][p]
        \/ \E n \in Qtys : EditOrderLine(o, p, n)
        \/ RemoveOrderLine(o, p)
    <3>1. ASSUME NEW S \in SUBSET PiLines, PickLines(o, S)
          PROVE  orderLine'[o][p] = orderLine[o][p]
      BY <3>1 DEF PickLines
    <3>2. ASSUME NEW r \in Products, NEW n \in Qtys, EditOrderLine(o, r, n), p # r
          PROVE  orderLine'[o][p] = orderLine[o][p]
      BY <1>0, <3>2 DEF EditOrderLine, PoTypeOK
    <3>3. ASSUME NEW r \in Products, RemoveOrderLine(o, r), p # r
          PROVE  orderLine'[o][p] = orderLine[o][p]
      BY <1>0, <3>3 DEF RemoveOrderLine, PoTypeOK
    <3> QED
      BY <3>1, <3>2, <3>3
  <2> QED
    BY <2>1, <2>2, <2>3, <2>4
<1>4. \A x \in PiLines : lineState'[x] = "cancel" <=> lineState[x] = "cancel"
  <2>1. ASSUME NEW r \in Products, RemoveOrderLine(o, r)
        PROVE  \A x \in PiLines : lineState'[x] = "cancel" <=> lineState[x] = "cancel"
    <3>1. Open(o) /\ orderLine[o][r].pi \in Named(o)
      BY <2>1 DEF RemoveOrderLine, Open, Named
    <3>2. lineState[orderLine[o][r].pi] # "cancel"
      BY <3>1 DEF TakenInv, NamedPending
    <3>3. lineState' = [lineState EXCEPT ![orderLine[o][r].pi] = "process"]
      BY <2>1 DEF RemoveOrderLine
    <3> QED
      BY <1>0, <3>2, <3>3 DEF PoTypeOK
  <2>2. (~ \E r \in Products : RemoveOrderLine(o, r)) => UNCHANGED lineState
    BY DEF PickLines, EditOrderLine, indentVars
  <2> QED
    BY <2>1, <2>2
<1>5. \A q \in Orders : Open(q)' => Open(q)
  BY <1>1 DEF Open
<1>6. \A x : Ordered(x)' = Ordered(x)
  BY <1>1, <1>2, OrderedKept
<1>7. Alone' /\ NamedPending'
  BY <1>0, <1>2, <1>3, <1>4, <1>5, <1>6, NamedPendingKept
<1> QED
  BY <1>0, <1>1, <1>4, <1>6, <1>7, TakenKept

\* Buttons that approve nothing, and deletion.
LEMMA ButtonTaken ==
    ASSUME TakenInv, PoInv', ~PoStale, NEW o \in Orders,
           confirm_po(o) \/ entry_reject(o) \/ unlink(o)
    PROVE  TakenInv'
<1>0. PoInv /\ PoInv' /\ PoTypeOK
  BY DEF TakenInv, PoInv
<1>1. Open(o) /\ UNCHANGED piPending
  BY DEF confirm_po, entry_reject, unlink, PoShows, Open, indentVars
<1>2. PICK s \in {"confirmed", "reject", "deleted"} : poState' = [poState EXCEPT ![o] = s]
  BY DEF confirm_po, entry_reject, unlink, SetOrder
<1>3. \A q \in Orders : /\ Open(q)' => Open(q)
                        /\ poState'[q] = "approved" <=> poState[q] = "approved"
  BY <1>0, <1>1, <1>2 DEF Open, PoTypeOK
<1>4. /\ \A q \in Orders \ {o} : orderLine'[q] = orderLine[q]
      /\ \A p \in Products : orderLine'[o][p] \in {orderLine[o][p], NoOrderLine}
  BY <1>0 DEF confirm_po, entry_reject, unlink, PoTypeOK
<1>5. \A x \in PiLines : lineState'[x] = "cancel" <=> lineState[x] = "cancel"
  <2>1. \A x \in Named(o) : lineState[x] # "cancel"
    BY <1>1 DEF TakenInv, NamedPending
  <2> QED
    BY <2>1 DEF confirm_po, entry_reject, unlink, indentVars
<1>6. \A q \in Orders : poState[q] = "approved" => orderLine'[q] = orderLine[q]
  BY <1>1, <1>4 DEF Open
<1>7. \A x : Ordered(x)' = Ordered(x)
  BY <1>3, <1>6, OrderedKept
<1>8. Alone' /\ NamedPending'
  <2>1. \A q \in Orders : \A p \in Products :
           orderLine'[q][p].made => orderLine'[q][p] = orderLine[q][p]
    BY <1>4 DEF NoOrderLine
  <2> QED
    BY <1>0, <1>3, <1>5, <1>7, <2>1, NamedPendingKept
<1> QED
  BY <1>0, <1>1, <1>5, <1>7, <1>8, TakenKept

\* A closing takes what no open order names.
LEMMA CloseTaken ==
    ASSUME TakenInv, PoInv', NEW x \in PiLines, ClosePiLine(x)
    PROVE  TakenInv'
<1>0. PoInv /\ PoTypeOK
  BY DEF TakenInv, PoInv
<1>1. UNCHANGED <<poState, orderLine>>
  BY DEF ClosePiLine, orderVars
<1>2. \A o \in Orders : Open(o) => x \notin Named(o)
  BY DEF ClosePiLine, Open
<1>3. \A y \in PiLines : IF y = x THEN piPending'[y] = 0 /\ lineState'[y] = "cancel"
                         ELSE piPending'[y] = piPending[y] /\ lineState'[y] = lineState[y]
  BY <1>0 DEF ClosePiLine, PoTypeOK
<1>4. \A o \in Orders : /\ Open(o)' <=> Open(o)
                         /\ Named(o)' = Named(o)
                         /\ \A y \in PiLines : LineFor(o, y)' = LineFor(o, y)
  BY <1>1 DEF Open, Named, OrderLines, LineFor
<1>5. Alone' /\ ClosedEmpty'
  BY <1>1, <1>3 DEF TakenInv, Alone, OrderLines, ClosedEmpty
<1>6. \A y : Ordered(y)' = Ordered(y)
  BY <1>1, OrderedKept
<1>7. NamedPending'
  <2> SUFFICES ASSUME NEW o \in Orders, Open(o), NEW y \in Named(o)
               PROVE  lineState'[y] # "cancel" /\ LineFor(o, y)'.piQty + Ordered(y)' >= PiQty[y]
    BY <1>4 DEF NamedPending
  <2>1. y \in PiLines /\ y # x
    BY <1>0, <1>2, LineForNamed
  <2>2. lineState[y] # "cancel" /\ LineFor(o, y).piQty + Ordered(y) >= PiQty[y]
    BY DEF TakenInv, NamedPending
  <2>3. lineState'[y] = lineState[y]
    BY <1>3, <2>1
  <2>4. LineFor(o, y)' = LineFor(o, y)
    BY <1>1 DEF LineFor
  <2> QED
    BY <1>6, <2>2, <2>3, <2>4
<1>8. TakenIsOrdered'
  BY <1>3, <1>6 DEF TakenInv, TakenIsOrdered
<1> QED
  BY <1>5, <1>7, <1>8 DEF TakenInv

\* An approval leaves of each line it names what its own line was made with
\* less what it orders, and takes from no other line.
LEMMA ApproveTaken ==
    ASSUME TakenInv, PoInv', ~PoStale, NEW o \in Orders, wkf_approve_order(o)
    PROVE  TakenInv'
<1>0. PoInv /\ PoInv' /\ PoTypeOK
  BY DEF TakenInv, PoInv
<1>1. Open(o) /\ poState[o] # "approved" /\ UNCHANGED orderLine
      /\ poState' = [poState EXCEPT ![o] = "approved"]
  BY DEF wkf_approve_order, PoShows, Open, SetOrder
<1>2. \A q \in Orders : /\ Named(q)' = Named(q)
                        /\ \A x : LineFor(q, x)' = LineFor(q, x)
  BY <1>1 DEF Named, OrderLines, LineFor
<1>3. Charged(o) = Named(o) /\ Named(o) \subseteq PiLines
  <2>1. \A x \in Named(o) : x \in PiLines /\ ~LineFor(o, x).group
    BY <1>0, LineForNamed DEF TakenInv, Alone, LineFor
  <2> QED
    BY <2>1 DEF Charged
<1>4. ASSUME NEW x \in PiLines
      PROVE  /\ x \in Named(o) => piPending'[x] = LineFor(o, x).piQty - LineFor(o, x).qty
             /\ x \notin Named(o) => piPending'[x] = piPending[x]
             /\ lineState'[x] \in {lineState[x], "noprocess"}
             /\ x \notin Named(o) => lineState'[x] = lineState[x]
  BY <1>3 DEF wkf_approve_order, Uncharged
<1>5. \A x \in Named(o) : lineState[x] # "cancel" /\ LineFor(o, x).piQty + Ordered(x) >= PiQty[x]
  BY <1>1 DEF TakenInv, NamedPending
<1>6. ASSUME NEW x \in PiLines
      PROVE  Ordered(x)' = Ordered(x) + (IF x \in Named(o) THEN LineFor(o, x).qty ELSE 0)
  <2> DEFINE f == [q \in Orders |-> OrderedBy(q, x)]
             g == [q \in Orders |-> OrderedBy(q, x)']
             n == IF x \in Named(o) THEN LineFor(o, x).qty ELSE 0
  <2>1. \A q \in Orders : f[q] \in Nat /\ g[q] \in Nat
    <3>1. \A q \in Orders : OrderedBy(q, x) \in Nat
      BY <1>0, OrdersTyped
    <3>2. \A q \in Orders : OrderedBy(q, x)' \in Nat
      BY <1>0, <1>2, OrdersTyped DEF OrderedBy
    <3> QED
      BY <3>1, <3>2
  <2>2. \A q \in Orders \ {o} : g[q] = f[q]
    BY <1>0, <1>1, <1>2 DEF OrderedBy, PoTypeOK
  <2>3. f[o] = 0 /\ g[o] = n
    BY <1>0, <1>1, <1>2 DEF OrderedBy, PoTypeOK
  <2>4. Ordered(x) = SumFunctionOnSet(f, Orders) /\ Ordered(x)' = SumFunctionOnSet(g, Orders)
    BY DEF Ordered, OrderedBy
  <2>5. \A q \in Orders : f[q] \in Int /\ g[q] \in Int
    BY <2>1
  <2> HIDE DEF f, g, n
  <2>6. SumFunctionOnSet(g, Orders) = SumFunctionOnSet(f, Orders) + (g[o] - f[o])
    BY <2>2, <2>5, OrderConstantsOK, SumChanged
  <2>7. g[o] - f[o] = n
    BY <2>1, <2>3
  <2>8. Ordered(x)' = Ordered(x) + n
    BY <2>4, <2>6, <2>7
  <2> QED
    BY <2>8 DEF n
<1>7. ASSUME NEW x \in PiLines
      PROVE  Ordered(x) \in Nat /\ Ordered(x)' \in Nat /\ Ordered(x)' >= Ordered(x)
  <2>1. Ordered(x) \in Nat
    BY <1>0, OrderedTyped
  <2>2. x \in Named(o) => LineFor(o, x).qty \in Nat
    BY <1>0, OrdersTyped
  <2> QED
    BY <1>6, <2>1, <2>2
<1>8. TakenIsOrdered'
  <2> SUFFICES ASSUME NEW x \in PiLines, lineState'[x] # "cancel"
               PROVE  piPending'[x] + Ordered(x)' >= PiQty[x]
    BY DEF TakenIsOrdered
  <2>1. Ordered(x) \in Nat /\ piPending[x] \in Nat /\ PiQty[x] \in Nat
    BY <1>0, <1>7, OrderConstantsOK DEF PoTypeOK
  <2>2. CASE x \in Named(o)
    <3>1. LineFor(o, x).qty \in Nat /\ LineFor(o, x).piQty \in Nat
      BY <1>0, <2>2, OrdersTyped
    <3>2. piPending'[x] = LineFor(o, x).piQty - LineFor(o, x).qty
      BY <1>4, <2>2
    <3>3. Ordered(x)' = Ordered(x) + LineFor(o, x).qty
      BY <1>6, <2>2
    <3>4. LineFor(o, x).piQty + Ordered(x) >= PiQty[x]
      BY <1>5, <2>2
    <3> QED
      BY <2>1, <3>1, <3>2, <3>3, <3>4
  <2>3. CASE x \notin Named(o)
    <3>1. piPending'[x] = piPending[x] /\ lineState'[x] = lineState[x]
      BY <1>4, <2>3
    <3>2. piPending[x] + Ordered(x) >= PiQty[x]
      BY <3>1 DEF TakenInv, TakenIsOrdered
    <3>3. Ordered(x)' = Ordered(x) + 0
      BY <1>6, <2>3
    <3> QED
      BY <2>1, <3>1, <3>2, <3>3
  <2> QED
    BY <2>2, <2>3
<1>9. ClosedEmpty'
  BY <1>4, <1>5 DEF TakenInv, ClosedEmpty
<1>10. Alone'
  BY <1>1 DEF TakenInv, Alone, OrderLines
<1>11. NamedPending'
  <2> SUFFICES ASSUME NEW q \in Orders, Open(q)', NEW x \in Named(q)'
               PROVE  lineState'[x] # "cancel" /\ LineFor(q, x)'.piQty + Ordered(x)' >= PiQty[x]
    BY DEF NamedPending
  <2>1. q # o /\ Open(q) /\ x \in Named(q)
    BY <1>0, <1>1, <1>2 DEF Open, PoTypeOK
  <2>2. x \in PiLines /\ LineFor(q, x).piQty \in Nat /\ PiQty[x] \in Nat
    BY <1>0, <2>1, LineForNamed, OrdersTyped, OrderConstantsOK
  <2>3. lineState[x] # "cancel" /\ LineFor(q, x).piQty + Ordered(x) >= PiQty[x]
    BY <2>1 DEF TakenInv, NamedPending
  <2>4. LineFor(q, x)' = LineFor(q, x)
    BY <1>2
  <2>5. lineState'[x] # "cancel"
    BY <1>4, <2>2, <2>3
  <2>6. LineFor(q, x).piQty + Ordered(x)' >= PiQty[x]
    BY <1>7, <2>2, <2>3
  <2> QED
    BY <2>4, <2>5, <2>6
<1> QED
  BY <1>0, <1>8, <1>9, <1>10, <1>11 DEF TakenInv

LEMMA TakenInit == Init => TakenInv
<1> SUFFICES ASSUME Init PROVE TakenInv
  OBVIOUS
<1>1. \A o \in Orders : OrderLines(o) = {} /\ Named(o) = {}
  BY DEF Init, OrderLines, Named, NoOrderLine
<1>2. Alone /\ NamedPending /\ ClosedEmpty
  BY <1>1 DEF Init, Alone, NamedPending, ClosedEmpty
<1>3. ASSUME NEW x \in PiLines
      PROVE  piPending[x] + Ordered(x) >= PiQty[x]
  <2> DEFINE f == [o \in Orders |-> OrderedBy(o, x)]
  <2>1. \A o \in Orders : f[o] = 0
    BY <1>1 DEF OrderedBy
  <2>2. Ordered(x) = SumFunctionOnSet(f, Orders)
    BY DEF Ordered, OrderedBy
  <2> HIDE DEF f
  <2>3. Ordered(x) = 0
    BY <2>1, <2>2, OrderConstantsOK, SumZero
  <2>4. piPending[x] = PiQty[x] /\ PiQty[x] \in Nat
    BY OrderConstantsOK DEF Init
  <2> QED
    BY <2>3, <2>4
<1> QED
  BY <1>2, <1>3, PoInvInit DEF TakenInv, TakenIsOrdered

LEMMA TakenStep ==
    ASSUME ~PoStale, TakenInv, Alone', [Next]_vars
    PROVE  TakenInv'
<1>0. PoInv'
  BY PoInvStep DEF TakenInv
<1>1. CASE UNCHANGED vars
  <2>1. UNCHANGED <<poState, orderLine, piPending, lineState>>
    BY <1>1 DEF vars, orderVars, indentVars
  <2>2. \A x : Ordered(x)' = Ordered(x)
    BY <2>1, OrderedKept
  <2>3. Alone' /\ NamedPending'
    BY <1>0, <2>1, <2>2, NamedPendingKept DEF Open
  <2> QED
    BY <1>0, <2>1, <2>2, <2>3, TakenKept
<1>2. ASSUME NEW o \in Orders,
             \/ \E S \in SUBSET PiLines : PickLines(o, S)
             \/ \E p \in Products, q \in Qtys : EditOrderLine(o, p, q)
             \/ \E p \in Products : RemoveOrderLine(o, p)
      PROVE  TakenInv'
  BY <1>0, <1>2, FormTaken
<1>3. ASSUME NEW o \in Orders, update_poline(o) PROVE TakenInv'
  BY <1>0, <1>3, UpdateTaken
<1>4. ASSUME NEW o \in Orders, confirm_po(o) \/ entry_reject(o) \/ unlink(o) PROVE TakenInv'
  BY <1>0, <1>4, ButtonTaken
<1>5. ASSUME NEW o \in Orders, wkf_approve_order(o) PROVE TakenInv'
  BY <1>0, <1>5, ApproveTaken
<1>6. ASSUME NEW x \in PiLines, ClosePiLine(x) PROVE TakenInv'
  BY <1>0, <1>6, CloseTaken
<1> QED
  BY <1>1, <1>2, <1>3, <1>4, <1>5, <1>6 DEF Next

\* TakenIsOrdered: with fresh forms, and as long as no order line stands for
\* several indent lines, what is still to order of an indent line and what
\* approved orders order of it are together no less than what it asked for,
\* until it is closed.  Two forms may pick the same line and load it.
THEOREM ChargedIsOrdered ==
    ASSUME ~PoStale
    PROVE  Spec /\ []Alone => []TakenIsOrdered
<1>1. TakenInv => TakenIsOrdered
  BY DEF TakenInv
<1>2. TakenInv /\ Alone' /\ [Next]_vars => TakenInv'
  BY TakenStep
<1> QED
  BY TakenInit, <1>1, <1>2, PTL DEF Spec
=============================================================================
