------------------------ MODULE PurchaseIndentProofs ------------------------
(***************************************************************************)
(* What holds of purchase indents for every set of indent lines and        *)
(* purchase indents, from any form: what is to be ordered of an indent     *)
(* line stays within what it asked for, what is pending follows it until   *)
(* the line is closed, and no line leaves the offer before it is covered.  *)
(* Approvals write rows from copies that may be old, so the argument is    *)
(* about the copies: each one satisfies what the row satisfied when it     *)
(* was made, and a closing is never undone.  That what is taken off the    *)
(* indents was indented, for fresh forms, is about copies and rows         *)
(* together.                                                               *)
(***************************************************************************)
EXTENDS PurchaseIndent, Sums, TLAPS

\* A line that stands for one indent line copied from it what it could.
Copied(l) == l.made /\ ~l.group =>
    /\ l.po <= Asked[l.first]
    /\ closing[l.first] # "approved" => l.dep = l.po

CopiesMade == \A p \in Pis, r \in Products : Copied(piLine[p][r])

\* The inductive invariant.
IndentInv == IndentTypeOK /\ CopiesMade /\ PendingFollows

ClosedStay == \A d \in DiLines : closing[d] = "approved" => closing'[d] = "approved"

\* Line l names and copied what line k does.
SameCopy(l, k) == /\ l.made = k.made
                  /\ l.made => /\ l.first = k.first
                               /\ l.group = k.group
                               /\ l.po = k.po
                               /\ l.dep = k.dep

-----------------------------------------------------------------------------
(* Lemmas *)

\* The first of some indent lines is one of them.
LEMMA FirstIsOne ==
    ASSUME NEW S \in SUBSET DiLines, S # {}
    PROVE  First(S) \in S
<1>1. S \subseteq Nat
  BY IndentConstantsOK
<1>2. PICK d \in S : \A e \in S : ~ (<<e, d>> \in OpToRel(<, Nat))
  BY <1>1, NatLessThanWellFounded, WFMin
<1>3. \A e \in S : d <= e
  <2> TAKE e \in S
  <2>1. ~ (e < d)
    BY <1>1, <1>2 DEF OpToRel
  <2> QED
    BY <1>1, <2>1
<1> QED
  BY <1>3 DEF First

\* SetPi keeps the types of what it writes.
LEMMA SetPiTyped ==
    ASSUME IndentTypeOK, NEW p \in Pis, NEW s \in PiStates, SetPi(p, s)
    PROVE  /\ piState' \in [Pis -> PiStates]
           /\ piShown' \in [Pis -> SUBSET PiButtonStates]
  BY DEF IndentTypeOK, SetPi

\* The copies a step leaves alone are good copies after it.
LEMMA CopiesKept ==
    ASSUME IndentInv, ClosedStay,
           \A p \in Pis, r \in Products :
               \/ piLine'[p][r] = NoPiLine
               \/ SameCopy(piLine'[p][r], piLine[p][r])
    PROVE  CopiesMade'
<1> SUFFICES ASSUME NEW p \in Pis, NEW r \in Products,
                    piLine'[p][r].made, ~piLine'[p][r].group
             PROVE  /\ piLine'[p][r].po <= Asked[piLine'[p][r].first]
                    /\ closing'[piLine'[p][r].first] # "approved" =>
                          piLine'[p][r].dep = piLine'[p][r].po
  BY DEF CopiesMade, Copied
<1>1. piLine'[p][r] # NoPiLine
  BY DEF NoPiLine
<1>2. SameCopy(piLine'[p][r], piLine[p][r])
  BY <1>1
<1>3. piLine[p][r].made /\ ~piLine[p][r].group
  BY <1>2 DEF SameCopy
<1>4. piLine[p][r].first \in DiLines
  <2>1. piLine[p][r] \in PiLine \union {NoPiLine}
    BY DEF IndentInv, IndentTypeOK
  <2>2. piLine[p][r] \in PiLine
    BY <1>3, <2>1 DEF NoPiLine
  <2> QED
    BY <2>2 DEF PiLine
<1>5. Copied(piLine[p][r])
  BY DEF IndentInv, CopiesMade
<1> QED
  BY <1>2, <1>3, <1>4, <1>5 DEF SameCopy, Copied, ClosedStay

\* Steps that write neither the rows nor the closings.
LEMMA RowsKept ==
    ASSUME IndentInv, UNCHANGED <<poQty, pendingQty, closing>>
    PROVE  PendingFollows' /\ ClosedStay
  BY DEF IndentInv, PendingFollows, ClosedStay

\* ... and no line of a purchase indent.
LEMMA LinesKept ==
    ASSUME IndentInv, UNCHANGED <<piLine, poQty, pendingQty, closing>>, IndentTypeOK'
    PROVE  IndentInv'
<1>1. \A p \in Pis, r \in Products : SameCopy(piLine'[p][r], piLine[p][r])
  BY DEF SameCopy
<1> QED
  BY <1>1, RowsKept, CopiesKept DEF IndentInv

-----------------------------------------------------------------------------
(* The invariant and the operations *)

LEMMA IndentInvInit == Init => IndentInv
<1> SUFFICES ASSUME Init PROVE IndentInv
  OBVIOUS
<1>1. poQty \in [DiLines -> Nat] /\ \A d \in DiLines : poQty[d] <= Asked[d]
  BY IndentConstantsOK DEF Init
<1>2. pendingQty \in [DiLines -> Int]
  BY IndentConstantsOK DEF Init
<1>3. IndentTypeOK
  BY <1>1, <1>2 DEF Init, IndentTypeOK, PiStates, PiButtonStates, LineStates,
                    ClosingStates, NoPiLine
<1>4. CopiesMade
  BY DEF Init, CopiesMade, Copied, NoPiLine
<1>5. PendingFollows
  BY DEF Init, PendingFollows
<1> QED
  BY <1>3, <1>4, <1>5 DEF IndentInv

LEMMA PickLinesInv ==
    ASSUME IndentInv, NEW p \in Pis, NEW S \in SUBSET DiLines, PickLines(p, S)
    PROVE  IndentInv'
<1>1. IndentTypeOK'
  BY DEF IndentInv, PickLines, IndentTypeOK, diVars
<1> QED
  BY <1>1, LinesKept DEF PickLines, diVars

\* A line made from picked lines has its type and is a good copy.
LEMMA LineMade ==
    ASSUME IndentInv, NEW p \in Pis, NEW r \in Products, NEW total \in Totals(p),
           Group(p, r) # {}
    PROVE  LET l == MadeLine(Group(p, r), total[r]) IN l \in PiLine /\ Copied(l)
<1> DEFINE S == Group(p, r)
           qty == IF Several(S) THEN total[r] ELSE poQty[First(S)]
           l == MadeLine(S, total[r])
<1>1. S \in SUBSET DiLines
  BY DEF IndentInv, IndentTypeOK, Group
<1>2. First(S) \in DiLines
  BY <1>1, FirstIsOne
<1>3. total[r] \in Nat
  BY DEF Totals
<1>4. poQty[First(S)] \in Nat /\ poQty[First(S)] <= Asked[First(S)]
  BY <1>2 DEF IndentInv, IndentTypeOK
<1>5. pendingQty[First(S)] \in Int
  BY <1>2 DEF IndentInv, IndentTypeOK
<1>6. closing[First(S)] # "approved" => pendingQty[First(S)] = poQty[First(S)]
  BY <1>2 DEF IndentInv, PendingFollows
<1>7. qty \in Nat
  BY <1>3, <1>4
<1>8. l = [made |-> TRUE, qty |-> qty, dep |-> pendingQty[First(S)], po |-> qty,
           first |-> First(S), group |-> Several(S), state |-> "noprocess"]
  BY DEF MadeLine
<1>9. Several(S) \in BOOLEAN
  BY DEF Several
<1>10. ~Several(S) => qty = poQty[First(S)]
  OBVIOUS
<1> HIDE DEF S, qty
<1>11. l \in PiLine
  BY <1>2, <1>5, <1>7, <1>8, <1>9 DEF PiLine, LineStates
<1>12. Copied(l)
  BY <1>4, <1>6, <1>8, <1>10 DEF Copied
<1> QED
  BY <1>11, <1>12 DEF S

LEMMA UpdateInv ==
    ASSUME IndentInv, NEW p \in Pis, update_pil(p)
    PROVE  IndentInv'
<1>1. PICK total \in Totals(p) : piLine' = [piLine EXCEPT ![p] =
              [r \in Products |-> IF Group(p, r) = {} THEN NoPiLine
                                  ELSE MadeLine(Group(p, r), total[r])]]
  BY DEF update_pil
<1>2. piLine' \in [Pis -> [Products -> PiLine \union {NoPiLine}]]
  BY <1>1, LineMade DEF IndentInv, IndentTypeOK
<1>3. lineState' \in [DiLines -> LineStates]
  BY DEF IndentInv, IndentTypeOK, update_pil, LineStates
<1>4. IndentTypeOK'
  BY <1>2, <1>3 DEF IndentInv, IndentTypeOK, update_pil
<1>5. PendingFollows'
  BY RowsKept DEF update_pil
<1>6. CopiesMade'
  <2> SUFFICES ASSUME NEW q \in Pis, NEW r \in Products PROVE Copied(piLine[q][r])'
    BY DEF CopiesMade
  <2>1. closing' = closing
    BY DEF update_pil
  <2>2. CASE q = p /\ Group(p, r) = {}
    <3>1. piLine'[q][r] = NoPiLine
      BY <1>1, <2>2 DEF IndentInv, IndentTypeOK
    <3> QED
      BY <3>1 DEF Copied, NoPiLine
  <2>3. CASE q = p /\ Group(p, r) # {}
    <3>1. piLine'[q][r] = MadeLine(Group(p, r), total[r])
      BY <1>1, <2>3 DEF IndentInv, IndentTypeOK
    <3>2. Copied(MadeLine(Group(p, r), total[r]))
      BY <2>3, LineMade
    <3> QED
      BY <2>1, <3>1, <3>2 DEF Copied
  <2>4. CASE q # p
    <3>1. piLine'[q] = piLine[q]
      BY <1>1, <2>4 DEF IndentInv, IndentTypeOK
    <3> QED
      BY <2>1, <3>1 DEF IndentInv, CopiesMade, Copied
  <2> QED
    BY <2>2, <2>3, <2>4
<1> QED
  BY <1>4, <1>5, <1>6 DEF IndentInv

LEMMA EditLineInv ==
    ASSUME IndentInv, NEW p \in Pis, NEW r \in Products, NEW n \in Qtys, EditLine(p, r, n)
    PROVE  IndentInv'
<1>1. n \in Nat
  BY IndentConstantsOK
<1>2. piLine[p][r] \in PiLine
  BY DEF IndentInv, IndentTypeOK, EditLine, Made, NoPiLine
<1> DEFINE l == [piLine[p][r] EXCEPT !.qty = n]
<1>3. l \in PiLine
  BY <1>1, <1>2 DEF PiLine
<1>4. SameCopy(l, piLine[p][r])
  BY <1>2 DEF PiLine, SameCopy
<1>5. piLine' = [piLine EXCEPT ![p] = [piLine[p] EXCEPT ![r] = l]]
  BY DEF EditLine
<1> HIDE DEF l
<1>6. piLine' \in [Pis -> [Products -> PiLine \union {NoPiLine}]]
  BY <1>3, <1>5 DEF IndentInv, IndentTypeOK
<1>7. IndentTypeOK'
  BY <1>6 DEF IndentInv, IndentTypeOK, EditLine, diVars
<1>8. \A q \in Pis, s \in Products : SameCopy(piLine'[q][s], piLine[q][s])
  <2> TAKE q \in Pis, s \in Products
  <2>1. CASE q = p /\ s = r
    BY <1>4, <1>5, <2>1 DEF IndentInv, IndentTypeOK
  <2>2. CASE ~(q = p /\ s = r)
    <3>1. piLine'[q][s] = piLine[q][s]
      BY <1>5, <2>2 DEF IndentInv, IndentTypeOK
    <3> QED
      BY <3>1 DEF SameCopy
  <2> QED
    BY <2>1, <2>2
<1>9. UNCHANGED <<poQty, pendingQty, closing>>
  BY DEF EditLine, diVars
<1> QED
  BY <1>7, <1>8, <1>9, RowsKept, CopiesKept DEF IndentInv

\* Steps that drop lines and write no row and no closing.
LEMMA LinesDropped ==
    ASSUME IndentInv, IndentTypeOK', UNCHANGED <<poQty, pendingQty, closing>>,
           \A q \in Pis, s \in Products : piLine'[q][s] \in {piLine[q][s], NoPiLine}
    PROVE  IndentInv'
<1>1. \A q \in Pis, s \in Products :
         piLine'[q][s] = NoPiLine \/ SameCopy(piLine'[q][s], piLine[q][s])
  BY DEF SameCopy
<1> QED
  BY <1>1, RowsKept, CopiesKept DEF IndentInv

LEMMA RemoveLineInv ==
    ASSUME IndentInv, NEW p \in Pis, NEW r \in Products, RemoveLine(p, r)
    PROVE  IndentInv'
<1>1. piLine' = [piLine EXCEPT ![p] = [piLine[p] EXCEPT ![r] = NoPiLine]]
  BY DEF RemoveLine
<1>2. piLine' \in [Pis -> [Products -> PiLine \union {NoPiLine}]]
  BY <1>1 DEF IndentInv, IndentTypeOK
<1>3. IndentTypeOK'
  BY <1>2 DEF IndentInv, IndentTypeOK, RemoveLine, LineStates
<1>4. \A q \in Pis, s \in Products : piLine'[q][s] \in {piLine[q][s], NoPiLine}
  BY <1>1 DEF IndentInv, IndentTypeOK
<1> QED
  BY <1>3, <1>4, LinesDropped DEF RemoveLine

LEMMA ConfirmInv ==
    ASSUME IndentInv, NEW p \in Pis, tender_in_progress(p)
    PROVE  IndentInv'
<1>1. SetPi(p, "in_progress") /\ UNCHANGED <<picked, piLine, diVars, closing>>
  BY DEF tender_in_progress
<1>2. piState' \in [Pis -> PiStates] /\ piShown' \in [Pis -> SUBSET PiButtonStates]
  BY <1>1, SetPiTyped DEF IndentInv, PiStates
<1>3. IndentTypeOK'
  BY <1>1, <1>2 DEF IndentInv, IndentTypeOK, diVars
<1> QED
  BY <1>1, <1>3, LinesKept DEF diVars

LEMMA RejectInv ==
    ASSUME IndentInv, NEW p \in Pis, tender_reject(p)
    PROVE  IndentInv'
<1>1. SetPi(p, "reject") /\ UNCHANGED <<picked, piLine, diVars, closing>>
  BY DEF tender_reject
<1>2. piState' \in [Pis -> PiStates] /\ piShown' \in [Pis -> SUBSET PiButtonStates]
  BY <1>1, SetPiTyped DEF IndentInv, PiStates
<1>3. IndentTypeOK'
  BY <1>1, <1>2 DEF IndentInv, IndentTypeOK, diVars
<1> QED
  BY <1>1, <1>3, LinesKept DEF diVars

LEMMA UnlinkInv ==
    ASSUME IndentInv, NEW p \in Pis, unlink(p)
    PROVE  IndentInv'
<1>1. /\ SetPi(p, "deleted")
      /\ UNCHANGED <<diVars, closing>>
      /\ piLine' = [piLine EXCEPT ![p] = [r \in Products |-> NoPiLine]]
      /\ picked' = [picked EXCEPT ![p] = {}]
  BY DEF unlink
<1>2. piLine' \in [Pis -> [Products -> PiLine \union {NoPiLine}]]
  BY <1>1 DEF IndentInv, IndentTypeOK
<1>3. piState' \in [Pis -> PiStates] /\ piShown' \in [Pis -> SUBSET PiButtonStates]
  BY <1>1, SetPiTyped DEF IndentInv, PiStates
<1>4. IndentTypeOK'
  BY <1>1, <1>2, <1>3 DEF IndentInv, IndentTypeOK, diVars
<1>5. \A q \in Pis, s \in Products : piLine'[q][s] \in {piLine[q][s], NoPiLine}
  BY <1>1 DEF IndentInv, IndentTypeOK
<1> QED
  BY <1>1, <1>4, <1>5, LinesDropped DEF diVars

-----------------------------------------------------------------------------
(* Approval *)

\* The line that writes a single indent line has its type and is a good copy.
LEMMA SingleLine ==
    ASSUME IndentInv, NEW p \in Pis, NEW d \in Singles(p)
    PROVE  LET l == LineFor(p, d) IN
           /\ d \in DiLines
           /\ l.qty \in Nat /\ l.po \in Nat /\ l.dep \in Int
           /\ l.po <= Asked[d]
           /\ closing[d] # "approved" => l.dep = l.po
<1> DEFINE l == LineFor(p, d)
<1>1. d \in DiLines /\ l.made /\ ~l.group /\ l.first = d
  BY DEF Singles
<1>2. l \in PiLine \union {NoPiLine} /\ Copied(l)
  <2>1. ProductOf[d] \in Products
    BY <1>1, IndentConstantsOK
  <2> QED
    BY <2>1 DEF LineFor, IndentInv, IndentTypeOK, CopiesMade
<1> HIDE DEF l
<1>3. l \in PiLine
  BY <1>1, <1>2 DEF NoPiLine
<1>4. l.qty \in Nat /\ l.po \in Nat /\ l.dep \in Int
  BY <1>3 DEF PiLine
<1>5. l.po <= Asked[d] /\ (closing[d] # "approved" => l.dep = l.po)
  BY <1>1, <1>2 DEF Copied
<1> QED
  BY <1>1, <1>4, <1>5 DEF l

\* What an approval leaves to order is in range, and what it leaves pending
\* of a line that is not closed is the same.
LEMMA SingleWritten ==
    ASSUME IndentInv, NEW p \in Pis, NEW d \in Singles(p)
    PROVE  LET l == LineFor(p, d) IN
           /\ ToOrder(l) \in Nat /\ ToOrder(l) <= Asked[d]
           /\ Pending(l) \in Int
           /\ closing[d] # "approved" => Pending(l) = ToOrder(l)
<1> DEFINE l == LineFor(p, d)
<1>1. /\ d \in DiLines
      /\ l.qty \in Nat /\ l.po \in Nat /\ l.dep \in Int
      /\ l.po <= Asked[d]
      /\ closing[d] # "approved" => l.dep = l.po
  BY SingleLine
<1>2. Asked[d] \in Nat
  BY <1>1, IndentConstantsOK
<1> HIDE DEF l
<1>3. ToOrder(l) \in Nat /\ ToOrder(l) <= Asked[d]
  BY <1>1, <1>2 DEF ToOrder
<1>4. Pending(l) \in Int /\ (closing[d] # "approved" => Pending(l) = ToOrder(l))
  BY <1>1 DEF Pending, ToOrder
<1> QED
  BY <1>3, <1>4 DEF l

LEMMA GroupWritten ==
    ASSUME IndentInv, NEW p \in Pis, NEW before \in Befores(p), NEW d \in Grouped(p, before)
    PROVE  /\ d \in DiLines
           /\ Rest(p, d, before) \in Nat
           /\ Rest(p, d, before) <= poQty[d]
<1> DEFINE l == LineFor(p, d)
<1>1. d \in DiLines /\ l.made /\ l.qty > before[d]
  BY DEF Grouped, IndentInv, IndentTypeOK
<1>2. l \in PiLine \union {NoPiLine}
  <2>1. ProductOf[d] \in Products
    BY <1>1, IndentConstantsOK
  <2> QED
    BY <2>1 DEF LineFor, IndentInv, IndentTypeOK
<1>3. Rest(p, d, before) = IF l.qty - before[d] > poQty[d] THEN 0
                           ELSE poQty[d] - (l.qty - before[d])
  BY DEF Rest
<1> HIDE DEF l
<1>4. l.qty \in Nat
  <2>1. l \in PiLine
    BY <1>1, <1>2 DEF NoPiLine
  <2> QED
    BY <2>1 DEF PiLine
<1>5. before[d] \in Nat /\ poQty[d] \in Nat
  BY <1>1 DEF Befores, IndentInv, IndentTypeOK
<1> QED
  BY <1>1, <1>3, <1>4, <1>5

LEMMA ApproveInv ==
    ASSUME IndentInv, NEW p \in Pis, tender_for_approve(p)
    PROVE  IndentInv'
<1>1. PICK before \in Befores(p) :
          /\ poQty' = [d \in DiLines |->
                IF d \in Singles(p) THEN ToOrder(LineFor(p, d))
                ELSE IF d \in Grouped(p, before) THEN Rest(p, d, before) ELSE poQty[d]]
          /\ pendingQty' = [d \in DiLines |->
                IF d \in Singles(p) THEN Pending(LineFor(p, d))
                ELSE IF d \in Grouped(p, before) THEN poQty'[d] ELSE pendingQty[d]]
  BY DEF tender_for_approve
<1>2. /\ SetPi(p, "approved")
      /\ UNCHANGED <<picked, closing>>
      /\ piLine' = [piLine EXCEPT ![p] = [r \in Products |->
            IF r \in Made(p) THEN [piLine[p][r] EXCEPT !.state = "process"] ELSE NoPiLine]]
      /\ lineState' = [d \in DiLines |->
            IF d \notin Singles(p) THEN lineState[d]
            ELSE IF poQty'[d] = 0 THEN "process" ELSE "noprocess"]
  BY DEF tender_for_approve
<1>3. \A r \in Made(p) : /\ [piLine[p][r] EXCEPT !.state = "process"] \in PiLine
                         /\ SameCopy([piLine[p][r] EXCEPT !.state = "process"], piLine[p][r])
  <2> TAKE r \in Made(p)
  <2>1. piLine[p][r] \in PiLine
    BY DEF Made, IndentInv, IndentTypeOK, NoPiLine
  <2> QED
    BY <2>1 DEF PiLine, LineStates, SameCopy
<1>4. piLine' \in [Pis -> [Products -> PiLine \union {NoPiLine}]]
  BY <1>2, <1>3 DEF IndentInv, IndentTypeOK
<1>5. \A q \in Pis, s \in Products :
         piLine'[q][s] = NoPiLine \/ SameCopy(piLine'[q][s], piLine[q][s])
  <2> TAKE q \in Pis, s \in Products
  <2>1. CASE q = p
    BY <1>2, <1>3, <2>1 DEF IndentInv, IndentTypeOK
  <2>2. CASE q # p
    <3>1. piLine'[q] = piLine[q]
      BY <1>2, <2>2 DEF IndentInv, IndentTypeOK
    <3> QED
      BY <3>1 DEF SameCopy
  <2> QED
    BY <2>1, <2>2
<1>6. \A d \in DiLines : /\ poQty'[d] \in Nat
                         /\ poQty'[d] <= Asked[d]
                         /\ pendingQty'[d] \in Int
                         /\ closing[d] # "approved" => pendingQty'[d] = poQty'[d]
  <2> TAKE d \in DiLines
  <2>0. /\ poQty[d] \in Nat /\ poQty[d] <= Asked[d] /\ pendingQty[d] \in Int
        /\ Asked[d] \in Nat
        /\ closing[d] # "approved" => pendingQty[d] = poQty[d]
    BY IndentConstantsOK DEF IndentInv, IndentTypeOK, PendingFollows
  <2>1. CASE d \in Singles(p)
    <3>1. poQty'[d] = ToOrder(LineFor(p, d)) /\ pendingQty'[d] = Pending(LineFor(p, d))
      BY <1>1, <2>1
    <3> QED
      BY <2>1, <3>1, SingleWritten
  <2>2. CASE d \notin Singles(p) /\ d \in Grouped(p, before)
    <3>1. poQty'[d] = Rest(p, d, before) /\ pendingQty'[d] = poQty'[d]
      BY <1>1, <2>2
    <3>2. Rest(p, d, before) \in Nat /\ Rest(p, d, before) <= poQty[d]
      BY <2>2, GroupWritten
    <3> QED
      BY <2>0, <3>1, <3>2
  <2>3. CASE d \notin Singles(p) /\ d \notin Grouped(p, before)
    <3>1. poQty'[d] = poQty[d] /\ pendingQty'[d] = pendingQty[d]
      BY <1>1, <2>3
    <3> QED
      BY <2>0, <3>1
  <2> QED
    BY <2>1, <2>2, <2>3
<1>7. piState' \in [Pis -> PiStates] /\ piShown' \in [Pis -> SUBSET PiButtonStates]
  BY <1>2, SetPiTyped DEF IndentInv, PiStates
<1>8. poQty' \in [DiLines -> Nat] /\ pendingQty' \in [DiLines -> Int]
  <2>1. poQty' = [d \in DiLines |-> poQty'[d]] /\ pendingQty' = [d \in DiLines |-> pendingQty'[d]]
    BY <1>1
  <2> QED
    BY <1>6, <2>1
<1>9. lineState' \in [DiLines -> LineStates]
  BY <1>2 DEF IndentInv, IndentTypeOK, LineStates
<1>10. IndentTypeOK'
  BY <1>2, <1>4, <1>6, <1>7, <1>8, <1>9 DEF IndentInv, IndentTypeOK
<1>11. PendingFollows'
  BY <1>2, <1>6 DEF PendingFollows
<1>12. ClosedStay
  BY <1>2 DEF ClosedStay
<1> QED
  BY <1>5, <1>10, <1>11, <1>12, CopiesKept DEF IndentInv

-----------------------------------------------------------------------------
(* Closings *)

\* Steps of a closing that write its state only, and no approval of it.
LEMMA ClosingMoved ==
    ASSUME IndentInv, NEW d \in DiLines, NEW s \in ClosingStates,
           closing[d] # "approved", s # "approved",
           closing' = [closing EXCEPT ![d] = s], UNCHANGED <<piVars, diVars>>
    PROVE  IndentInv'
<1>1. IndentTypeOK'
  BY DEF IndentInv, IndentTypeOK, piVars, diVars
<1>2. \A q \in Pis, r \in Products : SameCopy(piLine'[q][r], piLine[q][r])
  BY DEF SameCopy, piVars
<1>3. ClosedStay /\ PendingFollows'
  BY DEF ClosedStay, IndentInv, IndentTypeOK, PendingFollows, diVars
<1> QED
  BY <1>1, <1>2, <1>3, CopiesKept DEF IndentInv

LEMMA CloseInv ==
    ASSUME IndentInv, NEW d \in DiLines, entry_approve(d)
    PROVE  IndentInv'
<1>1. /\ pendingQty' = [pendingQty EXCEPT ![d] = 0]
      /\ closing' = [closing EXCEPT ![d] = "approved"]
      /\ UNCHANGED <<piVars, poQty, lineState>>
  BY DEF entry_approve
<1>2. IndentTypeOK'
  BY <1>1 DEF IndentInv, IndentTypeOK, piVars, ClosingStates
<1>3. \A q \in Pis, r \in Products : SameCopy(piLine'[q][r], piLine[q][r])
  BY <1>1 DEF SameCopy, piVars
<1>4. ClosedStay /\ PendingFollows'
  BY <1>1 DEF ClosedStay, IndentInv, IndentTypeOK, PendingFollows
<1> QED
  BY <1>2, <1>3, <1>4, CopiesKept DEF IndentInv

LEMMA IndentInvStep == IndentInv /\ [Next]_vars => IndentInv'
<1> SUFFICES ASSUME IndentInv, [Next]_vars PROVE IndentInv'
  OBVIOUS
<1>1. CASE UNCHANGED vars
  <2>1. IndentTypeOK'
    BY <1>1 DEF vars, piVars, diVars, IndentInv, IndentTypeOK
  <2> QED
    BY <1>1, <2>1, LinesKept DEF vars, piVars, diVars
<1>2. ASSUME NEW p \in Pis, NEW S \in SUBSET DiLines, PickLines(p, S) PROVE IndentInv'
  BY <1>2, PickLinesInv
<1>3. ASSUME NEW p \in Pis, update_pil(p) PROVE IndentInv'
  BY <1>3, UpdateInv
<1>4. ASSUME NEW p \in Pis, NEW r \in Products, NEW q \in Qtys, EditLine(p, r, q)
      PROVE IndentInv'
  BY <1>4, EditLineInv
<1>5. ASSUME NEW p \in Pis, NEW r \in Products, RemoveLine(p, r) PROVE IndentInv'
  BY <1>5, RemoveLineInv
<1>6. ASSUME NEW p \in Pis, tender_in_progress(p) PROVE IndentInv'
  BY <1>6, ConfirmInv
<1>7. ASSUME NEW p \in Pis, tender_for_approve(p) PROVE IndentInv'
  BY <1>7, ApproveInv
<1>8. ASSUME NEW p \in Pis, tender_reject(p) PROVE IndentInv'
  BY <1>8, RejectInv
<1>9. ASSUME NEW p \in Pis, unlink(p) PROVE IndentInv'
  BY <1>9, UnlinkInv
<1>10. ASSUME NEW d \in DiLines, load_item(d) PROVE IndentInv'
  BY <1>10, ClosingMoved DEF load_item, ClosingStates
<1>11. ASSUME NEW d \in DiLines, entry_confirm(d) PROVE IndentInv'
  BY <1>11, ClosingMoved DEF entry_confirm, ClosingStates
<1>12. ASSUME NEW d \in DiLines, entry_approve(d) PROVE IndentInv'
  BY <1>12, CloseInv
<1>13. ASSUME NEW d \in DiLines, entry_reject(d) PROVE IndentInv'
  BY <1>13, ClosingMoved DEF entry_reject, ClosingStates
<1> QED
  BY <1>1, <1>2, <1>3, <1>4, <1>5, <1>6, <1>7, <1>8, <1>9, <1>10, <1>11, <1>12, <1>13 DEF Next

-----------------------------------------------------------------------------
(* Theorems *)

\* From any form and in whatever order purchase indents are approved and
\* lines closed, no indent line is left with less than nothing or more than
\* it asked for to order.
THEOREM IndentTyped == Spec => []IndentTypeOK
<1>1. IndentInv => IndentTypeOK
  BY DEF IndentInv
<1> QED
  BY IndentInvInit, IndentInvStep, <1>1, PTL DEF Spec

\* Until a line is closed, what it has pending is what is still to order.
THEOREM PendingKept == Spec => []PendingFollows
<1>1. IndentInv => PendingFollows
  BY DEF IndentInv
<1> QED
  BY IndentInvInit, IndentInvStep, <1>1, PTL DEF Spec

-----------------------------------------------------------------------------
(* Lines taken off the offer *)

LEMMA ClosingsStay == IndentTypeOK /\ [Next]_vars => ClosedStay
<1> SUFFICES ASSUME IndentTypeOK, [Next]_vars PROVE ClosedStay
  OBVIOUS
<1>1. CASE UNCHANGED closing
  BY <1>1 DEF ClosedStay
<1>2. ASSUME NEW d \in DiLines, NEW s \in ClosingStates,
             closing' = [closing EXCEPT ![d] = s], closing[d] # "approved" \/ s = "approved"
      PROVE  ClosedStay
  BY <1>2 DEF ClosedStay, IndentTypeOK
<1>3. ASSUME NEW d \in DiLines,
             load_item(d) \/ entry_confirm(d) \/ entry_approve(d) \/ entry_reject(d)
      PROVE  ClosedStay
  BY <1>2, <1>3 DEF load_item, entry_confirm, entry_approve, entry_reject, ClosingStates
<1>4. ASSUME NEW p \in Pis,
             \/ \E S \in SUBSET DiLines : PickLines(p, S)
             \/ update_pil(p)
             \/ \E r \in Products, q \in Qtys : EditLine(p, r, q)
             \/ \E r \in Products : RemoveLine(p, r)
             \/ tender_in_progress(p) \/ tender_for_approve(p)
             \/ tender_reject(p) \/ unlink(p)
      PROVE  UNCHANGED closing
  BY <1>4 DEF PickLines, update_pil, EditLine, RemoveLine, tender_in_progress,
              tender_for_approve, tender_reject, unlink
<1> QED
  BY <1>1, <1>3, <1>4 DEF Next, vars

\* A step after which every line that is off the offer was so before, with
\* no more to order, or has nothing to order.
LEMMA DoneKept ==
    ASSUME DoneIsDone, ClosedStay,
           \A d \in DiLines : lineState'[d] = "process" =>
               \/ poQty'[d] = 0
               \/ \E e \in DiLines : ProductOf[e] = ProductOf[d] /\ closing[e] = "approved"
               \/ lineState[d] = "process" /\ (poQty[d] = 0 => poQty'[d] = 0)
    PROVE  DoneIsDone'
<1> SUFFICES ASSUME NEW d \in DiLines, lineState'[d] = "process", poQty'[d] # 0
             PROVE  \E e \in DiLines : ProductOf[e] = ProductOf[d] /\ closing'[e] = "approved"
  BY DEF DoneIsDone
<1>1. PICK e \in DiLines : ProductOf[e] = ProductOf[d] /\ closing[e] = "approved"
  BY DEF DoneIsDone
<1> QED
  BY <1>1 DEF ClosedStay

\* Nothing is pending for lines none of which is closed: nothing of any of
\* them is to be ordered.
LEMMA ExhaustedIsDone ==
    ASSUME IndentInv, NEW p \in Pis, NEW r \in Products, Exhausted(p, r),
           NEW d \in Group(p, r)
    PROVE  \/ poQty[d] = 0
           \/ \E e \in DiLines : ProductOf[e] = ProductOf[d] /\ closing[e] = "approved"
<1> SUFFICES ASSUME \A e \in DiLines : ProductOf[e] = ProductOf[d] => closing[e] # "approved"
             PROVE  poQty[d] = 0
  OBVIOUS
<1> DEFINE G == Group(p, r)
<1>1. G \subseteq DiLines /\ \A e \in G : ProductOf[e] = r
  BY DEF Group, IndentInv, IndentTypeOK
<1>2. IsFiniteSet(G)
  BY <1>1, IndentConstantsOK, FS_Subset
<1>3. \A e \in G : pendingQty[e] = poQty[e] /\ pendingQty[e] \in Nat
  BY <1>1 DEF IndentInv, IndentTypeOK, PendingFollows
<1>4. SumFunctionOnSet(pendingQty, G) = 0
  BY DEF Exhausted
<1> HIDE DEF G
<1>5. pendingQty[d] <= SumFunctionOnSet(pendingQty, G)
  BY <1>2, <1>3, SumIsNat DEF G
<1>6. pendingQty[d] = poQty[d] /\ pendingQty[d] \in Nat
  BY <1>3 DEF G
<1> QED
  BY <1>4, <1>5, <1>6

LEMMA DoneStep ==
    ASSUME IndentInv, DoneIsDone, [Next]_vars
    PROVE  DoneIsDone'
<1>0. ClosedStay
  BY ClosingsStay DEF IndentInv
<1>1. CASE UNCHANGED <<lineState, poQty>>
  BY <1>0, <1>1, DoneKept
<1>2. ASSUME NEW p \in Pis, update_pil(p)
      PROVE  DoneIsDone'
  <2>1. poQty' = poQty
    BY <1>2 DEF update_pil
  <2>2. ASSUME NEW d \in DiLines, lineState'[d] = "process"
        PROVE  \/ lineState[d] = "process"
               \/ poQty[d] = 0
               \/ \E e \in DiLines : ProductOf[e] = ProductOf[d] /\ closing[e] = "approved"
    <3>1. CASE \E r \in Products : Exhausted(p, r) /\ d = First(Group(p, r))
      <4>1. PICK r \in Products : Exhausted(p, r) /\ d = First(Group(p, r))
        BY <3>1
      <4>2. Group(p, r) \in SUBSET DiLines /\ Group(p, r) # {}
        BY <4>1 DEF Group, Exhausted, IndentInv, IndentTypeOK
      <4>3. d \in Group(p, r)
        BY <4>1, <4>2, FirstIsOne
      <4> QED
        BY <4>1, <4>3, ExhaustedIsDone
    <3>2. CASE ~ \E r \in Products : Exhausted(p, r) /\ d = First(Group(p, r))
      BY <1>2, <2>2, <3>2 DEF update_pil
    <3> QED
      BY <3>1, <3>2
  <2> QED
    BY <1>0, <2>1, <2>2, DoneKept
<1>3. ASSUME NEW p \in Pis, NEW r \in Products, RemoveLine(p, r)
      PROVE  DoneIsDone'
  <2>1. poQty' = poQty /\ \A d \in DiLines : lineState'[d] \in {lineState[d], "noprocess"}
    BY <1>3 DEF RemoveLine, IndentInv, IndentTypeOK
  <2> QED
    BY <1>0, <2>1, DoneKept
<1>4. ASSUME NEW p \in Pis, tender_for_approve(p)
      PROVE  DoneIsDone'
  <2>1. PICK before \in Befores(p) :
          poQty' = [d \in DiLines |->
                IF d \in Singles(p) THEN ToOrder(LineFor(p, d))
                ELSE IF d \in Grouped(p, before) THEN Rest(p, d, before) ELSE poQty[d]]
    BY <1>4 DEF tender_for_approve
  <2>2. ASSUME NEW d \in DiLines, lineState'[d] = "process"
        PROVE  poQty'[d] = 0 \/ (lineState[d] = "process" /\ (poQty[d] = 0 => poQty'[d] = 0))
    <3>1. CASE d \in Singles(p)
      BY <1>4, <2>2, <3>1 DEF tender_for_approve
    <3>2. CASE d \notin Singles(p)
      <4>1. lineState[d] = "process"
        BY <1>4, <2>2, <3>2 DEF tender_for_approve
      <4>2. CASE d \in Grouped(p, before)
        <5>1. poQty'[d] \in Nat /\ poQty'[d] <= poQty[d]
          BY <2>1, <3>2, <4>2, GroupWritten
        <5>2. poQty[d] \in Nat
          BY DEF IndentInv, IndentTypeOK
        <5> QED
          BY <4>1, <5>1, <5>2
      <4>3. CASE d \notin Grouped(p, before)
        BY <2>1, <3>2, <4>1, <4>3
      <4> QED
        BY <4>2, <4>3
    <3> QED
      BY <3>1, <3>2
  <2> QED
    BY <1>0, <2>2, DoneKept
<1>5. ASSUME NEW p \in Pis,
             \/ \E S \in SUBSET DiLines : PickLines(p, S)
             \/ \E r \in Products, q \in Qtys : EditLine(p, r, q)
             \/ tender_in_progress(p) \/ tender_reject(p) \/ unlink(p)
      PROVE  UNCHANGED <<lineState, poQty>>
  BY <1>5 DEF PickLines, EditLine, tender_in_progress, tender_reject, unlink, diVars
<1>6. ASSUME NEW d \in DiLines,
             load_item(d) \/ entry_confirm(d) \/ entry_approve(d) \/ entry_reject(d)
      PROVE  UNCHANGED <<lineState, poQty>>
  BY <1>6 DEF load_item, entry_confirm, entry_approve, entry_reject, diVars
<1> QED
  BY <1>1, <1>2, <1>3, <1>4, <1>5, <1>6 DEF Next, vars, diVars

\* DoneIsDone: whatever forms the clicks come from, a line is off the offer
\* only when nothing of it is to be ordered, or a line of its product was
\* closed.
THEOREM DoneLinesAreDone == Spec => []DoneIsDone
<1>1. Init => DoneIsDone
  BY DEF Init, DoneIsDone
<1>2. IndentInv /\ DoneIsDone /\ [Next]_vars => DoneIsDone'
  BY DoneStep
<1> QED
  BY IndentInvInit, IndentInvStep, <1>1, <1>2, PTL DEF Spec

-----------------------------------------------------------------------------
(* What is taken off the indents.  An approval overwrites the row with what *)
(* a copy says, so the rows may rise again, and TakenIsIndented is not      *)
(* inductive: the invariant says it of whatever mixture of rows and copies  *)
(* the approvals yet to come can leave.                                     *)

LinesOf(r) == {d \in DiLines : ProductOf[d] = r}

\* Purchase indent p, not approved yet, holds a copy of line d that says n.
Holds(p, d, n) == /\ piState[p] \in PiButtonStates
                  /\ d \in Singles(p)
                  /\ n = LineFor(p, d).po

\* The rows with any number of them replaced by copies of them.
WrittenBack == {v \in [DiLines -> Nat] : \A d \in DiLines :
                   v[d] = poQty[d] \/ \E p \in Pis : Holds(p, d, v[d])}

CopiesIndented ==
    \A r \in Products : \A v \in WrittenBack :
        SumFunctionOnSet(Asked, LinesOf(r)) - SumFunctionOnSet(v, LinesOf(r)) <= Indented(r)

LEMMA LinesOfFinite ==
    ASSUME NEW r \in Products
    PROVE  LinesOf(r) \subseteq DiLines /\ IsFiniteSet(LinesOf(r)) /\ LinesOf(r) \subseteq Nat
BY IndentConstantsOK, FS_Subset DEF LinesOf

LEMMA CopiesCoverRows == IndentTypeOK /\ CopiesIndented => TakenIsIndented
<1> SUFFICES ASSUME IndentTypeOK, CopiesIndented, NEW r \in Products
             PROVE  SumFunctionOnSet(Asked, LinesOf(r)) - SumFunctionOnSet(poQty, LinesOf(r))
                      <= Indented(r)
  BY DEF TakenIsIndented, LinesOf
<1>1. poQty \in WrittenBack
  BY DEF WrittenBack, IndentTypeOK
<1> QED
  BY <1>1 DEF CopiesIndented

\* What purchase indent p indents of product r.
Indents(p, r) == IF piState[p] = "approved" /\ piLine[p][r].made THEN piLine[p][r].qty ELSE 0

LEMMA IndentsTyped ==
    ASSUME IndentTypeOK, NEW p \in Pis, NEW r \in Products
    PROVE  /\ Indents(p, r) \in Nat
           /\ piLine[p][r].made => piLine[p][r] \in PiLine /\ piLine[p][r].qty \in Nat
<1>1. piLine[p][r] \in PiLine \union {NoPiLine}
  BY DEF IndentTypeOK
<1>2. piLine[p][r].made => piLine[p][r] \in PiLine
  BY <1>1 DEF NoPiLine
<1>3. piLine[p][r].made => piLine[p][r].qty \in Nat
  BY <1>2 DEF PiLine
<1> QED
  BY <1>2, <1>3 DEF Indents

LEMMA IndentedTyped == ASSUME IndentTypeOK, NEW r \in Products PROVE Indented(r) \in Nat
<1> DEFINE f == [p \in Pis |-> Indents(p, r)]
<1>1. \A p \in Pis : f[p] \in Nat
  BY IndentsTyped
<1>2. Indented(r) = SumFunctionOnSet(f, Pis)
  BY DEF Indented, Indents
<1> HIDE DEF f
<1> QED
  BY <1>1, <1>2, IndentConstantsOK, SumIsNat

LEMMA CopiesIndentedInit == Init => CopiesIndented
<1> SUFFICES ASSUME Init, NEW r \in Products, NEW v \in WrittenBack
             PROVE  SumFunctionOnSet(Asked, LinesOf(r)) - SumFunctionOnSet(v, LinesOf(r))
                      <= Indented(r)
  BY DEF CopiesIndented
<1>1. ASSUME NEW d \in LinesOf(r)
      PROVE  v[d] = Asked[d] /\ Asked[d] \in Int
  <2>1. d \in DiLines /\ ProductOf[d] \in Products
    BY IndentConstantsOK DEF LinesOf
  <2>2. \A p \in Pis : d \notin Singles(p)
    BY <2>1 DEF Init, Singles, LineFor, NoPiLine
  <2> QED
    BY <2>1, <2>2, IndentConstantsOK DEF WrittenBack, Holds, Init
<1>2. SumFunctionOnSet(v, LinesOf(r)) = SumFunctionOnSet(Asked, LinesOf(r))
  BY <1>1, LinesOfFinite, SumSame
<1>3. SumFunctionOnSet(Asked, LinesOf(r)) \in Int
  BY <1>1, LinesOfFinite, SumIsInt
<1>4. Indented(r) \in Nat
  BY IndentInvInit, IndentedTyped DEF IndentInv
<1> QED
  BY <1>2, <1>3, <1>4

\* Steps that approve nothing: each copy was there before or is of a row.
LEMMA CopiesIndentedKept ==
    ASSUME IndentInv, CopiesIndented, poQty' = poQty,
           \A p \in Pis :
               /\ piState'[p] = "approved" <=> piState[p] = "approved"
               /\ piState'[p] \in PiButtonStates => piState[p] \in PiButtonStates
               /\ piState[p] = "approved" => piLine'[p] = piLine[p],
           \A p \in Pis, r \in Products :
               LET l == piLine'[p][r] IN
               l.made /\ ~l.group => l.po = poQty[l.first] \/ SameCopy(l, piLine[p][r])
    PROVE  CopiesIndented'
<1> SUFFICES ASSUME NEW r \in Products, NEW v \in WrittenBack'
             PROVE  SumFunctionOnSet(Asked, LinesOf(r)) - SumFunctionOnSet(v, LinesOf(r))
                      <= Indented(r)'
  BY DEF CopiesIndented, LinesOf
<1>1. Indented(r)' = Indented(r)
  <2>1. [p \in Pis |-> IF piState'[p] = "approved" /\ piLine'[p][r].made
                       THEN piLine'[p][r].qty ELSE 0]
          = [p \in Pis |-> IF piState[p] = "approved" /\ piLine[p][r].made
                           THEN piLine[p][r].qty ELSE 0]
    OBVIOUS
  <2> QED
    BY <2>1 DEF Indented
<1>2. ASSUME NEW d \in DiLines, NEW p \in Pis, NEW n, Holds(p, d, n)'
      PROVE  n = poQty[d] \/ Holds(p, d, n)
  <2> DEFINE l == piLine'[p][ProductOf[d]]
             k == piLine[p][ProductOf[d]]
  <2>1. ProductOf[d] \in Products
    BY IndentConstantsOK
  <2>2. l.made /\ ~l.group /\ l.first = d /\ n = l.po /\ piState[p] \in PiButtonStates
    BY <1>2 DEF Holds, Singles, LineFor
  <2>3. l.po = poQty[l.first] \/ SameCopy(l, k)
    BY <2>1, <2>2
  <2> HIDE DEF l, k
  <2>4. SameCopy(l, k) => k.made /\ ~k.group /\ k.first = d /\ n = k.po
    BY <2>2 DEF SameCopy
  <2> QED
    BY <2>2, <2>3, <2>4 DEF Holds, Singles, LineFor, k
<1>3. v \in WrittenBack
  BY <1>2 DEF WrittenBack
<1> QED
  BY <1>1, <1>3 DEF CopiesIndented

\* A line that stands for several is charged with what it indents, handed on
\* from one picked line to the next.
LEMMA GroupTakes ==
    ASSUME IndentInv, NEW p \in Pis, NEW r \in Products, NEW before \in Befores(p),
           NEW c, \A d \in LinesOf(r) :
                    \/ c[d] = 0
                    \/ d \in Grouped(p, before) /\ c[d] = poQty[d] - Rest(p, d, before),
           piLine[p][r].made
    PROVE  /\ \A d \in LinesOf(r) : c[d] \in Nat
           /\ SumFunctionOnSet(c, LinesOf(r)) <= piLine[p][r].qty
<1> DEFINE q == piLine[p][r].qty
           G == Group(p, r)
           S == {d \in LinesOf(r) : c[d] # 0}
<1>1. q \in Nat
  BY IndentsTyped DEF IndentInv
<1>2. ASSUME NEW d \in LinesOf(r)
      PROVE  poQty[d] \in Nat /\ c[d] \in Nat /\ c[d] <= poQty[d]
  <2>1. poQty[d] \in Nat
    BY <1>2 DEF LinesOf, IndentInv, IndentTypeOK
  <2>2. d \in Grouped(p, before) => Rest(p, d, before) \in Nat /\ Rest(p, d, before) <= poQty[d]
    BY GroupWritten
  <2> QED
    BY <2>1, <2>2
<1>3. S \subseteq LinesOf(r) /\ IsFiniteSet(S) /\ S \subseteq Nat
  BY LinesOfFinite, FS_Subset
<1>4. ASSUME NEW d \in S
      PROVE  /\ d \in G /\ before[d] \in Nat
             /\ c[d] <= q - before[d]
             /\ before[d] = SumFunctionOnSet(poQty, {e \in G : e < d})
  <2>1. d \in Grouped(p, before) /\ c[d] = poQty[d] - Rest(p, d, before)
        /\ d \in DiLines /\ ProductOf[d] = r
    BY DEF LinesOf
  <2>2. d \in G
    BY <2>1 DEF Grouped, Group
  <2>3. before[d] \in Nat /\ before[d] = SumFunctionOnSet(poQty, {e \in G : e < d})
    BY <2>1 DEF Befores
  <2>4. q > before[d]
    BY <2>1 DEF Grouped, LineFor
  <2>5. Rest(p, d, before) = IF q - before[d] > poQty[d] THEN 0 ELSE poQty[d] - (q - before[d])
    BY <2>1 DEF Rest, LineFor
  <2> HIDE DEF q, G
  <2>6. c[d] <= q - before[d]
    BY <1>1, <1>2, <2>1, <2>3, <2>4, <2>5
  <2> QED
    BY <2>2, <2>3, <2>6
<1>5. ASSUME NEW d \in S
      PROVE  c[d] <= q - SumFunctionOnSet(c, {e \in S : e < d})
  <2> DEFINE A == {e \in S : e < d}
             B == {e \in G : e < d}
  <2>1. A \subseteq B /\ A \subseteq S
    BY <1>4
  <2>2. IsFiniteSet(B) /\ IsFiniteSet(A) /\ \A e \in B : poQty[e] \in Nat
    <3>1. B \subseteq DiLines
      BY DEF Group, IndentInv, IndentTypeOK
    <3> QED
      BY <2>1, <3>1, IndentConstantsOK, FS_Subset DEF IndentInv, IndentTypeOK
  <2>3. \A e \in A : c[e] \in Nat /\ c[e] \in Int /\ poQty[e] \in Int /\ c[e] <= poQty[e]
    BY <1>2, <1>3, <2>1
  <2>4. c[d] <= q - before[d] /\ before[d] = SumFunctionOnSet(poQty, B) /\ before[d] \in Nat
    BY <1>4
  <2>5. c[d] \in Nat
    BY <1>2, <1>3
  <2> HIDE DEF A, B, S, G, q
  <2>6. SumFunctionOnSet(c, A) <= SumFunctionOnSet(poQty, A)
    BY <2>2, <2>3, SumMono
  <2>7. SumFunctionOnSet(poQty, A) <= SumFunctionOnSet(poQty, B)
    BY <2>1, <2>2, SumSubset
  <2>8. SumFunctionOnSet(c, A) \in Int /\ SumFunctionOnSet(poQty, A) \in Int
    BY <2>2, <2>3, SumIsInt
  <2>9. c[d] <= q - SumFunctionOnSet(c, A)
    BY <1>1, <2>4, <2>5, <2>6, <2>7, <2>8
  <2> QED
    BY <2>9 DEF A
<1>6. \A d \in S : c[d] \in Int
  BY <1>2, <1>3
<1>7. \A d \in LinesOf(r) \ S : c[d] = 0
  OBVIOUS
<1> HIDE DEF q, S
<1>8. SumFunctionOnSet(c, LinesOf(r)) = SumFunctionOnSet(c, S)
  BY <1>3, <1>6, <1>7, LinesOfFinite, SumWithin
<1>9. SumFunctionOnSet(c, S) <= q
  BY <1>1, <1>3, <1>5, <1>6, HandedOn
<1> QED
  BY <1>2, <1>8, <1>9 DEF q

\* A line that stands for one indent line takes no more than it indents from
\* what its copy says.
LEMMA SingleTakes ==
    ASSUME IndentInv, NEW p \in Pis, NEW r \in Products,
           NEW c, \A d \in LinesOf(r) :
                    \/ c[d] = 0
                    \/ d \in Singles(p) /\ c[d] = LineFor(p, d).po - ToOrder(LineFor(p, d)),
           piLine[p][r].made
    PROVE  /\ \A d \in LinesOf(r) : c[d] \in Nat
           /\ SumFunctionOnSet(c, LinesOf(r)) <= piLine[p][r].qty
<1> DEFINE l == piLine[p][r]
<1>1. l.qty \in Nat
  BY IndentsTyped DEF IndentInv
<1>2. ASSUME NEW d \in LinesOf(r), c[d] # 0
      PROVE  d = l.first /\ c[d] \in Nat /\ c[d] <= l.qty
  <2>1. d \in Singles(p) /\ LineFor(p, d) = l
    BY <1>2 DEF LinesOf, LineFor
  <2>2. l.po \in Nat /\ d = l.first
    BY <2>1, SingleLine DEF Singles
  <2>3. c[d] = l.po - (IF l.qty > l.po THEN 0 ELSE l.po - l.qty)
    BY <1>2, <2>1 DEF ToOrder
  <2> HIDE DEF l
  <2> QED
    BY <1>1, <2>2, <2>3
<1>3. \A d \in LinesOf(r) : c[d] \in Nat /\ c[d] \in Int
  BY <1>2
<1> HIDE DEF l
<1>4. CASE \E d \in LinesOf(r) : c[d] # 0
  <2>1. PICK d \in LinesOf(r) : c[d] # 0
    BY <1>4
  <2>2. \A e \in LinesOf(r) \ {d} : c[e] = 0
    BY <1>2, <2>1
  <2>3. {d} \in SUBSET LinesOf(r) /\ \A e \in {d} : c[e] \in Int
    BY <1>3
  <2>4. SumFunctionOnSet(c, LinesOf(r)) = SumFunctionOnSet(c, {d})
    BY <2>2, <2>3, LinesOfFinite, SumWithin
  <2>5. SumFunctionOnSet(c, {d}) = c[d]
    BY <1>3, SumOne
  <2> QED
    BY <1>2, <1>3, <2>1, <2>4, <2>5 DEF l
<1>5. CASE \A d \in LinesOf(r) : c[d] = 0
  <2>1. SumFunctionOnSet(c, LinesOf(r)) = 0
    BY <1>5, LinesOfFinite, SumZero
  <2> QED
    BY <1>1, <1>3, <2>1 DEF l
<1> QED
  BY <1>4, <1>5

\* An approval adds to what is indented what the line of the product says.
LEMMA IndentedGrows ==
    ASSUME IndentInv, NEW p \in Pis, NEW r \in Products, tender_for_approve(p),
           piState[p] # "approved"
    PROVE  Indented(r)' = Indented(r) + (IF piLine[p][r].made THEN piLine[p][r].qty ELSE 0)
<1> DEFINE f == [q \in Pis |-> Indents(q, r)]
           g == [q \in Pis |-> Indents(q, r)']
           n == IF piLine[p][r].made THEN piLine[p][r].qty ELSE 0
<1>1. IndentTypeOK /\ IndentTypeOK'
  BY ApproveInv DEF IndentInv
<1>2. /\ piState' = [piState EXCEPT ![p] = "approved"]
      /\ piLine' = [piLine EXCEPT ![p] = [s \in Products |->
            IF s \in Made(p) THEN [piLine[p][s] EXCEPT !.state = "process"] ELSE NoPiLine]]
  BY DEF tender_for_approve, SetPi
<1>3. \A q \in Pis : f[q] \in Nat /\ f[q] \in Int /\ g[q] \in Int
  <2>1. \A q \in Pis : Indents(q, r) \in Nat
    BY <1>1, IndentsTyped
  <2>2. \A q \in Pis : Indents(q, r)' \in Nat
    <3> SUFFICES ASSUME NEW q \in Pis PROVE Indents(q, r)' \in Nat
      OBVIOUS
    <3>1. piLine'[q][r] \in PiLine \union {NoPiLine}
      BY <1>1 DEF IndentTypeOK
    <3>2. piLine'[q][r].made => piLine'[q][r].qty \in Nat
      <4>1. piLine'[q][r].made => piLine'[q][r] \in PiLine
        BY <3>1 DEF NoPiLine
      <4> QED
        BY <4>1 DEF PiLine
    <3> QED
      BY <3>2 DEF Indents
  <2> QED
    BY <2>1, <2>2
<1>4. \A q \in Pis \ {p} : g[q] = f[q]
  BY <1>1, <1>2 DEF Indents, IndentTypeOK
<1>5. f[p] = 0
  BY DEF Indents
<1>6. g[p] = n
  <2>1. piState'[p] = "approved"
    BY <1>1, <1>2 DEF IndentTypeOK
  <2>2. piLine'[p][r] = IF r \in Made(p) THEN [piLine[p][r] EXCEPT !.state = "process"]
                        ELSE NoPiLine
    BY <1>1, <1>2 DEF IndentTypeOK
  <2>3. piLine[p][r].made => piLine[p][r] \in PiLine
    BY <1>1, IndentsTyped
  <2>4. piLine[p][r].made => piLine'[p][r].made /\ piLine'[p][r].qty = piLine[p][r].qty
    BY <2>2, <2>3 DEF Made, PiLine
  <2>5. ~piLine[p][r].made => ~piLine'[p][r].made
    BY <2>2 DEF Made, NoPiLine
  <2> QED
    BY <2>1, <2>4, <2>5 DEF Indents
<1>7. Indented(r) = SumFunctionOnSet(f, Pis) /\ Indented(r)' = SumFunctionOnSet(g, Pis)
  BY DEF Indented, Indents
<1>8. Indented(r) \in Nat /\ n \in Nat
  BY <1>1, IndentedTyped, IndentsTyped
<1> HIDE DEF f, g, n
<1>9. SumFunctionOnSet(g, Pis) = SumFunctionOnSet(f, Pis) + (g[p] - f[p])
  BY <1>3, <1>4, IndentConstantsOK, SumChanged
<1>10. SumFunctionOnSet(f, Pis) \in Int
  BY <1>3, IndentConstantsOK, SumIsInt
<1>11. Indented(r)' = Indented(r) + n
  BY <1>5, <1>6, <1>7, <1>8, <1>9, <1>10
<1> QED
  BY <1>11 DEF n

LEMMA CopiesIndentedApprove ==
    ASSUME IndentInv, CopiesIndented, NEW p \in Pis, tender_for_approve(p),
           piState[p] \in PiButtonStates
    PROVE  CopiesIndented'
<1> SUFFICES ASSUME NEW r \in Products, NEW v \in WrittenBack'
             PROVE  SumFunctionOnSet(Asked, LinesOf(r)) - SumFunctionOnSet(v, LinesOf(r))
                      <= Indented(r)'
  BY DEF CopiesIndented, LinesOf
<1>1. PICK before \in Befores(p) :
          poQty' = [d \in DiLines |->
                IF d \in Singles(p) THEN ToOrder(LineFor(p, d))
                ELSE IF d \in Grouped(p, before) THEN Rest(p, d, before) ELSE poQty[d]]
  BY DEF tender_for_approve
<1>2. /\ piState' = [piState EXCEPT ![p] = "approved"]
      /\ \A q \in Pis \ {p} : piLine'[q] = piLine[q]
  BY DEF tender_for_approve, SetPi, IndentInv, IndentTypeOK
<1> DEFINE \* what the rows and the copies said before p wrote its own
           w == [d \in DiLines |->
                   IF d \notin LinesOf(r) THEN poQty[d]
                   ELSE IF v[d] # poQty'[d] THEN v[d]
                   ELSE IF d \in Singles(p) THEN LineFor(p, d).po
                   ELSE poQty[d]]
           c == [d \in DiLines |-> w[d] - v[d]]
           n == IF piLine[p][r].made THEN piLine[p][r].qty ELSE 0
<1>3. ASSUME NEW d \in DiLines, v[d] # poQty'[d]
      PROVE  \E q \in Pis : Holds(q, d, v[d])
  <2>1. PICK q \in Pis : Holds(q, d, v[d])'
    BY <1>3 DEF WrittenBack
  <2>2. q # p
    BY <1>2, <2>1 DEF Holds, PiButtonStates, IndentInv, IndentTypeOK
  <2>3. piState'[q] = piState[q] /\ piLine'[q] = piLine[q]
    BY <1>2, <2>2 DEF IndentInv, IndentTypeOK
  <2>4. Holds(q, d, v[d])
    BY <2>1, <2>3 DEF Holds, Singles, LineFor
  <2> QED
    BY <2>4
<1>4. \A d \in DiLines : v[d] \in Nat /\ poQty[d] \in Nat
  BY DEF WrittenBack, IndentInv, IndentTypeOK
<1>5. \A d \in Singles(p) : LineFor(p, d).po \in Nat /\ Holds(p, d, LineFor(p, d).po)
  BY SingleLine DEF Holds
<1>6. w \in WrittenBack
  <2>1. \A d \in DiLines : w[d] \in Nat /\ (w[d] = poQty[d] \/ \E q \in Pis : Holds(q, d, w[d]))
    BY <1>3, <1>4, <1>5
  <2>2. w \in [DiLines -> Nat]
    BY <2>1
  <2> HIDE DEF w
  <2> QED
    BY <2>1, <2>2 DEF WrittenBack
<1>7. SumFunctionOnSet(Asked, LinesOf(r)) - SumFunctionOnSet(w, LinesOf(r)) <= Indented(r)
  BY <1>6 DEF CopiesIndented
<1>8. (\A d \in LinesOf(r) : c[d] \in Nat) /\ SumFunctionOnSet(c, LinesOf(r)) <= n
  <2>1. ASSUME NEW d \in LinesOf(r)
        PROVE  \/ c[d] = 0
               \/ d \in Singles(p) /\ c[d] = LineFor(p, d).po - ToOrder(LineFor(p, d))
               \/ /\ d \notin Singles(p) /\ d \in Grouped(p, before)
                  /\ c[d] = poQty[d] - Rest(p, d, before)
    <3>1. d \in DiLines
      BY DEF LinesOf
    <3>2. c[d] = w[d] - v[d] /\ v[d] \in Nat /\ poQty[d] \in Nat
      BY <1>4, <3>1
    <3>3. CASE v[d] # poQty'[d]
      BY <3>1, <3>2, <3>3
    <3>4. CASE v[d] = poQty'[d] /\ d \in Singles(p)
      BY <1>1, <3>1, <3>2, <3>4
    <3>5. CASE v[d] = poQty'[d] /\ d \notin Singles(p)
      BY <1>1, <3>1, <3>2, <3>5
    <3> QED
      BY <3>3, <3>4, <3>5
  <2>2. \A d \in LinesOf(r) : LineFor(p, d) = piLine[p][r]
    BY DEF LinesOf, LineFor
  <2> HIDE DEF c
  <2>3. CASE ~piLine[p][r].made
    <3>1. \A d \in LinesOf(r) : c[d] = 0
      BY <2>1, <2>2, <2>3 DEF Singles, Grouped
    <3>2. SumFunctionOnSet(c, LinesOf(r)) = 0
      BY <3>1, LinesOfFinite, SumZero
    <3> QED
      BY <2>3, <3>1, <3>2
  <2>4. CASE piLine[p][r].made /\ piLine[p][r].group
    <3>1. \A d \in LinesOf(r) :
             c[d] = 0 \/ (d \in Grouped(p, before) /\ c[d] = poQty[d] - Rest(p, d, before))
      BY <2>1, <2>2, <2>4 DEF Singles
    <3> QED
      BY <2>4, <3>1, GroupTakes
  <2>5. CASE piLine[p][r].made /\ ~piLine[p][r].group
    <3>1. \A d \in LinesOf(r) :
             \/ c[d] = 0
             \/ d \in Singles(p) /\ c[d] = LineFor(p, d).po - ToOrder(LineFor(p, d))
      BY <2>1, <2>2, <2>5 DEF Grouped
    <3> QED
      BY <2>5, <3>1, SingleTakes
  <2> QED
    BY <2>3, <2>4, <2>5
<1>9. Indented(r)' = Indented(r) + n
  BY IndentedGrows DEF PiButtonStates
<1>10. \A d \in LinesOf(r) : v[d] \in Int /\ c[d] \in Int /\ w[d] = v[d] + c[d]
  <2>1. \A d \in LinesOf(r) : d \in DiLines /\ w[d] \in Nat /\ v[d] \in Nat
    BY <1>4, <1>6 DEF LinesOf, WrittenBack
  <2>2. \A d \in LinesOf(r) : c[d] = w[d] - v[d]
    BY <2>1
  <2> HIDE DEF w, c
  <2> QED
    BY <2>1, <2>2
<1>11. \A d \in LinesOf(r) : Asked[d] \in Int
  BY IndentConstantsOK DEF LinesOf
<1>12. Indented(r) \in Nat /\ n \in Nat
  BY IndentedTyped, IndentsTyped DEF IndentInv
<1> HIDE DEF w, c, n
<1>13. SumFunctionOnSet(w, LinesOf(r))
         = SumFunctionOnSet(v, LinesOf(r)) + SumFunctionOnSet(c, LinesOf(r))
  BY <1>10, LinesOfFinite, SumAdd
<1>14. /\ SumFunctionOnSet(v, LinesOf(r)) \in Int /\ SumFunctionOnSet(c, LinesOf(r)) \in Int
       /\ SumFunctionOnSet(Asked, LinesOf(r)) \in Int
  BY <1>10, <1>11, LinesOfFinite, SumIsInt
<1> QED
  BY <1>7, <1>8, <1>9, <1>12, <1>13, <1>14

LEMMA CopiesIndentedStep ==
    ASSUME ~ PiStale, IndentInv, CopiesIndented, [Next]_vars
    PROVE  CopiesIndented'
<1> USE DEF PiShows, PiButtonStates
<1>1. ASSUME UNCHANGED <<piState, piLine, poQty>>
      PROVE  CopiesIndented'
  BY <1>1, CopiesIndentedKept DEF SameCopy
<1>2. ASSUME NEW p \in Pis, NEW S \in SUBSET DiLines, PickLines(p, S)
      PROVE  CopiesIndented'
  BY <1>1, <1>2 DEF PickLines, diVars
<1>3. ASSUME NEW p \in Pis, update_pil(p)
      PROVE  CopiesIndented'
  <2>1. piState[p] # "approved" /\ UNCHANGED <<piState, poQty>>
    BY <1>3 DEF update_pil
  <2>2. PICK total \in Totals(p) : piLine' = [piLine EXCEPT ![p] =
              [r \in Products |-> IF Group(p, r) = {} THEN NoPiLine
                                  ELSE MadeLine(Group(p, r), total[r])]]
    BY <1>3 DEF update_pil
  <2>3. \A q \in Pis \ {p} : piLine'[q] = piLine[q]
    BY <2>2 DEF IndentInv, IndentTypeOK
  <2>4. ASSUME NEW q \in Pis, NEW r \in Products,
               piLine'[q][r].made, ~piLine'[q][r].group
        PROVE  piLine'[q][r].po = poQty[piLine'[q][r].first]
               \/ SameCopy(piLine'[q][r], piLine[q][r])
    <3>1. CASE q # p
      BY <2>3, <3>1 DEF SameCopy
    <3>2. CASE q = p
      <4>1. piLine'[q][r] = IF Group(p, r) = {} THEN NoPiLine
                            ELSE MadeLine(Group(p, r), total[r])
        BY <2>2, <3>2 DEF IndentInv, IndentTypeOK
      <4>2. piLine'[q][r] = MadeLine(Group(p, r), total[r])
        BY <2>4, <4>1 DEF NoPiLine
      <4> QED
        BY <2>4, <4>2 DEF MadeLine
    <3> QED
      BY <3>1, <3>2
  <2> QED
    BY <2>1, <2>3, <2>4, CopiesIndentedKept
<1>4. ASSUME NEW p \in Pis, NEW r \in Products, NEW n \in Qtys, EditLine(p, r, n)
      PROVE  CopiesIndented'
  <2>1. piState[p] # "approved" /\ UNCHANGED <<piState, poQty>>
    BY <1>4 DEF EditLine, diVars
  <2>2. piLine' = [piLine EXCEPT ![p] =
                     [piLine[p] EXCEPT ![r] = [piLine[p][r] EXCEPT !.qty = n]]]
    BY <1>4 DEF EditLine
  <2>3. \A q \in Pis \ {p} : piLine'[q] = piLine[q]
    BY <2>2 DEF IndentInv, IndentTypeOK
  <2>4. \A s \in Products : SameCopy(piLine'[p][s], piLine[p][s])
    <3> TAKE s \in Products
    <3>1. CASE s # r
      <4>1. piLine'[p][s] = piLine[p][s]
        BY <2>2, <3>1 DEF IndentInv, IndentTypeOK
      <4> QED
        BY <4>1 DEF SameCopy
    <3>2. CASE s = r
      <4>1. piLine[p][r] \in PiLine
        BY <1>4, IndentsTyped DEF EditLine, Made, IndentInv
      <4>2. piLine'[p][s] = [piLine[p][r] EXCEPT !.qty = n]
        BY <2>2, <3>2 DEF IndentInv, IndentTypeOK
      <4> QED
        BY <3>2, <4>1, <4>2 DEF SameCopy, PiLine
    <3> QED
      BY <3>1, <3>2
  <2>5. \A q \in Pis, s \in Products : SameCopy(piLine'[q][s], piLine[q][s])
    BY <2>3, <2>4 DEF SameCopy
  <2> QED
    BY <2>1, <2>3, <2>5, CopiesIndentedKept
<1>5. ASSUME NEW p \in Pis, piState[p] # "approved", UNCHANGED poQty,
             \A q \in Pis \ {p} : piLine'[q] = piLine[q] /\ piState'[q] = piState[q],
             piState'[p] \in {piState[p], "deleted"},
             \A s \in Products : piLine'[p][s] \in {piLine[p][s], NoPiLine}
      PROVE  CopiesIndented'
  <2>1. \A q \in Pis, s \in Products :
           piLine'[q][s] = NoPiLine \/ SameCopy(piLine'[q][s], piLine[q][s])
    BY <1>5 DEF SameCopy
  <2>2. \A q \in Pis, s \in Products :
           LET l == piLine'[q][s] IN
           l.made /\ ~l.group => l.po = poQty[l.first] \/ SameCopy(l, piLine[q][s])
    BY <2>1 DEF NoPiLine
  <2> QED
    BY <1>5, <2>2, CopiesIndentedKept
<1>6. ASSUME NEW p \in Pis, NEW r \in Products, RemoveLine(p, r)
      PROVE  CopiesIndented'
  <2>1. piState[p] # "approved" /\ UNCHANGED <<piState, poQty>>
    BY <1>6 DEF RemoveLine
  <2>2. piLine' = [piLine EXCEPT ![p] = [piLine[p] EXCEPT ![r] = NoPiLine]]
    BY <1>6 DEF RemoveLine
  <2>3. /\ \A q \in Pis \ {p} : piLine'[q] = piLine[q]
        /\ \A s \in Products : piLine'[p][s] \in {piLine[p][s], NoPiLine}
    BY <2>2 DEF IndentInv, IndentTypeOK
  <2> QED
    BY <1>5, <2>1, <2>3
<1>7. ASSUME NEW p \in Pis, unlink(p)
      PROVE  CopiesIndented'
  <2>1. piState[p] # "approved" /\ UNCHANGED poQty
        /\ piState' = [piState EXCEPT ![p] = "deleted"]
    BY <1>7 DEF unlink, SetPi, diVars
  <2>2. piLine' = [piLine EXCEPT ![p] = [r \in Products |-> NoPiLine]]
    BY <1>7 DEF unlink
  <2>3. /\ \A q \in Pis \ {p} : piLine'[q] = piLine[q] /\ piState'[q] = piState[q]
        /\ \A s \in Products : piLine'[p][s] = NoPiLine
        /\ piState'[p] = "deleted"
    BY <2>1, <2>2 DEF IndentInv, IndentTypeOK
  <2> QED
    BY <1>5, <2>1, <2>3
<1>8. ASSUME NEW p \in Pis, tender_in_progress(p) \/ tender_reject(p)
      PROVE  CopiesIndented'
  <2>1. UNCHANGED <<piLine, poQty>> /\ piState[p] \in PiButtonStates
    BY <1>8 DEF tender_in_progress, tender_reject, diVars
  <2>2. PICK s \in {"in_progress", "reject"} : piState' = [piState EXCEPT ![p] = s]
    BY <1>8 DEF tender_in_progress, tender_reject, SetPi
  <2>3. \A q \in Pis :
           /\ piState'[q] = "approved" <=> piState[q] = "approved"
           /\ piState'[q] \in PiButtonStates => piState[q] \in PiButtonStates
    BY <2>1, <2>2 DEF IndentInv, IndentTypeOK
  <2>4. \A q \in Pis, r \in Products : SameCopy(piLine'[q][r], piLine[q][r])
    BY <2>1 DEF SameCopy
  <2> QED
    BY <2>1, <2>3, <2>4, CopiesIndentedKept
<1>9. ASSUME NEW p \in Pis, tender_for_approve(p)
      PROVE  CopiesIndented'
  <2>1. piState[p] \in PiButtonStates
    BY <1>9 DEF tender_for_approve
  <2> QED
    BY <1>9, <2>1, CopiesIndentedApprove
<1>10. ASSUME NEW d \in DiLines,
              load_item(d) \/ entry_confirm(d) \/ entry_approve(d) \/ entry_reject(d)
       PROVE  CopiesIndented'
  BY <1>1, <1>10 DEF load_item, entry_confirm, entry_approve, entry_reject, piVars, diVars
<1>11. CASE UNCHANGED vars
  BY <1>1, <1>11 DEF vars, piVars, diVars
<1> QED
  BY <1>2, <1>3, <1>4, <1>6, <1>7, <1>8, <1>9, <1>10, <1>11 DEF Next

\* TakenIsIndented: where each click comes from a freshly read form, nothing
\* is taken off the departments' indents of a product that no approved
\* purchase indent indents, however the copies of the same lines overlap.
THEOREM TakenWasIndented ==
    ASSUME ~ PiStale
    PROVE  Spec => []TakenIsIndented
<1>1. Init => IndentInv /\ CopiesIndented
  BY IndentInvInit, CopiesIndentedInit
<1>2. IndentInv /\ CopiesIndented /\ [Next]_vars => (IndentInv /\ CopiesIndented)'
  BY IndentInvStep, CopiesIndentedStep
<1>3. IndentInv /\ CopiesIndented => TakenIsIndented
  BY CopiesCoverRows DEF IndentInv
<1> QED
  BY <1>1, <1>2, <1>3, PTL DEF Spec
=============================================================================
