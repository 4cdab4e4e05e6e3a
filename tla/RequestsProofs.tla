--------------------------- MODULE RequestsProofs ---------------------------
(***************************************************************************)
(* For any number of handlers, rows, connections and tries: the pool keeps *)
(* its entries, and every handler is one atomic step.                      *)
(***************************************************************************)
EXTENDS Requests, TLAPS

\* The types, with the pool's entries as records.
LEMMA EntriesTyped ==
    ASSUME NEW st \in EntryStates, NEW d \in Databases \union {NoDb}
    PROVE  Entry(st, d) \in [state : EntryStates, db : Databases \union {NoDb}]
BY DEF Entry

LEMMA TypesHoldFirst == Init => RequestsTypeOK
BY RequestsOK DEF Init, RequestsTypeOK, PCs, Nothing, Free, Entry, EntryStates

\* Giving a connection back keeps the types.
LEMMA GivenBackTyped ==
    ASSUME RequestsTypeOK, NEW r \in Requests, GiveBack(r), slot[r] \in Slots
    PROVE  /\ slot' \in [Requests -> Slots \union {NoSlot}]
           /\ pool' \in [Slots -> [state : EntryStates, db : Databases \union {NoDb}]]
BY DEF RequestsTypeOK, GiveBack, EntryStates

\* A handler that is at work and not cut has an entry of the pool.
LEMMA AtWorkHasEntry ==
    ASSUME RequestsTypeOK, NEW r \in Requests, ~Cut(r),
           pc[r] \in {"borrowed", "running", "committed"}
    PROVE  slot[r] \in Slots /\ pool[slot[r]].state # "broken"
BY DEF RequestsTypeOK, Cut

LEMMA TypesHoldNext == RequestsTypeOK /\ [Next]_vars => RequestsTypeOK'
<1> SUFFICES ASSUME RequestsTypeOK, [Next]_vars PROVE RequestsTypeOK'
    OBVIOUS
<1> USE DEF RequestsTypeOK
<1>1. ASSUME NEW r \in Requests, Borrow(r) PROVE RequestsTypeOK'
    <2>1. PICK s \in Sources(DbOf[r]) :
              /\ pool' = [t \in Slots |-> IF t = s THEN Entry("used", DbOf[r]) ELSE Swept(t)]
              /\ slot' = [slot EXCEPT ![r] = s]
        BY <1>1 DEF Borrow
    <2>2. s \in Slots
        BY DEF Sources, Reusable, Room, InState
    <2>3. \A t \in Slots : Swept(t) \in [state : EntryStates, db : Databases \union {NoDb}]
        BY DEF Swept, Free, Entry, EntryStates
    <2>4. Entry("used", DbOf[r]) \in [state : EntryStates, db : Databases \union {NoDb}]
        BY RequestsOK DEF Entry, EntryStates
    <2> QED BY <1>1, <2>1, <2>2, <2>3, <2>4 DEF Borrow, dbVars, PCs
<1>2. ASSUME NEW r \in Requests, PoolFull(r) PROVE RequestsTypeOK'
    BY <1>2 DEF PoolFull, dbVars, PCs, Over
<1>3. ASSUME NEW r \in Requests, Read(r) PROVE RequestsTypeOK'
    BY <1>3 DEF Read, PCs
<1>4. ASSUME NEW r \in Requests, Ask(r) PROVE RequestsTypeOK'
    <2>1. PICK k \in Writes[r] \ written[r] : want' = [want EXCEPT ![r] = k]
        BY <1>4 DEF Ask
    <2>2. k \in Rows
        BY RequestsOK
    <2> QED BY <1>4, <2>1, <2>2 DEF Ask
<1>5. ASSUME NEW r \in Requests, Write(r) PROVE RequestsTypeOK'
    BY <1>5 DEF Write, Waits
<1>6. ASSUME NEW r \in Requests, RollBack(r), slot[r] \in Slots
      PROVE  /\ books' \in [Rows -> SUBSET Requests]
             /\ saw' \in [Requests -> [Rows -> SUBSET Requests]]
             /\ written' \in [Requests -> SUBSET Rows]
             /\ want' \in [Requests -> Rows \union {NoRow}]
             /\ slot' \in [Requests -> Slots \union {NoSlot}]
             /\ pool' \in [Slots -> [state : EntryStates, db : Databases \union {NoDb}]]
    BY <1>6, GivenBackTyped DEF RollBack, Nothing
<1>7. ASSUME NEW r \in Requests, Conflict(r) PROVE RequestsTypeOK'
    <2>1. RollBack(r) /\ slot[r] \in Slots
        BY <1>7, AtWorkHasEntry DEF Conflict, Waits
    <2>2. pc' \in [Requests -> PCs]
        BY <1>7 DEF Conflict, PCs, Over
    <2>3. tries[r] \in 0 .. MaxTries
        OBVIOUS
    <2>4. MayRetry(r) => tries[r] + 1 \in 0 .. MaxTries
        BY <2>3, RequestsOK DEF MayRetry
    <2>5. tries' \in [Requests -> 0 .. MaxTries]
        BY <1>7, <2>4 DEF Conflict
    <2> QED BY <2>1, <2>2, <2>5, <1>6
<1>8. ASSUME NEW r \in Requests, Raise(r) PROVE RequestsTypeOK'
    <2>1. RollBack(r) /\ slot[r] \in Slots
        BY <1>8, AtWorkHasEntry DEF Raise
    <2> QED BY <1>8, <2>1, <1>6 DEF Raise, PCs, Over
<1>9. ASSUME NEW r \in Requests, Commit(r) PROVE RequestsTypeOK'
    BY <1>9 DEF Commit, PCs
<1>10. ASSUME NEW r \in Requests, Close(r) PROVE RequestsTypeOK'
    <2>1. GiveBack(r) /\ slot[r] \in Slots
        BY <1>10, AtWorkHasEntry DEF Close
    <2> QED BY <1>10, <2>1, GivenBackTyped DEF Close, dbVars, PCs, Over
<1>11. ASSUME NEW r \in Requests, Lost(r) PROVE RequestsTypeOK'
    <2>1. pool' \in [Slots -> [state : EntryStates, db : Databases \union {NoDb}]]
        BY <1>11 DEF Lost, EntryStates
    <2> QED BY <1>11, <2>1 DEF Lost, LostAt, Nothing, PCs, Over
<1>12. ASSUME Restart PROVE RequestsTypeOK'
    <2>1. pool' \in [Slots -> [state : EntryStates, db : Databases \union {NoDb}]]
        BY <1>12 DEF Restart, EntryStates
    <2> QED BY <1>12, <2>1 DEF Restart
<1>13. ASSUME NEW d \in Databases, CloseDb(d) PROVE RequestsTypeOK'
    BY <1>13 DEF CloseDb, Free, Entry, EntryStates
<1>14. ASSUME UNCHANGED vars PROVE RequestsTypeOK'
    BY <1>14 DEF vars, dbVars
<1> QED
    BY <1>1, <1>2, <1>3, <1>4, <1>5, <1>7, <1>8, <1>9, <1>10, <1>11, <1>12, <1>13, <1>14
    DEF Next, Thread

\* The types hold, for any number of handlers, rows, connections and tries.
THEOREM RequestsTyped == Spec => []RequestsTypeOK
BY TypesHoldFirst, TypesHoldNext, PTL DEF Spec
-----------------------------------------------------------------------------
(* The pool *)

\* PoolKept, and that only a handler at work has an entry.
PoolInv ==
    /\ RequestsTypeOK
    /\ PoolKept
    /\ \A r \in Requests : slot[r] # NoSlot => pc[r] \in {"borrowed", "running", "committed"}

LEMMA PoolHoldsFirst == Init => PoolInv
BY TypesHoldFirst, RequestsOK DEF Init, PoolInv, PoolKept, InState, Free, Entry

\* Giving back the entry that one handler has keeps the pool.
LEMMA GivenBackKept ==
    ASSUME PoolInv, NEW r \in Requests, GiveBack(r), ~Cut(r),
           pc[r] \in {"borrowed", "running", "committed"}
    PROVE  PoolKept' /\ \A q \in Requests : slot'[q] # NoSlot => q # r /\ slot[q] = slot'[q]
<1>1. slot[r] \in Slots /\ slot[r] # NoSlot
    BY AtWorkHasEntry, RequestsOK DEF PoolInv
<1>2. /\ slot' = [slot EXCEPT ![r] = NoSlot]
      /\ \A s \in Slots : pool'[s].state = IF s = slot[r] THEN "idle" ELSE pool[s].state
    BY <1>1 DEF GiveBack, PoolInv, RequestsTypeOK
<1>3. \A q \in Requests : slot'[q] = IF q = r THEN NoSlot ELSE slot[q]
    BY <1>2 DEF PoolInv, RequestsTypeOK
<1> QED BY <1>1, <1>2, <1>3 DEF PoolInv, PoolKept, InState

LEMMA PoolHoldsNext == PoolInv /\ [Next]_vars => PoolInv'
<1> SUFFICES ASSUME PoolInv, [Next]_vars PROVE PoolInv'
    OBVIOUS
<1> USE DEF PoolInv
<1>0. RequestsTypeOK /\ RequestsTypeOK'
    BY TypesHoldNext
\* Steps that leave the pool alone, and who is at work.
<1>1. ASSUME UNCHANGED <<slot, pool>>,
             \A q \in Requests : slot[q] # NoSlot
                 => pc'[q] \in {"borrowed", "running", "committed"}
      PROVE  PoolInv'
    BY <1>0, <1>1 DEF PoolKept, InState
\* Steps that end with a rollback or a close.
<1>2. ASSUME NEW r \in Requests, GiveBack(r), ~Cut(r),
             pc[r] \in {"borrowed", "running", "committed"},
             \A q \in Requests : q # r => pc'[q] = pc[q]
      PROVE  PoolInv'
    BY <1>0, <1>2, GivenBackKept
<1>3. ASSUME NEW r \in Requests, Borrow(r) PROVE PoolInv'
    <2>1. PICK s \in Sources(DbOf[r]) :
              /\ pool' = [t \in Slots |-> IF t = s THEN Entry("used", DbOf[r]) ELSE Swept(t)]
              /\ slot' = [slot EXCEPT ![r] = s]
        BY <1>3 DEF Borrow
    <2>2. s \in Slots /\ pool[s].state \in {"idle", "stale", "free", "closed"}
        BY DEF Sources, Reusable, Room, InState, Swept, Free, Entry
    <2>3. slot[r] = NoSlot /\ \A q \in Requests : slot[q] # s
        BY <1>3, <2>2, RequestsOK DEF Borrow, PoolKept, InState
    <2>4. /\ pool'[s].state = "used"
          /\ \A t \in Slots \ {s} : pool'[t].state \in {"used", "broken"}
                                      <=> pool[t].state \in {"used", "broken"}
        BY <2>1, <2>2 DEF Swept, Free, Entry
    <2>5. \A q \in Requests : slot'[q] = IF q = r THEN s ELSE slot[q]
        BY <1>0, <2>1 DEF RequestsTypeOK
    <2>6. PoolKept'
        <3>1. \A t \in Slots \ {s} :
                 pool'[t].state \in {"used", "broken"} => \E q \in Requests : slot'[q] = t
            BY <2>3, <2>4, <2>5, RequestsOK DEF PoolKept, InState
        <3>2. slot'[r] = s
            BY <2>5
        <3>3. \A q \in Requests : slot'[q] # NoSlot
                                   => slot'[q] \in Slots /\ pool'[slot'[q]].state \in {"used", "broken"}
            BY <2>2, <2>3, <2>4, <2>5 DEF PoolKept, InState
        <3>4. \A p, q \in Requests : slot'[p] = slot'[q] /\ slot'[p] # NoSlot => p = q
            BY <2>3, <2>5 DEF PoolKept
        <3> QED BY <3>1, <3>2, <3>3, <3>4 DEF PoolKept, InState
    <2>7. \A q \in Requests : pc'[q] = IF q = r THEN "borrowed" ELSE pc[q]
        BY <1>0, <1>3 DEF Borrow, RequestsTypeOK
    <2> QED BY <1>0, <2>5, <2>6, <2>7
<1>4. ASSUME NEW r \in Requests, PoolFull(r) PROVE PoolInv'
    BY <1>0, <1>1, <1>4 DEF PoolFull, RequestsTypeOK
<1>5. ASSUME NEW r \in Requests, Read(r) PROVE PoolInv'
    BY <1>0, <1>1, <1>5 DEF Read, RequestsTypeOK
<1>6. ASSUME NEW r \in Requests, Ask(r) PROVE PoolInv'
    BY <1>1, <1>6 DEF Ask
<1>7. ASSUME NEW r \in Requests, Write(r) PROVE PoolInv'
    BY <1>1, <1>7 DEF Write
<1>8. ASSUME NEW r \in Requests, Conflict(r) PROVE PoolInv'
    BY <1>0, <1>2, <1>8 DEF Conflict, RollBack, Waits, RequestsTypeOK
<1>9. ASSUME NEW r \in Requests, Raise(r) PROVE PoolInv'
    BY <1>0, <1>2, <1>9 DEF Raise, RollBack, RequestsTypeOK
<1>10. ASSUME NEW r \in Requests, Commit(r) PROVE PoolInv'
    BY <1>0, <1>1, <1>10 DEF Commit, RequestsTypeOK
<1>11. ASSUME NEW r \in Requests, Close(r) PROVE PoolInv'
    BY <1>0, <1>2, <1>11 DEF Close, RequestsTypeOK
<1>12. ASSUME NEW r \in Requests, Lost(r) PROVE PoolInv'
    <2>1. \A q \in Requests : /\ slot'[q] = IF q = r THEN NoSlot ELSE slot[q]
                              /\ q # r => pc'[q] = pc[q]
        BY <1>0, <1>12 DEF Lost, RequestsTypeOK
    <2>2. \A s \in Slots : pool'[s].state = IF s = slot[r] THEN "closed" ELSE pool[s].state
        BY <1>0, <1>12, RequestsOK DEF Lost, RequestsTypeOK
    <2> QED BY <1>0, <2>1, <2>2, RequestsOK DEF PoolKept, InState
<1>13. ASSUME Restart PROVE PoolInv'
    <2>1. \A s \in Slots : pool'[s].state \in {"used", "broken"}
                             <=> pool[s].state \in {"used", "broken"}
        <3> TAKE s \in Slots
        <3>1. CASE pool[s].state = "used"
            BY <1>13, <3>1, <1>0 DEF Restart, RequestsTypeOK
        <3>2. CASE pool[s].state = "idle"
            BY <1>13, <3>2, <1>0 DEF Restart, RequestsTypeOK
        <3>3. CASE pool[s].state \notin {"used", "idle"}
            BY <1>13, <3>3 DEF Restart
        <3> QED BY <3>1, <3>2, <3>3
    <2> QED BY <1>0, <1>13, <2>1 DEF Restart, PoolKept, InState
<1>14. ASSUME NEW d \in Databases, CloseDb(d) PROVE PoolInv'
    BY <1>0, <1>14, RequestsOK DEF CloseDb, PoolKept, InState, Free, Entry, RequestsTypeOK
<1>15. ASSUME UNCHANGED vars PROVE PoolInv'
    BY <1>1, <1>15 DEF vars
<1> QED
    BY <1>3, <1>4, <1>5, <1>6, <1>7, <1>8, <1>9, <1>10, <1>11, <1>12, <1>13, <1>14, <1>15
    DEF Next, Thread

\* No two handlers share a connection and none is lost, through any restarts,
\* errors and closings.
THEOREM ConnectionsKept == Spec => []PoolKept
<1>1. PoolInv => PoolKept
    BY DEF PoolInv
<1> QED BY <1>1, PoolHoldsFirst, PoolHoldsNext, PTL DEF Spec

\* "The Connection Pool Is Full" is said only while handlers that have not ended
\* have all of it.
THEOREM FullSaidOnlyInUse == Spec => FullMeansInUse
<1> DEFINE Full == \A r \in Requests :
                      pc[r] = "new" /\ pc'[r] = "refused"
                        => \A s \in Slots : \E q \in Requests : slot[q] = s /\ pc[q] \notin Over
<1>1. PoolInv /\ [Next]_vars => Full
    <2> SUFFICES ASSUME PoolInv, [Next]_vars,
                        NEW r \in Requests, pc[r] = "new", pc'[r] = "refused"
                 PROVE  \A s \in Slots : \E q \in Requests : slot[q] = s /\ pc[q] \notin Over
        OBVIOUS
    <2>1. PoolFull(r)
        <3>1. ASSUME NEW q \in Requests, Thread(q) PROVE PoolFull(q) /\ q = r
            <4>1. q = r
                BY <3>1 DEF Thread, Borrow, PoolFull, Read, Ask, Write, Conflict, Raise,
                            Commit, Close, Lost, PoolInv, RequestsTypeOK
            <4> QED BY <3>1, <4>1 DEF Thread, Borrow, Read, Ask, Write, Waits, Conflict,
                                      Raise, Commit, Close, Lost, Cut, PoolInv, RequestsTypeOK
        <3>2. ~(Restart \/ (\E d \in Databases : CloseDb(d)) \/ UNCHANGED vars)
            BY DEF Restart, CloseDb, vars
        <3> QED BY <3>1, <3>2 DEF Next
    <2>2. \A s \in Slots : pool[s].state \in {"used", "broken"}
        BY <2>1 DEF PoolFull, Sources, Reusable, Room, Swept, InState, Free, Entry,
                    PoolInv, RequestsTypeOK, EntryStates
    <2> QED BY <2>2, RequestsOK DEF PoolInv, PoolKept, InState, Over
<1>2. PoolInv /\ [Next]_vars => [Full]_vars
    BY <1>1
<1> QED BY <1>2, PoolHoldsFirst, PoolHoldsNext, PTL DEF Spec, FullMeansInUse

-----------------------------------------------------------------------------
(* The rows *)

\* What a handler has written it has locked, alone, and found as it is committed;
\* what is committed in a row are the handlers that ended with it.
RowInv ==
    /\ RequestsTypeOK
    /\ \A r \in Requests : written[r] # {} => pc[r] = "running"
    /\ \A r \in Requests : want[r] # NoRow => want[r] \in Writes[r]
    /\ \A r, q \in Requests : \A k \in written[r] : k \in written[q] => r = q
    /\ \A r \in Requests : \A k \in written[r] : k \in Writes[r] /\ books[k] = saw[r][k]
    /\ \A r \in Requests : \A k \in Rows : k \notin Writes[r] => saw[r][k] = {}
    /\ \A k \in Rows : books[k] = Writers(k)
    /\ Numbered

LEMMA RowsHoldFirst == Init => RowInv
BY TypesHoldFirst DEF Init, RowInv, Numbered, Writers, Nothing

\* A step that ends no handler with a commit leaves the committed rows as they are.
LEMMA WritersKept ==
    ASSUME RowInv, RequestsTypeOK', UNCHANGED books,
           \A r \in Requests : /\ pc[r] \in {"committed", "ok", "lost"}
                                   <=> pc'[r] \in {"committed", "ok", "lost"}
                               /\ pc[r] \in {"committed", "ok", "lost"} => saw'[r] = saw[r]
    PROVE  (\A k \in Rows : books[k] = Writers(k))' /\ Numbered'
<1>1. \A k \in Rows : Writers(k)' = Writers(k)
    BY DEF Writers
<1>2. \A k \in Rows : \A r \in Writers(k) : saw'[r] = saw[r]
    BY DEF Writers
<1> QED BY <1>1, <1>2 DEF RowInv, Numbered

LEMMA RowsHoldNext == RowInv /\ [Next]_vars => RowInv'
<1> SUFFICES ASSUME RowInv, [Next]_vars PROVE RowInv'
    OBVIOUS
<1>0. RequestsTypeOK /\ RequestsTypeOK'
    BY TypesHoldNext DEF RowInv
<1> USE DEF RowInv
\* Steps of one handler that has no row, or loses those that it has.
<1>1. ASSUME NEW r \in Requests, UNCHANGED books,
             pc[r] \notin {"committed", "ok", "lost"},
             pc'[r] \notin {"committed", "ok", "lost"},
             \A q \in Requests : q # r => pc'[q] = pc[q],
             written' = [written EXCEPT ![r] = {}],
             want' = [want EXCEPT ![r] = NoRow],
             saw' = saw \/ saw' = [saw EXCEPT ![r] = Nothing]
      PROVE  RowInv'
    <2>1. \A q \in Requests : /\ written'[q] = IF q = r THEN {} ELSE written[q]
                              /\ want'[q] = IF q = r THEN NoRow ELSE want[q]
                              /\ q # r => saw'[q] = saw[q]
        BY <1>0, <1>1 DEF RequestsTypeOK
    <2>2. (\A k \in Rows : books[k] = Writers(k))' /\ Numbered'
        BY <1>0, <1>1, <2>1, WritersKept
    <2>3. \A k \in Rows : k \notin Writes[r] => saw'[r][k] = {}
        BY <1>0, <1>1 DEF RequestsTypeOK, Nothing
    <2> QED BY <1>0, <1>1, <2>1, <2>2, <2>3
\* Steps that leave the rows alone, and who is at work.
<1>2. ASSUME UNCHANGED <<books, saw, written, want>>,
             \A q \in Requests : pc'[q] = pc[q] \/ (written[q] = {}
                                     /\ (pc[q] \in {"committed", "ok", "lost"}
                                           <=> pc'[q] \in {"committed", "ok", "lost"}))
      PROVE  RowInv'
    <2>1. (\A k \in Rows : books[k] = Writers(k))' /\ Numbered'
        BY <1>0, <1>2, WritersKept
    <2> QED BY <1>0, <1>2, <2>1
<1>3. ASSUME NEW r \in Requests, Borrow(r) PROVE RowInv'
    <2>1. /\ pc[r] = "new" /\ written[r] = {}
          /\ \A q \in Requests : pc'[q] = IF q = r THEN "borrowed" ELSE pc[q]
        BY <1>0, <1>3 DEF Borrow, RequestsTypeOK
    <2>2. UNCHANGED <<books, saw, written, want>>
        BY <1>3 DEF Borrow, dbVars
    <2> QED BY <1>2, <2>1, <2>2
<1>4. ASSUME NEW r \in Requests, PoolFull(r) PROVE RowInv'
    <2>1. /\ pc[r] = "new" /\ written[r] = {}
          /\ \A q \in Requests : pc'[q] = IF q = r THEN "refused" ELSE pc[q]
        BY <1>0, <1>4 DEF PoolFull, RequestsTypeOK
    <2>2. UNCHANGED <<books, saw, written, want>>
        BY <1>4 DEF PoolFull, dbVars
    <2> QED BY <1>2, <2>1, <2>2
<1>5. ASSUME NEW r \in Requests, Read(r) PROVE RowInv'
    <2>1. \A q \in Requests : /\ pc'[q] = IF q = r THEN "running" ELSE pc[q]
                              /\ q # r => saw'[q] = saw[q]
        BY <1>0, <1>5 DEF Read, RequestsTypeOK
    <2>2. saw'[r] = [k \in Rows |-> IF k \in Writes[r] THEN books[k] ELSE {}]
        BY <1>0, <1>5 DEF Read, RequestsTypeOK
    <2>3. pc[r] = "borrowed" /\ written[r] = {}
        BY <1>5 DEF Read
    <2>4. (\A k \in Rows : books[k] = Writers(k))' /\ Numbered'
        BY <1>0, <1>5, <2>1, <2>3, WritersKept DEF Read
    <2> QED BY <1>0, <1>5, <2>1, <2>2, <2>3, <2>4 DEF Read
<1>6. ASSUME NEW r \in Requests, Ask(r) PROVE RowInv'
    <2>1. PICK k \in Writes[r] \ written[r] : want' = [want EXCEPT ![r] = k]
        BY <1>6 DEF Ask
    <2>2. \A q \in Requests : want'[q] = IF q = r THEN k ELSE want[q]
        BY <1>0, <2>1 DEF RequestsTypeOK
    <2>3. (\A i \in Rows : books[i] = Writers(i))' /\ Numbered'
        BY <1>0, <1>6, WritersKept DEF Ask
    <2> QED BY <1>0, <1>6, <2>1, <2>2, <2>3 DEF Ask
<1>7. ASSUME NEW r \in Requests, Write(r) PROVE RowInv'
    <2>1. \A q \in Requests :
             /\ written'[q] = IF q = r THEN written[r] \union {want[r]} ELSE written[q]
             /\ want'[q] = IF q = r THEN NoRow ELSE want[q]
        BY <1>0, <1>7 DEF Write, RequestsTypeOK
    <2>2. /\ want[r] \in Writes[r] /\ books[want[r]] = saw[r][want[r]]
          /\ \A q \in Requests : want[r] \notin written[q]
          /\ pc[r] = "running"
        BY <1>7 DEF Write, Waits, Held, Locks, Changed
    <2>3. (\A i \in Rows : books[i] = Writers(i))' /\ Numbered'
        BY <1>0, <1>7, WritersKept DEF Write
    <2> QED BY <1>0, <1>7, <2>1, <2>2, <2>3 DEF Write
<1>8. ASSUME NEW r \in Requests, Conflict(r) PROVE RowInv'
    <2>1. /\ pc[r] = "running" /\ pc'[r] \in {"new", "refused"}
          /\ \A q \in Requests : q # r => pc'[q] = pc[q]
        BY <1>0, <1>8 DEF Conflict, Waits, RequestsTypeOK
    <2> QED BY <1>1, <1>8, <2>1 DEF Conflict, RollBack
<1>9. ASSUME NEW r \in Requests, Raise(r) PROVE RowInv'
    <2>1. /\ pc[r] \in {"borrowed", "running"} /\ pc'[r] = "refused"
          /\ \A q \in Requests : q # r => pc'[q] = pc[q]
        BY <1>0, <1>9 DEF Raise, RequestsTypeOK
    <2> QED BY <1>1, <1>9, <2>1 DEF Raise, RollBack
<1>10. ASSUME NEW r \in Requests, Commit(r) PROVE RowInv'
    <2>1. /\ \A q \in Requests : /\ pc'[q] = IF q = r THEN "committed" ELSE pc[q]
                                 /\ written'[q] = IF q = r THEN {} ELSE written[q]
          /\ saw' = saw /\ want' = want /\ pc[r] = "running"
        BY <1>0, <1>10 DEF Commit, RequestsTypeOK
    <2>2. \A k \in Rows : books'[k] = IF k \in Writes[r] THEN saw[r][k] \union {r} ELSE books[k]
        BY <1>10 DEF Commit
    <2>3. \A k \in Writes[r] : k \in written[r] /\ books[k] = saw[r][k]
        BY <1>10 DEF Commit
    <2>4. \A k \in Rows : Writers(k)' = IF k \in Writes[r] THEN Writers(k) \union {r} ELSE Writers(k)
        BY <2>1 DEF Writers
    <2>5. \A k \in Rows : books'[k] = Writers(k)'
        <3>1. \A k \in Rows : books[k] = Writers(k)
            OBVIOUS
        <3> TAKE k \in Rows
        <3>2. CASE k \in Writes[r]
            <4>1. books'[k] = saw[r][k] \union {r}
                BY <2>2, <3>2
            <4>2. saw[r][k] = Writers(k)
                BY <2>3, <3>1, <3>2
            <4> QED BY <2>4, <3>2, <4>1, <4>2
        <3>3. CASE k \notin Writes[r]
            <4>1. books'[k] = books[k]
                BY <2>2, <3>3
            <4>2. Writers(k)' = Writers(k)
                BY <2>4, <3>3
            <4> QED BY <3>1, <4>1, <4>2
        <3> QED BY <3>2, <3>3
    <2>6. Numbered'
        <3> SUFFICES ASSUME NEW k \in Rows
                     PROVE  /\ \A q \in Writers(k)' : saw[q][k] \subseteq Writers(k)' \ {q}
                            /\ \A q, p \in Writers(k)' : q # p => (q \in saw[p][k] <=> p \notin saw[q][k])
            BY <2>1 DEF Numbered
        <3>1. CASE k \notin Writes[r]
            BY <2>4, <3>1 DEF Numbered
        <3>2. CASE k \in Writes[r]
            <4>1. r \notin Writers(k) /\ saw[r][k] = Writers(k)
                BY <2>1, <2>3, <3>2 DEF Writers
            <4>2. Writers(k)' = Writers(k) \union {r}
                BY <2>4, <3>2
            <4>3. \A q \in Writers(k) : saw[q][k] \subseteq Writers(k) \ {q}
                BY DEF Numbered
            <4> QED BY <4>1, <4>2, <4>3 DEF Numbered
        <3> QED BY <3>1, <3>2
    <2>7. \A q \in Requests : \A k \in written'[q] : books'[k] = books[k]
        BY <2>1, <2>2, <2>3, <1>0 DEF RequestsTypeOK
    <2> QED BY <1>0, <2>1, <2>5, <2>6, <2>7
<1>11. ASSUME NEW r \in Requests, Close(r) PROVE RowInv'
    <2>1. /\ pc[r] = "committed" /\ written[r] = {}
          /\ \A q \in Requests : pc'[q] = IF q = r THEN "ok" ELSE pc[q]
        BY <1>0, <1>11 DEF Close, RequestsTypeOK
    <2>2. UNCHANGED <<books, saw, written, want>>
        BY <1>11 DEF Close, dbVars
    <2> QED BY <1>2, <2>1, <2>2
<1>12. ASSUME NEW r \in Requests, Lost(r) PROVE RowInv'
    <2>1. /\ \A q \in Requests : q # r => pc'[q] = pc[q]
          /\ pc'[r] = IF pc[r] = "committed" THEN "lost" ELSE "refused"
          /\ pc[r] \in {"borrowed", "running", "committed"}
        BY <1>0, <1>12 DEF Lost, LostAt, Cut, RequestsTypeOK
    <2>2. CASE pc[r] # "committed"
        <3>1. /\ UNCHANGED books
              /\ written' = [written EXCEPT ![r] = {}]
              /\ want' = [want EXCEPT ![r] = NoRow]
              /\ saw' = [saw EXCEPT ![r] = Nothing]
            BY <1>12, <2>2 DEF Lost
        <3>2. /\ pc[r] \notin {"committed", "ok", "lost"}
              /\ pc'[r] \notin {"committed", "ok", "lost"}
            BY <2>1, <2>2
        <3> QED BY <1>1, <2>1, <3>1, <3>2
    <2>3. CASE pc[r] = "committed"
        <3>1. \A q \in Requests : /\ written'[q] = written[q]
                                  /\ want'[q] = IF q = r THEN NoRow ELSE want[q]
            BY <1>0, <1>12, <2>3 DEF Lost, RequestsTypeOK
        <3>2. (\A i \in Rows : books[i] = Writers(i))' /\ Numbered'
            BY <1>0, <1>12, <2>1, <2>3, WritersKept DEF Lost
        <3> QED BY <1>0, <1>12, <2>1, <2>3, <3>1, <3>2 DEF Lost
    <2> QED BY <2>2, <2>3
<1>13. ASSUME Restart PROVE RowInv'
    <2>1. (\A i \in Rows : books[i] = Writers(i))' /\ Numbered'
        BY <1>0, <1>13, WritersKept DEF Restart
    <2> QED BY <1>0, <1>13, <2>1 DEF Restart
<1>14. ASSUME NEW d \in Databases, CloseDb(d) PROVE RowInv'
    <2>1. (\A i \in Rows : books[i] = Writers(i))' /\ Numbered'
        BY <1>0, <1>14, WritersKept DEF CloseDb
    <2>2. \A r \in Requests : written'[r] \subseteq written[r]
        BY <1>14 DEF CloseDb
    <2> QED BY <1>0, <1>14, <2>1, <2>2 DEF CloseDb
<1>15. ASSUME UNCHANGED vars PROVE RowInv'
    BY <1>0, <1>2, <1>15 DEF vars, dbVars
<1> QED
    BY <1>3, <1>4, <1>5, <1>6, <1>7, <1>8, <1>9, <1>10, <1>11, <1>12, <1>13, <1>14, <1>15
    DEF Next, Thread

\* Handlers that take a number from one row get each its own, without a gap.
THEOREM NumbersInLine == Spec => []Numbered
<1>1. RowInv => Numbered
    BY DEF RowInv
<1> QED BY <1>1, RowsHoldFirst, RowsHoldNext, PTL DEF Spec

-----------------------------------------------------------------------------
(* A handler is one step *)

LEMMA StepsFirst == Init => Atomic!HInit
BY DEF Init, Atomic!HInit, Atomic!Nothing, Nothing, Status, AsApplied, Over

\* A step that shows in no handler's status.
LEMMA StepHidden ==
    ASSUME UNCHANGED books,
           \A q \in Requests : Status(q)' = Status(q) /\ AsApplied(q)' = AsApplied(q)
    PROVE  UNCHANGED Atomic!hvars
BY DEF Atomic!hvars

LEMMA StepsNext == RowInv /\ [Next]_vars => [Atomic!HNext]_Atomic!hvars
<1> SUFFICES ASSUME RowInv, [Next]_vars PROVE [Atomic!HNext]_Atomic!hvars
    OBVIOUS
<1>0. RequestsTypeOK /\ RequestsTypeOK'
    BY TypesHoldNext DEF RowInv
\* Steps that leave the handlers open that are open.
<1>1. ASSUME UNCHANGED books,
             \A q \in Requests :
                \/ pc'[q] = pc[q] /\ saw'[q] = saw[q]
                \/ /\ pc[q] \notin {"committed", "ok", "lost", "refused"}
                   /\ pc'[q] \notin {"committed", "ok", "lost", "refused"}
      PROVE  [Atomic!HNext]_Atomic!hvars
    <2>1. \A q \in Requests : Status(q)' = Status(q) /\ AsApplied(q)' = AsApplied(q)
        BY <1>1 DEF Status, AsApplied, Over
    <2> QED BY <1>1, <2>1, StepHidden
\* Steps that refuse a handler.
<1>2. ASSUME NEW r \in Requests, UNCHANGED books,
             pc[r] \notin {"committed", "ok", "lost", "refused"}, pc'[r] = "refused",
             \A q \in Requests : q # r => pc'[q] = pc[q] /\ saw'[q] = saw[q]
      PROVE  [Atomic!HNext]_Atomic!hvars
    <2>1. Status(r) = "open" /\ Status(r)' = "refused"
        BY <1>2 DEF Status, Over
    <2>2. \A q \in Requests : q # r => Status(q)' = Status(q)
        BY <1>2 DEF Status, Over
    <2>3. \A q \in Requests : AsApplied(q)' = AsApplied(q)
        BY <1>2, <2>1, <2>2 DEF AsApplied
    <2>4. [q \in Requests |-> Status(q)]' = [[q \in Requests |-> Status(q)] EXCEPT ![r] = "refused"]
        BY <2>1, <2>2
    <2>5. [q \in Requests |-> AsApplied(q)]' = [q \in Requests |-> AsApplied(q)]
        BY <2>3
    <2> QED BY <1>2, <2>1, <2>4, <2>5 DEF Atomic!HNext, Atomic!Refuse
\* Steps that answer a handler after its commit.
<1>3. ASSUME NEW r \in Requests, UNCHANGED <<books, saw>>,
             pc[r] = "committed", pc'[r] \in {"ok", "lost"},
             \A q \in Requests : q # r => pc'[q] = pc[q]
      PROVE  [Atomic!HNext]_Atomic!hvars
    <2>1. Status(r) = "applied" /\ Status(r)' = pc'[r]
        BY <1>3 DEF Status, Over
    <2>2. \A q \in Requests : q # r => Status(q)' = Status(q)
        BY <1>3 DEF Status, Over
    <2>3. \A q \in Requests : AsApplied(q)' = AsApplied(q)
        BY <1>3, <2>1, <2>2 DEF AsApplied
    <2>4. [q \in Requests |-> Status(q)]' = [[q \in Requests |-> Status(q)] EXCEPT ![r] = pc'[r]]
        BY <2>1, <2>2
    <2>5. [q \in Requests |-> AsApplied(q)]' = [q \in Requests |-> AsApplied(q)]
        BY <2>3
    <2> QED BY <1>3, <2>1, <2>4, <2>5 DEF Atomic!HNext, Atomic!Answer
<1>4. ASSUME NEW r \in Requests, Borrow(r) \/ Read(r) \/ Ask(r) \/ Write(r)
      PROVE  [Atomic!HNext]_Atomic!hvars
    <2>1. /\ UNCHANGED books
          /\ \A q \in Requests : q # r => pc'[q] = pc[q] /\ saw'[q] = saw[q]
          /\ pc[r] \in {"new", "borrowed", "running"}
          /\ pc'[r] \in {"borrowed", "running"}
        BY <1>0, <1>4 DEF Borrow, Read, Ask, Write, Waits, dbVars, RequestsTypeOK
    <2> QED BY <1>1, <2>1
<1>5. ASSUME NEW r \in Requests, PoolFull(r) \/ Raise(r)
      PROVE  [Atomic!HNext]_Atomic!hvars
    <2>1. /\ UNCHANGED books
          /\ \A q \in Requests : q # r => pc'[q] = pc[q] /\ saw'[q] = saw[q]
          /\ pc[r] \in {"new", "borrowed", "running"}
          /\ pc'[r] = "refused"
        BY <1>0, <1>5 DEF PoolFull, Raise, RollBack, dbVars, RequestsTypeOK
    <2> QED BY <1>2, <2>1
<1>6. ASSUME NEW r \in Requests, Conflict(r) PROVE [Atomic!HNext]_Atomic!hvars
    <2>1. /\ UNCHANGED books
          /\ \A q \in Requests : q # r => pc'[q] = pc[q] /\ saw'[q] = saw[q]
          /\ pc[r] = "running"
          /\ pc'[r] \in {"new", "refused"}
        BY <1>0, <1>6 DEF Conflict, RollBack, Waits, RequestsTypeOK
    <2> QED BY <1>1, <1>2, <2>1
<1>7. ASSUME NEW r \in Requests, Commit(r) PROVE [Atomic!HNext]_Atomic!hvars
    <2>1. /\ \A q \in Requests : pc'[q] = IF q = r THEN "committed" ELSE pc[q]
          /\ saw' = saw /\ pc[r] = "running"
        BY <1>0, <1>7 DEF Commit, RequestsTypeOK
    <2>2. \A k \in Rows : k \in Writes[r] => saw[r][k] = books[k]
        BY <1>7 DEF Commit, RowInv
    <2>3. saw[r] = [k \in Rows |-> IF k \in Writes[r] THEN books[k] ELSE {}]
        BY <1>0, <2>2 DEF RowInv, RequestsTypeOK
    <2>4. saw[r] = Atomic!View(r)
        BY <2>3 DEF Atomic!View
    <2>5. books' = Atomic!Marked(r)
        BY <1>7, <2>2 DEF Commit, Atomic!Marked
    <2>6. Status(r) = "open" /\ Status(r)' = "applied" /\ AsApplied(r)' = saw[r]
        BY <2>1 DEF Status, AsApplied, Over
    <2>7. \A q \in Requests : q # r => Status(q)' = Status(q)
        BY <2>1 DEF Status, Over
    <2>8. \A q \in Requests : q # r => AsApplied(q)' = AsApplied(q)
        BY <2>1, <2>7 DEF AsApplied
    <2>9. [q \in Requests |-> Status(q)]' = [[q \in Requests |-> Status(q)] EXCEPT ![r] = "applied"]
        BY <2>6, <2>7
    <2>10. [q \in Requests |-> AsApplied(q)]'
             = [[q \in Requests |-> AsApplied(q)] EXCEPT ![r] = Atomic!View(r)]
        BY <2>4, <2>6, <2>8
    <2> QED BY <2>5, <2>6, <2>9, <2>10 DEF Atomic!HNext, Atomic!Apply
<1>8. ASSUME NEW r \in Requests, Close(r) PROVE [Atomic!HNext]_Atomic!hvars
    <2>1. /\ UNCHANGED <<books, saw>>
          /\ \A q \in Requests : q # r => pc'[q] = pc[q]
          /\ pc[r] = "committed" /\ pc'[r] = "ok"
        BY <1>0, <1>8 DEF Close, dbVars, RequestsTypeOK
    <2> QED BY <1>3, <2>1
<1>9. ASSUME NEW r \in Requests, Lost(r) PROVE [Atomic!HNext]_Atomic!hvars
    <2>1. /\ UNCHANGED books
          /\ \A q \in Requests : q # r => pc'[q] = pc[q] /\ saw'[q] = saw[q]
          /\ pc[r] \in {"borrowed", "running", "committed"}
          /\ pc'[r] = IF pc[r] = "committed" THEN "lost" ELSE "refused"
          /\ pc[r] = "committed" => saw' = saw
        BY <1>0, <1>9 DEF Lost, LostAt, Cut, RequestsTypeOK
    <2> QED BY <1>2, <1>3, <2>1
<1>10. ASSUME Restart \/ (\E d \in Databases : CloseDb(d)) \/ UNCHANGED vars
       PROVE  [Atomic!HNext]_Atomic!hvars
    BY <1>1, <1>10 DEF Restart, CloseDb, vars
<1> QED
    BY <1>4, <1>5, <1>6, <1>7, <1>8, <1>9, <1>10 DEF Next, Thread

\* A handler is one step: what runs at the same time, how often it is run again
\* and what the server does meanwhile does not show.
THEOREM HandlersAreSteps == Spec => AtomicHandlers
BY StepsFirst, StepsNext, RowsHoldFirst, RowsHoldNext, PTL DEF Spec, AtomicHandlers, Atomic!HSpec
=============================================================================
