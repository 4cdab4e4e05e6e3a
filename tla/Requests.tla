------------------------------ MODULE Requests ------------------------------
(***************************************************************************)
(* How the server runs a handler (osv.py, sql_db.py): it borrows a         *)
(* connection from the pool, reads under snapshot isolation, writes row by *)
(* row under PostgreSQL's row locks, commits and gives the connection      *)
(* back.  A serialization failure, a lock that is not available and a      *)
(* deadlock roll it back and run it again, a bounded number of times.      *)
(* The database server may restart and a database's connections may be     *)
(* closed at any moment.                                                   *)
(***************************************************************************)
EXTENDS Integers, FiniteSets

CONSTANTS
    Requests,    \* calls of handlers, each in a thread of its own
    Rows, NoRow, \* rows of the database; no row
    Writes,      \* Writes[r]: the rows that handler r decides on and writes
    NoWaitRows,  \* rows locked with NOWAIT: numbers without gaps, cron jobs
    Slots, NoSlot, \* entries of the pool (db_maxconn of them); no entry
    Databases, NoDb, DbOf,  \* the databases; none; DbOf[r]: the one r works on
    MaxTries     \* MAX_TRIES_ON_CONCURRENCY_FAILURE

ASSUME RequestsOK ==
    /\ Writes \in [Requests -> SUBSET Rows]
    /\ NoRow \notin Rows
    /\ NoSlot \notin Slots
    /\ NoDb \notin Databases
    /\ DbOf \in [Requests -> Databases]
    /\ MaxTries \in Nat

VARIABLES
    books,    \* books[k]: the handlers whose writes of row k are committed
    pc,       \* pc[r]: where handler r is
    tries,    \* tries[r]: how often it was run again
    saw,      \* saw[r]: its snapshot of the rows that it decides on
    written,  \* written[r]: the rows that it has written and so locked
    want,     \* want[r]: the row that its current statement is to write
    slot,     \* slot[r]: the pool entry whose connection its cursor uses
    pool      \* pool[s]: state and database of an entry

dbVars == <<books, saw, written, want>>
vars == <<books, pc, tries, saw, written, want, slot, pool>>

Over == {"ok", "lost", "refused"}       \* answered; error after the commit; error
PCs == {"new", "borrowed", "running", "committed"} \union Over

\* used: a cursor has it.  broken: a cursor has it, the server has dropped it.
\* stale: nobody has it, the server has dropped it.  closed: seen to be closed.
EntryStates == {"free", "idle", "used", "broken", "stale", "closed"}
Entry(st, d) == [state |-> st, db |-> d]
Free == Entry("free", NoDb)

Nothing == [k \in Rows |-> {}]

Init ==
    /\ books = Nothing
    /\ pc = [r \in Requests |-> "new"]
    /\ tries = [r \in Requests |-> 0]
    /\ saw = [r \in Requests |-> Nothing]
    /\ written = [r \in Requests |-> {}]
    /\ want = [r \in Requests |-> NoRow]
    /\ slot = [r \in Requests |-> NoSlot]
    /\ pool = [s \in Slots |-> Free]

-----------------------------------------------------------------------------
(* The pool *)

InState(st) == {s \in Slots : pool[s].state \in st}

\* Mutant of Swept: an entry that is marked used is left alone.
SweptUnused(s) == pool[s]

\* Entries whose connection is seen to be closed go, whoever had them.
Swept(s) == IF pool[s].state = "closed" THEN Free ELSE pool[s]

Reusable(d) == {s \in InState({"idle"}) : pool[s].db = d}
Room == {s \in Slots : Swept(s).state = "free"}

\* Mutant of Sources: the unused mark of an entry is not looked at.
SourcesAny(d) == IF Room # {} THEN Room ELSE InState({"idle", "stale", "used"})

\* Where a connection to d comes from: one that is there, a new one, or a new
\* one in the place of an unused one.
Sources(d) == IF Reusable(d) # {} THEN Reusable(d)
              ELSE IF Room # {} THEN Room
              ELSE InState({"idle", "stale"})

\* The handler's connection is gone, and it does not know yet.
Cut(r) ==
    /\ pc[r] \in {"borrowed", "running", "committed"}
    /\ IF slot[r] = NoSlot THEN TRUE ELSE pool[slot[r]].state = "broken"

GiveBack(r) ==
    /\ pool' = [pool EXCEPT ![slot[r]].state = "idle"]
    /\ slot' = [slot EXCEPT ![r] = NoSlot]

-----------------------------------------------------------------------------
(* Row locks *)

Locks(q, k) == k \in written[q]
Held(k) == \E q \in Requests : Locks(q, k)
Waits(r) == pc[r] = "running" /\ want[r] # NoRow /\ ~Cut(r)

\* Mutant of Changed: read committed, the last writer wins.
ChangedNever(r) == FALSE

\* Another handler has committed the row since the snapshot was taken.
Changed(r) == books[want[r]] # saw[r][want[r]]

\* Mutant of Deadlocked: nobody looks for circles.
DeadlockedNever(r) == FALSE

\* r waits in a circle of handlers, each of them for a row of another.
Deadlocked(r) ==
    \E S \in SUBSET Requests :
        /\ r \in S
        /\ \A q \in S : Waits(q)
        /\ \A q \in S : \E p \in S : Locks(p, want[q])
        /\ \A q \in S : \E p \in S : Locks(q, want[p])

-----------------------------------------------------------------------------
(* A handler's thread *)

\* db.cursor(): connections seen to be closed go, then one is taken or made.
Borrow(r) ==
    /\ pc[r] = "new"
    /\ \E s \in Sources(DbOf[r]) :
        /\ pool' = [t \in Slots |-> IF t = s THEN Entry("used", DbOf[r]) ELSE Swept(t)]
        /\ slot' = [slot EXCEPT ![r] = s]
    /\ pc' = [pc EXCEPT ![r] = "borrowed"]
    /\ UNCHANGED <<dbVars, tries>>

\* PoolError: all entries are in use.  It is no OperationalError, so the
\* handler is not run again.
PoolFull(r) ==
    /\ pc[r] = "new"
    /\ Sources(DbOf[r]) = {}
    /\ pc' = [pc EXCEPT ![r] = "refused"]
    /\ UNCHANGED <<dbVars, tries, slot, pool>>

\* The first statement takes the snapshot.
Read(r) ==
    /\ pc[r] = "borrowed"
    /\ ~Cut(r)
    /\ saw' = [saw EXCEPT ![r] = [k \in Rows |-> IF k \in Writes[r] THEN books[k] ELSE {}]]
    /\ pc' = [pc EXCEPT ![r] = "running"]
    /\ UNCHANGED <<books, tries, written, want, slot, pool>>

\* The handler sends the statement that writes a row, in an order of its own.
Ask(r) ==
    /\ pc[r] = "running"
    /\ want[r] = NoRow
    /\ ~Cut(r)
    /\ \E k \in Writes[r] \ written[r] : want' = [want EXCEPT ![r] = k]
    /\ UNCHANGED <<books, pc, tries, saw, written, slot, pool>>

Write(r) ==
    /\ Waits(r)
    /\ ~Held(want[r])
    /\ ~Changed(r)
    /\ written' = [written EXCEPT ![r] = @ \union {want[r]}]
    /\ want' = [want EXCEPT ![r] = NoRow]
    /\ UNCHANGED <<books, pc, tries, saw, slot, pool>>

\* cr.rollback() and cr.close(): the row locks go, the connection is given back.
RollBack(r) ==
    /\ written' = [written EXCEPT ![r] = {}]
    /\ want' = [want EXCEPT ![r] = NoRow]
    /\ saw' = [saw EXCEPT ![r] = Nothing]
    /\ GiveBack(r)
    /\ UNCHANGED books

\* Mutant of MayRetry: one try too many.
MayRetryOnceMore(r) == tries[r] <= MaxTries

MayRetry(r) == tries[r] < MaxTries

\* The errors that are tried again: a serialization failure, a lock that is not
\* available, a deadlock.
Conflict(r) ==
    /\ Waits(r)
    /\ \/ ~Held(want[r]) /\ Changed(r)
       \/ Held(want[r]) /\ want[r] \in NoWaitRows
       \/ Deadlocked(r)
    /\ RollBack(r)
    /\ IF MayRetry(r)
       THEN /\ tries' = [tries EXCEPT ![r] = @ + 1]
            /\ pc' = [pc EXCEPT ![r] = "new"]
       ELSE /\ pc' = [pc EXCEPT ![r] = "refused"]
            /\ UNCHANGED tries

\* The handler raises anything else: an except_osv for the user, a defect.
Raise(r) ==
    /\ pc[r] \in {"borrowed", "running"}
    /\ want[r] = NoRow
    /\ ~Cut(r)
    /\ RollBack(r)
    /\ pc' = [pc EXCEPT ![r] = "refused"]
    /\ UNCHANGED tries

Commit(r) ==
    /\ pc[r] = "running"
    /\ want[r] = NoRow
    /\ written[r] = Writes[r]
    /\ ~Cut(r)
    /\ books' = [k \in Rows |-> IF k \in Writes[r] THEN saw[r][k] \union {r} ELSE books[k]]
    /\ written' = [written EXCEPT ![r] = {}]
    /\ pc' = [pc EXCEPT ![r] = "committed"]
    /\ UNCHANGED <<tries, saw, want, slot, pool>>

\* cr.close() after the commit, and the answer.
Close(r) ==
    /\ pc[r] = "committed"
    /\ ~Cut(r)
    /\ GiveBack(r)
    /\ pc' = [pc EXCEPT ![r] = "ok"]
    /\ UNCHANGED <<dbVars, tries>>

\* Mutant of LostAt: every error of the database is tried again.
LostRetried(r) == IF tries[r] < MaxTries THEN "new" ELSE "refused"

\* How a handler ends whose connection is gone: with an error of a code that is
\* not tried again, after the commit as before it.
LostAt(r) == IF pc[r] = "committed" THEN "lost" ELSE "refused"

\* The next statement, the rollback or the close finds the connection gone: its
\* entry is not given back and stays marked used, on a connection that is closed.
Lost(r) ==
    /\ Cut(r)
    /\ pc' = [pc EXCEPT ![r] = LostAt(r)]
    /\ pool' = IF slot[r] = NoSlot THEN pool
               ELSE [pool EXCEPT ![slot[r]].state = "closed"]
    /\ slot' = [slot EXCEPT ![r] = NoSlot]
    /\ saw' = IF pc[r] = "committed" THEN saw ELSE [saw EXCEPT ![r] = Nothing]
    /\ want' = [want EXCEPT ![r] = NoRow]
    /\ written' = [written EXCEPT ![r] = {}]
    /\ UNCHANGED <<books, tries>>

-----------------------------------------------------------------------------
(* The database server and the administrator *)

\* The server restarts: its sessions, their locks and writes are gone.
Restart ==
    /\ pool' = [s \in Slots |->
                  CASE pool[s].state = "used" -> [pool[s] EXCEPT !.state = "broken"]
                    [] pool[s].state = "idle" -> [pool[s] EXCEPT !.state = "stale"]
                    [] OTHER -> pool[s]]
    /\ written' = [r \in Requests |-> {}]
    /\ UNCHANGED <<books, pc, tries, saw, want, slot>>

\* close_all: the connections to one database are closed and forgotten, those
\* that cursors use included.
CloseDb(d) ==
    LET gone == {s \in Slots : pool[s].db = d} IN
    /\ pool' = [s \in Slots |-> IF s \in gone THEN Free ELSE pool[s]]
    /\ slot' = [r \in Requests |-> IF slot[r] \in gone THEN NoSlot ELSE slot[r]]
    /\ written' = [r \in Requests |-> IF slot[r] \in gone THEN {} ELSE written[r]]
    /\ UNCHANGED <<books, pc, tries, saw, want>>

Thread(r) ==
    \/ Borrow(r) \/ PoolFull(r) \/ Read(r) \/ Ask(r) \/ Write(r) \/ Conflict(r)
    \/ Raise(r) \/ Commit(r) \/ Close(r) \/ Lost(r)

Next == (\E r \in Requests : Thread(r)) \/ Restart \/ (\E d \in Databases : CloseDb(d))

\* A thread goes on as long as it can.
Fairness == \A r \in Requests : WF_vars(Thread(r))

Spec == Init /\ [][Next]_vars /\ Fairness

-----------------------------------------------------------------------------
(* Properties *)

\* Types.  A handler is run again no more often than MaxTries (osv.check), whatever
\* conflicts, lost connections and full pools it meets on the way.
RequestsTypeOK ==
    /\ books \in [Rows -> SUBSET Requests]
    /\ pc \in [Requests -> PCs]
    /\ tries \in [Requests -> 0 .. MaxTries]
    /\ saw \in [Requests -> [Rows -> SUBSET Requests]]
    /\ written \in [Requests -> SUBSET Rows]
    /\ want \in [Requests -> Rows \union {NoRow}]
    /\ slot \in [Requests -> Slots \union {NoSlot}]
    /\ pool \in [Slots -> [state : EntryStates, db : Databases \union {NoDb}]]

\* The pool loses no entry and gives none away twice: an entry counts as used
\* exactly as long as one cursor has it, whatever restarts and errors there are.
PoolKept ==
    /\ \A s \in InState({"used", "broken"}) : \E r \in Requests : slot[r] = s
    /\ \A r \in Requests : slot[r] # NoSlot => slot[r] \in InState({"used", "broken"})
    /\ \A r, q \in Requests : slot[r] = slot[q] /\ slot[r] # NoSlot => r = q

\* "The Connection Pool Is Full" (sql_db.borrow) is said only while every entry
\* is in the hands of a handler that has not ended.
FullMeansInUse ==
    [][\A r \in Requests :
         pc[r] = "new" /\ pc'[r] = "refused"
           => \A s \in Slots : \E q \in Requests : slot[q] = s /\ pc[q] \notin Over]_vars

\* Numbers without gaps (ir_sequence: read through the snapshot, then lock and
\* add): those who have committed a row found it at 0, 1, 2, ... each.
Writers(k) == {r \in Requests : pc[r] \in {"committed", "ok", "lost"} /\ k \in Writes[r]}
Numbered ==
    \A k \in Rows :
        /\ \A r \in Writers(k) : saw[r][k] \subseteq Writers(k) \ {r}
        /\ \A r, q \in Writers(k) : r # q => (r \in saw[q][k] <=> q \notin saw[r][k])

\* Every handler is answered in the end: no lock, no circle of locks and no full
\* pool holds one for ever (osv.check, sql_db).
Answered == \A r \in Requests : <>(pc[r] \in Over)

\* A handler is one step, whatever ran at the same time and however often it was
\* run again: the other modules of this project rest on that.
Status(r) == CASE pc[r] = "committed" -> "applied"
               [] pc[r] \in Over -> pc[r]
               [] OTHER -> "open"
AsApplied(r) == IF Status(r) \in {"open", "refused"} THEN Nothing ELSE saw[r]

Atomic == INSTANCE Handlers WITH
            status <- [r \in Requests |-> Status(r)],
            saw <- [r \in Requests |-> AsApplied(r)]
AtomicHandlers == Atomic!HSpec
=============================================================================
