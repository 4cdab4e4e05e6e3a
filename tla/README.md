# E-Foundry: a TLA+ verification of its purchase and store chain

E-Foundry is an ERP for foundries. Its repository vendors an OpenERP 7 server
(`src/openerp-server/openerp/`, the kernel, and upstream addons); its own
program is some forty `kg_*` addons under
`src/openerp-server/openerp/addons/`, about 22,800 lines of Python over
PostgreSQL. This project models the part of them where state is shared and goes
wrong quietly: the chain from the demand of a department over the purchase and
the goods receipt to the issue of material, and the two parts of the kernel
that this chain rests on: how a request becomes a transaction, and how
scheduled jobs run.

Paths below are relative to `src/openerp-server/openerp/addons/` unless they
start with `src/`.

## 1. The system

### 1.1 How a request runs

A user opens a form, the web client reads the record once, and shows the
buttons whose `states=` attribute lists the state **it has read**
(`web/static/src/js/view_form.js:1970-2082`). A click sends an RPC that calls the
handler by name. The server runs the handler in one database transaction
(`src/openerp-server/openerp/osv/osv.py:125-146`) under snapshot isolation
(`src/openerp-server/openerp/sql_db.py:323-341`), and runs it again, up to five
times, when PostgreSQL reports a serialization failure. Three facts follow, and
every module rests on them:

* A committed handler is **one atomic step**. This is not taken on trust: the
  module `Requests` models the connection pool, the snapshot, the row locks,
  the errors that are tried again and the ones that are not, and
  `HandlersAreSteps` proves that each handler is then one step of `Handlers`.
  What that module assumes of a handler is that it writes the rows whose values
  it decides on, as the handlers here do (the lot, the indent line, the order
  line): of two concurrent ones the later fails at its write and is run again
  on the new state. (An issue sums several lots and writes those that it draws
  from; two issues whose draws are disjoint are both covered, so the sum need
  not be written.) A handler that raises leaves nothing.
* What is not atomic is **the user**. Almost no handler looks at the stored
  state again: a form read an hour ago still sends `Confirm`, and the code that
  disables a clicked button is commented out (`view_form.js:2077-2081`), so a
  double click or a request sent again arrives twice. (`Requests` shows the
  other source of it: a handler whose answer is lost after its commit has been
  carried out.) Each module therefore keeps the states or buttons that some
  open form may still be showing (`shown`, `grnShown`, `genShown`, `poShown`,
  `piShown`) and has a constant (`StaleForms`, `GrnStale`, `GenStale`,
  `PoStale`, `PiStale`) that says whether clicks may come from there.
* Between two handlers, documents hold **copies** of each other's quantities
  (`po_pending_qty`, `pi_qty`, `dep_indent_qty`). Most hazards below are a copy
  that is trusted too late.

In the chain nothing runs by itself: every step is a click. So its modules
assume no fairness and claim no liveness; "eventually" would be a property of
the staff. Where the code could withhold something for ever (an order flagged for a
receipt that does not exist), it is stated as the invariant that forbids it.
The threads of `Requests` and the workers of `IrCron` do run by themselves, and
there liveness is stated and checked.

### 1.2 Components

| Component | State | Operations | Interacts with | Modelled by |
|---|---|---|---|---|
| Department indent (`kg_depindent`) | lines with `qty`, `pending_qty`, `po_qty`, `issue_pending_qty`, `line_state` | draft, confirm, approve | collected by purchase indents, served by issues | its approved lines are state of `PurchaseIndent` and `DepartmentIssue`; its own steps touch one record |
| Purchase indent (`kg_purchase_indent`) | lines with `qty`, `dep_indent_qty`, `po_uom_qty`, `line_state`, `group_flag` | pick, Save Record, edit, confirm, approve, reject, delete | writes department lines; picked by orders | `PurchaseIndent`; its approved lines are state of `PurchaseOrder` |
| Manual closing of department indents (`kg_depindent_manual_closing`) | its state | load, confirm, approve, reject | zeroes the pending quantity of department lines | `PurchaseIndent` (load_item to entry_reject) |
| Manual closing of purchase indents | - | approve | zeroes indent lines unless an open order names them | `PurchaseOrder` (ClosePiLine) |
| Purchase order (`kg_purchase_order`, `purchase`) | state, picked indent lines, order lines with `pi_qty`, `group_flag`; a workflow instance | pick, load, edit, confirm, approve, reject, delete | charges and flags indent lines | `PurchaseOrder` |
| Purchase amendment (`kg_purchase_amendment`) | a copy of an order | create, approve | writes an order's lines back | planned |
| Goods receipt (`kg_po_grn`) | receipt, lines with `po_pending_qty`, batches, rejections | pick orders, load, edit, confirm, approve, delete | order lines, order flag, stock moves, lots, invoices, gate passes | `PoGrn` |
| Manual closing of orders (`kg_po_manual_closing`) | - | approve | zeroes order lines | `PoGrn` (CloseOrder) |
| Lots and moves (`stock_production_lot`, `stock_move`) | quantity in, quantity left; moves in and out | by receipts and issue only | - | `StockCard`, `Stores` |
| Department issue (`kg_department_issue`) | document, lines, chosen indent lines and lots, item-wise issue rows | pick, load, edit, confirm, issue, reject, delete | lots, moves, indent lines | `DepartmentIssue` |
| Item ledger (`kg_item_ledger`) | none; sums of moves | report | reads moves | `Stores` (LedgerShowsStock) |
| General receipt (`kg_general_grn`) | receipt without an order: state, lines, batches | enter, confirm, approve, reject, delete | creates lots and moves | `GeneralGrn`, in `Stores` |
| Opening stock (`kg_opening_stock`) | - | approve | writes opening moves, no lots | not modelled |
| Service chain (`kg_service_*`, `kg_so_*`) | the purchase chain again for services | same | - | not modelled |
| Gate pass, inward and outward (`kg_gate_pass`, ...) | passes with quantities | draft to done | rejections of receipts | only the rejected quantity, in `PoGrn` |
| Invoices, advances, vouchers | balances | draft to approved | written by receipts and orders | planned last |
| Masters, users, menus, reports, mails | single records | draft to approved | - | not modelled: no behaviour across records, or pure I/O |
| Kernel: requests (`osv.py`, `sql_db.py`) | threads, connection pool, row locks | borrow, read, write, commit, retry, lose the connection | runs every handler | `Handlers`, `Requests` |
| Kernel: scheduled jobs (`ir_cron.py`, `workers.py`) | rows of jobs, workers with copies of them | poll, lock, call, commit, kill, respawn | runs handlers without a user | `IrCron` |
| Kernel: workflow, registries, module loading | - | - | everything | the one transition an order uses, in `PurchaseOrder` |

### 1.3 What makes them correct, and what is hard

* **Lots.** What entered a lot is in it or was written down as issued; nothing
  leaves twice, whatever is clicked how often. Hard: repeated issues from old
  forms, two documents over the same lots, an integer column for a float.
* **Issue.** An indent line is charged for what is issued, once, over several
  indent lines of one product; a document moves its goods once.
* **Receipt.** The pending quantity of an order line follows from what was
  received and returned, with any overlap of receipts; goods in the order's
  books are goods in the lots; two users act; an order is not withheld without
  a receipt waiting; rejections add up.
* **Order.** Nothing is taken off an indent line that is not ordered, and no
  indent line is withheld from the offer that no order holds. Hard: two forms
  pick and load the same line, since the flag is set at the loading and not
  looked at again; each of five handlers clears flags for its own order.
* **Purchase indent.** What a department's line has pending follows from what
  was indented and closed, although an approval writes it from a copy; a line
  leaves the offer only when nothing is left of it. Hard: two purchase indents
  over one line, grouped lines, a closing in between.
* **General receipt.** It is taken in once, by two users, and what is rejected,
  deleted or waiting left nothing in the store. Hard: its lots are only ever
  added, its batches are summed over lines, a removed line leaves its move.
* **Between components.** Stock moves and lots are written by different code
  and must tell the same stock (the ledger reads one, the issue the other).
* **Requests.** A handler is one step whatever conflicts, deadlocks, restarts
  and closed connections meet it; no number is given twice or left out; the pool
  loses no entry and gives none away twice; every handler is answered. Hard:
  the connection that is cut between the commit and the answer.
* **Jobs.** One worker runs a job at a time, no call is written off that was not
  made, the schedule is never turned back, and what is overdue is run, whichever
  worker is killed when. Hard: the list of due jobs is read before any is locked;
  a call that raises rolls back the calls before it, which stay counted; a method
  that does not exist is counted and never called.

`PROJECT.json` lists each hazard with its line and the properties that cover it.

## 2. The modules

| Module | Content |
|---|---|
| `Handlers` | Abstract: what the modules of the chain take for granted. A handler applies in one step and is answered, or is refused. |
| `Requests` | The thread of a handler, the pool, row locks, retries, restarts; implements `Handlers`. |
| `IrCron` | Scheduled jobs and the workers that run them. |
| `StockCard` | Abstract: what the store promises about a lot. Two actions, Receive and Withdraw. |
| `DepartmentIssue` | The issue document; implements `StockCard`. |
| `PoGrn` | The goods receipt against purchase orders. |
| `GeneralGrn` | The goods receipt without an order. |
| `Stores` | These three over the same lots (INSTANCE of each); implements `StockCard`. |
| `PurchaseIndent` | Purchase indents made from department indent lines, and the closing of such lines. |
| `PurchaseOrder` | Orders made from purchase indent lines, and the closing of such lines. |
| `MC*` | The values of small instances for TLC. |
| `Sums` | Lemmas on the sums over sets of rows in which totals are stated. |
| `*Proofs` | The theorems, checked by TLAPS. |

State and actions carry the names of the source where TLA+ allows:

* `DepartmentIssue`: `state`, `mode` (dep_issue_type), `chosen`
  (kg_dep_indent_line), `line` (issue_line_ids by product), `issuePending`
  (issue_pending_qty), `lotQty`/`lotPending` (product_qty/pending_qty of a
  lot), `itemQty` (kg_item_wise_dept_issue), `moved` (stock_move 'out').
  Actions: `PickIndents` and `EditLine` (saving the form),
  `update_depindent_to_issue` ("Save Record"; the service twin has the same
  body), `entry_confirm`, `action_process`, `entry_reject`, `unlink`.
  `action_process` is the whole handler: the recount of the lots (434-453),
  the distribution over indent lines in id order (455-546), the draw from lots
  in the arbitrary order of a select without ORDER BY (548-609), the move.
* `PoGrn`: `grnState`, `confirmFlag`, `grnOrders` (po_ids), `grnLine` (line_ids
  by order line), `confirmedBy`, `approvedBy`, `grnFlag` (grn_flag of an
  order), `closed`, `poPending`, `received`, `movedIn`, `lotQty`,
  `lotPending`; `returned` and `movedOld` (moves of unlinked lines) are what
  the code keeps in the gate pass rows and in orphaned stock moves. Actions: `PickOrders`, `update_potogrn`,
  `EditLine`, `RemoveLine`, `po_grn_confirm`, `kg_po_grn_approve`, `unlink`,
  `CloseOrder`. `kg_po_grn_approve` includes the rejection with its write to
  *all* lines of the order, the four-eyes test, tolerance, clamp, moves, lots
  and the release of the flag, in that order.
* `PurchaseOrder`: `poState`, `picked` (kg_poindent_lines), `orderLine`,
  `piPending`, `lineState`, `draftFlag`, and `atStart`: the button "Approve" is
  a workflow signal (`purchase/purchase_workflow.xml:96-100`), answered once per
  order, so that - unlike a receipt or an issue - an order is approved at most
  once even from old forms. Actions: `PickLines`, `update_poline`,
  `EditOrderLine`, `RemoveOrderLine`, `confirm_po`, `wkf_approve_order`,
  `entry_reject`, `unlink`, `ClosePiLine`.
* `PurchaseIndent`: `piState`, `picked` (kg_depindent_lines), `piLine` (line_ids
  by product, with the copies `dep` and `po`), `poQty` and `pendingQty` of an
  indent line, `lineState`, `closing`. Actions: `PickLines`, `update_pil`
  ("Save Record"), `EditLine`, `RemoveLine`, `tender_in_progress`,
  `tender_for_approve` with its write-back (single lines from the copy, grouped
  ones from the row), `tender_reject`, `unlink`; `load_item`, `entry_confirm`,
  `entry_approve`, `entry_reject` of the closing.
* `GeneralGrn`: `genState`, `genLine` (grn_line with the sum of its batches and
  its confirm_flag), `genConfirmedBy`, `genApprovedBy`, `genMoved`,
  `genMovedOld` (moves of lines since removed), `lotQty`, `lotPending`. Actions:
  `EnterLine`, `RemoveLine`, `entry_confirm`, `entry_approve`, `entry_reject`,
  `unlink`.
* `Requests`: `pc`, `tries`, `slot` of a handler; its snapshot `saw`, `written`
  rows (its locks) and the row it `want`s; `pool` (state and database of each
  entry); `books`, the committed rows, told by who has written them. Actions:
  `Borrow` and `PoolFull` (ConnectionPool.borrow), `Read`, `Ask`, `Write`,
  `Conflict` (the three errors of osv.py that are tried again), `Raise`,
  `Commit`, `Close`, `Lost` (the next statement finds the connection gone);
  `Restart` of the database server, `CloseDb` (close_all).
* `IrCron`: the committed row of a job (`nextcall`, `numbercall`, `active`), its
  `calls` whose work is in the database and those that a raising call has
  `undone`; per worker its list and copies (`listed`, `copy`), the row it has
  locked (`cur`), whether it has been through the loop (`ok`), the calls in its
  open transaction (`made`) and those of this run that were rolled back
  (`lost`). Actions: `Poll`, `Skip` (NOWAIT fails), `Lock`, `Round` (one pass of
  the loop of `_process_job`), `CommitJob`, `CommitCron`, `Sleep`; `Fail` (the
  registry check or a commit raises), `Crash`, `Spawn`, `Tick`, `Deactivate`. In
  a `Round` the call returns (`CallReturns`), raises (`CallRaises`: all that is
  not committed is rolled back, the earlier calls of the loop with it,
  `ir_cron.py:114`), or is none (`NoCall`: a missed call of a job without
  `doall`, or a model or method that does not exist, `:128`); whichever it is,
  it is counted (`:158-164`). `Missing` and `Raising` are the jobs to which the
  last two may happen.

Abstractions shared by the modules of the chain: picking rows and saving the
form is one step, taken in the state in which the form is editable; a document
has one line per product (receipts: per order line; a general receipt has lines
of its own); quantities are positive; units are those of the stock (no
conversion factors), prices exist and are positive; numbering, mails, texts,
logs and report layouts are left out. A row of `Lots` in `PoGrn`
stands for all lots that one receipt line makes. Mutant operators (comment
"Mutant of ...") are wrong variants of the operator below them, kept to show that
each property can fail; no specification uses them.

## 3. The runs

Every passing run explores its full state space. `CHECK_DEADLOCK` is off in
all of them because the modelled systems really end: when each document is
done, rejected or deleted and nothing is pending, no click is left; when each
handler is answered, or the clock of an instance stops, no thread has work.

| Run | Question | Answer | States |
|---|---|---|---|
| `issue_overlap` | Two documents over the same two indent lines and two lots, from any form, issued again and again. | `TypeOK`, `LotLedger` (lot = opening - rows), `MovesMatchLots` (moves out = rows), `IndentChargedOnce` (indents are charged no more than was moved), refinement `CardSpec` hold. | 916,332 |
| `issue_fresh` | Fresh forms, two products, quantities in halves (Unit = 2). | `IssuedOnce`: a document moves its quantities exactly once; `ItemsWithinLot`: the cut-off rows never claim what the lot holds (`LotLedger` does not hold in halves; that is the cut-off). | 1,419 |
| `grn_overlap` | Two receipts of one line, with tolerance, rejection, batches, removal, any form. | `GrnTypeOK`, `FourEyes`, `OpenQty`, `OpenQtyReturned`, `ReceivedInLots`, action property `WithheldWhileWaiting`. | 1,004,860 |
| `grn_over_receipt` | Is no more received than ordered? | **No** (finding 1). | - |
| `stores` | A receipt against an order and a general one of two lines with batches, fresh forms; an issue from any form; same lots. | `LedgerShowsStock`, `MovesInMatchLots`, `ApprovedInStock`, refinement `StoreCard`. | 585,590 |
| `order_claims` | Three orders, two products, fresh forms; any of them picks and loads what another has. | `PoTypeOK`, `PendingWithinIndent`, `TakenIsOrdered`, `FlagHasOrder`. | 476,261 |
| `order_group` | Is no more ordered than asked for, where lines are grouped and orders are made one after another? | **No** (finding 2). | - |
| `indents` | Two purchase indents over two indent lines of one product, singly and grouped, with closings in between. | `IndentTypeOK`, `PendingFollows`, `DoneIsDone`, `TakenIsIndented`. | 480,424 |
| `indent_closed` | Is no line closed that a purchase indent in the making refers to? | **No** (finding 4). | - |
| `requests` | Three handlers, three rows (one locked with NOWAIT), two connections; conflicts, deadlocks, errors, restarts, closed connections. | `RequestsTypeOK`, `PoolKept`, `Numbered`, `FullMeansInUse`, liveness `Answered`, refinement `AtomicHandlers`. | 206,130 |
| `cron` | Two workers, one of which is killed or fails at any point; a job with two calls that makes up for missed ones and may raise, a job without limit whose method does not exist. | `CronTypeOK`, `OneRunner`, `CalledBeforeCounted`, `ScheduleInStep`, `NeverTurnedBack`, liveness `JobsRun`. | 217,000 |
| `cron_twice` | Is a job called no more often than numbercall says? | **No** (finding 3). | - |

### Bounds, and why they are enough

* **Documents.** Two receipts of a kind, two issues, two purchase indents, two or
  three orders: the shared rows (lots, order lines, indent lines, flags) are
  read and written by a document alone, so a violation needs one writer between
  a reader's read and its write. The third order lets a line be rejected by
  one, deleted by another and held by a third. In `stores` there is one document
  of each kind, because its question is what happens between kinds; what two
  receipts do to each other is the question of `grn_overlap`.
* **Lines.** Two indent lines of one product give the distribution (first line
  exhausted, second broached) and the grouping; two lots give a draw that
  empties one and broaches the other; two lines of a general receipt give the
  batch count that is not reset and the lock of the last line only.
* **Quantities.** 1 to 3: smaller than, equal to and greater than what is
  pending, so that every comparison, clamp and remainder goes both ways.
* **Handlers.** Two that write the same two rows, in either order, make the
  conflict and the deadlock; the third, on the NOWAIT row that one of them
  writes too, makes the refused lock. With two connections the third handler
  finds the pool full. `MaxTries` = 1 (5 in the code): the last try
  differs from the others only in that it is the last. Restarts and
  `close_all` are not bounded.
* **Jobs.** `MaxTime` = 2 stops the clock after a job was missed once and is due
  again; `MaxCrashes` = 1 lets a worker die or fail at each point of a run, and its
  successor meet what it left. More repeat that: a dead worker leaves no copies
  and no lock.
* **Counters.** `MaxReceived` bounds the received quantity of an order line, the
  one counter that repeated approvals would let grow without end; it
  exceeds the ordered quantity wherever over-receipt matters. `MaxReturn`
  bounds what one approval puts on a gate pass. `moved` and `itemQty` need no
  bound: lots empty.
* `Removable = {}` (no lines removed from a receipt), one closing document per
  line, and fresh forms are restrictions *of the properties that need them*,
  named in their comments; the other runs, or the theorems, lift them. In
  `order_claims` the only quantity typed is 1, since 2 is what a line is loaded
  with. What users pick is restricted nowhere, but in `order_group`, whose
  counterexample is to be one of grouping: `OneByOneSpec` has the behaviours in
  which orders are made one after another. Old forms, and grouped lines, are
  covered for `PoTypeOK` and `PendingWithinIndent` by `IndentPendingKept`.
* **Symmetry** is used where ids order nothing: users (`grn_overlap`, `stores`),
  purchase indents (`indents`) and orders (`order_claims`). Rows whose ids order the
  searches of the code (indent lines, lines of a receipt, lots) are never
  permuted. No run with a liveness property uses symmetry; the refinement in `stores` is a safety property.

### Fairness

`Requests`: weak fairness of each thread. A thread is an operating system thread
that goes on whenever the database lets it, and PostgreSQL wakes a waiting
statement when the lock it waits for is free and breaks circles after
`deadlock_timeout`. Handlers end (none of them loops over something that
grows), so the thread that holds a lock ends too. Nothing obliges the server to
restart, the administrator to close connections, or a handler to raise.

`IrCron`: weak fairness of each worker's next step and of its replacement. Worker
and master process loop for ever with bounded waits (`workers.py:201-208`,
`303-307`), and a job's method is assumed to end or to be killed by the timeout.
Nobody is obliged to kill, to switch a job off, or to let time pass.

### What holds only for fresh forms, and why that is said

`IssuedOnce`, `MovesInMatchLots`, `FlagHasGrn`, `ApprovedInStock`,
`LedgerShowsStock` (for the receipt side), `TakenIsIndented`, `TakenIsOrdered`
and `FlagHasOrder` fail from old forms, in the code as in the model: a done document
is processed again. No text of the repository promises otherwise, so these are
not findings; the mutants `ShowsEver`, `GrnShowsEver` and `ButtonsOfDone` are
that behaviour. What survives old forms is the more remarkable part: lots and
rows balance, indents are charged once per move, the order's account follows
the receipts, four eyes stay four, a department's pending quantity follows its
copies, and no indent line is given more to order than it asked for.

## 4. Findings

Each is a run that TLC refutes, against a message of the code itself.

1. `grn_over_receipt`: the tolerance is checked against the copy of the pending
   quantity (`kg_po_grn.py:815-816`), which the other receipt's approval does
   not touch; the clamp at zero (`:828`) hides the excess.
2. `order_group`: the call that distributes a grouped line over its indent lines
   is nested under `group_flag == False` (`kg_purchase_order.py:463`, `:482`).
3. `cron_twice`: the due jobs are listed once (`base/ir/ir_cron.py:196`) and a job
   is run from that list (`:154`), not from the row that was locked and selected
   again (`:219`); with two workers a job with one call is called twice, where
   the help says "How many times the method is called" (`:70`).
4. `indent_closed`: the search for purchase indents that name the line asks for
   `dep_id.state`, the state of the department
   (`kg_depindent_manual_closing.py:189`), so the answer "You cannot close this
   indent / Because it was refered in Purchase Indent" (`:193`) never comes at
   the approval.

The message that `order_group` refutes is not kept by single lines either:
`update_poline` loads and flags what was picked without looking at the flag
again (`kg_indent2_po.py:131`), and the approval compares with the `pi_qty` its
own line was loaded with (`kg_purchase_order.py:466-469`). Two forms that picked a
line while it was on offer both order it; under `Spec` instead of `OneByOneSpec`
TLC finds that behaviour too. What remains true of it is `TakenIsOrdered`.

Behaviour met on the way that no text of the code contradicts, or that one of
these covers, is among the hazards of `PROJECT.json`: batches compared only at a
receipt's confirmation (`kg_po_grn.py:652`), the update after a rejection that
reaches all lines of the order (`:714`), an indent line that is out of the offer with a
quantity pending, after a second order wrote back what the first had taken
(`kg_purchase_order.py:480`), the work of counted calls that a later raising call
rolls back (`ir_cron.py:114`).

## 5. What is proved

For every value of the constants, checked by TLAPS:

| Theorem (module) | Statement | Assumes |
|---|---|---|
| `StockTyped`, `IssueTyped`, `ItemRowsWithinLots` (DepartmentIssueProofs) | no quantity below zero; `TypeOK`; rows never claim what the lot holds; from any form | - |
| `IndentLinesChargedOnce` | `IndentChargedOnce`, from any form | - |
| `LotsBalance`, `MovesMatchRows`, `ImplementsStockCard` | lot = opening - rows; moves out = rows; the issue implements the card; from any form | Unit = 1 |
| `FreshFormsIssueOnce` | `IssuedOnce` | fresh forms |
| `GrnTyped`, `ApprovedByAnother`, `PendingFollowsReceipts`, `PendingFollowsReturns` (PoGrnProofs) | types, four eyes, `OpenQty`, `OpenQtyReturned`, from any form | - |
| `ReceivedReachesLots` | `ReceivedInLots`, from any form | while batches are their lines' quantities |
| `MovesFollowLots` | `MovesInMatchLots` | fresh forms; while batches are their lines' quantities |
| `WithheldIsWaitedFor` | `WithheldWhileWaiting`, from any form | - |
| `WithheldOrdersHaveReceipt` | `FlagHasGrn` | fresh forms, no line removed |
| `CardKeepsBalance` (StoresProofs) | `CardSpec => []CardBalanced` | - |
| `StoreImplementsCard` | both kinds of receipt and the issues together implement the card, from any form | - |
| `ApprovedReceiptsInStock` | `ApprovedInStock`, with the lots shared | fresh general receipts; while batches are their lines' quantities |
| `StoreMovesMatchLots`, `StoreWithholdsForReceipt` | `MovesInMatchLots`, `FlagHasGrn`, with the lots shared | as of `PoGrn` alone |
| `LedgerIsStock` | `LedgerShowsStock`: the ledger shows what the lots hold | fresh receipts of both kinds (issues from any form); while batches are their lines' quantities |
| `IndentTyped`, `PendingKept`, `DoneLinesAreDone` (PurchaseIndentProofs) | `IndentTypeOK`; `PendingFollows`; `DoneIsDone`; from any form | - |
| `TakenWasIndented` | `TakenIsIndented` | fresh forms |
| `IndentPendingKept` (PurchaseOrderProofs) | `PoTypeOK /\ PendingWithinIndent`, from any form | - |
| `FlagsHaveOrder` | `FlagHasOrder`, whatever users pick | fresh forms |
| `ChargedIsOrdered` | `TakenIsOrdered`, whatever users pick | fresh forms; while no order line stands for several indent lines |
| `RequestsTyped`, `ConnectionsKept`, `FullSaidOnlyInUse`, `NumbersInLine` (RequestsProofs) | types and number of tries; `PoolKept`; `FullMeansInUse`; `Numbered` | - |
| `HandlersAreSteps` | `Requests` implements `Handlers` | - |
| `CronTyped`, `RunnersApart`, `CallsBeforeCount`, `ScheduleSteps`, `ScheduleOnward` (IrCronProofs) | types; `OneRunner`; `CalledBeforeCounted`, with calls that raise, methods that do not exist and failures; `ScheduleInStep`; `NeverTurnedBack` | - |

The named assumptions of the modules (`ConstantsOK`, `GrnConstantsOK`,
`OrderConstantsOK`, ...) type the constants and say that the rows of a table
are finitely many, since a sum over infinitely many would have no value. They
also leave out zero: the quantities that users type and that indents and orders
ask for are positive, and `CronOK` asks for an interval above zero and an entered
`numbercall` other than zero, which no constraint of the code does. TLC
evaluates them in each run. `Stores` counts in whole units (`StoresOK`). "While"
in the last column is a hypothesis on the behaviour (`[]WholeBatches`,
`[]WholeGenBatches`, `[]Alone`), not on the constants: the code does not
enforce it, and the property fails where it is broken (a batch edited after the
confirmation, `kg_po_grn.py:652`; a grouped order line, finding 2). The runs meet
it by the quantities they offer and by products of one indent line each;
`TypedAreWhole` proves it enough for a receipt's batches.

The arguments:

* **The issue.** `LotDraws` and `IndentDraws` are sets of functions, so the
  lemmas `LotDrawsBounded`/`IndentDrawsBounded` give the one fact that the
  proofs need: a draw takes at most what is there. `StoreInv` (types and
  ItemsWithinLot) and, in whole units, `BalanceInv` (types and LotLedger) are then inductive;
  the only action that disturbs them is `action_process`. The same lemma shows
  that its step is a Withdraw of the card; all others stutter.
* **What an issue moves.** `DocInv` adds what the documents must satisfy: the lots
  of a line are of its product, and a product without a line asks for nothing.
  Then a draw takes from the lots of a product *exactly* what its line says
  (`DrawsAreTheLine`: no more, because they are no other line's lots, and no
  less, because the line is covered) and from the indent lines at most that
  (`DrawnWithinLine`). So each issue adds the same to the moves and to the rows,
  and at least as much as it charges, whether it is the first or a repetition.
  `IssuedOnce` needs that a done document is never issued again.
* **Sums.** Totals are stated with `SumFunctionOnSet`, a fold whose value is a
  recursive function on sets. The induction theorems of the library take a
  predicate and cannot be instantiated here, so `Sums` proves one that takes
  the set of the subsets for which a fact holds (`SubsetInduction`, from the
  well-foundedness of the strict subset order) and derives from it that the sum
  is unique, additive and monotone, what one changed or removed row does to it,
  and what it is over a union. The proofs above and below only cite these.
* **The receipt.** `GrnInv` = types, FourEyes, OpenQty is inductive because
  `StillPending` subtracts from the order line as it is, not from the copy: the copy
  decides only whether the approval goes through.
* **The account and the lots.** A receipt line has one lot row, so an approval
  changes exactly one summand of `ReceivedInLots`, by what it adds to `received`
  (`ApproveInLots`). For `OpenQtyReturned`, an order of one line is the case in
  which the row that a rejection reads and the rows that it writes are the same.
* **Moves and lots.** They agree only because nothing was moved or lotted for a
  receipt before it is done, and a done receipt is never loaded or approved
  again with fresh forms; `FreshInv` adds these (`NothingBeforeDone`,
  `NoneUnlinked`, `FlagByState`, `WholeBatches`). For the flag, `FlagInv` relates a
  flagged order to a confirmed receipt and is kept because an approval releases
  exactly the orders of its lines. `WithheldWhileWaiting` is what that gives step by
  step and from any form.
* **The store.** `StoresProofs` takes the proofs of the receipt and of the issue by
  INSTANCE; `SameReceipt` and `SameIssue` show that their steps are the store's.
  What is left is that each part leaves alone what the others' invariants speak
  of: the lots of a receipt are written by nobody else's receipt, and an issue
  changes only what is left of a lot, never what it received. `ListedInv`
  (ApprovedInStock with types and the batches) is the counterpart for the
  general receipts. `LedgerIsStock` then needs no induction of its own: lot by
  lot, moves in are what was received, which is what is left and what the rows
  have (the card's balance), and the rows of a product are the moves out
  (`LedgerAdds`).
* **The purchase indent.** `IndentInv` = types, `CopiesMade`, `PendingFollows`. A
  copy of an unclosed line satisfies what the line itself satisfied when it was
  made (`dep` = `po`, between nothing and what was asked for), and closings are
  never undone; so an approval writes a state that the line might have had,
  however old the copy is. For `DoneIsDone`: an approval marks a single line by
  what it has just written, and "Save Record" marks the first of lines with
  nothing pending, of which by `PendingFollows` nothing is to order either,
  unless one is closed (`ExhaustedIsDone`).
* **What is taken off the indents.** `TakenIsIndented` is not inductive: an
  approval overwrites the row with its copy, so the rows of a product may rise
  and fall. `CopiesIndented` states it of every mixture (`WrittenBack`) of rows and
  of the copies that open purchase indents hold; an approval turns a copy into
  the row, which leaves one of these mixtures, and adds what it took to what
  is indented.
* **Requests.** The pool invariant says that entries in use and handlers that
  have one correspond one to one; close_all keeps it by forgetting both, a
  restart by marking the entry. For atomicity: the rows that a handler has
  written are as in its snapshot until it commits, because the lock is given
  only if nobody committed the row since, and held to the end. So its commit
  writes what `Handlers` writes in one step, and the snapshot is what `Handlers`
  lets it see. `Numbered` follows from the same fact.
* **Jobs.** The row lock makes `OneRunner`; a worker that has a job locked is the
  only one that can change its row, and its copy is the row or an older one,
  brought forward to the time it read after the lock. `CallsBeforeCount` rests on
  the order of the two commits and on an account of each open run: `MadeOpen` says
  that whoever has been through the loop of a method that exists has made or
  lost a call, and `CopiesBooked` that a copy counts no more calls than came to an
  end (`calls`, `undone`) or are in its own open run (`made`, `lost`). A `Round`
  adds its call to the run where it counts it in the copy; a raising call moves
  the earlier ones from `made` to `lost`, which leaves the sum; the job's commit
  moves both to `calls` and `undone`, and only then does the copy become the row.
  That nothing is lost but in jobs that may raise is part of the invariant.
* **The order.** `PoInv` = types, PendingWithinIndent and `LinesMade`: a line
  names an indent line of its product, and unless it is grouped was made with no
  more than that asked for. So what an approval writes, `pi_qty` less the
  ordered quantity, lies within the indent, however old `pi_qty` is. `FirstIsOne`
  (the first of a set of ids exists) rests on the well-foundedness of the naturals.
* **The flags.** `FlagInv` adds to `PoInv` that a flagged line which is marked
  `noprocess` is named by a rejected order (`RejectedKept`): the deletion of an
  order releases only lines in process, and that is enough because whoever took
  a line of it out of process and left the flag was a rejection, which keeps it.
  Each action then leaves a flagged line with one of the holders it had, or with
  the order that flags it (`FlagsKept`). Nothing is assumed of what forms pick.
* **What is taken off an indent line.** Where several forms load a line, an
  approval may write back a quantity from before another's charge, so nothing
  adds up exactly; but it errs in one direction. `NamedPending` says it of the
  copies: what an open order's line was made with and what approved orders
  order of the indent line are together no less than what it asked for. This is
  `TakenIsOrdered` at the time of the loading, and stays true because what is
  ordered only grows. An approval turns such a copy into the row. While no line
  is grouped, a closed line is never loaded again (`ClosedEmpty`).

Every invariant, action property and refinement that a passing run checks is
stated by one of these theorems. Only model-checked is the liveness, `Answered`
and `JobsRun`: liveness under fairness is out of the provers' reach. ENABLED is
not used in a proof, and there are no recursive operators. The four
refutations (section 4) are counterexamples that TLC found.

## 6. What is not modelled

* In the chain: actions whose buttons are invisible (`entry_cancel`,
  `action_cancel`, `tender_cancel`, the cancellation of department indents),
  quantities typed below zero, several lines of one product, unit conversion,
  brands, work orders, prices and special approvals, invoices written by
  receipts, receipts of service orders and gate passes, direct orders and
  indents and lines added by hand, products with an expiry alert, batches that
  sum to less than the quantity. `kg_opening_stock` writes opening moves
  without lots (`kg_opening_stock.py:235`); `LedgerShowsStock` is stated for a
  store without them.
* In the kernel: wait times, template databases, cursors that are left to the
  garbage collector, HTTP workers, edits of a job's schedule, memory and time
  limits beyond the fact that they end a worker.
* The service chain repeats the purchase chain handler by handler and would show
  nothing new; amendments and invoices are in the plan.
* Components in the table above without a module, each with its reason in
  `PROJECT.json`.

Most of the repository's lines are OpenERP 7 and its upstream addons (accounting,
stock, project, web client), which the program uses for a few table
definitions. The models stay with the program's own code and the two kernel
parts it depends on, so the share of all lines that they cover is small.

## 7. Plan

What is left, in this order:

1. `PurchaseAmendment` over `PoGrn`: an amendment's copy of received and pending
   quantities (`kg_purchase_amendment.py:243-275`), written back (560-640) over
   a receipt approved in between. Abstract specification: the order line's
   account (`OpenQty`). Theorem: where no receipt interleaves, the account is kept.
2. `Procurement`: `PurchaseIndent` and `PurchaseOrder` over the same purchase
   indent lines. Theorem: `PendingFollows` and `PendingWithinIndent` together
   bound what is ordered by what departments asked for.
3. The registries' signals between processes, and the workflow engine beyond the
   one transition of an order.
4. Negative quantities in `DepartmentIssue` (`kg_department_issue.py:607`), unit
   conversion, opening entries, invoices of receipts.
