------------------------------ MODULE Handlers ------------------------------
(***************************************************************************)
(* What every other module of this project takes for granted: a handler    *)
(* that a client calls runs as one step.  It sees the rows it decides on   *)
(* as they are, changes them, and is answered afterwards; or it changes    *)
(* nothing and is refused.  An answer may be lost after the step.          *)
(***************************************************************************)
CONSTANTS
    Requests,   \* calls of handlers, each made once
    Rows,       \* rows of the database
    Writes      \* Writes[r]: the rows that handler r decides on and writes

VARIABLES
    books,      \* books[k]: the handlers that have written row k
    status,     \* status[r]: open, applied, ok, lost or refused
    saw         \* saw[r][k]: what handler r found in row k, once applied

hvars == <<books, status, saw>>

Nothing == [k \in Rows |-> {}]

HInit ==
    /\ books = Nothing
    /\ status = [r \in Requests |-> "open"]
    /\ saw = [r \in Requests |-> Nothing]

\* The rows as handler r sees them: the ones that it writes.
View(r) == [k \in Rows |-> IF k \in Writes[r] THEN books[k] ELSE {}]

\* The rows after handler r has written its own.
Marked(r) == [k \in Rows |-> IF k \in Writes[r] THEN books[k] \union {r} ELSE books[k]]

Apply(r) ==
    /\ status[r] = "open"
    /\ saw' = [saw EXCEPT ![r] = View(r)]
    /\ books' = Marked(r)
    /\ status' = [status EXCEPT ![r] = "applied"]

Answer(r) ==
    /\ status[r] = "applied"
    /\ \E a \in {"ok", "lost"} : status' = [status EXCEPT ![r] = a]
    /\ UNCHANGED <<books, saw>>

Refuse(r) ==
    /\ status[r] = "open"
    /\ status' = [status EXCEPT ![r] = "refused"]
    /\ UNCHANGED <<books, saw>>

HNext == \E r \in Requests : Apply(r) \/ Answer(r) \/ Refuse(r)

HSpec == HInit /\ [][HNext]_hvars
=============================================================================
