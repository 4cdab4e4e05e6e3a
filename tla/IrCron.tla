------------------------------- MODULE IrCron -------------------------------
(***************************************************************************)
(* Scheduled jobs (ir_cron.py) run by several workers, each a process that *)
(* polls the table, locks one due job after the other and runs it.  A      *)
(* worker reads the list of due jobs once, before it locks any, and works  *)
(* from what it read.  It may be killed at any point (workers.py) and is   *)
(* started again; a call may raise, its method may not exist, and what     *)
(* goes wrong around the calls costs the worker that job only.             *)
(***************************************************************************)
EXTENDS Integers

CONSTANTS
    Workers,
    Jobs, NoJob,
    FirstCall,   \* FirstCall[j]: the nextcall that the user entered
    Interval,    \* Interval[j]: interval_number, in ticks of the clock
    NumberCall,  \* NumberCall[j]: the numbercall entered; negative: no limit
    DoAll,       \* jobs with doall: missed calls are made up for
    Missing,     \* jobs whose model or method does not exist
    Raising,     \* jobs whose method may raise
    MaxTime,     \* bound: when the clock of an instance stops
    MaxCrashes   \* bound: how often a worker is killed or fails in an instance

ASSUME CronOK ==
    /\ NoJob \notin Jobs
    /\ FirstCall \in [Jobs -> Nat]
    /\ Interval \in [Jobs -> Nat \ {0}]
    /\ NumberCall \in [Jobs -> Int \ {0}]
    /\ DoAll \subseteq Jobs
    /\ Missing \subseteq Jobs
    /\ Raising \subseteq Jobs
    /\ MaxTime \in Nat
    /\ MaxCrashes \in Nat

VARIABLES
    now,         \* the clock
    nextcall, numbercall, active,  \* the committed row of each job
    calls,       \* calls[j]: calls of its method whose work is in the database
    undone,      \* undone[j]: calls whose work a raising call rolled back
    pc,          \* pc[w]: what worker w is at
    listed,      \* listed[w]: jobs of its list that it has still to look at
    copy,        \* copy[w][j]: nextcall and numbercall of j as w has them
    cur,         \* cur[w]: the job whose row it has locked
    start,       \* start[w]: the time at which it began that job
    ok,          \* ok[w]: it has been through the loop once
    made,        \* made[w]: calls made in its open transaction
    lost,        \* lost[w]: calls of this run that were rolled back
    crashes

rowVars == <<nextcall, numbercall, active>>
callVars == <<calls, undone>>
runVars == <<ok, made, lost>>
vars == <<now, rowVars, callVars, pc, listed, copy, cur, start, runVars, crashes>>

PCs == {"asleep", "polling", "calling", "saved", "dead"}
NoCopy == [j \in Jobs |-> [next |-> 0, number |-> 0]]

Init ==
    /\ now = 0
    /\ nextcall = FirstCall
    /\ numbercall = NumberCall
    /\ active = [j \in Jobs |-> TRUE]
    /\ calls = [j \in Jobs |-> 0]
    /\ undone = [j \in Jobs |-> 0]
    /\ pc = [w \in Workers |-> "asleep"]
    /\ listed = [w \in Workers |-> {}]
    /\ copy = [w \in Workers |-> NoCopy]
    /\ cur = [w \in Workers |-> NoJob]
    /\ start = [w \in Workers |-> 0]
    /\ ok = [w \in Workers |-> FALSE]
    /\ made = [w \in Workers |-> 0]
    /\ lost = [w \in Workers |-> 0]
    /\ crashes = 0

-----------------------------------------------------------------------------
(* A worker *)

\* Mutant of Listed: jobs without a limit are overlooked.
ListedLimited == {j \in Jobs : active[j] /\ numbercall[j] > 0 /\ nextcall[j] <= now}

Listed == {j \in Jobs : active[j] /\ numbercall[j] # 0 /\ nextcall[j] <= now}

\* Mutant of Locked: the row is not locked for update.
LockedNever(j) == FALSE

Locked(j) == \E w \in Workers : cur[w] = j

\* The list of due jobs, in a transaction of its own.
Poll(w) ==
    /\ pc[w] = "asleep"
    /\ Listed # {}
    /\ listed' = [listed EXCEPT ![w] = Listed]
    /\ copy' = [copy EXCEPT ![w] = [j \in Jobs |->
                   IF j \in Listed THEN [next |-> nextcall[j], number |-> numbercall[j]]
                   ELSE NoCopy[j]]]
    /\ pc' = [pc EXCEPT ![w] = "polling"]
    /\ UNCHANGED <<now, rowVars, callVars, cur, start, runVars, crashes>>

\* FOR UPDATE NOWAIT fails: another worker is at this job.
Skip(w) ==
    /\ pc[w] = "polling"
    /\ \E j \in listed[w] :
        /\ Locked(j)
        /\ listed' = [listed EXCEPT ![w] = @ \ {j}]
        /\ copy' = [copy EXCEPT ![w][j] = NoCopy[j]]
    /\ UNCHANGED <<now, rowVars, callVars, pc, cur, start, runVars, crashes>>

\* The lock is had, and _process_job begins with the copy of the list.
Lock(w) ==
    /\ pc[w] = "polling"
    /\ \E j \in listed[w] :
        /\ ~Locked(j)
        /\ listed' = [listed EXCEPT ![w] = @ \ {j}]
        /\ cur' = [cur EXCEPT ![w] = j]
    /\ start' = [start EXCEPT ![w] = now]
    /\ pc' = [pc EXCEPT ![w] = "calling"]
    /\ UNCHANGED <<now, rowVars, callVars, copy, runVars, crashes>>

\* Mutant of Taken: a negative one is counted down as well.
TakenAlways(n) == n - 1

\* numbercall after one more call: a negative one stays.
Taken(n) == IF n > 0 THEN n - 1 ELSE n

\* Mutant of MustCall: missed calls are never made up for.
MustCallOnce(w) == ~ok[w]

MustCall(w) == ~ok[w] \/ cur[w] \in DoAll

\* Mutant of Onward: the last call moves the schedule on as well.
OnwardAlways(j, next, number) == next + Interval[j]

\* nextcall after one more call, when number calls are still to come.
Onward(j, next, number) == IF number # 0 THEN next + Interval[j] ELSE next

\* The copy of a row after one more call.
After(j, c) == [next |-> Onward(j, c.next, Taken(c.number)), number |-> Taken(c.number)]

\* Mutant of Pending: one call for each time that the job is listed.
PendingOnce(w) == ~ok[w] /\ copy[w][cur[w]].next < start[w] /\ copy[w][cur[w]].number # 0

Pending(w) == copy[w][cur[w]].next < start[w] /\ copy[w][cur[w]].number # 0

\* _callback calls nothing where the method is not there.
Called(w) == MustCall(w) /\ cur[w] \notin Missing

CallReturns(w) ==
    /\ Called(w)
    /\ made' = [made EXCEPT ![w] = @ + 1]
    /\ UNCHANGED lost

\* _handle_callback_exception rolls back all that is not committed: the work of the
\* raising call and that of the calls before it in the same loop.
CallRaises(w) ==
    /\ Called(w)
    /\ cur[w] \in Raising
    /\ lost' = [lost EXCEPT ![w] = @ + made[w] + 1]
    /\ made' = [made EXCEPT ![w] = 0]

NoCall(w) == ~Called(w) /\ UNCHANGED <<made, lost>>

\* One round of the loop of _process_job: whatever becomes of the call, it is
\* counted down and the schedule moves on.
Round(w) ==
    /\ pc[w] = "calling"
    /\ Pending(w)
    /\ CallReturns(w) \/ CallRaises(w) \/ NoCall(w)
    /\ ok' = [ok EXCEPT ![w] = TRUE]
    /\ copy' = [copy EXCEPT ![w][cur[w]] = After(cur[w], @)]
    /\ UNCHANGED <<now, rowVars, callVars, pc, listed, cur, start, crashes>>

\* The worker has no run open.
EndRun(w) ==
    /\ ok' = [ok EXCEPT ![w] = FALSE]
    /\ made' = [made EXCEPT ![w] = 0]
    /\ lost' = [lost EXCEPT ![w] = 0]

\* job_cr.commit(): what the calls did, as far as it was not rolled back, is in the
\* database.
CommitJob(w) ==
    /\ pc[w] = "calling"
    /\ ~Pending(w)
    /\ calls' = [calls EXCEPT ![cur[w]] = @ + made[w]]
    /\ undone' = [undone EXCEPT ![cur[w]] = @ + lost[w]]
    /\ EndRun(w)
    /\ pc' = [pc EXCEPT ![w] = "saved"]
    /\ UNCHANGED <<now, rowVars, listed, copy, cur, start, crashes>>

\* cron_cr.commit(): the row gets the schedule computed from the copy, and is free.
CommitCron(w) ==
    /\ pc[w] = "saved"
    /\ LET j == cur[w] IN
        /\ nextcall' = [nextcall EXCEPT ![j] = copy[w][j].next]
        /\ numbercall' = [numbercall EXCEPT ![j] = copy[w][j].number]
        /\ active' = [active EXCEPT ![j] = @ /\ copy[w][j].number # 0]
        /\ copy' = [copy EXCEPT ![w][j] = NoCopy[j]]
    /\ cur' = [cur EXCEPT ![w] = NoJob]
    /\ start' = [start EXCEPT ![w] = 0]
    /\ pc' = [pc EXCEPT ![w] = "polling"]
    /\ UNCHANGED <<now, callVars, listed, runVars, crashes>>

Sleep(w) ==
    /\ pc[w] = "polling"
    /\ listed[w] = {}
    /\ copy' = [copy EXCEPT ![w] = NoCopy]
    /\ pc' = [pc EXCEPT ![w] = "asleep"]
    /\ UNCHANGED <<now, rowVars, callVars, listed, cur, start, runVars, crashes>>

\* The registry check before the loop or one of the two commits raises: the row is
\* as it was, and free; the worker goes on with its list.
Fail(w) ==
    /\ crashes < MaxCrashes
    /\ \/ pc[w] = "calling" /\ (~ok[w] \/ ~Pending(w))
       \/ pc[w] = "saved"
    /\ copy' = [copy EXCEPT ![w][cur[w]] = NoCopy[cur[w]]]
    /\ cur' = [cur EXCEPT ![w] = NoJob]
    /\ start' = [start EXCEPT ![w] = 0]
    /\ EndRun(w)
    /\ pc' = [pc EXCEPT ![w] = "polling"]
    /\ crashes' = crashes + 1
    /\ UNCHANGED <<now, rowVars, callVars, listed>>

Work(w) ==
    Poll(w) \/ Skip(w) \/ Lock(w) \/ Round(w) \/ CommitJob(w) \/ CommitCron(w) \/ Sleep(w)

-----------------------------------------------------------------------------
(* The master process, the clock, the user *)

\* process_timeout kills a worker that has not pinged for too long, a limit or a
\* full connection pool ends it: its transactions are rolled back, its lock goes.
Crash(w) ==
    /\ crashes < MaxCrashes
    /\ pc[w] \notin {"dead", "asleep"}
    /\ pc' = [pc EXCEPT ![w] = "dead"]
    /\ listed' = [listed EXCEPT ![w] = {}]
    /\ copy' = [copy EXCEPT ![w] = NoCopy]
    /\ cur' = [cur EXCEPT ![w] = NoJob]
    /\ start' = [start EXCEPT ![w] = 0]
    /\ EndRun(w)
    /\ crashes' = crashes + 1
    /\ UNCHANGED <<now, rowVars, callVars>>

\* process_zombie and process_spawn put a new worker in its place.
Spawn(w) ==
    /\ pc[w] = "dead"
    /\ pc' = [pc EXCEPT ![w] = "asleep"]
    /\ UNCHANGED <<now, rowVars, callVars, listed, copy, cur, start, runVars, crashes>>

Tick ==
    /\ now < MaxTime
    /\ now' = now + 1
    /\ UNCHANGED <<rowVars, callVars, pc, listed, copy, cur, start, runVars, crashes>>

\* A user switches a job off (write): refused while a worker has the row.
Deactivate(j) ==
    /\ ~Locked(j)
    /\ active[j]
    /\ active' = [active EXCEPT ![j] = FALSE]
    /\ UNCHANGED <<now, nextcall, numbercall, callVars, pc, listed, copy, cur, start, runVars, crashes>>

Next ==
    \/ \E w \in Workers : Work(w) \/ Fail(w) \/ Crash(w) \/ Spawn(w)
    \/ Tick
    \/ \E j \in Jobs : Deactivate(j)

\* Workers and the master loop for ever; nothing is obliged to fail or to kill a
\* worker, nobody to switch a job off, or to let time pass.
Fairness == \A w \in Workers : WF_vars(Work(w)) /\ WF_vars(Spawn(w))

Spec == Init /\ [][Next]_vars /\ Fairness

-----------------------------------------------------------------------------
(* Properties *)

\* What numbercall of a job may be: it counts down to 0, or has no limit and stays.
Numbers(j) == IF NumberCall[j] > 0 THEN 0 .. NumberCall[j] ELSE {NumberCall[j]}

CronTypeOK ==
    /\ now \in 0 .. MaxTime
    /\ nextcall \in [Jobs -> Nat]
    /\ numbercall \in [Jobs -> Int]
    /\ \A j \in Jobs : numbercall[j] \in Numbers(j)
    /\ active \in [Jobs -> BOOLEAN]
    /\ calls \in [Jobs -> Nat]
    /\ undone \in [Jobs -> Nat]
    /\ pc \in [Workers -> PCs]
    /\ listed \in [Workers -> SUBSET Jobs]
    /\ copy \in [Workers -> [Jobs -> [next : Nat, number : Int]]]
    /\ cur \in [Workers -> Jobs \union {NoJob}]
    /\ start \in [Workers -> 0 .. MaxTime]
    /\ ok \in [Workers -> BOOLEAN]
    /\ made \in [Workers -> Nat]
    /\ lost \in [Workers -> Nat]
    /\ crashes \in 0 .. MaxCrashes

\* A job is run by one worker at a time (_acquire_job: the row lock), also when
\* workers are killed and started again.
OneRunner ==
    /\ \A w, v \in Workers : cur[w] = cur[v] /\ cur[w] # NoJob => w = v
    /\ \A w \in Workers : cur[w] # NoJob <=> pc[w] \in {"calling", "saved"}

\* Calls of j that came to an end: their work is in the database, or a call of the
\* same run raised.
Made(j) == calls[j] + undone[j]

\* Where the method exists no call is written off that was not made, whatever was
\* killed or failed when: what the row counts as done was called at least once, and
\* for each single call where missed ones are made up for (_process_job: the job
\* commits before the row).  Only a method that raises loses the work of a call
\* that is counted.
CalledBeforeCounted ==
    \A j \in Jobs \ Missing :
        /\ NumberCall[j] > 0 /\ j \in DoAll => NumberCall[j] - numbercall[j] <= Made(j)
        /\ nextcall[j] # FirstCall[j] \/ numbercall[j] # NumberCall[j] => Made(j) > 0
        /\ j \notin Raising => undone[j] = 0

\* nextcall and numbercall tell the same number of calls, although each is written
\* from copies that may be older than the row.
ScheduleInStep ==
    \A j \in Jobs : NumberCall[j] > 0 =>
        LET gone == NumberCall[j] - numbercall[j] IN
        /\ numbercall[j] >= 0
        /\ nextcall[j] = FirstCall[j] + Interval[j] * (IF numbercall[j] = 0 THEN gone - 1 ELSE gone)
        /\ numbercall[j] = 0 => ~active[j]

\* A copy that is older than the row never turns the schedule back (_process_job:
\* the time is read after the lock is had).
NeverTurnedBack ==
    [][\A j \in Jobs : /\ nextcall'[j] >= nextcall[j]
                       /\ numbercall'[j] <= numbercall[j]]_vars

\* A job that is overdue is run, whichever workers are killed on the way.
Overdue(j) == active[j] /\ numbercall[j] # 0 /\ nextcall[j] < now
JobsRun == \A j \in Jobs : Overdue(j) ~> ~Overdue(j)

\* "How many times the method is called" (ir_cron: the help of numbercall).
CalledWithinNumber == \A j \in Jobs : NumberCall[j] > 0 => Made(j) <= NumberCall[j]
=============================================================================
