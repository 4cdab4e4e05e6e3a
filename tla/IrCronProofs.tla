---------------------------- MODULE IrCronProofs ----------------------------
(***************************************************************************)
(* What IrCron promises, for every set of workers and jobs.  A worker's    *)
(* copy of a row may be older than the row: the invariants say of a copy   *)
(* that a worker will still use (Tracked) what they say of the row.        *)
(***************************************************************************)
EXTENDS IrCron, TLAPS

\* w has j on its list, or works on it: it may still write its copy of the row.
Tracked(w, j) == j \in listed[w] \/ cur[w] = j

\* A copy that may still be written holds a number that the row may hold.
Copies == \A w \in Workers, j \in Jobs : Tracked(w, j) => copy[w][j].number \in Numbers(j)

\* A job that a worker is at is no longer on its list.
OffList == \A w \in Workers : cur[w] \notin listed[w]

Typed == CronTypeOK /\ Copies /\ OffList

-----------------------------------------------------------------------------
(* Types *)

Row == [next : Nat, number : Int]

\* A step changes one copy only: that of j, which w has.
CopyBecomes(w, j, r) ==
    /\ copy' \in [Workers -> [Jobs -> Row]]
    /\ \A v \in Workers, k \in Jobs : copy'[v][k] = IF v = w /\ k = j THEN r ELSE copy[v][k]

LEMMA NumbersInt == ASSUME NEW j \in Jobs PROVE Numbers(j) \subseteq Int /\ NumberCall[j] \in Numbers(j)
  BY CronOK DEF Numbers

\* One call less is again a number that the row may hold.
LEMMA TakenTyped ==
  ASSUME NEW j \in Jobs, NEW n \in Numbers(j), n # 0
  PROVE  /\ Taken(n) \in Numbers(j) /\ n \in Int /\ NumberCall[j] \in Int
         /\ NumberCall[j] > 0 => n > 0 /\ Taken(n) = n - 1
  BY CronOK DEF Numbers, Taken

\* What a change of one copy makes of all copies.
LEMMA OneCopy ==
  ASSUME NEW f \in [Workers -> [Jobs -> Row]], NEW w \in Workers, NEW j \in Jobs, NEW r \in Row
  PROVE  /\ [f EXCEPT ![w][j] = r] \in [Workers -> [Jobs -> Row]]
         /\ \A v \in Workers, k \in Jobs :
                [f EXCEPT ![w][j] = r][v][k] = IF v = w /\ k = j THEN r ELSE f[v][k]
  OBVIOUS

LEMMA TypesStart == ASSUME Init PROVE Typed
  <1>1. \A j \in Jobs : NumberCall[j] \in Numbers(j)
    BY NumbersInt
  <1>2. CronTypeOK
    BY <1>1, CronOK DEF Init, CronTypeOK, PCs, NoCopy
  <1>3. Copies /\ OffList
    BY CronOK DEF Init, Copies, Tracked, OffList
  <1>. QED
    BY <1>2, <1>3 DEF Typed

\* What each action makes of the copies, job by job.
LEMMA PollCopies ==
  ASSUME Typed, NEW w \in Workers, Poll(w)
  PROVE  /\ copy' \in [Workers -> [Jobs -> Row]]
         /\ listed' = [listed EXCEPT ![w] = Listed]
         /\ \A v \in Workers, k \in Jobs : copy'[v][k] =
                IF v = w THEN IF k \in Listed THEN [next |-> nextcall[k], number |-> numbercall[k]] ELSE NoCopy[k]
                ELSE copy[v][k]
  <1>. DEFINE c == [j \in Jobs |-> IF j \in Listed THEN [next |-> nextcall[j], number |-> numbercall[j]] ELSE NoCopy[j]]
  <1>1. c \in [Jobs -> Row]
    BY DEF Typed, CronTypeOK, NoCopy, Row
  <1>2. copy \in [Workers -> [Jobs -> Row]]
    BY DEF Typed, CronTypeOK, Row
  <1>3. copy' = [copy EXCEPT ![w] = c] /\ listed' = [listed EXCEPT ![w] = Listed]
    BY DEF Poll
  <1>4. \A k \in Jobs : c[k] = IF k \in Listed THEN [next |-> nextcall[k], number |-> numbercall[k]] ELSE NoCopy[k]
    OBVIOUS
  <1>. HIDE DEF c
  <1>. QED
    BY <1>1, <1>2, <1>3, <1>4

LEMMA SkipCopies ==
  ASSUME Typed, OneRunner, NEW w \in Workers, Skip(w)
  PROVE  \E j \in listed[w] :
            /\ j \in Jobs /\ cur[w] = NoJob
            /\ listed' = [listed EXCEPT ![w] = @ \ {j}]
            /\ CopyBecomes(w, j, NoCopy[j])
  <1>1. PICK j \in listed[w] : /\ listed' = [listed EXCEPT ![w] = @ \ {j}]
                               /\ copy' = [copy EXCEPT ![w][j] = NoCopy[j]]
    BY DEF Skip
  <1>2. j \in Jobs /\ NoCopy[j] \in Row /\ copy \in [Workers -> [Jobs -> Row]]
    BY DEF Typed, CronTypeOK, NoCopy, Row
  <1>3. cur[w] = NoJob
    BY DEF Typed, CronTypeOK, OneRunner, Skip
  <1>4. CopyBecomes(w, j, NoCopy[j])
    BY <1>1, <1>2, OneCopy DEF CopyBecomes
  <1>. QED
    BY <1>1, <1>2, <1>3, <1>4

LEMMA RoundCopies ==
  ASSUME Typed, OneRunner, NEW w \in Workers, Round(w)
  PROVE  \E j \in Jobs : \E t \in Nat, n \in Numbers(j) :
            /\ j = cur[w]
            /\ copy[w][j].number \in Numbers(j) \ {0}
            /\ n = Taken(copy[w][j].number)
            /\ t = Onward(j, copy[w][j].next, n)
            /\ CopyBecomes(w, j, [next |-> t, number |-> n])
  <1>. DEFINE j == cur[w]
              n == Taken(copy[w][j].number)
              t == Onward(j, copy[w][j].next, n)
  <1>1. j \in Jobs
    BY DEF Round, OneRunner, Typed, CronTypeOK
  <1>2. copy[w][j].number \in Numbers(j) \ {0}
    BY <1>1 DEF Round, Typed, Copies, Tracked, Pending
  <1>3. n \in Numbers(j) /\ n \in Int
    BY <1>1, <1>2, TakenTyped, NumbersInt
  <1>4. copy \in [Workers -> [Jobs -> Row]] /\ copy[w][j] \in Row
    BY <1>1 DEF Typed, CronTypeOK, Row
  <1>5. copy' = [copy EXCEPT ![w][j] = [next |-> t, number |-> n]]
    BY DEF Round, After
  <1>6. t \in Nat
    BY <1>1, <1>4, CronOK DEF Row, Onward
  <1>7. [next |-> t, number |-> n] \in Row
    BY <1>3, <1>6 DEF Row
  <1>8. CopyBecomes(w, j, [next |-> t, number |-> n])
    BY <1>1, <1>4, <1>5, <1>7, OneCopy DEF CopyBecomes
  <1>. QED
    BY <1>1, <1>2, <1>3, <1>6, <1>8

LEMMA CronCopies ==
  ASSUME Typed, OneRunner, NEW w \in Workers, CommitCron(w)
  PROVE  \E j \in Jobs :
            /\ j = cur[w] /\ j \notin listed[w]
            /\ copy[w][j].number \in Numbers(j) /\ copy[w][j].next \in Nat
            /\ nextcall' = [nextcall EXCEPT ![j] = copy[w][j].next]
            /\ numbercall' = [numbercall EXCEPT ![j] = copy[w][j].number]
            /\ active' = [active EXCEPT ![j] = @ /\ copy[w][j].number # 0]
            /\ CopyBecomes(w, j, NoCopy[j])
  <1>. DEFINE j == cur[w]
  <1>1. j \in Jobs /\ j \notin listed[w]
    BY DEF CommitCron, OneRunner, Typed, CronTypeOK, OffList
  <1>2. copy \in [Workers -> [Jobs -> Row]] /\ NoCopy[j] \in Row /\ copy[w][j] \in Row
    BY <1>1 DEF Typed, CronTypeOK, NoCopy, Row
  <1>3. copy[w][j].number \in Numbers(j) /\ copy[w][j].next \in Nat
    BY <1>1, <1>2 DEF Typed, Copies, Tracked, Row
  <1>4. /\ copy' = [copy EXCEPT ![w][j] = NoCopy[j]]
        /\ nextcall' = [nextcall EXCEPT ![j] = copy[w][j].next]
        /\ numbercall' = [numbercall EXCEPT ![j] = copy[w][j].number]
        /\ active' = [active EXCEPT ![j] = @ /\ copy[w][j].number # 0]
    BY DEF CommitCron
  <1>5. CopyBecomes(w, j, NoCopy[j])
    BY <1>1, <1>2, <1>4, OneCopy DEF CopyBecomes
  <1>. QED
    BY <1>1, <1>3, <1>4, <1>5

LEMMA FailCopies ==
  ASSUME Typed, OneRunner, NEW w \in Workers, Fail(w)
  PROVE  \E j \in Jobs :
            /\ j = cur[w] /\ j \notin listed[w]
            /\ CopyBecomes(w, j, NoCopy[j])
  <1>. DEFINE j == cur[w]
  <1>1. j \in Jobs /\ j \notin listed[w]
    BY DEF Fail, OneRunner, Typed, CronTypeOK, OffList
  <1>2. copy \in [Workers -> [Jobs -> Row]] /\ NoCopy[j] \in Row
    BY <1>1 DEF Typed, CronTypeOK, NoCopy, Row
  <1>3. copy' = [copy EXCEPT ![w][j] = NoCopy[j]]
    BY DEF Fail
  <1>4. CopyBecomes(w, j, NoCopy[j])
    BY <1>1, <1>2, <1>3, OneCopy DEF CopyBecomes
  <1>. QED
    BY <1>1, <1>4

LEMMA TypesKept == ASSUME Typed, OneRunner, [Next]_vars PROVE Typed'
  <1>. USE CronOK
  <1>0. \A j \in Jobs : Numbers(j) \subseteq Int /\ Numbers(j)' = Numbers(j)
    BY NumbersInt DEF Numbers
  <1>a. CronTypeOK /\ Copies /\ OffList
    BY DEF Typed
  <1>1. ASSUME NEW w \in Workers, Poll(w) PROVE Typed'
    <2>. /\ copy' \in [Workers -> [Jobs -> Row]]
         /\ listed' = [listed EXCEPT ![w] = Listed]
         /\ \A v \in Workers, k \in Jobs : copy'[v][k] =
                IF v = w THEN IF k \in Listed THEN [next |-> nextcall[k], number |-> numbercall[k]] ELSE NoCopy[k]
                ELSE copy[v][k]
      BY <1>1, PollCopies, Zenon
    <2>1. CronTypeOK'
      BY <1>0, <1>a, <1>1 DEF Poll, CronTypeOK, PCs, Listed, rowVars, callVars, runVars, Row
    <2>2. cur' = cur /\ cur[w] = NoJob
      BY <1>a, <1>1 DEF Poll, CronTypeOK, OneRunner
    <2>3. ASSUME NEW v \in Workers, NEW k \in Jobs, Tracked(v, k)' PROVE (copy[v][k].number \in Numbers(k))'
      <3>1. CASE v = w
        <4>1. k \in Listed
          BY <1>a, <1>1, <2>2, <2>3, <3>1 DEF Tracked, CronTypeOK
        <4>2. copy'[v][k] = [next |-> nextcall[k], number |-> numbercall[k]]
          BY <3>1, <4>1, Zenon
        <4>. QED
          BY <1>0, <1>a, <4>2 DEF CronTypeOK
      <3>2. CASE v # w
        BY <1>0, <1>a, <1>1, <2>2, <2>3, <3>2 DEF Tracked, Copies, CronTypeOK
      <3>. QED
        BY <3>1, <3>2
    <2>4. OffList'
      BY <1>a, <1>1, <2>2 DEF OffList, CronTypeOK, Listed
    <2>. QED
      BY <2>1, <2>3, <2>4 DEF Typed, Copies
  <1>2. ASSUME NEW w \in Workers, Skip(w) PROVE Typed'
    <2>. PICK j \in listed[w] :
            /\ j \in Jobs /\ cur[w] = NoJob
            /\ listed' = [listed EXCEPT ![w] = @ \ {j}]
            /\ CopyBecomes(w, j, NoCopy[j])
      BY <1>2, SkipCopies
    <2>1. CronTypeOK'
      BY <1>0, <1>a, <1>2 DEF Skip, CronTypeOK, rowVars, callVars, runVars, Row, CopyBecomes
    <2>2. Copies' /\ OffList'
      BY <1>0, <1>a, <1>2 DEF Skip, CronTypeOK, Copies, OffList, Tracked, CopyBecomes
    <2>. QED
      BY <2>1, <2>2 DEF Typed
  <1>3. ASSUME NEW w \in Workers, Lock(w) PROVE Typed'
    <2>1. PICK j \in listed[w] : /\ listed' = [listed EXCEPT ![w] = @ \ {j}]
                                 /\ cur' = [cur EXCEPT ![w] = j]
      BY <1>3 DEF Lock
    <2>2. j \in Jobs
      BY <1>a DEF CronTypeOK
    <2>3. CronTypeOK'
      BY <1>0, <1>a, <1>3, <2>1, <2>2 DEF Lock, CronTypeOK, PCs, rowVars, callVars, runVars
    <2>4. Copies' /\ OffList'
      BY <1>0, <1>a, <1>3, <2>1, <2>2 DEF Lock, CronTypeOK, Copies, OffList, Tracked
    <2>. QED
      BY <2>3, <2>4 DEF Typed
  <1>4. ASSUME NEW w \in Workers, Round(w) PROVE Typed'
    <2>. PICK j \in Jobs : \E t \in Nat, n \in Numbers(j) :
            /\ j = cur[w]
            /\ copy[w][j].number \in Numbers(j) \ {0}
            /\ n = Taken(copy[w][j].number)
            /\ t = Onward(j, copy[w][j].next, n)
            /\ CopyBecomes(w, j, [next |-> t, number |-> n])
      BY <1>4, RoundCopies
    <2>. PICK t \in Nat, n \in Numbers(j) : CopyBecomes(w, j, [next |-> t, number |-> n])
      OBVIOUS
    <2>a. made' \in [Workers -> Nat] /\ lost' \in [Workers -> Nat] /\ ok' \in [Workers -> BOOLEAN]
      <3>1. made \in [Workers -> Nat] /\ lost \in [Workers -> Nat] /\ ok \in [Workers -> BOOLEAN]
        BY <1>a DEF CronTypeOK
      <3>2. ok' = [ok EXCEPT ![w] = TRUE] /\ (CallReturns(w) \/ CallRaises(w) \/ NoCall(w))
        BY <1>4 DEF Round
      <3>3. ok' \in [Workers -> BOOLEAN]
        BY <3>1, <3>2
      <3>4. made' \in [Workers -> Nat] /\ lost' \in [Workers -> Nat]
        BY <3>1, <3>2 DEF CallReturns, CallRaises, NoCall
      <3>. QED
        BY <3>3, <3>4
    <2>b. UNCHANGED <<now, nextcall, numbercall, active, calls, undone, pc, listed, cur, start, crashes>>
      BY <1>4 DEF Round, rowVars, callVars, runVars, callVars
    <2>1. CronTypeOK'
      BY <1>0, <1>a, <2>a, <2>b DEF CronTypeOK, Row, CopyBecomes
    <2>2. Copies' /\ OffList'
      BY <1>0, <1>a, <2>b DEF Copies, OffList, Tracked, CopyBecomes
    <2>. QED
      BY <2>1, <2>2 DEF Typed
  <1>5. ASSUME NEW w \in Workers, CommitJob(w) PROVE Typed'
    <2>1. cur[w] \in Jobs
      BY <1>a, <1>5 DEF CommitJob, OneRunner, CronTypeOK
    <2>2. CronTypeOK'
      BY <1>0, <1>a, <1>5, <2>1 DEF CommitJob, EndRun, CronTypeOK, PCs, rowVars, callVars, runVars
    <2>3. Copies' /\ OffList'
      BY <1>0, <1>a, <1>5 DEF CommitJob, Copies, OffList, Tracked
    <2>. QED
      BY <2>2, <2>3 DEF Typed
  <1>6. ASSUME NEW w \in Workers, CommitCron(w) PROVE Typed'
    <2>. PICK j \in Jobs :
            /\ j = cur[w] /\ j \notin listed[w]
            /\ copy[w][j].number \in Numbers(j) /\ copy[w][j].next \in Nat
            /\ nextcall' = [nextcall EXCEPT ![j] = copy[w][j].next]
            /\ numbercall' = [numbercall EXCEPT ![j] = copy[w][j].number]
            /\ active' = [active EXCEPT ![j] = @ /\ copy[w][j].number # 0]
            /\ CopyBecomes(w, j, NoCopy[j])
      BY <1>6, CronCopies
    <2>1. CronTypeOK'
      BY <1>0, <1>a, <1>6 DEF CommitCron, CronTypeOK, PCs, Row, CopyBecomes, callVars, runVars
    <2>2. Copies' /\ OffList'
      BY <1>0, <1>a, <1>6 DEF CommitCron, CronTypeOK, Copies, OffList, Tracked, CopyBecomes
    <2>. QED
      BY <2>1, <2>2 DEF Typed
  <1>7. ASSUME NEW w \in Workers, Sleep(w) PROVE Typed'
    <2>1. CronTypeOK'
      BY <1>0, <1>a, <1>7 DEF Sleep, CronTypeOK, PCs, rowVars, callVars, runVars, NoCopy
    <2>2. Copies' /\ OffList'
      BY <1>0, <1>a, <1>7 DEF Sleep, CronTypeOK, Copies, OffList, Tracked, OneRunner
    <2>. QED
      BY <2>1, <2>2 DEF Typed
  <1>8. ASSUME NEW w \in Workers, Crash(w) PROVE Typed'
    <2>1. CronTypeOK'
      BY <1>0, <1>a, <1>8 DEF Crash, EndRun, CronTypeOK, PCs, rowVars, callVars, runVars, NoCopy
    <2>2. Copies' /\ OffList'
      BY <1>0, <1>a, <1>8 DEF Crash, CronTypeOK, Copies, OffList, Tracked
    <2>. QED
      BY <2>1, <2>2 DEF Typed
  <1>9. ASSUME NEW w \in Workers, Spawn(w) PROVE Typed'
    BY <1>0, <1>a, <1>9 DEF Spawn, Typed, CronTypeOK, PCs, rowVars, callVars, runVars, Copies, OffList, Tracked
  <1>10. ASSUME Tick PROVE Typed'
    BY <1>0, <1>a, <1>10 DEF Tick, Typed, CronTypeOK, rowVars, callVars, runVars, Copies, OffList, Tracked
  <1>11. ASSUME NEW j \in Jobs, Deactivate(j) PROVE Typed'
    BY <1>0, <1>a, <1>11 DEF Deactivate, Typed, CronTypeOK, Copies, OffList, Tracked, callVars, runVars
  <1>12. ASSUME UNCHANGED vars PROVE Typed'
    BY <1>0, <1>a, <1>12 DEF vars, rowVars, callVars, runVars, Typed, CronTypeOK, Copies, OffList, Tracked
  <1>13. ASSUME NEW w \in Workers, Fail(w) PROVE Typed'
    <2>. PICK j \in Jobs : /\ j = cur[w] /\ j \notin listed[w]
                          /\ CopyBecomes(w, j, NoCopy[j])
      BY <1>13, FailCopies
    <2>a. /\ UNCHANGED <<now, nextcall, numbercall, active, calls, undone, listed>>
          /\ cur' = [cur EXCEPT ![w] = NoJob]
      BY <1>13 DEF Fail, rowVars, callVars
    <2>1. CronTypeOK'
      BY <1>0, <1>a, <1>13, <2>a DEF Fail, EndRun, CronTypeOK, PCs, Row, CopyBecomes
    <2>2. Copies' /\ OffList'
      BY <1>0, <1>a, <2>a DEF CronTypeOK, Copies, OffList, Tracked, CopyBecomes
    <2>. QED
      BY <2>1, <2>2 DEF Typed
  <1>. QED
    BY <1>1, <1>2, <1>3, <1>4, <1>5, <1>6, <1>7, <1>8, <1>9, <1>10, <1>11, <1>12, <1>13 DEF Next, Work
-----------------------------------------------------------------------------
(* One worker at a job *)

LEMMA RunnerKept == ASSUME Typed, OneRunner, [Next]_vars PROVE OneRunner'
  <1>. USE CronOK
  <1>a. CronTypeOK
    BY DEF Typed
  <1>1. ASSUME NEW w \in Workers, Poll(w) \/ Skip(w) \/ Round(w) \/ CommitJob(w) \/ Sleep(w) \/ Spawn(w)
        PROVE  OneRunner'
    BY <1>a, <1>1 DEF Poll, Skip, Round, CommitJob, Sleep, Spawn, CronTypeOK, OneRunner
  <1>2. ASSUME NEW w \in Workers, Lock(w) PROVE OneRunner'
    <2>1. PICK j \in listed[w] : ~Locked(j) /\ cur' = [cur EXCEPT ![w] = j]
      BY <1>2 DEF Lock
    <2>2. j \in Jobs /\ j # NoJob /\ \A v \in Workers : cur[v] # j
      BY <1>a, <2>1 DEF CronTypeOK, Locked
    <2>. QED
      BY <1>a, <1>2, <2>1, <2>2 DEF Lock, CronTypeOK, OneRunner
  <1>3. ASSUME NEW w \in Workers, CommitCron(w) \/ Crash(w) \/ Fail(w) PROVE OneRunner'
    <2>1. /\ cur' = [cur EXCEPT ![w] = NoJob]
          /\ pc' = [pc EXCEPT ![w] = "polling"] \/ pc' = [pc EXCEPT ![w] = "dead"]
      BY <1>3 DEF CommitCron, Crash, Fail
    <2>2. \A v \in Workers : /\ cur'[v] = IF v = w THEN NoJob ELSE cur[v]
                             /\ v # w => pc'[v] = pc[v]
                             /\ v = w => pc'[v] \notin {"calling", "saved"}
      BY <1>a, <2>1 DEF CronTypeOK
    <2>. QED
      BY <2>2 DEF OneRunner
  <1>4. ASSUME Tick \/ (\E j \in Jobs : Deactivate(j)) \/ UNCHANGED vars PROVE OneRunner'
    BY <1>4 DEF Tick, Deactivate, vars, OneRunner
  <1>. QED
    BY <1>1, <1>2, <1>3, <1>4 DEF Next, Work

Run == Typed /\ OneRunner

\* CronTypeOK: every variable stays of its type, and numbercall within what the
\* user entered, whatever workers are killed.
THEOREM CronTyped == Spec => []CronTypeOK
  <1>1. Init => Run
    BY TypesStart DEF Run, Init, OneRunner
  <1>2. Run /\ [Next]_vars => Run'
    BY TypesKept, RunnerKept DEF Run
  <1>3. Run => CronTypeOK
    BY DEF Run, Typed
  <1>. QED
    BY <1>1, <1>2, <1>3, PTL DEF Spec

\* OneRunner: two workers are never at one job (_acquire_job: FOR UPDATE NOWAIT).
THEOREM RunnersApart == Spec => []OneRunner
  <1>1. Init => Run
    BY TypesStart DEF Run, Init, OneRunner
  <1>2. Run /\ [Next]_vars => Run'
    BY TypesKept, RunnerKept DEF Run
  <1>3. Run => OneRunner
    BY DEF Run
  <1>. QED
    BY <1>1, <1>2, <1>3, PTL DEF Spec

-----------------------------------------------------------------------------
(* Which steps touch rows and copies *)

\* Calls of j that came to an end or that w has made in its open run.
Spent(w, j) == Made(j) + IF cur[w] = j THEN made[w] + lost[w] ELSE 0

\* A run is open only while a worker is in the loop; once round the loop, a method
\* that exists was called; only one that raises loses calls.
MadeOpen == \A w \in Workers :
    /\ ok[w] \/ made[w] # 0 \/ lost[w] # 0 => pc[w] = "calling"
    /\ ok[w] /\ cur[w] \notin Missing => made[w] + lost[w] > 0
    /\ lost[w] # 0 => cur[w] \in Raising

\* A step that writes no row and no copy that will still be used.
Quiet ==
    /\ nextcall' = nextcall /\ numbercall' = numbercall
    /\ \A j \in Jobs : Made(j)' >= Made(j)
    /\ \A w \in Workers, j \in Jobs : Tracked(w, j)' =>
           /\ Tracked(w, j)
           /\ copy'[w][j] = copy[w][j]
           /\ Spent(w, j)' >= Spent(w, j)

\* What one round of the loop makes of the open run.
LEMMA RoundMade ==
  ASSUME Run, MadeOpen, NEW w \in Workers, Round(w)
  PROVE  /\ UNCHANGED <<now, nextcall, numbercall, active, calls, undone, pc, listed, cur, start>>
         /\ ok' = [ok EXCEPT ![w] = TRUE]
         /\ \A v \in Workers : v # w => made'[v] = made[v] /\ lost'[v] = lost[v]
         /\ made'[w] \in Nat /\ lost'[w] \in Nat
         /\ lost'[w] # 0 => cur[w] \in Raising
         /\ made'[w] + lost'[w] >= made[w] + lost[w]
         /\ cur[w] \notin Missing =>
                /\ made'[w] + lost'[w] > 0
                /\ cur[w] \in DoAll => made'[w] + lost'[w] = made[w] + lost[w] + 1
  <1>a. CronTypeOK
    BY DEF Run, Typed
  <1>b. made[w] \in Nat /\ lost[w] \in Nat
    BY <1>a DEF CronTypeOK
  <1>1. /\ UNCHANGED <<now, nextcall, numbercall, active, calls, undone, pc, listed, cur, start>>
        /\ ok' = [ok EXCEPT ![w] = TRUE]
    BY DEF Round, rowVars, callVars
  <1>2. CASE CallReturns(w)
    BY <1>a, <1>b, <1>1, <1>2 DEF CronTypeOK, CallReturns, MadeOpen
  <1>3. CASE CallRaises(w)
    BY <1>a, <1>b, <1>1, <1>3 DEF CronTypeOK, CallRaises, MadeOpen
  <1>4. CASE NoCall(w)
    BY <1>a, <1>b, <1>1, <1>4 DEF CronTypeOK, NoCall, Called, MustCall, MadeOpen
  <1>. QED
    BY <1>2, <1>3, <1>4 DEF Round

LEMMA MadeKept == ASSUME Run, MadeOpen, [Next]_vars PROVE MadeOpen'
  <1>a. CronTypeOK /\ OneRunner
    BY DEF Run, Typed
  <1>1. ASSUME NEW w \in Workers, Poll(w) \/ Skip(w) \/ Sleep(w) \/ Spawn(w) \/ Lock(w) PROVE MadeOpen'
    BY <1>a, <1>1 DEF Poll, Skip, Lock, Sleep, Spawn, CronTypeOK, MadeOpen, runVars
  <1>2. ASSUME NEW w \in Workers, Round(w) PROVE MadeOpen'
    <2>1. pc[w] = "calling"
      BY <1>2 DEF Round
    <2>. QED
      BY <1>a, <1>2, <2>1, RoundMade DEF CronTypeOK, MadeOpen
  <1>3. ASSUME NEW w \in Workers, CommitJob(w) \/ Fail(w) \/ Crash(w) PROVE MadeOpen'
    <2>1. \A v \in Workers : /\ v = w => ok'[v] = FALSE /\ made'[v] = 0 /\ lost'[v] = 0
                             /\ v # w => /\ ok'[v] = ok[v] /\ made'[v] = made[v] /\ lost'[v] = lost[v]
                                         /\ pc'[v] = pc[v] /\ cur'[v] = cur[v]
      BY <1>a, <1>3 DEF CommitJob, Fail, Crash, EndRun, CronTypeOK
    <2>. QED
      BY <2>1 DEF MadeOpen
  <1>4. ASSUME NEW w \in Workers, CommitCron(w) PROVE MadeOpen'
    BY <1>a, <1>4 DEF CommitCron, CronTypeOK, MadeOpen, runVars
  <1>5. ASSUME Tick \/ (\E j \in Jobs : Deactivate(j)) \/ UNCHANGED vars PROVE MadeOpen'
    BY <1>5 DEF Tick, Deactivate, vars, runVars, MadeOpen
  <1>. QED
    BY <1>1, <1>2, <1>3, <1>4, <1>5 DEF Next, Work

LEMMA QuietSteps ==
  ASSUME Run, MadeOpen, [Next]_vars,
         ~ \E w \in Workers : Poll(w) \/ Round(w) \/ CommitCron(w)
  PROVE  Quiet
  <1>. USE CronOK
  <1>a. CronTypeOK /\ OneRunner /\ OffList
    BY DEF Run, Typed
  <1>b. \A w \in Workers, j \in Jobs : /\ calls[j] \in Nat /\ undone[j] \in Nat /\ Made(j) \in Nat
                                       /\ made[w] \in Nat /\ lost[w] \in Nat /\ Spent(w, j) \in Nat
    BY <1>a DEF CronTypeOK, Spent, Made
  <1>1. ASSUME NEW w \in Workers, Skip(w) PROVE Quiet
    <2>. PICK j \in listed[w] :
            /\ j \in Jobs /\ cur[w] = NoJob
            /\ listed' = [listed EXCEPT ![w] = @ \ {j}]
            /\ CopyBecomes(w, j, NoCopy[j])
      BY <1>1, SkipCopies DEF Run
    <2>1. UNCHANGED <<nextcall, numbercall, calls, undone, cur, made, lost>>
      BY <1>1 DEF Skip, rowVars, callVars, runVars
    <2>2. ASSUME NEW v \in Workers, NEW k \in Jobs, Tracked(v, k)'
          PROVE  Tracked(v, k) /\ ~(v = w /\ k = j)
      BY <1>a, <2>1, <2>2 DEF Tracked, CronTypeOK
    <2>. QED
      BY <1>b, <2>1, <2>2 DEF Quiet, Spent, Made, CopyBecomes
  <1>2. ASSUME NEW w \in Workers, Lock(w) PROVE Quiet
    <2>1. PICK j \in listed[w] : /\ listed' = [listed EXCEPT ![w] = @ \ {j}]
                                 /\ cur' = [cur EXCEPT ![w] = j]
      BY <1>2 DEF Lock
    <2>2. /\ UNCHANGED <<nextcall, numbercall, calls, undone, copy, made, lost>>
          /\ made[w] = 0 /\ lost[w] = 0 /\ cur[w] = NoJob
      BY <1>2, <1>a DEF Lock, rowVars, callVars, runVars, MadeOpen, OneRunner, CronTypeOK
    <2>3. ASSUME NEW v \in Workers, NEW k \in Jobs, Tracked(v, k)'
          PROVE  Tracked(v, k) /\ Spent(v, k)' = Spent(v, k)
      BY <1>a, <1>b, <2>1, <2>2, <2>3 DEF Tracked, Spent, Made, CronTypeOK
    <2>. QED
      BY <1>b, <2>2, <2>3 DEF Quiet, Made
  <1>3. ASSUME NEW w \in Workers, CommitJob(w) PROVE Quiet
    <2>1. cur[w] \in Jobs
      BY <1>a, <1>3 DEF CommitJob, OneRunner, CronTypeOK
    <2>2. /\ UNCHANGED <<nextcall, numbercall, listed, copy, cur>>
          /\ calls' = [calls EXCEPT ![cur[w]] = @ + made[w]]
          /\ undone' = [undone EXCEPT ![cur[w]] = @ + lost[w]]
          /\ made' = [made EXCEPT ![w] = 0]
          /\ lost' = [lost EXCEPT ![w] = 0]
      BY <1>3 DEF CommitJob, EndRun, rowVars
    <2>3. ASSUME NEW k \in Jobs
          PROVE  Made(k)' = Made(k) + IF k = cur[w] THEN made[w] + lost[w] ELSE 0
      BY <1>a, <1>b, <2>1, <2>2 DEF Made, CronTypeOK
    <2>4. ASSUME NEW v \in Workers, NEW k \in Jobs PROVE Spent(v, k)' >= Spent(v, k) /\ Made(k)' >= Made(k)
      <3>1. CASE v = w
        BY <1>a, <1>b, <2>2, <2>3, <3>1 DEF Spent, CronTypeOK
      <3>2. CASE v # w
        <4>1. made'[v] = made[v] /\ lost'[v] = lost[v] /\ cur' = cur
          BY <1>a, <2>2, <3>2 DEF CronTypeOK
        <4>2. Made(k) \in Nat /\ Made(k)' >= Made(k) /\ Made(k)' \in Nat
          BY <1>b, <2>3
        <4>. QED
          BY <1>b, <4>1, <4>2 DEF Spent
      <3>. QED
        BY <3>1, <3>2
    <2>. QED
      BY <2>2, <2>4 DEF Quiet, Tracked
  <1>4. ASSUME NEW w \in Workers, Sleep(w) \/ Crash(w) PROVE Quiet
    <2>1. /\ UNCHANGED <<nextcall, numbercall, calls, undone>>
          /\ \A k \in Jobs : k \notin listed'[w] /\ cur'[w] # k
          /\ \A v \in Workers : v # w => /\ listed'[v] = listed[v] /\ cur'[v] = cur[v]
                                         /\ copy'[v] = copy[v] /\ made'[v] = made[v] /\ lost'[v] = lost[v]
      BY <1>4, <1>a DEF Sleep, Crash, EndRun, rowVars, callVars, runVars, CronTypeOK, OneRunner
    <2>2. ASSUME NEW v \in Workers, NEW k \in Jobs, Tracked(v, k)' PROVE v # w
      BY <2>1, <2>2 DEF Tracked
    <2>3. ASSUME NEW v \in Workers, NEW k \in Jobs, Tracked(v, k)'
          PROVE  Tracked(v, k) /\ copy'[v][k] = copy[v][k] /\ Spent(v, k)' = Spent(v, k)
      BY <2>1, <2>2, <2>3 DEF Tracked, Spent, Made
    <2>. QED
      BY <1>b, <2>1, <2>3 DEF Quiet, Made
  <1>8. ASSUME NEW w \in Workers, Fail(w) PROVE Quiet
    <2>. PICK j \in Jobs : /\ j = cur[w] /\ j \notin listed[w]
                          /\ CopyBecomes(w, j, NoCopy[j])
      BY <1>8, FailCopies DEF Run
    <2>1. /\ UNCHANGED <<nextcall, numbercall, calls, undone, listed>>
          /\ cur'[w] = NoJob
          /\ \A v \in Workers : v # w => cur'[v] = cur[v] /\ made'[v] = made[v] /\ lost'[v] = lost[v]
      BY <1>8, <1>a DEF Fail, EndRun, rowVars, callVars, CronTypeOK
    <2>2. ASSUME NEW v \in Workers, NEW k \in Jobs, Tracked(v, k)' PROVE Tracked(v, k) /\ ~(v = w /\ k = j)
      BY <2>1, <2>2 DEF Tracked
    <2>3. ASSUME NEW v \in Workers, NEW k \in Jobs, Tracked(v, k)' PROVE Spent(v, k)' = Spent(v, k)
      BY <1>b, <2>1, <2>2, <2>3 DEF Tracked, Spent, Made
    <2>4. ASSUME NEW v \in Workers, NEW k \in Jobs, Tracked(v, k)' PROVE copy'[v][k] = copy[v][k]
      BY <2>2, <2>4 DEF CopyBecomes
    <2>. QED
      BY <1>b, <2>1, <2>2, <2>3, <2>4 DEF Quiet, Made
  <1>5. ASSUME UNCHANGED <<nextcall, numbercall, calls, undone, listed, copy, cur, made, lost>> PROVE Quiet
    <2>1. ASSUME NEW v \in Workers, NEW k \in Jobs PROVE Spent(v, k)' = Spent(v, k)
      BY <1>5 DEF Spent, Made
    <2>2. ASSUME NEW v \in Workers, NEW k \in Jobs, Tracked(v, k)'
          PROVE  Tracked(v, k) /\ copy'[v][k] = copy[v][k] /\ Spent(v, k)' >= Spent(v, k)
      <3>1. listed' = listed /\ cur' = cur /\ copy' = copy
        BY <1>5
      <3>2. Tracked(v, k)
        BY <2>2, <3>1 DEF Tracked
      <3>. QED
        BY <1>b, <2>1, <3>1, <3>2
    <2>3. nextcall' = nextcall /\ numbercall' = numbercall
      BY <1>5
    <2>4. \A k \in Jobs : Made(k)' >= Made(k)
      <3>. SUFFICES ASSUME NEW k \in Jobs PROVE Made(k)' >= Made(k)
        OBVIOUS
      <3>1. Made(k)' = Made(k) /\ Made(k) \in Nat
        BY <1>a, <1>5 DEF Made, CronTypeOK
      <3>. QED
        BY <3>1
    <2>. QED
      BY <2>2, <2>3, <2>4 DEF Quiet
  <1>6. ASSUME NEW w \in Workers, Spawn(w) PROVE Quiet
    BY <1>5, <1>6 DEF Spawn, rowVars, callVars, runVars
  <1>7. ASSUME Tick \/ (\E j \in Jobs : Deactivate(j)) \/ UNCHANGED vars PROVE Quiet
    BY <1>5, <1>7 DEF Tick, Deactivate, rowVars, callVars, runVars, vars
  <1>. QED
    BY <1>1, <1>2, <1>3, <1>4, <1>6, <1>7, <1>8 DEF Next, Work
-----------------------------------------------------------------------------
(* Calls come before they are counted *)

\* A row or copy of j that says <<next, number>> counts at most n calls.
Booked(j, next, number, n) ==
    /\ NumberCall[j] > 0 /\ j \in DoAll => NumberCall[j] - number <= n
    /\ next # FirstCall[j] \/ number # NumberCall[j] => n > 0

RowsBooked == \A j \in Jobs \ Missing : Booked(j, nextcall[j], numbercall[j], Made(j))

CopiesBooked ==
    \A w \in Workers, j \in Jobs \ Missing :
        Tracked(w, j) => Booked(j, copy[w][j].next, copy[w][j].number, Spent(w, j))

LEMMA BookedMore ==
  ASSUME NEW j \in Jobs, NEW t, NEW c \in Int, NEW n \in Nat, NEW m \in Nat, m >= n, Booked(j, t, c, n)
  PROVE  Booked(j, t, c, m)
  BY CronOK DEF Booked

CallsInv == Run /\ MadeOpen /\ CalledBeforeCounted /\ CopiesBooked

LEMMA CallsStart == ASSUME Init PROVE CallsInv
  <1>1. Run
    BY TypesStart DEF Run, Init, OneRunner
  <1>2. MadeOpen /\ CalledBeforeCounted /\ CopiesBooked
    BY CronOK DEF Init, MadeOpen, CalledBeforeCounted, Made, CopiesBooked, Tracked
  <1>. QED
    BY <1>1, <1>2 DEF CallsInv

LEMMA CallsKept == ASSUME CallsInv, [Next]_vars PROVE CallsInv'
  <1>. USE CronOK
  <1>a. Run /\ MadeOpen /\ Typed /\ CronTypeOK /\ OneRunner
    BY DEF CallsInv, Run, Typed
  <1>b. \A w \in Workers, j \in Jobs : /\ calls[j] \in Nat /\ undone[j] \in Nat /\ Made(j) \in Nat
                                       /\ made[w] \in Nat /\ lost[w] \in Nat /\ Spent(w, j) \in Nat
                                       /\ numbercall[j] \in Int /\ copy[w][j].number \in Int
    BY <1>a DEF CronTypeOK, Spent, Made
  <1>c. Run' /\ MadeOpen'
    BY <1>a, TypesKept, RunnerKept, MadeKept DEF Run
  <1>d. \A j \in Jobs \ Missing : Booked(j, nextcall[j], numbercall[j], Made(j))
    BY DEF CallsInv, CalledBeforeCounted, Booked
  <1>e. \A w \in Workers, j \in Jobs : Spent(w, j)' \in Nat /\ Made(j)' \in Nat
    BY <1>c DEF Run, Typed, CronTypeOK, Spent, Made
  <1>f. \A j \in Jobs : j \notin Raising => undone'[j] = undone[j]
    <2>1. ASSUME NEW w \in Workers, CommitJob(w) PROVE \A j \in Jobs : j \notin Raising => undone'[j] = undone[j]
      <3>1. undone' = [undone EXCEPT ![cur[w]] = @ + lost[w]]
        BY <2>1 DEF CommitJob
      <3>2. cur[w] \notin Raising => lost[w] = 0
        BY <1>a DEF MadeOpen
      <3>. QED
        BY <1>a, <1>b, <3>1, <3>2 DEF CronTypeOK
    <2>2. ASSUME ~ \E w \in Workers : CommitJob(w) PROVE undone' = undone
      BY <2>2 DEF Next, Work, Poll, Skip, Lock, Round, CommitCron, Sleep, Fail, Crash, Spawn, Tick, Deactivate,
         vars, callVars
    <2>. QED
      BY <2>1, <2>2
  <1>1. ASSUME NEW w \in Workers, Poll(w) PROVE RowsBooked' /\ CopiesBooked'
    <2>0. UNCHANGED <<nextcall, numbercall, calls, undone, cur, made, lost>> /\ cur[w] = NoJob
      BY <1>a, <1>1 DEF Poll, rowVars, callVars, runVars, CronTypeOK, OneRunner
    <2>. /\ copy' \in [Workers -> [Jobs -> Row]]
         /\ listed' = [listed EXCEPT ![w] = Listed]
         /\ \A v \in Workers, k \in Jobs : copy'[v][k] =
                IF v = w THEN IF k \in Listed THEN [next |-> nextcall[k], number |-> numbercall[k]] ELSE NoCopy[k]
                ELSE copy[v][k]
      BY <1>1, <1>a, PollCopies
    <2>1. ASSUME NEW v \in Workers, NEW k \in Jobs \ Missing, Tracked(v, k)'
          PROVE  Booked(k, copy[v][k].next, copy[v][k].number, Spent(v, k))'
      <3>1. CASE v = w
        <4>1. k \in Listed /\ Spent(v, k)' = Made(k)
          BY <1>a, <1>b, <2>0, <2>1, <3>1 DEF Tracked, Spent, Made, CronTypeOK
        <4>2. copy'[v][k] = [next |-> nextcall[k], number |-> numbercall[k]]
          BY <3>1, <4>1, Zenon
        <4>3. copy'[v][k].next = nextcall[k] /\ copy'[v][k].number = numbercall[k]
          BY <4>2
        <4>. QED
          BY <1>d, <4>1, <4>3 DEF Booked
      <3>2. CASE v # w
        <4>1. Tracked(v, k) /\ copy'[v][k] = copy[v][k] /\ Spent(v, k)' = Spent(v, k)
          BY <1>a, <2>0, <2>1, <3>2 DEF Tracked, Spent, Made, CronTypeOK
        <4>. QED
          BY <4>1 DEF CallsInv, CopiesBooked, Booked
      <3>. QED
        BY <3>1, <3>2
    <2>2. RowsBooked'
      BY <1>d, <2>0 DEF RowsBooked, Made, Booked
    <2>. QED
      BY <2>1, <2>2 DEF CopiesBooked
  <1>2. ASSUME NEW w \in Workers, Round(w) PROVE RowsBooked' /\ CopiesBooked'
    <2>0. /\ UNCHANGED <<nextcall, numbercall, calls, undone, listed, cur>>
          /\ \A v \in Workers : v # w => made'[v] = made[v] /\ lost'[v] = lost[v]
      BY <1>a, <1>2, RoundMade
    <2>. PICK j \in Jobs : \E t \in Nat, n \in Numbers(j) :
            /\ j = cur[w]
            /\ copy[w][j].number \in Numbers(j) \ {0}
            /\ n = Taken(copy[w][j].number)
            /\ t = Onward(j, copy[w][j].next, n)
            /\ CopyBecomes(w, j, [next |-> t, number |-> n])
      BY <1>2, <1>a, RoundCopies
    <2>. PICK t \in Nat, n \in Numbers(j) :
            /\ n = Taken(copy[w][j].number)
            /\ CopyBecomes(w, j, [next |-> t, number |-> n])
      OBVIOUS
    <2>1. /\ made'[w] \in Nat /\ lost'[w] \in Nat
          /\ j \notin Missing =>
                /\ made'[w] + lost'[w] > 0
                /\ j \in DoAll => made'[w] + lost'[w] = made[w] + lost[w] + 1
      BY <1>a, <1>2, RoundMade
    <2>2. ASSUME j \notin Missing PROVE Booked(j, t, n, Spent(w, j)')
      <3>1. Booked(j, copy[w][j].next, copy[w][j].number, Spent(w, j))
        BY <1>a, <2>2 DEF CallsInv, CopiesBooked, Tracked
      <3>2. /\ Spent(w, j) = Made(j) + (made[w] + lost[w])
            /\ Spent(w, j)' = Made(j) + (made'[w] + lost'[w])
        BY <2>0 DEF Spent, Made
      <3>3. /\ NumberCall[j] \in Int /\ n \in Int
            /\ NumberCall[j] > 0 => n = copy[w][j].number - 1
        BY <1>c, TakenTyped, NumbersInt DEF Run, Typed, CronTypeOK
      <3>4. /\ Spent(w, j) \in Nat /\ Spent(w, j)' \in Nat /\ Spent(w, j)' > 0
            /\ j \in DoAll => Spent(w, j)' = Spent(w, j) + 1
        <4>1. Made(j) \in Nat /\ made[w] \in Nat /\ lost[w] \in Nat
          BY <1>a DEF CronTypeOK, Made
        <4>2. /\ made'[w] \in Nat /\ lost'[w] \in Nat /\ made'[w] + lost'[w] > 0
              /\ j \in DoAll => made'[w] + lost'[w] = made[w] + lost[w] + 1
          BY <2>1, <2>2
        <4>3. Spent(w, j)' \in Nat /\ Spent(w, j)' > 0
          BY <3>2, <4>1, <4>2
        <4>4. Spent(w, j) \in Nat /\ (j \in DoAll => Spent(w, j)' = Spent(w, j) + 1)
          BY <3>2, <4>1, <4>2
        <4>. QED
          BY <4>3, <4>4
      <3>. QED
        BY <1>b, <3>1, <3>3, <3>4 DEF Booked
    <2>3. ASSUME NEW v \in Workers, NEW k \in Jobs \ Missing, Tracked(v, k)'
          PROVE  Booked(k, copy[v][k].next, copy[v][k].number, Spent(v, k))'
      <3>1. CASE v = w /\ k = j
        BY <2>2, <3>1 DEF CopyBecomes, Booked
      <3>2. CASE ~(v = w /\ k = j)
        <4>1. Tracked(v, k) /\ copy'[v][k] = copy[v][k]
          BY <2>0, <2>3, <3>2 DEF Tracked, CopyBecomes
        <4>2. Spent(v, k)' = Spent(v, k)
          BY <2>0, <3>2 DEF Spent, Made
        <4>. QED
          BY <4>1, <4>2 DEF CallsInv, CopiesBooked, Booked
      <3>. QED
        BY <3>1, <3>2
    <2>4. RowsBooked'
      BY <1>d, <2>0 DEF RowsBooked, Made, Booked
    <2>. QED
      BY <2>3, <2>4 DEF CopiesBooked
  <1>3. ASSUME NEW w \in Workers, CommitCron(w) PROVE RowsBooked' /\ CopiesBooked'
    <2>. PICK j \in Jobs :
            /\ j = cur[w] /\ j \notin listed[w]
            /\ copy[w][j].number \in Numbers(j) /\ copy[w][j].next \in Nat
            /\ nextcall' = [nextcall EXCEPT ![j] = copy[w][j].next]
            /\ numbercall' = [numbercall EXCEPT ![j] = copy[w][j].number]
            /\ active' = [active EXCEPT ![j] = @ /\ copy[w][j].number # 0]
            /\ CopyBecomes(w, j, NoCopy[j])
      BY <1>3, <1>a, CronCopies
    <2>1. /\ UNCHANGED <<calls, undone, listed, made, lost>> /\ cur' = [cur EXCEPT ![w] = NoJob]
          /\ made[w] = 0 /\ lost[w] = 0
      BY <1>3, <1>a DEF CommitCron, MadeOpen, callVars, runVars
    <2>2. ASSUME j \notin Missing PROVE Booked(j, copy[w][j].next, copy[w][j].number, Made(j))
      <3>1. Spent(w, j) = Made(j)
        BY <1>b, <2>1 DEF Spent
      <3>. QED
        BY <2>2, <3>1 DEF CallsInv, CopiesBooked, Tracked
    <2>3. \A k \in Jobs \ Missing : Booked(k, nextcall'[k], numbercall'[k], Made(k)')
      <3>1. \A k \in Jobs : Made(k)' = Made(k)
        BY <2>1 DEF Made
      <3>. QED
        BY <1>a, <1>d, <2>2, <3>1 DEF CronTypeOK, Booked
    <2>4. ASSUME NEW v \in Workers, NEW k \in Jobs \ Missing, Tracked(v, k)'
          PROVE  Booked(k, copy[v][k].next, copy[v][k].number, Spent(v, k))'
      <3>1. Tracked(v, k) /\ ~(v = w /\ k = j)
        BY <1>a, <2>1, <2>4 DEF Tracked, CronTypeOK
      <3>2. copy'[v][k] = copy[v][k]
        BY <3>1 DEF CopyBecomes
      <3>3. Spent(v, k)' = Spent(v, k)
        BY <1>a, <1>b, <2>1 DEF Spent, Made, CronTypeOK
      <3>. QED
        BY <3>1, <3>2, <3>3 DEF CallsInv, CopiesBooked, Booked
    <2>. QED
      BY <2>3, <2>4 DEF CopiesBooked, RowsBooked, Booked
  <1>4. ASSUME ~ \E w \in Workers : Poll(w) \/ Round(w) \/ CommitCron(w)
        PROVE  RowsBooked' /\ CopiesBooked'
    <2>. Quiet
      BY <1>a, <1>4, QuietSteps
    <2>1. ASSUME NEW k \in Jobs \ Missing PROVE Booked(k, nextcall'[k], numbercall'[k], Made(k)')
      <3>1. nextcall' = nextcall /\ numbercall' = numbercall /\ Made(k)' >= Made(k)
        BY DEF Quiet
      <3>2. Made(k) \in Nat /\ Made(k)' \in Nat /\ numbercall[k] \in Int
        BY <1>a, <1>c DEF Run, Typed, CronTypeOK, Made
      <3>3. Booked(k, nextcall[k], numbercall[k], Made(k))
        BY <1>d
      <3>4. Booked(k, nextcall[k], numbercall[k], Made(k)')
        BY <3>1, <3>2, <3>3, BookedMore
      <3>. QED
        BY <3>1, <3>4
    <2>2. ASSUME NEW v \in Workers, NEW k \in Jobs \ Missing, Tracked(v, k)'
          PROVE  Booked(k, copy'[v][k].next, copy'[v][k].number, Spent(v, k)')
      <3>1. Tracked(v, k) /\ copy'[v][k] = copy[v][k] /\ Spent(v, k)' >= Spent(v, k)
        BY <2>2 DEF Quiet
      <3>2. Booked(k, copy[v][k].next, copy[v][k].number, Spent(v, k))
        BY <3>1 DEF CallsInv, CopiesBooked
      <3>. QED
        BY <1>b, <1>e, <3>1, <3>2, BookedMore
    <2>. QED
      BY <2>1, <2>2 DEF CopiesBooked, RowsBooked, Booked
  <1>5. RowsBooked' /\ CopiesBooked'
    BY <1>1, <1>2, <1>3, <1>4
  <1>6. CalledBeforeCounted'
    BY <1>f, <1>5 DEF RowsBooked, Booked, CallsInv, CalledBeforeCounted
  <1>. QED
    BY <1>c, <1>5, <1>6 DEF CallsInv

\* CalledBeforeCounted: where the method exists no call is written off that was not
\* made, and only calls of a method that raises are undone (_process_job commits the
\* job before the row), with any number of workers, kills and failures.
THEOREM CallsBeforeCount == Spec => []CalledBeforeCounted
  <1>1. Init => CallsInv
    BY CallsStart
  <1>2. CallsInv /\ [Next]_vars => CallsInv'
    BY CallsKept
  <1>3. CallsInv => CalledBeforeCounted
    BY DEF CallsInv
  <1>. QED
    BY <1>1, <1>2, <1>3, PTL DEF Spec
-----------------------------------------------------------------------------
(* The schedule *)

\* k steps of the schedule give <<next, number>>; the last call of a limited job
\* is not followed by a step.
Steps(j, next, number, k) ==
    /\ next = FirstCall[j] + Interval[j] * k
    /\ NumberCall[j] > 0 => k = IF number = 0 THEN NumberCall[j] - 1 ELSE NumberCall[j] - number

OnGrid(j, next, number) == \E k \in Nat : Steps(j, next, number, k)

\* The schedule went only as far as it had to by time t.
Behind(j, next, number, t) ==
    /\ number # 0 => next = FirstCall[j] \/ next - Interval[j] < t
    /\ number = 0 => next < t

LEMMA Products ==
  ASSUME NEW i \in Nat \ {0}, NEW a \in Int, NEW b \in Int
  PROVE  /\ i * a \in Int /\ i * (a + 1) = i * a + i /\ i * (a - 1) = i * a - i
         /\ a <= b => i * a <= i * b
         /\ a > b => i * a >= i * b + i
  <1>1. i * a \in Int /\ i * (a + 1) = i * a + i /\ i * (a - 1) = i * a - i
    OBVIOUS
  <1>2. ASSUME NEW c \in Int, NEW d \in Int, c <= d PROVE i * c <= i * d
    BY <1>2
  <1>3. ASSUME a > b PROVE i * a >= i * b + i
    <2>1. b + 1 <= a
      BY <1>3
    <2>2. i * (b + 1) <= i * a
      BY <2>1, <1>2
    <2>. QED
      BY <2>2
  <1>. QED
    BY <1>1, <1>2, <1>3

\* A copy that was brought up to the time t, or to its last call, is not behind a
\* row that went only as far as it had to by t.
LEMMA GridOrder ==
  ASSUME NEW j \in Jobs, NEW n \in Nat, NEW m \in Nat, NEW c \in Numbers(j), NEW d \in Numbers(j),
         NEW t \in Nat, OnGrid(j, n, c), OnGrid(j, m, d),
         Behind(j, n, c, t), m >= t \/ d = 0
  PROVE  m >= n /\ d <= c
  <1>1. PICK k \in Nat : Steps(j, n, c, k)
    BY DEF OnGrid
  <1>2. PICK l \in Nat : Steps(j, m, d, l)
    BY DEF OnGrid
  <1>3. /\ FirstCall[j] \in Nat /\ Interval[j] \in Nat \ {0}
        /\ NumberCall[j] \in Int /\ c \in Int /\ d \in Int
        /\ NumberCall[j] > 0 => c >= 0 /\ c <= NumberCall[j] /\ d >= 0 /\ d <= NumberCall[j]
        /\ ~(NumberCall[j] > 0) => c = NumberCall[j] /\ d = NumberCall[j] /\ NumberCall[j] < 0
    BY CronOK DEF Numbers
  <1>4. /\ n = FirstCall[j] + Interval[j] * k /\ m = FirstCall[j] + Interval[j] * l
        /\ NumberCall[j] > 0 => /\ k = IF c = 0 THEN NumberCall[j] - 1 ELSE NumberCall[j] - c
                                /\ l = IF d = 0 THEN NumberCall[j] - 1 ELSE NumberCall[j] - d
    BY <1>1, <1>2 DEF Steps
  <1>5. k <= l
    <2>1. CASE d = 0
      BY <1>3, <1>4, <2>1
    <2>2. CASE d # 0 /\ m >= t
      <3>1. CASE k = 0
        BY <3>1
      <3>2. CASE k # 0 /\ k > l
        <4>1. /\ Interval[j] * k \in Int /\ Interval[j] * l \in Int
              /\ Interval[j] * k >= Interval[j] * l + Interval[j]
          BY <1>3, <3>2, Products
        <4>2. n > m /\ n - Interval[j] >= m
          BY <1>3, <1>4, <4>1
        <4>3. n # FirstCall[j]
          <5>1. Interval[j] * k >= Interval[j] * 0 + Interval[j] /\ Interval[j] * 0 = 0
            BY <1>3, <3>2, Products
          <5>. QED
            BY <1>3, <1>4, <5>1, <4>1
        <4>. QED
          BY <1>3, <2>2, <4>2, <4>3 DEF Behind
      <3>. QED
        BY <3>1, <3>2
    <2>. QED
      BY <2>1, <2>2
  <1>6. m >= n
    <2>0. \A a, b \in Int : a <= b => Interval[j] * a <= Interval[j] * b /\ Interval[j] * a \in Int /\ Interval[j] * b \in Int
      BY <1>3, Products
    <2>1. Interval[j] * k <= Interval[j] * l /\ Interval[j] * k \in Int /\ Interval[j] * l \in Int
      BY <1>5, <2>0
    <2>2. n = FirstCall[j] + Interval[j] * k /\ m = FirstCall[j] + Interval[j] * l /\ FirstCall[j] \in Nat
      BY <1>3, <1>4
    <2>. DEFINE a == Interval[j] * k
                b == Interval[j] * l
    <2>3. a \in Int /\ b \in Int /\ a <= b /\ n = FirstCall[j] + a /\ m = FirstCall[j] + b
      BY <2>1, <2>2
    <2>. HIDE DEF a, b
    <2>. QED
      BY <2>2, <2>3
  <1>7. d <= c
    <2>1. CASE c = 0 /\ d # 0
      <3>1. d = 1 /\ k = l
        BY <1>3, <1>4, <1>5, <2>1
      <3>2. n = m /\ n < t
        BY <1>4, <2>1, <3>1 DEF Behind
      <3>. QED
        BY <2>1, <3>2
    <2>2. CASE ~(c = 0 /\ d # 0)
      BY <1>3, <1>4, <1>5, <2>2
    <2>. QED
      BY <2>1, <2>2
  <1>. QED
    BY <1>6, <1>7

\* One more round of a job that is due stays on the grid and behind the time.
LEMMA GridStep ==
  ASSUME NEW j \in Jobs, NEW n \in Nat, NEW c \in Numbers(j) \ {0}, NEW t \in Nat,
         OnGrid(j, n, c), n < t
  PROVE  /\ OnGrid(j, Onward(j, n, Taken(c)), Taken(c))
         /\ Behind(j, Onward(j, n, Taken(c)), Taken(c), t)
  <1>1. PICK k \in Nat : Steps(j, n, c, k)
    BY DEF OnGrid
  <1>2. /\ FirstCall[j] \in Nat /\ Interval[j] \in Nat \ {0} /\ NumberCall[j] \in Int /\ c \in Int
        /\ NumberCall[j] > 0 => c > 0 /\ Taken(c) = c - 1
        /\ ~(NumberCall[j] > 0) => c < 0 /\ Taken(c) = c
    BY CronOK DEF Numbers, Taken
  <1>3. /\ Interval[j] * k \in Int
        /\ Interval[j] * (k + 1) = Interval[j] * k + Interval[j]
    BY <1>2, Products
  <1>4. CASE Taken(c) = 0
    <2>1. Onward(j, n, Taken(c)) = n /\ NumberCall[j] > 0 /\ c = 1
      BY <1>2, <1>4 DEF Onward
    <2>2. Steps(j, n, 0, k)
      BY <1>1, <1>2, <2>1 DEF Steps
    <2>. QED
      BY <1>4, <2>1, <2>2 DEF OnGrid, Behind
  <1>5. CASE Taken(c) # 0
    <2>1. Onward(j, n, Taken(c)) = n + Interval[j]
      BY <1>5 DEF Onward
    <2>2. Steps(j, n + Interval[j], Taken(c), k + 1)
      <3>. DEFINE a == Interval[j] * k
                  b == Interval[j] * (k + 1)
      <3>1. n = FirstCall[j] + a /\ a \in Int /\ b = a + Interval[j]
        BY <1>1, <1>3 DEF Steps
      <3>2. NumberCall[j] > 0 => k + 1 = NumberCall[j] - Taken(c)
        <4>1. NumberCall[j] > 0 => k = NumberCall[j] - c
          BY <1>1, Zenon DEF Steps
        <4>. QED
          BY <1>2, <4>1
      <3>3. n + Interval[j] = FirstCall[j] + b
        <4>. HIDE DEF a, b
        <4>. QED
          BY <1>2, <3>1
      <3>. QED
        BY <1>5, <3>2, <3>3 DEF Steps
    <2>3. k + 1 \in Nat /\ (n + Interval[j]) - Interval[j] < t
      BY <1>2
    <2>. QED
      BY <1>5, <2>1, <2>2, <2>3 DEF OnGrid, Behind
  <1>. QED
    BY <1>4, <1>5

LEMMA BehindLater ==
  ASSUME NEW j \in Jobs, NEW n \in Nat, NEW c, NEW t \in Nat, NEW u \in Nat, t <= u, Behind(j, n, c, t)
  PROVE  Behind(j, n, c, u)
  BY CronOK DEF Behind
\* A row that has had its last call is switched off.
Finished == \A j \in Jobs : numbercall[j] = 0 => ~active[j]

RowsOnGrid ==
    \A j \in Jobs : /\ OnGrid(j, nextcall[j], numbercall[j])
                    /\ Behind(j, nextcall[j], numbercall[j], now)

CopiesOnGrid ==
    \A w \in Workers, j \in Jobs : Tracked(w, j) =>
        /\ OnGrid(j, copy[w][j].next, copy[w][j].number)
        /\ Behind(j, copy[w][j].next, copy[w][j].number, now)

\* While w is at j, the row and the copy are both behind the time it began.
AtWork ==
    \A w \in Workers, j \in Jobs : cur[w] = j =>
        /\ start[w] <= now
        /\ Behind(j, nextcall[j], numbercall[j], start[w])
        /\ Behind(j, copy[w][j].next, copy[w][j].number, start[w])

\* The loop of _process_job ends with nothing due.
UpToDate == \A w \in Workers : pc[w] = "saved" => ~Pending(w)

ScheduleInv == Run /\ MadeOpen /\ Finished /\ RowsOnGrid /\ CopiesOnGrid /\ AtWork /\ UpToDate

LEMMA ScheduleStart == ASSUME Init PROVE ScheduleInv
  <1>1. Run
    BY TypesStart DEF Run, Init, OneRunner
  <1>2. MadeOpen /\ Finished /\ CopiesOnGrid /\ AtWork /\ UpToDate
    BY CronOK DEF Init, MadeOpen, Finished, CopiesOnGrid, AtWork, UpToDate, Tracked
  <1>3. ASSUME NEW j \in Jobs
        PROVE  OnGrid(j, nextcall[j], numbercall[j]) /\ Behind(j, nextcall[j], numbercall[j], now)
    <2>1. Interval[j] * 0 = 0 /\ FirstCall[j] \in Nat /\ NumberCall[j] \in Int \ {0}
      BY CronOK
    <2>2. nextcall[j] = FirstCall[j] /\ numbercall[j] = NumberCall[j]
      BY DEF Init
    <2>3. Steps(j, nextcall[j], numbercall[j], 0)
      BY <2>1, <2>2 DEF Steps
    <2>. QED
      BY <2>1, <2>2, <2>3 DEF OnGrid, Behind
  <1>. QED
    BY <1>1, <1>2, <1>3 DEF ScheduleInv, RowsOnGrid

\* What the invariant says of the commit of a row: it does not turn it back.
LEMMA CommitOnward ==
  ASSUME ScheduleInv, NEW w \in Workers, CommitCron(w), NEW j \in Jobs, j = cur[w]
  PROVE  /\ OnGrid(j, copy[w][j].next, copy[w][j].number)
         /\ Behind(j, copy[w][j].next, copy[w][j].number, now)
         /\ copy[w][j].next >= nextcall[j] /\ copy[w][j].number <= numbercall[j]
  <1>. DEFINE n == nextcall[j]
              c == numbercall[j]
              m == copy[w][j].next
              d == copy[w][j].number
              t == start[w]
  <1>a. CronTypeOK /\ Copies
    BY DEF ScheduleInv, Run, Typed
  <1>1. n \in Nat /\ m \in Nat /\ t \in Nat /\ c \in Numbers(j) /\ d \in Numbers(j) /\ d \in Int
    BY <1>a, NumbersInt DEF CronTypeOK, Copies, Tracked
  <1>2. OnGrid(j, n, c) /\ OnGrid(j, m, d) /\ Behind(j, n, c, t) /\ Behind(j, m, d, now)
    BY DEF ScheduleInv, RowsOnGrid, CopiesOnGrid, AtWork, Tracked
  <1>3. m >= t \/ d = 0
    BY <1>1 DEF ScheduleInv, UpToDate, Pending, CommitCron
  <1>. HIDE DEF n, c, m, d, t
  <1>4. m >= n /\ d <= c
    BY <1>1, <1>2, <1>3, GridOrder
  <1>. QED
    BY <1>2, <1>4 DEF n, c, m, d, t

LEMMA ScheduleKept == ASSUME ScheduleInv, [Next]_vars PROVE ScheduleInv'
  <1>. USE CronOK
  <1>a. Run /\ MadeOpen /\ Typed /\ CronTypeOK /\ OneRunner /\ OffList
    BY DEF ScheduleInv, Run, Typed
  <1>b. Run' /\ MadeOpen' /\ CronTypeOK' /\ Copies'
    BY <1>a, TypesKept, RunnerKept, MadeKept DEF Run, Typed
  <1>c. now \in Nat /\ now' \in Nat /\ now <= now'
    BY <1>a DEF CronTypeOK, Next, Work, vars, Poll, Skip, Lock, Round, CommitJob, CommitCron, Sleep,
                Fail, Crash, Spawn, Tick, Deactivate
  <1>d. \A j \in Jobs : /\ nextcall[j] \in Nat /\ numbercall[j] \in Numbers(j) /\ numbercall[j] \in Int
                        /\ \A w \in Workers : copy[w][j].next \in Nat /\ start[w] \in Nat
    BY <1>a DEF CronTypeOK
  <1>e. \A j \in Jobs : /\ OnGrid(j, nextcall[j], numbercall[j])
                        /\ Behind(j, nextcall[j], numbercall[j], now)
                        /\ Behind(j, nextcall[j], numbercall[j], now')
    BY <1>c, <1>d, BehindLater DEF ScheduleInv, RowsOnGrid
  <1>f. \A w \in Workers, j \in Jobs : Tracked(w, j) =>
            /\ OnGrid(j, copy[w][j].next, copy[w][j].number)
            /\ Behind(j, copy[w][j].next, copy[w][j].number, now)
            /\ Behind(j, copy[w][j].next, copy[w][j].number, now')
    BY <1>c, <1>d, BehindLater DEF ScheduleInv, CopiesOnGrid
  <1>1. ASSUME NEW w \in Workers, Poll(w) PROVE (Finished /\ RowsOnGrid /\ CopiesOnGrid /\ AtWork /\ UpToDate)'
    <2>0. /\ UNCHANGED <<now, nextcall, numbercall, active, cur, start>> /\ cur[w] = NoJob
          /\ \A v \in Workers : pc'[v] = "saved" => pc[v] = "saved" /\ v # w
      BY <1>a, <1>1 DEF Poll, rowVars, callVars, runVars, CronTypeOK, OneRunner
    <2>1. /\ listed' = [listed EXCEPT ![w] = Listed]
          /\ \A v \in Workers, k \in Jobs : copy'[v][k] =
                IF v = w THEN IF k \in Listed THEN [next |-> nextcall[k], number |-> numbercall[k]] ELSE NoCopy[k]
                ELSE copy[v][k]
      BY <1>1, <1>a, PollCopies
    <2>2. ASSUME NEW v \in Workers, NEW k \in Jobs, Tracked(v, k)'
          PROVE  /\ OnGrid(k, copy'[v][k].next, copy'[v][k].number)
                 /\ Behind(k, copy'[v][k].next, copy'[v][k].number, now')
      <3>1. CASE v = w
        <4>1. k \in Listed
          BY <1>a, <2>0, <2>1, <2>2, <3>1 DEF Tracked, CronTypeOK
        <4>2. copy'[v][k] = [next |-> nextcall[k], number |-> numbercall[k]]
          BY <2>1, <3>1, <4>1, Zenon
        <4>3. copy'[v][k].next = nextcall[k] /\ copy'[v][k].number = numbercall[k]
          BY <4>2
        <4>. QED
          BY <1>e, <4>3
      <3>2. CASE v # w
        <4>1. Tracked(v, k) /\ copy'[v][k] = copy[v][k]
          BY <1>a, <2>0, <2>1, <2>2, <3>2 DEF Tracked, CronTypeOK
        <4>. QED
          BY <1>f, <4>1
      <3>. QED
        BY <3>1, <3>2
    <2>3. ASSUME NEW v \in Workers, NEW k \in Jobs, cur'[v] = k PROVE copy'[v][k] = copy[v][k] /\ v # w /\ cur[v] = k
      BY <2>0, <2>1, <2>3
    <2>4. AtWork'
      BY <2>0, <2>3 DEF ScheduleInv, AtWork, Behind
    <2>5. UpToDate'
      <3>. SUFFICES ASSUME NEW v \in Workers, pc'[v] = "saved" PROVE ~Pending(v)'
        BY DEF UpToDate
      <3>1. cur[v] \in Jobs /\ cur'[v] = cur[v] /\ start'[v] = start[v] /\ pc[v] = "saved"
        BY <1>a, <2>0 DEF OneRunner, CronTypeOK
      <3>2. copy'[v][cur'[v]] = copy[v][cur[v]]
        BY <2>3, <3>1
      <3>. QED
        BY <3>1, <3>2 DEF ScheduleInv, UpToDate, Pending
    <2>. QED
      BY <1>e, <2>0, <2>2, <2>4, <2>5 DEF ScheduleInv, Finished, RowsOnGrid, CopiesOnGrid
  <1>2. ASSUME NEW w \in Workers, Round(w) PROVE (Finished /\ RowsOnGrid /\ CopiesOnGrid /\ AtWork /\ UpToDate)'
    <2>0. UNCHANGED <<now, nextcall, numbercall, active, listed, cur, start, pc>> /\ pc[w] = "calling" /\ Pending(w)
      BY <1>2 DEF Round, rowVars, callVars, runVars
    <2>. PICK j \in Jobs : \E t \in Nat, n \in Numbers(j) :
            /\ j = cur[w]
            /\ copy[w][j].number \in Numbers(j) \ {0}
            /\ n = Taken(copy[w][j].number)
            /\ t = Onward(j, copy[w][j].next, n)
            /\ CopyBecomes(w, j, [next |-> t, number |-> n])
      BY <1>2, <1>a, RoundCopies
    <2>. PICK t \in Nat, n \in Numbers(j) :
            /\ n = Taken(copy[w][j].number)
            /\ t = Onward(j, copy[w][j].next, n)
            /\ CopyBecomes(w, j, [next |-> t, number |-> n])
      OBVIOUS
    <2>1. OnGrid(j, t, n) /\ Behind(j, t, n, start[w])
      <3>1. copy[w][j].next < start[w] /\ copy[w][j].next \in Nat /\ start[w] \in Nat
        BY <1>d, <2>0 DEF Pending
      <3>2. OnGrid(j, copy[w][j].next, copy[w][j].number)
        BY <1>f DEF Tracked
      <3>. QED
        BY <3>1, <3>2, GridStep
    <2>2. Behind(j, t, n, now) /\ start[w] <= now
      <3>1. start[w] <= now /\ start[w] \in Nat
        BY <1>d DEF ScheduleInv, AtWork
      <3>. QED
        BY <1>c, <2>1, <3>1, BehindLater
    <2>3. /\ \A v \in Workers, k \in Jobs : ~(v = w /\ k = j) => copy'[v][k] = copy[v][k]
          /\ copy'[w][j].next = t /\ copy'[w][j].number = n
      BY DEF CopyBecomes
    <2>4. CopiesOnGrid'
      <3>. SUFFICES ASSUME NEW v \in Workers, NEW k \in Jobs, Tracked(v, k)'
                    PROVE  /\ OnGrid(k, copy'[v][k].next, copy'[v][k].number)
                           /\ Behind(k, copy'[v][k].next, copy'[v][k].number, now')
        BY DEF CopiesOnGrid
      <3>1. CASE v = w /\ k = j
        BY <2>0, <2>1, <2>2, <2>3, <3>1
      <3>2. CASE ~(v = w /\ k = j)
        <4>1. Tracked(v, k)
          BY <2>0 DEF Tracked
        <4>. QED
          BY <1>f, <2>3, <3>2, <4>1
      <3>. QED
        BY <3>1, <3>2
    <2>5. AtWork'
      <3>. SUFFICES ASSUME NEW v \in Workers, NEW k \in Jobs, cur'[v] = k
                    PROVE  /\ start'[v] <= now'
                           /\ Behind(k, nextcall'[k], numbercall'[k], start'[v])
                           /\ Behind(k, copy'[v][k].next, copy'[v][k].number, start'[v])
        BY DEF AtWork
      <3>0. cur[v] = k /\ start'[v] = start[v] /\ now' = now /\ nextcall' = nextcall /\ numbercall' = numbercall
        BY <2>0
      <3>1. /\ start[v] <= now
            /\ Behind(k, nextcall[k], numbercall[k], start[v])
            /\ Behind(k, copy[v][k].next, copy[v][k].number, start[v])
        BY <3>0 DEF ScheduleInv, AtWork
      <3>2. CASE v = w /\ k = j
        BY <2>1, <2>3, <3>0, <3>1, <3>2
      <3>3. CASE ~(v = w /\ k = j)
        BY <2>3, <3>0, <3>1, <3>3
      <3>. QED
        BY <3>2, <3>3
    <2>6. UpToDate'
      <3>. SUFFICES ASSUME NEW v \in Workers, pc'[v] = "saved" PROVE ~Pending(v)'
        BY DEF UpToDate
      <3>1. v # w /\ cur[v] \in Jobs /\ pc[v] = "saved" /\ cur'[v] = cur[v] /\ start'[v] = start[v]
        BY <1>a, <2>0 DEF OneRunner, CronTypeOK
      <3>2. copy'[v][cur'[v]] = copy[v][cur[v]]
        BY <2>3, <3>1
      <3>. QED
        BY <3>1, <3>2 DEF ScheduleInv, UpToDate, Pending
    <2>. QED
      BY <1>e, <2>0, <2>4, <2>5, <2>6 DEF ScheduleInv, Finished, RowsOnGrid
  <1>3. ASSUME NEW w \in Workers, CommitCron(w)
        PROVE  (Finished /\ RowsOnGrid /\ CopiesOnGrid /\ AtWork /\ UpToDate)'
    <2>. PICK j \in Jobs :
            /\ j = cur[w] /\ j \notin listed[w]
            /\ copy[w][j].number \in Numbers(j) /\ copy[w][j].next \in Nat
            /\ nextcall' = [nextcall EXCEPT ![j] = copy[w][j].next]
            /\ numbercall' = [numbercall EXCEPT ![j] = copy[w][j].number]
            /\ active' = [active EXCEPT ![j] = @ /\ copy[w][j].number # 0]
            /\ CopyBecomes(w, j, NoCopy[j])
      BY <1>3, <1>a, CronCopies
    <2>0. /\ UNCHANGED <<now, listed>> /\ cur' = [cur EXCEPT ![w] = NoJob]
          /\ start' = [start EXCEPT ![w] = 0] /\ pc' = [pc EXCEPT ![w] = "polling"]
      BY <1>3 DEF CommitCron
    <2>1. OnGrid(j, copy[w][j].next, copy[w][j].number) /\ Behind(j, copy[w][j].next, copy[w][j].number, now)
      BY <1>3, CommitOnward
    <2>2. RowsOnGrid'
      <3>. SUFFICES ASSUME NEW k \in Jobs
                    PROVE  /\ OnGrid(k, nextcall'[k], numbercall'[k])
                           /\ Behind(k, nextcall'[k], numbercall'[k], now')
        BY DEF RowsOnGrid
      <3>1. CASE k = j
        <4>1. nextcall'[k] = copy[w][j].next /\ numbercall'[k] = copy[w][j].number
          BY <1>a, <3>1 DEF CronTypeOK
        <4>. QED
          BY <2>0, <2>1, <3>1, <4>1
      <3>2. CASE k # j
        <4>1. nextcall'[k] = nextcall[k] /\ numbercall'[k] = numbercall[k]
          BY <1>a, <3>2 DEF CronTypeOK
        <4>. QED
          BY <1>e, <4>1
      <3>. QED
        BY <3>1, <3>2
    <2>3. \A v \in Workers : /\ v = w => cur'[v] = NoJob /\ pc'[v] = "polling"
                             /\ v # w => cur'[v] = cur[v] /\ cur[v] # j /\ start'[v] = start[v] /\ pc'[v] = pc[v]
      BY <1>a, <2>0 DEF OneRunner, CronTypeOK
    <2>4. ASSUME NEW v \in Workers, NEW k \in Jobs, Tracked(v, k)' PROVE Tracked(v, k) /\ copy'[v][k] = copy[v][k]
      <3>1. Tracked(v, k) /\ ~(v = w /\ k = j)
        BY <2>0, <2>3, <2>4 DEF Tracked
      <3>. QED
        BY <3>1 DEF CopyBecomes
    <2>5. CopiesOnGrid'
      BY <1>f, <2>4 DEF CopiesOnGrid
    <2>6. AtWork'
      <3>. SUFFICES ASSUME NEW v \in Workers, NEW k \in Jobs, cur'[v] = k
                    PROVE  /\ start'[v] <= now'
                           /\ Behind(k, nextcall'[k], numbercall'[k], start'[v])
                           /\ Behind(k, copy'[v][k].next, copy'[v][k].number, start'[v])
        BY DEF AtWork
      <3>1. cur[v] = k /\ v # w /\ k # j /\ start'[v] = start[v] /\ now' = now
        BY <2>0, <2>3
      <3>2. copy'[v][k] = copy[v][k] /\ nextcall'[k] = nextcall[k] /\ numbercall'[k] = numbercall[k]
        BY <1>a, <3>1 DEF CopyBecomes, CronTypeOK
      <3>. QED
        BY <3>1, <3>2 DEF ScheduleInv, AtWork
    <2>7. UpToDate'
      <3>. SUFFICES ASSUME NEW v \in Workers, pc'[v] = "saved" PROVE ~Pending(v)'
        BY DEF UpToDate
      <3>1. v # w /\ cur[v] \in Jobs /\ pc[v] = "saved" /\ cur'[v] = cur[v] /\ start'[v] = start[v]
        BY <1>a, <2>3 DEF OneRunner, CronTypeOK
      <3>2. copy'[v][cur'[v]] = copy[v][cur[v]]
        BY <3>1 DEF CopyBecomes
      <3>. QED
        BY <3>1, <3>2 DEF ScheduleInv, UpToDate, Pending
    <2>8. Finished'
      BY <1>a DEF ScheduleInv, Finished, CronTypeOK
    <2>. QED
      BY <2>2, <2>5, <2>6, <2>7, <2>8
  <1>4. ASSUME ~ \E w \in Workers : Poll(w) \/ Round(w) \/ CommitCron(w)
        PROVE  (Finished /\ RowsOnGrid /\ CopiesOnGrid /\ AtWork /\ UpToDate)'
    <2>. Quiet
      BY <1>a, <1>4, QuietSteps
    <2>1. nextcall' = nextcall /\ numbercall' = numbercall
      BY DEF Quiet
    <2>2. \A v \in Workers, k \in Jobs : Tracked(v, k)' => Tracked(v, k) /\ copy'[v][k] = copy[v][k]
      BY DEF Quiet
    <2>3. RowsOnGrid' /\ CopiesOnGrid'
      BY <1>e, <1>f, <2>1, <2>2 DEF RowsOnGrid, CopiesOnGrid
    <2>4. \A j \in Jobs : active'[j] => active[j]
      BY <1>a, <1>4 DEF CronTypeOK, Next, Work, vars, rowVars, callVars, runVars, Skip, Lock, CommitJob, Sleep, Fail, Crash, Spawn, Tick, Deactivate
    <2>5. Finished'
      BY <2>1, <2>4 DEF ScheduleInv, Finished
    <2>6. ASSUME NEW v \in Workers, NEW k \in Jobs, cur'[v] = k
          PROVE  \/ cur[v] = k /\ start'[v] = start[v]
                 \/ start'[v] = now /\ now' = now
      BY <1>a, <1>4, <2>6 DEF CronTypeOK, Next, Work, vars, Skip, Lock, CommitJob, Sleep, Fail, Crash, Spawn, Tick, Deactivate
    <2>7. AtWork'
      <3>. SUFFICES ASSUME NEW v \in Workers, NEW k \in Jobs, cur'[v] = k
                    PROVE  /\ start'[v] <= now'
                           /\ Behind(k, nextcall[k], numbercall[k], start'[v])
                           /\ Behind(k, copy'[v][k].next, copy'[v][k].number, start'[v])
        BY <2>1 DEF AtWork
      <3>1. Tracked(v, k) /\ copy'[v][k] = copy[v][k]
        BY <2>2 DEF Tracked
      <3>2. CASE cur[v] = k /\ start'[v] = start[v]
        <4>1. /\ start[v] <= now /\ start[v] \in Nat
              /\ Behind(k, nextcall[k], numbercall[k], start[v])
              /\ Behind(k, copy[v][k].next, copy[v][k].number, start[v])
          BY <1>d, <3>2 DEF ScheduleInv, AtWork
        <4>. QED
          BY <1>c, <3>1, <3>2, <4>1
      <3>3. CASE start'[v] = now /\ now' = now
        BY <1>c, <1>e, <1>f, <3>1, <3>3
      <3>. QED
        BY <2>6, <3>2, <3>3
    <2>8. ASSUME NEW v \in Workers, pc'[v] = "saved"
          PROVE  ~Pending(v) /\ cur'[v] = cur[v] /\ start'[v] = start[v]
      BY <1>a, <1>4, <2>8 DEF CronTypeOK, Next, Work, vars, Skip, Lock, CommitJob, Sleep, Fail, Crash, Spawn, Tick,
         Deactivate, ScheduleInv, UpToDate
    <2>9. UpToDate'
      <3>. SUFFICES ASSUME NEW v \in Workers, pc'[v] = "saved" PROVE ~Pending(v)'
        BY DEF UpToDate
      <3>1. cur'[v] \in Jobs
        BY <1>b DEF Run, OneRunner, CronTypeOK
      <3>2. copy'[v][cur'[v]] = copy[v][cur[v]]
        BY <2>2, <2>8, <3>1 DEF Tracked
      <3>. QED
        BY <2>8, <3>2 DEF Pending
    <2>. QED
      BY <2>3, <2>5, <2>7, <2>9
  <1>. QED
    BY <1>b, <1>1, <1>2, <1>3, <1>4 DEF ScheduleInv
\* ScheduleInStep: nextcall and numbercall tell the same number of calls, although
\* each row is written from a copy that may be older than it.
THEOREM ScheduleSteps == Spec => []ScheduleInStep
  <1>1. Init => ScheduleInv
    BY ScheduleStart
  <1>2. ScheduleInv /\ [Next]_vars => ScheduleInv'
    BY ScheduleKept
  <1>3. ASSUME ScheduleInv PROVE ScheduleInStep
    <2>1. ASSUME NEW j \in Jobs, NumberCall[j] > 0
          PROVE  LET gone == NumberCall[j] - numbercall[j] IN
                 /\ numbercall[j] >= 0
                 /\ nextcall[j] = FirstCall[j] + Interval[j] * (IF numbercall[j] = 0 THEN gone - 1 ELSE gone)
                 /\ numbercall[j] = 0 => ~active[j]
      <3>1. PICK k \in Nat : Steps(j, nextcall[j], numbercall[j], k)
        BY <1>3 DEF ScheduleInv, RowsOnGrid, OnGrid
      <3>2. numbercall[j] \in Int /\ numbercall[j] >= 0 /\ NumberCall[j] \in Int
        BY <1>3, <2>1, CronOK DEF ScheduleInv, Run, Typed, CronTypeOK, Numbers
      <3>3. CASE numbercall[j] = 0
        <4>1. k = (NumberCall[j] - numbercall[j]) - 1
          BY <2>1, <3>1, <3>2, <3>3 DEF Steps
        <4>. QED
          BY <1>3, <3>1, <3>2, <3>3, <4>1 DEF Steps, ScheduleInv, Finished
      <3>4. CASE numbercall[j] # 0
        BY <2>1, <3>1, <3>2, <3>4 DEF Steps
      <3>. QED
        BY <3>3, <3>4
    <2>. QED
      BY <2>1 DEF ScheduleInStep
  <1>. QED
    BY <1>1, <1>2, <1>3, PTL DEF Spec

\* NeverTurnedBack: no worker, however old its list, turns the schedule of a job
\* back or gives it calls back (_process_job reads the time after the lock).
THEOREM ScheduleOnward == Spec => NeverTurnedBack
  <1>. DEFINE Onwards == \A j \in Jobs :
                            /\ nextcall'[j] >= nextcall[j]
                            /\ numbercall'[j] <= numbercall[j]
  <1>1. Init => ScheduleInv
    BY ScheduleStart
  <1>2. ScheduleInv /\ [Next]_vars => ScheduleInv'
    BY ScheduleKept
  <1>3. ScheduleInv /\ [Next]_vars => Onwards
    <2>. SUFFICES ASSUME ScheduleInv, [Next]_vars PROVE Onwards
      OBVIOUS
    <2>a. CronTypeOK /\ Run /\ Typed /\ OneRunner /\ MadeOpen
      BY DEF ScheduleInv, Run, Typed
    <2>b. \A j \in Jobs : nextcall[j] \in Nat /\ numbercall[j] \in Int
      BY <2>a DEF CronTypeOK
    <2>1. ASSUME NEW w \in Workers, CommitCron(w) PROVE Onwards
      <3>1. PICK j \in Jobs : /\ j = cur[w]
                              /\ nextcall' = [nextcall EXCEPT ![j] = copy[w][j].next]
                              /\ numbercall' = [numbercall EXCEPT ![j] = copy[w][j].number]
        BY <2>a, <2>1, CronCopies
      <3>2. copy[w][j].next >= nextcall[j] /\ copy[w][j].number <= numbercall[j]
        BY <2>1, <3>1, CommitOnward
      <3>. QED
        BY <2>a, <2>b, <3>1, <3>2 DEF CronTypeOK
    <2>2. ASSUME NEW w \in Workers, Poll(w) \/ Round(w) PROVE Onwards
      BY <2>b, <2>2 DEF Poll, Round, rowVars, callVars, runVars
    <2>3. ASSUME ~ \E w \in Workers : Poll(w) \/ Round(w) \/ CommitCron(w) PROVE Onwards
      BY <2>a, <2>b, <2>3, QuietSteps DEF Quiet
    <2>. QED
      BY <2>1, <2>2, <2>3
  <1>4. ScheduleInv /\ [Next]_vars => [Onwards]_vars
    BY <1>3
  <1>. QED
    BY <1>1, <1>2, <1>4, PTL DEF Spec, NeverTurnedBack
=============================================================================
