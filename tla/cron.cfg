\* Two jobs, one whose method may raise, one without a limit whose method is missing.
CONSTANTS
    Workers = {w1, w2}
    Jobs <- MCJobs
    NoJob = nojob
    FirstCall <- MCFirst
    Interval <- MCInterval
    NumberCall <- MCNumber
    DoAll = {"report"}
    Missing = {"mail"}
    Raising = {"report"}
    MaxTime = 2
    MaxCrashes = 1
SPECIFICATION Spec
INVARIANTS CronTypeOK OneRunner CalledBeforeCounted ScheduleInStep
PROPERTIES NeverTurnedBack JobsRun
CHECK_DEADLOCK FALSE
