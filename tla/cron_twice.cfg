\* Refuted: a worker that listed a job runs it again after another has run it.
CONSTANTS
    Workers = {w1, w2}
    Jobs <- MCJobs
    NoJob = nojob
    FirstCall <- MCFirst
    Interval <- MCInterval
    NumberCall <- MCOneCall
    DoAll <- MCJobs
    Missing = {}
    Raising = {}
    MaxTime = 1
    MaxCrashes = 0
SPECIFICATION Spec
INVARIANT CalledWithinNumber
CHECK_DEADLOCK FALSE
