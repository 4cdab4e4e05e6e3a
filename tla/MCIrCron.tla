------------------------------ MODULE MCIrCron ------------------------------
(* Two workers; a job with two calls that makes up for missed ones, and    *)
(* one without a limit that does not.                                      *)
EXTENDS IrCron

MCJobs == {"report", "mail"}
MCFirst == [j \in MCJobs |-> IF j = "mail" THEN 1 ELSE 0]
MCInterval == [j \in MCJobs |-> 1]
MCNumber == [j \in MCJobs |-> IF j = "mail" THEN -1 ELSE 2]
MCOneCall == [j \in MCJobs |-> 1]
=============================================================================
