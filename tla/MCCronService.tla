---------------------------- MODULE MCCronService ----------------------------
(* Values for CronService: a recurring and a one-shot job, or two recurring *)
(* ones for what only concerns those.                                       *)
EXTENDS CronService

MCJobs == {"backup", "reminder"}
MCKind == [j \in MCJobs |-> IF j = "backup" THEN "cron" ELSE "at"]
BothRecurring == [j \in MCJobs |-> IF j = "backup" THEN "cron" ELSE "every"]
=============================================================================
