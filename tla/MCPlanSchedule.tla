--------------------------- MODULE MCPlanSchedule ---------------------------
(***************************************************************************)
(* One Plan, one or two workers and a handful of Owner requests for TLC.   *)
(***************************************************************************)
EXTENDS PlanSchedule, TLC

Request(n, type) == [key |-> <<"api", n, "owner", 0>>, type |-> type]

\* A Check-in races the scheduler.
CheckInCommands == {Request(1, "REHEARSE_PLAN"), Request(2, "ARM_PLAN"),
                    Request(3, "OWNER_CHECK_IN")}

\* A pause, a resumption and the end of the Plan race the scheduler.
PauseCommands == {Request(1, "REHEARSE_PLAN"), Request(2, "ARM_PLAN"),
                  Request(3, "PAUSE_PLAN"), Request(4, "RESUME_PLAN"),
                  Request(5, "DISABLE_PLAN")}

\* Workers are interchangeable (safety runs only).
WorkerSymmetry == Permutations(Workers)
=============================================================================
