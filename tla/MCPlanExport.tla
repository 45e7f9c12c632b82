---------------------------- MODULE MCPlanExport ----------------------------
(* One export beside two requests in PostgreSQL.                           *)
EXTENDS PlanApplication

CONSTANTS checkIn, wake, mine, owner

MCRequestOf ==
  [r \in {checkIn, wake} |->
     IF r = wake THEN [key |-> "k3", intent |-> "ADVANCE_TIME"]
     ELSE [key |-> "k2", intent |-> "OWNER_CHECK_IN"]]
MCOwnerOf == [s \in {mine} |-> owner]
============================================================================
