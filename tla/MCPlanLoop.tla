----------------------------- MODULE MCPlanLoop -----------------------------
(* Every index of three records over two attempts, leases, expiries and       *)
(* priorities.                                                                *)
EXTENDS PlanLoop

MCSmallRecords ==
    [attempts : {0, 1, 2}, lease : {0, 2}, expires : {0, 1}, prio : {0, 1}, inline : {FALSE}]
=============================================================================
