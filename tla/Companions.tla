------------------------------- MODULE Companions -------------------------------
(***************************************************************************)
(* The programs around the pipeline: the demo with its simulator, the      *)
(* event collectors of the MCP server and the dashboard, the ACL check of  *)
(* the secured broker, the drift tracker inside the sidecar, and the       *)
(* signing tool.  They share no state, so one of them runs at a time.      *)
(***************************************************************************)
EXTENDS Demo, Collectors, AclCheck, DriftTracker, KeyFiles

VARIABLE program  (* the one that runs *)

vars == <<demoVars, mcpVars, aclVars, driftVars, keyVars, program>>

Init ==
  /\ DemoInit /\ McpInit /\ AclInit /\ DriftInit /\ KeyInit
  /\ program \in {"demo", "collectors", "check_acl", "drift", "signing"}

DemoRuns ==
  /\ program = "demo" /\ DemoNext
  /\ UNCHANGED <<mcpVars, aclVars, driftVars, keyVars, program>>

CollectorsRun ==
  /\ program = "collectors" /\ McpNext
  /\ UNCHANGED <<demoVars, aclVars, driftVars, keyVars, program>>

AclCheckRuns ==
  /\ program = "check_acl" /\ AclNext
  /\ UNCHANGED <<demoVars, mcpVars, driftVars, keyVars, program>>

DriftTrackerRuns ==
  /\ program = "drift" /\ DriftNext
  /\ UNCHANGED <<demoVars, mcpVars, aclVars, keyVars, program>>

SigningRuns ==
  /\ program = "signing" /\ KeyNext
  /\ UNCHANGED <<demoVars, mcpVars, aclVars, driftVars, program>>

Next == DemoRuns \/ CollectorsRun \/ AclCheckRuns \/ DriftTrackerRuns \/ SigningRuns

Spec == Init /\ [][Next]_vars
=============================================================================
