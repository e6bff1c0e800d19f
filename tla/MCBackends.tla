------------------------------- MODULE MCBackends -------------------------------
(***************************************************************************)
(* What talks to other processes, on small instances: jobs on a backend    *)
(* with the clients that follow them or list its models, one turn's use of *)
(* an adapter, the capability cache, operations of the MCP manager, and    *)
(* the splitter over an adapter's text.  Each behaviour is one part's and  *)
(* the others stay as they are.                                            *)
(***************************************************************************)
EXTENDS ModelJobs, Adapters, McpConnections, ThinkSplitter

CONSTANTS backendA, urlA, listerA, serverA, operationA, lt, slash, gt

VARIABLE part

backendVars == <<regVars, jobVars, adapterVars, mcpVars, splitVars, part>>

MCOpen == <<lt, gt>>
MCClose == <<lt, slash, gt>>

MCInit ==
  /\ part \in {"follow", "list", "turn", "capabilities", "mcp", "split"}
  /\ RegInit /\ (part \in {"follow", "list"} \/ spec[backendA] = None)
  /\ JobInit
  /\ AdaptersInit /\ (part = "turn" \/ wire = [kind |-> "ollama", ids |-> FALSE])
  /\ McpInit
  /\ SplitInit

JobParts ==
  \/ JobSteps
  \/ part = "follow" /\ WatchSteps
  \/ part = "list" /\ ListingSteps /\ UNCHANGED jobVars

MCNext ==
  /\ UNCHANGED part
  /\ \/ part \in {"follow", "list"} /\ JobParts /\ UNCHANGED <<adapterVars, mcpVars, splitVars>>
     \/ part = "turn" /\ StreamSteps /\ UNCHANGED <<regVars, jobVars, mcpVars, splitVars>>
     \/ part = "capabilities" /\ CapsSteps /\ UNCHANGED <<regVars, jobVars, mcpVars, splitVars>>
     \/ part = "mcp" /\ McpNext /\ UNCHANGED <<regVars, jobVars, adapterVars, splitVars>>
     \/ part = "split" /\ SplitNext /\ UNCHANGED <<regVars, jobVars, adapterVars, mcpVars>>

MCSpec == MCInit /\ [][MCNext]_backendVars /\ JobFairness /\ McpFairness
=================================================================================
