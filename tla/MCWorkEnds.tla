----------------------------- MODULE MCWorkEnds -----------------------------
(*****************************************************************************)
(* The work that waits for others and must come to an end all the same: the  *)
(* jobs of an action on GitHub, beside people who change the repository, and *)
(* the agent runs, which wait for a crawl.  They share no state, so that one *)
(* run has the sum of them: side says which is at work.                      *)
(*****************************************************************************)
EXTENDS GitHubAdapter, AgentRuns

VARIABLE side

SumInit == Init /\ AgentInit /\ side \in {"adapter", "agents"}

\* Bound: one thing that befalls the agent runs.
AgentSide == AgentNext /\ (resumes + stops + overtakes <= 1)'

SumNext ==
    /\ UNCHANGED side
    /\ \/ side = "adapter" /\ Next /\ UNCHANGED agentVars
       \/ side = "agents" /\ AgentSide /\ UNCHANGED vars

\* On either side nothing that is fair on the other one alone is ever enabled.
SumSpec ==
    SumInit /\ [][SumNext]_<<vars, agentVars, side>> /\ WF_vars(side = "adapter" /\ AdapterStep) /\ AgentFairness

\* Every job of the action on GitHub ends, whatever faults and people there are.
ActionJobsEnd == side = "adapter" => JobsEnd
=============================================================================
