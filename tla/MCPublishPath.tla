--------------------------- MODULE MCPublishPath ---------------------------
EXTENDS PublishPath

\* The node's budget is 0: a topic without this policy is strict.
MCPolicies == {[depth |-> 1, rate |-> TRUE, budget |-> 2]}
=============================================================================
