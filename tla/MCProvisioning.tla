---------------------------- MODULE MCProvisioning ----------------------------
(* Model-checking instance of Provisioning: one policy pair under which one  *)
(* target may live at a time, and a configuration that never changes.        *)
EXTENDS Provisioning

MCLimit == [p |-> 3]
MCMaxConcurrent == [p |-> 1]
MCPlan == [pair |-> "p", cost |-> 1]
MCConfigurations == {[agents |-> [v |-> MCPlan], target |-> MCPlan]}
===============================================================================
