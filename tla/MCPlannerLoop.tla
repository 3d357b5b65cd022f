--------------------------- MODULE MCPlannerLoop ---------------------------
\* Every pair of a sorted source and an applied order over four IDs.
EXTENDS PlannerLoop

MCIds == 1..4
=============================================================================
