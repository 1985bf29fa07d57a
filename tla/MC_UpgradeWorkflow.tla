------------------------- MODULE MC_UpgradeWorkflow -------------------------
EXTENDS UpgradeWorkflow, TLC

CONSTANTS m1, w1

MC_Machines == {m1, w1}
MC_Versions == 1..3

=============================================================================
