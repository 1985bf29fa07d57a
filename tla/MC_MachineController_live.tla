--------------------- MODULE MC_MachineController_live ---------------------
EXTENDS MachineController, TLC

CONSTANTS m1, w1, s1, s2

MC_Machines == {m1, w1}
MC_SysIds == {s1, s2}

=============================================================================
