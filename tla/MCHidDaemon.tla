---------------------------- MODULE MCHidDaemon ----------------------------
(* Model values for the checks of HidDaemon.                                *)
EXTENDS HidDaemon, TLC

CONSTANTS d1, t1, t2

OneDevice == {d1}
OneTask == {t1}
TwoTasks == {t1, t2}
TaskSymmetry == Permutations(TwoTasks)

UnplugOnly == {"unplug"}
NoReports == {}

\* Which requests a run makes: all of them, or the ones its question needs.
EveryOp == AllOps
ScanOps == {"scan"}
LiveOps == {"pair", "remove"}
PowerOps == {"stop", "systemSuspend", "systemResume"}
=============================================================================
