------------------------ MODULE MCAlarmSubscription ------------------------
(***************************************************************************)
(* AlarmSubscription for TLC.                                              *)
(***************************************************************************)
EXTENDS AlarmSubscription, TLC

Symmetry == Permutations(Dialog) \cup Permutations(Device)
=============================================================================
