----------------------------- MODULE MCDashboard -----------------------------
(* Instances of Dashboard for TLC.                                         *)
EXTENDS Dashboard, TLC

CONSTANTS b1, a1

\* Two faults of one asset.
OneAsset == <<a1, a1>>
=============================================================================
