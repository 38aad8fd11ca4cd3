---------------------------- MODULE MCConfigSync ----------------------------
(* Instances of ConfigSync for TLC.                                        *)
EXTENDS ConfigSync, TLC

CONSTANTS a, b

TwoConfigs == {a, b}
Enabling == {"enable"}
AllEdits == {"enable", "disable"}
Superadmin == {"superadmin"}
AllPaths == {"superadmin", "settings"}
SameName == {"same"}
AllReports == {"same", "renamed"}
=============================================================================
