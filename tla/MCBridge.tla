------------------------------ MODULE MCBridge ------------------------------
(* Instances of Bridge for TLC.  The cfg files give the sizes; the sets of   *)
(* calls they choose from are here.                                          *)
EXTENDS Bridge

RunningOps == {"SetSpeed", "SetAccessoryState", "ResumeOperations", "EmergencyStop", "PowerOff"}
DrivingOps == {"SetSpeed", "SetAccessoryState", "ResumeOperations", "EmergencyStop"}
(* CDM-Rail gives the speed a sign as well as the direction word.            *)
ReverseSpeeds == {-20}
AccessoryOps == {"SetAccessoryState", "ResumeOperations"}
=============================================================================
