---------------------------- MODULE MCEventPath ----------------------------
(***************************************************************************)
(* Instances of EventPath for TLC.                                         *)
(***************************************************************************)
EXTENDS EventPath

OneTask == {"t1"}
TwoTasks == {"t1", "t2"}
OneExe == {"firefox"}
OneCamera == {"f1"}
TwoCameras == {"f1", "f2"}
CameraAndSound == {"f1", "f3"}
MCKindOf == [f \in Files |-> CASE f \in {"f1", "f2"} -> "camera"
                               [] f = "f3" -> "capture"
                               [] OTHER -> "playback"]
=============================================================================
