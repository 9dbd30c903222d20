---------------------------- MODULE MCKernelGate ----------------------------
(***************************************************************************)
(* Instances of KernelGate for TLC.                                        *)
(***************************************************************************)
EXTENDS KernelGate, TLC

\* Threads, executables and handles of cameras, as model values.
CONSTANTS t1, t2, c1, c2, c3, e1, e2

OneTask == {t1}
TwoTasks == {t1, t2}
OneExe == {e1}
TwoExes == {e1, e2}
OneCamera == {c1}
Cameras == {c1, c2, c3}
MCKindOf == [f \in Files |-> "camera"]

\* The threads are alike, and so are the executables and the handles.
Alike == Permutations(TwoTasks) \cup Permutations(Cameras) \cup Permutations(TwoExes)
=============================================================================
