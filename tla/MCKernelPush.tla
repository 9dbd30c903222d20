---------------------------- MODULE MCKernelPush ----------------------------
(***************************************************************************)
(* Instances of KernelPush for TLC.                                        *)
(***************************************************************************)
EXTENDS KernelPush

MCPaths == {"firefox", "pipewire"}
MCServers == {"pipewire"}
\* The path of the audio server has a "#" in it.
MCReadable == {"firefox"}
TwoVersions == {1, 2}

Grant(f, p) == [x \in Paths |-> IF x = "firefox" THEN f ELSE p]

\* Nobody gets anything; Firefox gets the camera, alone or with the audio
\* server on the microphone; or its grant moves to the microphone.
MCWants == {Grant({}, {}), Grant({"camera"}, {}), Grant({"camera"}, {"audio"}),
            Grant({"audio"}, {"audio"})}
=============================================================================
