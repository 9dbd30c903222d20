-------------------------- MODULE MCMonitoringLoop --------------------------
(***************************************************************************)
(* Instances of MonitoringLoop for TLC.                                    *)
(***************************************************************************)
EXTENDS MonitoringLoopClaims

OneId == {1}
TwoIds == {1, 2}

\* One application under one name, or two names of one application.
OneName == {"firefox"}
TwoNames == {"firefox", "firefox [pulse]"}
MCApps == {"firefox"}
MCNorm == [n \in Names |-> "firefox"]

OneStream == {"s1"}
TwoStreams == {"s1", "s2"}
MCNodes == {"mic1", "speaker"}

\* The speaker as a sink the daemon protects, or as a node it does not know.
SinkCatOf == [n \in Nodes |-> IF n = "mic1" THEN "mic" ELSE "monitor"]
PlainCatOf == [n \in Nodes |-> IF n = "mic1" THEN "mic" ELSE "none"]

Shaped(name, s, n, d) == [name |-> name, stream |-> s, node |-> n, dir |-> d]

\* A stream on the microphone; one that also plays to the speaker, records it,
\* or does both.
MicShape == {Shaped("firefox", "s1", "mic1", "capture")}
MicOrPlay == MicShape \cup {Shaped("firefox", "s1", "speaker", "playback")}
MicOrRecord == MicShape \cup {Shaped("firefox", "s1", "speaker", "capture")}
TwoNamedMic == MicShape \cup {Shaped("firefox [pulse]", "s2", "mic1", "capture")}
AnyUse == MicOrPlay \cup MicOrRecord

FlipMicRule == {<<"firefox", "mic", "allow">>, <<"firefox", "mic", "deny">>}
NoUserRules == {}
=============================================================================
