---------------------------- MODULE MCControlTask ----------------------------
(* Instances of ControlTask for TLC. *)
EXTENDS ControlTask

Reboot == Serialize(RebootId, <<>>)
RunLevel == Serialize(SetRunLevelId, <<0>>)
UnknownMessage == <<1, 7, 0>>
LongMessage == <<9, RebootId, 0>>
ShortMessage == <<0, RebootId>>

\* An initctl, a client with two messages, one that sends a message and then what is
\* no message, and messages that are too short or too long.
MixedScripts == {<<RunLevel>>, <<Reboot, RunLevel>>, <<Reboot, UnknownMessage>>, <<ShortMessage>>, <<LongMessage>>}
=============================================================================
