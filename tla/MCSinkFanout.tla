---------------------------- MODULE MCSinkFanout -----------------------------
(* A logger with a strict sink in front of a permissive one, and a logger   *)
(* with a single sink.                                                      *)
EXTENDS SinkFanout
MCSinkLevels == <<2, 1>>
MCSingleSink == <<1>>
=============================================================================
