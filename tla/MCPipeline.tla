----------------------------- MODULE MCPipeline -----------------------------
(***************************************************************************)
(* An instance of Pipeline: a device that logs in and sends a fix, and     *)
(* another that sends its last fix in a session that it opened before the  *)
(* service was restarted, and logs in again.                               *)
(***************************************************************************)
EXTENDS Pipeline

CONSTANTS s1, s2

LoginFrame(id, dev) ==
  <<OpenCell, Field("id", id), Field("command", "BP05"), Field("device", dev), CloseCell>>

FixFrame(id, command) ==
  <<OpenCell, Field("id", id), Field("command", command),
    Field("available", "A"), Field("numbers", id), CloseCell>>

MCScript ==
  [s \in Session |->
     IF s = s1 THEN LoginFrame("m1", "d1") \o FixFrame("m2", "BR00")
               ELSE FixFrame("m4", "BR02") \o LoginFrame("m5", "d2")]

(* The instance keeps what the theorems suppose of the streams.            *)
ASSUME StreamsAsSupposed == FramesWellFormed /\ UniqueFixIds
=============================================================================
