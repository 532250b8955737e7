---------------------------- MODULE MCGeoService ----------------------------
(***************************************************************************)
(* Instances of GeoService: one or two connections, each with the frames a *)
(* tracker sends in a session.  d1 and d2 are registered, d3 is not.       *)
(***************************************************************************)
EXTENDS GeoService

CONSTANTS s1, s2

Login(id, dev) ==
  <<OpenCell, Field("id", id), Field("command", "BP05"), Field("device", dev),
    Field("body", ""), CloseCell>>

Handshake(id, dev) ==
  <<OpenCell, Field("id", id), Field("command", "BP00"), Field("device", dev),
    Field("body", ""), CloseCell>>

Feedback(id, command, available) ==
  <<OpenCell, Field("id", id), Field("command", command),
    Field("available", available), Field("numbers", id), Field("body", ""), CloseCell>>

Alarm(id) ==
  <<OpenCell, Field("id", id), Field("command", "BO01"), Field("body", ""), CloseCell>>

(* A registered device, and one that is not, or not yet.                   *)
MCWhole ==
  [s \in Session |->
     IF s = s1 THEN Login("m1", "d1") \o Feedback("m2", "BR00", "A") \o Alarm("m3")
               ELSE Handshake("m4", "d2") \o Login("m5", "d3")
                      \o Feedback("m6", "BR02", "A") \o Feedback("m7", "BR00", "V")]

(* A handshake with an id that is not registered, a login with one that    *)
(* is, and a fix, in as few cells as they can have: device_id and what     *)
(* follows it are one, and so are the numbers and what follows them.       *)
MCSplit ==
  [s \in Session |->
     <<OpenCell, Field("id", "m1"), Field("command", "BP00"), Field("device", "d3"), CloseCell,
       OpenCell, Field("id", "m2"), Field("command", "BP05"), Field("device", "d1"), CloseCell,
       OpenCell, Field("id", "m3"), Field("command", "BR00"), Field("available", "A"),
       Field("numbers", "m3"), CloseCell>>]

(* Two registered devices at the same time.                                *)
MCTwoDevices ==
  [s \in Session |->
     IF s = s1 THEN Login("m1", "d1") \o Feedback("m2", "BR00", "A")
               ELSE Login("m3", "d2") \o Feedback("m4", "BR00", "A")]

(* The instances keep what the theorems suppose of the streams.            *)
ASSUME StreamsAsSupposed == FramesWellFormed /\ UniqueFixIds
=============================================================================
