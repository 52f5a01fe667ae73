--------------------------- MODULE MCTrackStreams ---------------------------
(* Instances of TrackStreams for TLC: enough objects for three changes of  *)
(* direction, with stream credit for all of them or one stream short.      *)
EXTENDS TrackStreams
=============================================================================
