------------------------ MODULE MCStationConnection -------------------------
(* StationConnection on small bounds. *)
EXTENDS StationConnection
=============================================================================
