-------------------------- MODULE MCStationRegistry --------------------------
EXTENDS StationRegistry
=============================================================================
