--------------------------- MODULE MCBeaconEvents ---------------------------
EXTENDS BeaconEvents
============================================================================
