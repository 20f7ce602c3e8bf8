--------------------------- MODULE MCDeviceEvents ---------------------------
EXTENDS DeviceEvents
=============================================================================
