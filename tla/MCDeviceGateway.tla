--------------------------- MODULE MCDeviceGateway ---------------------------
(* Small instances of DeviceGateway for TLC.                                 *)
EXTENDS DeviceGateway, TLC

CONSTANTS r1, r2

TwoRequests == {r1, r2}

\* r1 and r2 are runs of one operation, the harder case.
OneKey == [r \in TwoRequests |-> "operation"]
AllFaults == FaultKinds
=============================================================================
