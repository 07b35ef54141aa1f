---------------------------- MODULE MCConnectRelay ----------------------------
(* ConnectRelay with two deliveries, for TLC.                                   *)
EXTENDS ConnectRelay

TwoDeliveries == {"d1", "d2"}
OneDelivery == {"d1"}
TwoSlots == {1, 2}
===============================================================================
