--------------------------- MODULE MCDeviceCommands ---------------------------
(* DeviceCommands for TLC: the model values the configurations name. *)
EXTENDS DeviceCommands

CONSTANTS c1, c2, h1, h2

ASSUME c1 # c2 /\ h1 # h2
=============================================================================
