--------------------------- MODULE MCDeviceClaim ---------------------------
(***************************************************************************)
(* DeviceClaim with the agent and two of the conflicting programs.         *)
(***************************************************************************)
EXTENDS DeviceClaim

ThreeNames == <<"NIHostIntegrationAgent", "NIHardwareAgent", "Maschine">>
=============================================================================
