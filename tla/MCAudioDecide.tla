---------------------------- MODULE MCAudioDecide ----------------------------
(* AudioDecide on small instances. *)
EXTENDS AudioDecide, MCBrokerDecide, MCPulseFilter
=============================================================================
