---------------------------- MODULE MCTransport ----------------------------
(* A finite instance of Transport for TLC. *)
EXTENDS Transport

CONSTANTS ClientMaxNum, ServerMaxNum, ClientMaxAckNum, ServerMaxAckNum

MCMaxNum == [e \in Endpoint |-> IF e = Client THEN ClientMaxNum ELSE ServerMaxNum]
MCMaxAckNum == [e \in Endpoint |-> IF e = Client THEN ClientMaxAckNum ELSE ServerMaxAckNum]
=============================================================================
