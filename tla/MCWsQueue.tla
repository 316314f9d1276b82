------------------------------ MODULE MCWsQueue ------------------------------
(* WsQueue, with and without pass, on a small array.                        *)
EXTENDS WsQueue
=============================================================================
