----------------------------- MODULE MCWsManager -----------------------------
(* A small instance of WsManager.                                          *)
EXTENDS WsManager
==============================================================================
