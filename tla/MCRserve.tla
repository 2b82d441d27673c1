------------------------------ MODULE MCRserve ------------------------------
(* The Rserve server for TLC: a QAP1 server and a WebSockets server. *)
EXTENDS RserveServer

TwoServers == <<3, 4>>
=============================================================================
