----------------------------- MODULE MCProcess -----------------------------
(* The three servers of main.go. *)
EXTENDS Process

MCServers == <<"monitoring", "web", "grpc">>
=============================================================================
