---------------------------- MODULE RequestChain ----------------------------
(***************************************************************************)
(* The handlers a request passes on its way in and out: internal/app's     *)
(* middleware around the GraphQL and MCP handlers and the playground, the  *)
(* JWT check, the time limit, and the interceptors of the gRPC server.     *)
(*                                                                         *)
(* The JWT library, gqlgen, the MCP server and the interceptors are        *)
(* external.  A handler that is called waits for what it calls; a panic    *)
(* unwinds through the deferred calls.  Checking a token may need the      *)
(* issuer's keys from the network.                                         *)
(***************************************************************************)
EXTENDS Naturals, Sequences

VARIABLES
    path,      \* "query", "mcp", "playground" or "grpc"
    token,     \* "none", "malformed", "invalid" or "valid"
    at,        \* the handler that runs, by its place in the chain; 0 outside
    phase,     \* "down", "up" or "panic"
    logger,    \* what the context's logger adds: "process", "request", "subject"
    deadline,  \* "none", "set" or "expired"
    released,  \* whether the limiter's cancel has run
    claims,    \* "none", "validated" (by the library) or "token" (for resolvers)
    status,    \* of the response, "none" before it is begun
    counted    \* the status the metrics saw

vars == <<path, token, at, phase, logger, deadline, released, claims, status, counted>>
context == <<logger, deadline, claims>>

(* Mutant: the token is checked before the limit is set. *)
AuthChainSwapped == <<"recovery", "logger", "jwt", "timeout", "authLogger", "claims">>

(* New: authChain, outermost first. *)
AuthChain == <<"recovery", "logger", "timeout", "jwt", "authLogger", "claims">>

(* CreateGRPCServer.  Of the interceptors, those that do something to a    *)
(* call; there is neither a time limit nor a token.                        *)
GRPCChain == <<"metrics", "rpcRecovery", "rpc">>

Chain ==
    CASE path = "grpc" -> GRPCChain
      [] path = "playground" -> <<"logger", "recovery", "page">>
      [] OTHER -> Append(AuthChain, "inner")

Runs(handler) == phase = "down" /\ at > 0 /\ Chain[at] = handler

Init ==
    /\ path \in {"query", "mcp", "playground", "grpc"}
    /\ token \in {"none", "malformed", "invalid", "valid"}
    /\ at = 1 /\ phase = "down"
    /\ logger = "process" /\ deadline = "none" /\ claims = "none"
    /\ released = FALSE /\ status = "none" /\ counted = "none"

-----------------------------------------------------------------------------
(* Inwards. *)

CallNext == at' = at + 1 /\ UNCHANGED <<path, token, phase, released, status, counted>>

(* Recovery and interceptors defer what they do. *)
PassThrough ==
    /\ \E h \in {"recovery", "metrics", "rpcRecovery"} : Runs(h)
    /\ CallNext /\ UNCHANGED context

LoggerMiddleware ==
    /\ Runs("logger")
    /\ logger' = "request"
    /\ CallNext /\ UNCHANGED <<deadline, claims>>

AddRequestTimeout ==
    /\ Runs("timeout")
    /\ deadline' = "set"
    /\ CallNext /\ UNCHANGED <<logger, claims>>

(* A response is written and the handler returns. *)
Answer(s) ==
    /\ status' = s /\ phase' = "up"
    /\ UNCHANGED <<path, token, at, context, released, counted>>

(* CheckJWT, with credentials optional.  A token whose keys cannot be had  *)
(* is as good as an invalid one.  Mutant: such a token is no token.        *)
CheckJWTLenient ==
    /\ Runs("jwt")
    /\ IF token = "valid" THEN claims' \in {"none", "validated"}
                          ELSE claims' = "none"
    /\ CallNext /\ UNCHANGED <<logger, deadline>>

CheckJWT ==
    /\ Runs("jwt")
    /\ \/ token = "none" /\ CallNext /\ UNCHANGED context
       \/ token = "malformed" /\ Answer("500")
       \/ token \in {"invalid", "valid"} /\ Answer("401")
       \/ /\ token = "valid" /\ deadline # "expired"
          /\ claims' = "validated"
          /\ CallNext /\ UNCHANGED <<logger, deadline>>

authLoggerMiddleware ==
    /\ Runs("authLogger")
    /\ logger' = IF claims = "none" THEN logger ELSE "subject"
    /\ CallNext /\ UNCHANGED <<deadline, claims>>

AddClaimHandler ==
    /\ Runs("claims")
    /\ claims' = IF claims = "none" THEN claims ELSE "token"
    /\ CallNext /\ UNCHANGED <<logger, deadline>>

(* What is served: an answer, or a panic before or (over HTTP) after one   *)
(* was begun.                                                              *)
Innermost == {"inner", "page", "rpc"}
Serve ==
    /\ \E h \in Innermost : Runs(h)
    /\ \/ Answer("200")
       \/ /\ phase' = "panic" /\ status' \in {"none", IF path = "grpc" THEN "none" ELSE "200"}
          /\ UNCHANGED <<path, token, at, context, released, counted>>

Expire ==
    /\ deadline = "set" /\ ~released
    /\ deadline' = "expired"
    /\ UNCHANGED <<path, token, at, phase, logger, claims, released, status, counted>>

-----------------------------------------------------------------------------
(* Outwards, one handler at a time, through its deferred calls.            *)

(* PanicRecoveryMiddleware, and the recovery interceptor: a 500, unless    *)
(* the header has been sent.                                               *)
Recover ==
    /\ phase' = "up"
    /\ status' = IF phase = "panic" /\ status = "none" THEN "500" ELSE status

(* Mutant: cancel is called, not deferred. *)
ReleaseUnlessPanic == phase = "up"
Release == TRUE

Unwind ==
    /\ phase \in {"up", "panic"} /\ at > 0
    /\ at' = at - 1
    /\ IF Chain[at] \in {"recovery", "rpcRecovery"} THEN Recover
                                                     ELSE UNCHANGED <<phase, status>>
    /\ released' = (released \/ (Chain[at] = "timeout" /\ Release))
    /\ counted' = IF Chain[at] = "metrics" /\ phase = "up" THEN status ELSE counted
    /\ UNCHANGED <<path, token, context>>

In == PassThrough \/ LoggerMiddleware \/ AddRequestTimeout \/ authLoggerMiddleware
        \/ AddClaimHandler

Next == In \/ CheckJWT \/ Serve \/ Expire \/ Unwind

(* A handler that waits for the network or the database is only sure to    *)
(* return once its context is done; the playground is a constant page.     *)
Patient == (deadline = "expired" \/ Runs("page")) /\ (CheckJWT \/ Serve)
=============================================================================
