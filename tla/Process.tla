------------------------------ MODULE Process ------------------------------
(***************************************************************************)
(* The process with a request in it: Lifecycle's servers, of which "web"   *)
(* passes a request to the handlers of RequestChain over HTTP, and "grpc"  *)
(* through its interceptors.  A server that is drained accepts no request  *)
(* and waits for those it has; a process that exits leaves them behind.    *)
(***************************************************************************)
EXTENDS Lifecycle

ASSUME ServedAssumption == \A name \in {"web", "grpc"} : \E s \in Indexes : Servers[s] = name

VARIABLES
    path, token, at, phase, logger, deadline, released, claims, status, counted,
    accepted   \* whether the request has reached its server

request == <<path, token, at, phase, logger, deadline, released, claims, status, counted>>
allVars == <<vars, request, accepted>>

Request == INSTANCE RequestChain

ServerOf == CHOOSE s \in Indexes : Servers[s] = IF path = "grpc" THEN "grpc" ELSE "web"
InFlight(s) == accepted /\ s = ServerOf /\ at > 0

ProcessInit == Init /\ Request!Init /\ accepted = FALSE

Accept ==
    /\ Alive /\ ~accepted /\ server[ServerOf] = "up"
    /\ accepted' = TRUE
    /\ UNCHANGED <<vars, request>>

(* Of a request that was accepted. *)
Handlers(A) == Alive /\ accepted /\ A /\ UNCHANGED <<vars, accepted>>

(* What the process does by itself; a server stops once it is drained.     *)
Run ==
    /\ \/ SetUp \/ StartServer \/ Wait \/ Return \/ StopNotify
       \/ \E s \in Indexes : Drain(s) \/ (Stop(s) /\ ~InFlight(s))
    /\ UNCHANGED <<request, accepted>>

Disturb ==
    /\ Signal \/ \E s \in Indexes : Fail(s)
    /\ UNCHANGED <<request, accepted>>

ProcessNext == Run \/ Disturb \/ Accept \/ Handlers(Request!Next)

(* Goroutines are scheduled and timers fire.  A library that is waited for *)
(* need not answer before the request's context is done, and over gRPC     *)
(* there is no limit to wait for.                                          *)
ProcessSpec ==
    /\ ProcessInit /\ [][ProcessNext]_allVars
    /\ WF_allVars(Run)
    /\ WF_allVars(Handlers(Request!In \/ Request!Unwind))
    /\ WF_allVars(Handlers(Request!Patient))
    /\ WF_allVars(Handlers(Request!Expire))

-----------------------------------------------------------------------------
(* main returns only if a signal asked it to, after every server has come  *)
(* to an end and no server that was drained has left a request unanswered; *)
(* a failure before any signal ends in a fatal exit, not hidden by the     *)
(* cancellations it causes in the other servers.                           *)
CleanExit ==
    exit = "clean" =>
        /\ cleaned /\ mainDone
        /\ \A s \in Indexes :
             server[s] = "failed" \/ (server[s] = "stopped" /\ ~InFlight(s))

(* One server that fails takes the process down, and so does a signal, in  *)
(* whichever stage of the start it comes and although a request hangs on a *)
(* library that never answers.  A gRPC call may hang for ever, and the     *)
(* process with it.                                                        *)
Told == mainDone \/ \E s \in Indexes : server[s] = "failed"
EndsWhenTold == Told /\ (path = "grpc" => accepted /\ at = 0) ~> exit # "none"

(* Resolvers see a token exactly when a valid one was sent and checked,    *)
(* and a request whose token is not valid is turned away before it reaches *)
(* them, not taken for one without a token.                                *)
OnlyValidClaims ==
    Request!Runs("inner") =>
        /\ token \in {"none", "valid"}
        /\ claims = IF token = "valid" THEN "token" ELSE "none"
        /\ logger = IF token = "valid" THEN "subject" ELSE "request"

(* A request that is over has been answered, even if what served it        *)
(* panicked; it leaves no timer and context behind; and a gRPC call is     *)
(* counted under the status its caller sees.                               *)
EndsTidy ==
    at = 0 =>
        /\ phase = "up" /\ status # "none"
        /\ deadline # "none" => released
        /\ path = "grpc" => counted = status

(* An HTTP request is answered or ends with the process, though the        *)
(* issuer's keys, the database or the object store never answer: all of    *)
(* them are asked under the limit.                                         *)
Answered == accepted /\ path # "grpc" ~> at = 0 \/ exit # "none"
=============================================================================
