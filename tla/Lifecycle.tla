----------------------------- MODULE Lifecycle -----------------------------
(***************************************************************************)
(* cmd/fetch-api/main.go: the process from its start to its exit.  Three   *)
(* servers run in one errgroup under a context that a signal cancels; the  *)
(* first that fails cancels it, too, and main waits for all of them.       *)
(*                                                                         *)
(* A server (runner.RunHandler and RunGRPC are external) listens until its *)
(* context is done, drains, and returns nil or the context's error; or it  *)
(* fails, to listen or to serve.                                           *)
(***************************************************************************)
EXTENDS Naturals, Sequences, FiniteSets

CONSTANT Servers   \* in the order they are started

ASSUME ServersAssumption == Servers \in Seq(STRING) /\ Servers # <<>>

VARIABLES
    main,       \* "settings", "app", "grpc", "start", "wait", "cleanup", "exited"
    started,    \* how many servers are started
    server,     \* "down", "up", "draining", "stopped" or "failed"
    groupErr,   \* the first error in the group
    mainDone,   \* mainCtx is done
    notify,     \* whether a signal is caught, that is, NotifyContext not stopped
    exit,       \* "none", "clean", "fatal" or "killed"
    cleaned     \* application.Cleanup has run

vars == <<main, started, server, groupErr, mainDone, notify, exit, cleaned>>

Indexes == DOMAIN Servers
Startup == <<"settings", "app", "grpc", "start">>

(* runnerCtx: done when mainCtx is, or when a goroutine of the group has   *)
(* returned an error.                                                      *)
RunnerDone == mainDone \/ groupErr # "none"

Init ==
    /\ main = "settings" /\ started = 0
    /\ server = [s \in Indexes |-> "down"]
    /\ groupErr = "none" /\ mainDone = FALSE /\ notify = TRUE
    /\ exit = "none" /\ cleaned = FALSE

(* A process that has exited does nothing. *)
Alive == exit = "none"

(* zerolog's Fatal exits at once: no deferred call runs.                   *)
Fatal ==
    /\ exit' = "fatal" /\ main' = "exited"
    /\ UNCHANGED <<started, server, groupErr, mainDone, notify, cleaned>>

(* LoadConfig, app.New and CreateGRPCServer, each of which may fail.       *)
SetUp ==
    /\ Alive
    /\ \E n \in 1..3 :
         /\ main = Startup[n]
         /\ \/ /\ main' = Startup[n + 1]
               /\ UNCHANGED <<started, server, groupErr, mainDone, notify, exit, cleaned>>
            \/ Fatal

(* RunHandler, RunHandler, RunGRPC. *)
StartServer ==
    /\ Alive /\ main = "start"
    /\ started' = started + 1
    /\ server' = [server EXCEPT ![started'] = "up"]
    /\ main' = IF started' = Len(Servers) THEN "wait" ELSE "start"
    /\ UNCHANGED <<groupErr, mainDone, notify, exit, cleaned>>

(* group.Go keeps the first error. *)
FirstError(err) == IF groupErr = "none" THEN err ELSE groupErr

(* A server cannot listen, or stops serving, or fails to drain.            *)
Fail(s) ==
    /\ Alive /\ server[s] \in {"up", "draining"}
    /\ server' = [server EXCEPT ![s] = "failed"]
    /\ groupErr' = FirstError("failure")
    /\ UNCHANGED <<main, started, mainDone, notify, exit, cleaned>>

(* Mutant: the servers are given mainCtx, not the group's.                 *)
DrainOnSignal(s) ==
    /\ Alive /\ server[s] = "up" /\ mainDone
    /\ server' = [server EXCEPT ![s] = "draining"]
    /\ UNCHANGED <<main, started, groupErr, mainDone, notify, exit, cleaned>>

Drain(s) ==
    /\ Alive /\ server[s] = "up" /\ RunnerDone
    /\ server' = [server EXCEPT ![s] = "draining"]
    /\ UNCHANGED <<main, started, groupErr, mainDone, notify, exit, cleaned>>

Stop(s) ==
    /\ Alive /\ server[s] = "draining"
    /\ server' = [server EXCEPT ![s] = "stopped"]
    /\ groupErr' \in {groupErr, FirstError("canceled")}
    /\ UNCHANGED <<main, started, mainDone, notify, exit, cleaned>>

(* A first signal cancels mainCtx; the goroutine that waits for that stops *)
(* catching signals, so that another one ends the process.                 *)
Signal ==
    /\ Alive
    /\ IF notify THEN mainDone' = TRUE /\ UNCHANGED <<main, exit>>
                 ELSE mainDone' = mainDone /\ exit' = "killed" /\ main' = "exited"
    /\ UNCHANGED <<started, server, groupErr, notify, cleaned>>

StopNotify ==
    /\ Alive /\ mainDone /\ notify
    /\ notify' = FALSE
    /\ UNCHANGED <<main, started, server, groupErr, mainDone, exit, cleaned>>

(* Mutant: what Wait returns is not looked at. *)
WaitIgnoring ==
    /\ Alive /\ main = "wait"
    /\ \A s \in Indexes : server[s] \in {"stopped", "failed"}
    /\ main' = "cleanup"
    /\ UNCHANGED <<started, server, groupErr, mainDone, notify, exit, cleaned>>

(* group.Wait; a failure that was kept is fatal, a cancellation is not.    *)
Wait ==
    /\ Alive /\ main = "wait"
    /\ \A s \in Indexes : server[s] \in {"stopped", "failed"}
    /\ IF groupErr = "failure" THEN Fatal
       ELSE /\ main' = "cleanup"
            /\ UNCHANGED <<started, server, groupErr, mainDone, notify, exit, cleaned>>

(* The deferred Cleanup, and the return of main. *)
Return ==
    /\ Alive /\ main = "cleanup"
    /\ cleaned' = TRUE /\ exit' = "clean" /\ main' = "exited"
    /\ UNCHANGED <<started, server, groupErr, mainDone, notify>>
=============================================================================
