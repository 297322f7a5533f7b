---------------------------- MODULE ServerProofs ----------------------------
(***************************************************************************)
(* The server from the outside in, for every value of the constants: how   *)
(* the process ends and what a request passes and leaves behind (Process), *)
(* what the gRPC service answers (RpcServer), and what its messages make   *)
(* of an event (ProtoConvert).  The three specifications share no          *)
(* variable; each has an inductive invariant of its own.                   *)
(***************************************************************************)
EXTENDS Process, RpcServer, ProtoConvert, SequenceTheorems, WellFoundedInduction, TLAPS

-----------------------------------------------------------------------------
(* The inductive invariant of the process. *)

TypeInv ==
    /\ server \in [Indexes -> {"down", "up", "draining", "stopped", "failed"}]
    /\ groupErr \in {"none", "failure", "canceled"}
    /\ mainDone \in BOOLEAN

(* A failure is the group's error or came after it, and a cancellation is  *)
(* the error only if a signal came before any failure.                     *)
GroupInv ==
    /\ groupErr = "canceled" => mainDone
    /\ \A s \in Indexes :
         /\ server[s] = "failed" => groupErr # "none"
         /\ server[s] \in {"draining", "stopped"} => mainDone \/ groupErr # "none"

Ended == \A s \in Indexes : server[s] \in {"stopped", "failed"}

EndInv ==
    /\ main = "cleanup" \/ exit = "clean" => Ended /\ groupErr # "failure"
    /\ exit = "clean" => cleaned

(* A server that has stopped has no request. *)
DrainInv == \A s \in Indexes : server[s] = "stopped" => ~InFlight(s)

ProcessInv == TypeInv /\ GroupInv /\ EndInv /\ DrainInv

-----------------------------------------------------------------------------
(* The inductive invariant of the request, which does not depend on the    *)
(* process it runs in.                                                     *)

OverHTTP == path \in {"query", "mcp"}

(* How far in the request is. *)
RequestType ==
    /\ path \in {"query", "mcp", "playground", "grpc"}
    /\ token \in {"none", "malformed", "invalid", "valid"}
    /\ phase \in {"down", "up", "panic"}
    /\ at \in 0..(IF OverHTTP THEN 7 ELSE 3)

Resolved == IF token = "valid" THEN "validated" ELSE "none"

(* What the handlers it passed on its way in have put into its context. *)
ContextInv ==
    phase = "down" =>
        /\ at > 0
        /\ OverHTTP =>
             /\ at <= 4 => claims = "none"
             /\ at >= 5 => token \in {"none", "valid"}
             /\ at \in {5, 6} => claims = Resolved
             /\ at \in 3..5 => logger = "request"
             /\ at >= 6 => logger = IF token = "valid" THEN "subject" ELSE "request"
             /\ at = 7 => claims = IF token = "valid" THEN "token" ELSE "none"

(* What is still to be done on the way out. *)
DeferInv ==
    /\ deadline # "none" => OverHTTP /\ (released \/ at >= 3)
    /\ phase = "up" => status # "none"
    /\ phase = "panic" => at >= (IF OverHTTP THEN 1 ELSE 2)
    /\ path = "grpc" /\ at = 0 => counted = status

RequestInv == RequestType /\ ContextInv /\ DeferInv

Inv == ProcessInv /\ RequestInv

-----------------------------------------------------------------------------
(* The chain of a path, place by place. *)
LEMMA ChainAt ==
    ASSUME RequestType
    PROVE  /\ OverHTTP =>
                /\ Request!Chain[1] = "recovery" /\ Request!Chain[2] = "logger"
                /\ Request!Chain[3] = "timeout" /\ Request!Chain[4] = "jwt"
                /\ Request!Chain[5] = "authLogger" /\ Request!Chain[6] = "claims"
                /\ Request!Chain[7] = "inner"
           /\ path = "playground" =>
                /\ Request!Chain[1] = "logger" /\ Request!Chain[2] = "recovery"
                /\ Request!Chain[3] = "page"
           /\ path = "grpc" =>
                /\ Request!Chain[1] = "metrics" /\ Request!Chain[2] = "rpcRecovery"
                /\ Request!Chain[3] = "rpc"
BY DEF RequestType, OverHTTP, Request!Chain, Request!AuthChain, Request!GRPCChain

(* The last place is that of what is served, and no other is. *)
LEMMA ServedLast ==
    ASSUME RequestType, at > 0
    PROVE  Request!Chain[at] \in Request!Innermost <=> at = IF OverHTTP THEN 7 ELSE 3
BY ChainAt DEF RequestType, OverHTTP, Request!Innermost

-----------------------------------------------------------------------------
(* The request. *)

LEMMA RequestInit == Request!Init => RequestInv
BY DEF Request!Init, RequestInv, RequestType, ContextInv, DeferInv, OverHTTP

LEMMA RequestStep ==
    ASSUME RequestInv, Request!Next
    PROVE  RequestInv'
<1> USE DEF RequestInv, Request!context
<1>1. CASE Request!PassThrough
  <2>1. phase = "down" /\ at \in {1, 2} /\ (OverHTTP => at = 1)
    BY <1>1, ChainAt DEF Request!PassThrough, Request!Runs, RequestType, OverHTTP
  <2> QED
    BY <1>1, <2>1 DEF Request!PassThrough, Request!CallNext, RequestType, ContextInv,
                      DeferInv, OverHTTP
<1>2. CASE Request!LoggerMiddleware
  <2>1. phase = "down" /\ at = (IF OverHTTP THEN 2 ELSE 1) /\ path # "grpc"
    BY <1>2, ChainAt DEF Request!LoggerMiddleware, Request!Runs, RequestType, OverHTTP
  <2> QED
    BY <1>2, <2>1 DEF Request!LoggerMiddleware, Request!CallNext, RequestType, ContextInv,
                      DeferInv, OverHTTP
<1>3. CASE Request!AddRequestTimeout
  <2>1. phase = "down" /\ at = 3 /\ OverHTTP
    BY <1>3, ChainAt DEF Request!AddRequestTimeout, Request!Runs, RequestType, OverHTTP
  <2> QED
    BY <1>3, <2>1 DEF Request!AddRequestTimeout, Request!CallNext, RequestType, ContextInv,
                      DeferInv, OverHTTP
<1>4. CASE Request!CheckJWT
  <2>1. phase = "down" /\ at = 4 /\ OverHTTP
    BY <1>4, ChainAt DEF Request!CheckJWT, Request!Runs, RequestType, OverHTTP
  <2> QED
    BY <1>4, <2>1 DEF Request!CheckJWT, Request!CallNext, Request!Answer, RequestType,
                      ContextInv, DeferInv, OverHTTP, Resolved
<1>5. CASE Request!authLoggerMiddleware
  <2>1. phase = "down" /\ at = 5 /\ OverHTTP
    BY <1>5, ChainAt DEF Request!authLoggerMiddleware, Request!Runs, RequestType, OverHTTP
  <2> QED
    BY <1>5, <2>1 DEF Request!authLoggerMiddleware, Request!CallNext, RequestType,
                      ContextInv, DeferInv, OverHTTP, Resolved
<1>6. CASE Request!AddClaimHandler
  <2>1. phase = "down" /\ at = 6 /\ OverHTTP
    BY <1>6, ChainAt DEF Request!AddClaimHandler, Request!Runs, RequestType, OverHTTP
  <2> QED
    BY <1>6, <2>1 DEF Request!AddClaimHandler, Request!CallNext, RequestType,
                      ContextInv, DeferInv, OverHTTP, Resolved
<1>7. CASE Request!Serve
  <2>1. phase = "down" /\ at = IF OverHTTP THEN 7 ELSE 3
    BY <1>7, ServedLast DEF Request!Serve, Request!Runs, Request!Innermost, RequestType
  <2> QED
    BY <1>7, <2>1 DEF Request!Serve, Request!Answer, RequestType, ContextInv, DeferInv,
                      OverHTTP
<1>8. CASE Request!Expire
  BY <1>8 DEF Request!Expire, RequestType, ContextInv, DeferInv, OverHTTP, Resolved
<1>9. CASE Request!Unwind
  <2> DEFINE h == Request!Chain[at]
  <2>1. /\ phase \in {"up", "panic"} /\ at > 0 /\ at' = at - 1
        /\ IF h \in {"recovery", "rpcRecovery"}
             THEN /\ phase' = "up"
                  /\ status' = IF phase = "panic" /\ status = "none" THEN "500" ELSE status
             ELSE UNCHANGED <<phase, status>>
        /\ released' = (released \/ h = "timeout")
        /\ counted' = IF h = "metrics" /\ phase = "up" THEN status ELSE counted
        /\ UNCHANGED <<path, token, logger, deadline, claims>>
    BY <1>9 DEF Request!Unwind, Request!Recover, Request!Release
  <2>2. RequestType' /\ ContextInv'
    BY <2>1 DEF RequestType, ContextInv, OverHTTP
  <2>3. OverHTTP => DeferInv'
    <3> SUFFICES ASSUME OverHTTP
                 PROVE  DeferInv'
      OBVIOUS
    <3>1. OverHTTP' /\ path # "grpc" /\ at \in 1..7
      BY <2>1 DEF RequestType, OverHTTP
    <3>2. (h = "recovery" <=> at = 1) /\ (h = "timeout" <=> at = 3) /\ h # "rpcRecovery"
      BY <3>1, ChainAt DEF RequestType
    <3>3. released' <=> (released \/ at = 3)
      BY <2>1, <3>2, Zenon
    <3>4. /\ phase' # "down" /\ at' = at - 1 /\ deadline' = deadline /\ path' = path
          /\ phase' = "up" \/ (phase = "panic" /\ phase' = "panic" /\ at # 1)
          /\ phase' = "up" => status' # "none"
      BY <2>1, <3>2 DEF DeferInv
    <3> QED
      BY <3>1, <3>3, <3>4 DEF DeferInv
  <2>4. ~OverHTTP => DeferInv'
    BY <2>1, ChainAt DEF RequestType, DeferInv, OverHTTP
  <2> QED
    BY <2>2, <2>3, <2>4
<1> QED
  BY <1>1, <1>2, <1>3, <1>4, <1>5, <1>6, <1>7, <1>8, <1>9 DEF Request!Next, Request!In

LEMMA RequestUnchanged ==
    ASSUME RequestInv, UNCHANGED request
    PROVE  RequestInv'
BY DEF request, RequestInv, RequestType, ContextInv, DeferInv, OverHTTP, Resolved

(* A request that is over stays over, and keeps its path. *)
LEMMA OverForGood ==
    ASSUME RequestType, Request!Next
    PROVE  path' = path /\ (at = 0 => at' = 0)
BY DEF RequestType, Request!Next, Request!In, Request!PassThrough, Request!LoggerMiddleware,
       Request!AddRequestTimeout, Request!authLoggerMiddleware, Request!AddClaimHandler,
       Request!CheckJWT, Request!Serve, Request!Expire, Request!Unwind, Request!Runs,
       Request!CallNext, Request!Answer

-----------------------------------------------------------------------------
(* The process. *)

LEMMA SomeServer == Indexes # {} /\ \A s \in Indexes : s \in 1..Len(Servers)
BY ServersAssumption DEF Indexes

LEMMA FleetInit == ProcessInit => ProcessInv
BY DEF ProcessInit, Init, ProcessInv, TypeInv, GroupInv, EndInv, DrainInv, Ended

(* The stages of the start, the wait for the servers, and the end. *)
LEMMA MainStep ==
    ASSUME ProcessInv, SetUp \/ StartServer \/ Wait \/ Return,
           UNCHANGED <<request, accepted>>
    PROVE  ProcessInv'
<1> USE DEF ProcessInv, TypeInv, GroupInv, EndInv, DrainInv, Ended, Alive, InFlight, ServerOf,
            Fatal, request
<1>1. CASE SetUp
  <2>1. main' \in {"app", "grpc", "start", "exited"}
    BY <1>1 DEF SetUp, Startup
  <2> QED
    BY <1>1, <2>1 DEF SetUp
<1>2. CASE StartServer
  BY <1>2 DEF StartServer
<1>3. CASE Wait
  BY <1>3 DEF Wait
<1>4. CASE Return
  BY <1>4 DEF Return
<1> QED
  BY <1>1, <1>2, <1>3, <1>4

(* What signals, failures and the servers do. *)
LEMMA ServerStep ==
    ASSUME ProcessInv, NEW s \in Indexes,
           Signal \/ StopNotify \/ Drain(s) \/ Fail(s) \/ (Stop(s) /\ ~InFlight(s)),
           UNCHANGED <<request, accepted>>
    PROVE  ProcessInv'
<1> USE DEF ProcessInv, TypeInv, GroupInv, EndInv, DrainInv, Ended, Alive, InFlight, ServerOf,
            request
<1>1. CASE Signal
  BY <1>1 DEF Signal
<1>2. CASE StopNotify
  BY <1>2 DEF StopNotify
<1>3. CASE Drain(s)
  BY <1>3 DEF Drain, RunnerDone
<1>4. CASE Fail(s)
  BY <1>4 DEF Fail, FirstError
<1>5. CASE Stop(s) /\ ~InFlight(s)
  BY <1>5 DEF Stop, FirstError
<1> QED
  BY <1>1, <1>2, <1>3, <1>4, <1>5

(* What becomes of the request. *)
LEMMA TrafficStep ==
    ASSUME ProcessInv, RequestInv, Accept \/ Handlers(Request!Next)
    PROVE  ProcessInv'
<1> USE DEF ProcessInv, TypeInv, GroupInv, EndInv, DrainInv, Ended, Alive, InFlight, vars
<1>1. CASE Accept
  BY <1>1 DEF Accept, request, ServerOf
<1>2. CASE Handlers(Request!Next)
  <2>1. path' = path /\ (at = 0 => at' = 0) /\ at \in Nat
    BY <1>2, OverForGood DEF Handlers, RequestInv, RequestType
  <2>2. ServerOf' = ServerOf
    BY <2>1 DEF ServerOf
  <2>3. UNCHANGED <<main, started, server, groupErr, mainDone, notify, exit, cleaned, accepted>>
    BY <1>2 DEF Handlers
  <2>4. accepted
    BY <1>2 DEF Handlers
  <2> QED
    BY <2>1, <2>2, <2>3, <2>4
<1> QED
  BY <1>1, <1>2

-----------------------------------------------------------------------------
(* Every step of the specification, and what it preserves. *)
THEOREM Invariance == ProcessSpec => []Inv
<1>1. ProcessInit => Inv
  BY FleetInit, RequestInit DEF ProcessInit, Inv
<1>2. Inv /\ [ProcessNext]_allVars => Inv'
  <2> SUFFICES ASSUME Inv, [ProcessNext]_allVars
               PROVE  Inv'
    OBVIOUS
  <2>1. CASE Run
    <3>1. UNCHANGED <<request, accepted>>
      BY <2>1 DEF Run
    <3>2. RequestInv'
      BY <3>1, RequestUnchanged DEF Inv
    <3>3. CASE SetUp \/ StartServer \/ Wait \/ Return
      BY <3>1, <3>2, <3>3, MainStep DEF Inv
    <3>4. CASE StopNotify
      <4>1. PICK s \in Indexes : TRUE
        BY SomeServer
      <4> QED
        BY <3>1, <3>2, <3>4, <4>1, ServerStep DEF Inv
    <3>5. ASSUME NEW s \in Indexes, Drain(s) \/ (Stop(s) /\ ~InFlight(s))
          PROVE  Inv'
      BY <3>1, <3>2, <3>5, ServerStep DEF Inv
    <3> QED
      BY <2>1, <3>3, <3>4, <3>5 DEF Run
  <2>2. CASE Disturb
    <3>1. UNCHANGED <<request, accepted>>
      BY <2>2 DEF Disturb
    <3>2. RequestInv'
      BY <3>1, RequestUnchanged DEF Inv
    <3>3. CASE Signal
      <4>1. PICK s \in Indexes : TRUE
        BY SomeServer
      <4> QED
        BY <3>1, <3>2, <3>3, <4>1, ServerStep DEF Inv
    <3>4. ASSUME NEW s \in Indexes, Fail(s)
          PROVE  Inv'
      BY <3>1, <3>2, <3>4, ServerStep DEF Inv
    <3> QED
      BY <2>2, <3>3, <3>4 DEF Disturb
  <2>3. CASE Accept
    <3>1. RequestInv'
      BY <2>3, RequestUnchanged DEF Inv, Accept
    <3> QED
      BY <2>3, <3>1, TrafficStep DEF Inv
  <2>4. CASE Handlers(Request!Next)
    <3>1. RequestInv'
      BY <2>4, RequestStep DEF Inv, Handlers
    <3> QED
      BY <2>4, <3>1, TrafficStep DEF Inv
  <2>5. CASE UNCHANGED allVars
    <3>1. RequestInv'
      BY <2>5, RequestUnchanged DEF Inv, allVars
    <3>2. ProcessInv'
      BY <2>5 DEF Inv, allVars, vars, request, ProcessInv, TypeInv, GroupInv, EndInv, DrainInv,
                  Ended, InFlight, ServerOf
    <3> QED
      BY <3>1, <3>2 DEF Inv
  <2> QED
    BY <2>1, <2>2, <2>3, <2>4, <2>5 DEF ProcessNext
<1> QED
  BY <1>1, <1>2, PTL DEF ProcessSpec

(* The process ends well only after a signal, when every server has ended  *)
(* and every drained one has answered its request.                         *)
THEOREM EndsWell == ProcessSpec => []CleanExit
<1>1. Inv => CleanExit
  <2> SUFFICES ASSUME Inv, exit = "clean"
               PROVE  /\ cleaned /\ mainDone
                      /\ \A s \in Indexes :
                           server[s] = "failed" \/ (server[s] = "stopped" /\ ~InFlight(s))
    BY DEF CleanExit
  <2>1. cleaned /\ Ended /\ groupErr # "failure"
    BY DEF Inv, ProcessInv, EndInv
  <2>2. PICK s \in Indexes : server[s] \in {"stopped", "failed"}
    BY <2>1, SomeServer DEF Ended
  <2>3. mainDone
    BY <2>1, <2>2 DEF Inv, ProcessInv, TypeInv, GroupInv
  <2> QED
    BY <2>1, <2>3 DEF Inv, ProcessInv, DrainInv, Ended
<1> QED
  BY <1>1, Invariance, PTL

(* A resolver is handed a token if and only if a valid one was sent.       *)
THEOREM ClaimsAreChecked == ProcessSpec => []OnlyValidClaims
<1>1. Inv => OnlyValidClaims
  <2> SUFFICES ASSUME Inv, Request!Runs("inner")
               PROVE  /\ token \in {"none", "valid"}
                      /\ claims = IF token = "valid" THEN "token" ELSE "none"
                      /\ logger = IF token = "valid" THEN "subject" ELSE "request"
    BY DEF OnlyValidClaims
  <2>1. RequestType /\ ContextInv /\ phase = "down" /\ Request!Chain[at] = "inner" /\ at > 0
    BY DEF Inv, RequestInv, Request!Runs
  <2>2. OverHTTP /\ at = 7
    BY <2>1, ChainAt DEF RequestType, OverHTTP
  <2> QED
    BY <2>1, <2>2 DEF ContextInv
<1> QED
  BY <1>1, Invariance, PTL

(* A request that is over was answered, counted, and left nothing behind.  *)
THEOREM RequestsEndTidy == ProcessSpec => []EndsTidy
<1>1. Inv => EndsTidy
  BY DEF Inv, RequestInv, RequestType, ContextInv, DeferInv, EndsTidy, OverHTTP
<1> QED
  BY <1>1, Invariance, PTL

-----------------------------------------------------------------------------
(* The inductive invariant of the gRPC service. *)

IndexMethods == {LatestIndex, ListIndexes}

RpcType ==
    /\ rows \in Seq(Ref) /\ store \in Store
    /\ listed \in Seq(Ref) /\ held \in Seq(CloudEventIndex) /\ indexes \in Seq(Ref)
    /\ call \in Calls
    /\ pc \in {"idle", "query", "fetch"}
    /\ cancelled \in BOOLEAN

(* What the client holds is what was listed, without the blob keys. *)
HeldInv ==
    /\ Len(held) = Len(listed)
    /\ \A i \in 1..Len(held) : held[i] = ToProto(listed[i])

(* Where a handler stands, and which indexes it reads there. *)
HandlerInv ==
    /\ pc = "query" => call.method \in Queries
    /\ pc = "fetch" => call.method \notin IndexMethods
    /\ pc # "idle" => fetched = Pending
    /\ pc = "fetch" /\ call.method = LatestEvent => Len(indexes) = 1
    /\ call.method = FromIndexes => indexes = held

(* An event is its index's: its header alone, or the record it points to. *)
HeaderOf(ref, record) == IF IsParquetRef(ref) THEN record ELSE ref.hdr

Answers(e, ref) ==
    /\ e \in Event
    /\ IF IsHeaderOnly(ref) THEN e = HeaderOnly(ref)
       ELSE \E record \in RecordsOf(ref) :
              e.hdr = HeaderOf(ref, record) /\ e.data = record

EventsAnswer(events) ==
    /\ events \in Seq(Event) /\ Len(events) = Len(indexes)
    /\ call.method = LatestEvent => Len(events) = 1
    /\ \A i \in 1..Len(events) : Answers(events[i], indexes[i])

IndexReply ==
    /\ reply = [Status("OK") EXCEPT !.indexes = reply.indexes]
    /\ reply.indexes \in Seq(CloudEventIndex)
    /\ call.method = LatestIndex => Len(reply.indexes) = 1

(* What is sent are the events that were fetched, as messages. *)
AsMessages(events) == [i \in 1..Len(events) |-> EventToProto(events[i])]

EventReply ==
    /\ reply = [Status("OK") EXCEPT !.events = reply.events]
    /\ reply.events = AsMessages(fetched.events)
    /\ EventsAnswer(fetched.events)

ReplyInv ==
    \/ reply \in {NoReply, Status("NotFound"), Status("Internal")}
    \/ /\ pc = "idle"
       /\ IF call.method \in IndexMethods THEN IndexReply ELSE EventReply

RpcInv == RpcType /\ HeldInv /\ HandlerInv /\ ReplyInv /\ (pc # "idle" => reply = NoReply)

-----------------------------------------------------------------------------
(* The rows a query finds. *)

(* Every set of numbers has a least one. *)
Less == {p \in Nat \X Nat : p[1] < p[2]}

LEMMA LeastElement ==
  ASSUME NEW S \in SUBSET Nat, S # {}
  PROVE  \E n \in S : \A m \in S : n <= m
PROOF
  <1>1. IsWellFoundedOn(Less, Nat)
    BY NatLessThanWellFounded, Zenon DEF OpToRel, Less
  <1>2. PICK n \in S : \A m \in S : <<m, n>> \notin Less
    BY <1>1, WFMin, Zenon
  <1>3. ASSUME NEW m \in S PROVE n <= m
    <2>1. ~(m < n)
      BY <1>2 DEF Less
    <2> QED BY <2>1
  <1> QED BY <1>3

(* The body of Wanted, of a function f in its place. *)
WantedAt(f, n) ==
    IF n = 0 THEN <<>>
    ELSE IF rows[n].hdr \in call.hdrs THEN Append(f[n - 1], rows[n])
    ELSE f[n - 1]

LEMMA WantedExists ==
  ASSUME rows \in Seq(Ref)
  PROVE  \E f : f = [n \in 0..Len(rows) |-> WantedAt(f, n)]
PROOF
  <1> DEFINE Dom == 0..Len(rows)
             UpTo(m, f) == f = [n \in Dom |-> IF n <= m THEN WantedAt(f, n) ELSE <<>>]
             S == {m \in Dom : ~ \E f : UpTo(m, f)}
  <1>1. Len(rows) \in Nat /\ Dom \in SUBSET Nat /\ Len(rows) \in Dom
    BY LenProperties
  <1>2. S = {}
    <2> SUFFICES ASSUME S # {} PROVE FALSE
      OBVIOUS
    <2>1. S \in SUBSET Nat
      BY <1>1, Zenon
    <2>2. PICK m \in S : \A j \in S : m <= j
      BY <2>1, LeastElement, Zenon
    <2>3. m # 0
      <3>1. \A n \in Dom : (n <= 0) = (n = 0)
        BY <1>1
      <3>2. \A f : WantedAt(f, 0) = <<>>
        BY DEF WantedAt
      <3> DEFINE none == [n \in Dom |-> <<>>]
      <3>3. ASSUME NEW n \in Dom PROVE <<>> = IF n <= 0 THEN WantedAt(none, n) ELSE <<>>
        BY <3>1, <3>2, Zenon
      <3>4. UpTo(0, none)
        BY <3>3, Zenon
      <3> QED BY <3>4, Zenon
    <2>4. m \in Dom
      BY Zenon
    <2>5. m \in Nat /\ m - 1 \in Dom /\ ~(m <= m - 1)
      BY <1>1, <2>3, <2>4
    <2>6. PICK f : UpTo(m - 1, f)
      BY <2>2, <2>5, Zenon
    <2> DEFINE g == [f EXCEPT ![m] = WantedAt(f, m)]
    <2>7. ASSUME NEW n \in Dom, n <= m PROVE WantedAt(g, n) = WantedAt(f, n)
      <3>1. CASE n = 0
        BY <3>1 DEF WantedAt
      <3>2. CASE n # 0
        <4>1. n - 1 \in Dom /\ n - 1 # m
          BY <3>2, <1>1, <2>5, <2>7
        <4>2. g[n - 1] = f[n - 1]
          BY <2>6, <4>1
        <4> QED BY <4>2 DEF WantedAt
      <3> QED BY <3>1, <3>2
    <2>8. ASSUME NEW n \in Dom PROVE (n <= m) <=> (n = m \/ n <= m - 1)
      BY <1>1, <2>5
    <2>9. UpTo(m, g)
      <3>1. g = [n \in Dom |-> IF n = m THEN WantedAt(f, m) ELSE f[n]]
        BY <2>6
      <3>2. ASSUME NEW n \in Dom
            PROVE  (IF n = m THEN WantedAt(f, m) ELSE f[n])
                     = (IF n <= m THEN WantedAt(g, n) ELSE <<>>)
        <4> HIDE DEF g
        <4>1. f[n] = IF n <= m - 1 THEN WantedAt(f, n) ELSE <<>>
          BY <2>6, Zenon
        <4> QED BY <4>1, <2>7, <2>8, Zenon
      <3> HIDE DEF g
      <3> QED BY <3>1, <3>2, Zenon
    <2> QED BY <2>9, Zenon
  <1>3. PICK f : UpTo(Len(rows), f)
    BY <1>1, <1>2, Zenon
  <1>4. \A n \in Dom : n <= Len(rows)
    BY <1>1
  <1>5. f = [n \in Dom |-> WantedAt(f, n)]
    BY <1>3, <1>4, Zenon
  <1> QED BY <1>5, Zenon

LEMMA WantedEquation ==
  ASSUME rows \in Seq(Ref), NEW n \in 0..Len(rows)
  PROVE  Wanted[n] = WantedAt(Wanted, n)
PROOF
  <1>1. \E f : f = [m \in 0..Len(rows) |->
                      IF m = 0 THEN <<>>
                      ELSE IF rows[m].hdr \in call.hdrs THEN Append(f[m - 1], rows[m])
                      ELSE f[m - 1]]
    BY WantedExists, Zenon DEF WantedAt
  <1>2. Wanted = [m \in 0..Len(rows) |->
                    IF m = 0 THEN <<>>
                    ELSE IF rows[m].hdr \in call.hdrs THEN Append(Wanted[m - 1], rows[m])
                    ELSE Wanted[m - 1]]
    BY <1>1, Zenon DEF Wanted
  <1>3. Wanted[n] = IF n = 0 THEN <<>>
                    ELSE IF rows[n].hdr \in call.hdrs THEN Append(Wanted[n - 1], rows[n])
                    ELSE Wanted[n - 1]
    BY <1>2, Zenon
  <1> QED BY <1>3, Zenon DEF WantedAt

(* The rows found are rows of the index that have a wanted header. *)
WantedRows == {rows[i] : i \in {j \in 1..Len(rows) : rows[j].hdr \in call.hdrs}}

LEMMA WantedFound ==
  ASSUME rows \in Seq(Ref), NEW n \in 0..Len(rows)
  PROVE  Wanted[n] \in Seq(WantedRows)
PROOF
  <1> DEFINE S == {m \in 0..Len(rows) : Wanted[m] \notin Seq(WantedRows)}
  <1>1. Len(rows) \in Nat /\ 0..Len(rows) \in SUBSET Nat
    BY LenProperties
  <1>2. S = {}
    <2> SUFFICES ASSUME S # {} PROVE FALSE
      OBVIOUS
    <2>1. S \in SUBSET Nat
      BY <1>1, Zenon
    <2>2. PICK m \in S : \A j \in S : m <= j
      BY <2>1, LeastElement, Zenon
    <2>3. m \in 0..Len(rows) /\ Wanted[m] \notin Seq(WantedRows)
      BY Zenon
    <2>4. Wanted[m] = WantedAt(Wanted, m)
      BY <2>3, WantedEquation
    <2>5. m # 0
      <3>1. <<>> \in Seq(WantedRows)
        BY EmptySeq
      <3> QED BY <2>3, <2>4, <3>1 DEF WantedAt
    <2>6. m \in 1..Len(rows) /\ m - 1 \in 0..Len(rows) /\ ~(m <= m - 1)
      BY <1>1, <2>3, <2>5
    <2>7. Wanted[m - 1] \in Seq(WantedRows)
      BY <2>2, <2>6, Zenon
    <2>8. CASE rows[m].hdr \in call.hdrs
      <3>1. rows[m] \in WantedRows
        BY <2>6, <2>8 DEF WantedRows
      <3>2. Append(Wanted[m - 1], rows[m]) \in Seq(WantedRows)
        BY <2>7, <3>1, AppendProperties
      <3> QED BY <2>3, <2>4, <2>5, <2>8, <3>2 DEF WantedAt
    <2>9. CASE rows[m].hdr \notin call.hdrs
      BY <2>3, <2>4, <2>5, <2>7, <2>9 DEF WantedAt
    <2> QED BY <2>8, <2>9
  <1> QED BY <1>2

LEMMA CallType ==
  ASSUME NEW c \in Calls
  PROVE  c.method \in Methods /\ c.limit \in Int /\ c.hdrs \subseteq Headers
PROOF
  <1> USE RpcAssumption DEF Methods, Queries
  <1>1. CASE c \in GetLatestIndexRequest
    BY <1>1 DEF GetLatestIndexRequest
  <1>2. CASE c \in GetLatestCloudEventRequest
    BY <1>2 DEF GetLatestCloudEventRequest
  <1>3. CASE c \in ListIndexesRequest
    BY <1>3 DEF ListIndexesRequest
  <1>4. CASE c \in ListCloudEventsRequest
    BY <1>4 DEF ListCloudEventsRequest
  <1>5. CASE c \in ListCloudEventsFromKeysRequest
    BY <1>5 DEF ListCloudEventsFromKeysRequest
  <1> QED BY <1>1, <1>2, <1>3, <1>4, <1>5, Zenon DEF Calls

LEMMA MatchingFound ==
  ASSUME RpcType, pc = "query"
  PROVE  /\ Matching \in Seq(WantedRows)
         /\ Matching \in Seq(Ref)
         /\ call.method \in Latest => Len(Matching) <= 1
PROOF
  <1> DEFINE limit == IF call.method \in Latest \/ call.limit < 1 THEN 1 ELSE call.limit
             found == Wanted[Len(rows)]
             n == IF limit < Len(found) THEN limit ELSE Len(found)
  <1>1. Matching = SubSeq(found, 1, n)
    BY DEF Matching
  <1>2. Len(rows) \in 0..Len(rows)
    BY LenProperties DEF RpcType
  <1>3. found \in Seq(WantedRows)
    BY <1>2, WantedFound DEF RpcType
  <1>4. Len(found) \in Nat /\ \A i \in 1..Len(found) : found[i] \in WantedRows
    BY <1>3, LenProperties, ElementOfSeq
  <1>5. call.limit \in Int
    BY CallType DEF RpcType
  <1> HIDE DEF found
  <1>6. n \in Int /\ n <= Len(found) /\ (call.method \in Latest => n <= 1)
    BY <1>4, <1>5
  <1> HIDE DEF n
  <1>7. \A i \in 1..n : found[i] \in WantedRows
    BY <1>4, <1>6
  <1>8. /\ SubSeq(found, 1, n) \in Seq(WantedRows)
        /\ Len(SubSeq(found, 1, n)) = IF 1 <= n THEN n - 1 + 1 ELSE 0
    BY <1>6, <1>7, SubSeqProperties
  <1>9. Matching \in Seq(WantedRows) /\ (call.method \in Latest => Len(Matching) <= 1)
    BY <1>1, <1>6, <1>8
  <1>10. WantedRows \subseteq Ref
    BY LenProperties, ElementOfSeq DEF RpcType, WantedRows
  <1> QED BY <1>9, <1>10, SeqMonotonic
-----------------------------------------------------------------------------
(* Reading the events of the indexes. *)

(* Reading a JSON object or a row fails for one of two reasons; what is    *)
(* read is the event of the index.                                         *)
LEMMA FaultIsOneOfTwo ==
  ASSUME NEW ref
  PROVE  FaultOf(ref) \in {NoErr, "NotFound", "Other"}
PROOF BY DEF FaultOf, Fault

LEMMA PlaceHolds ==
  ASSUME RpcType, NEW ref \in Ref, FaultOf(ref) = NoErr, ~IsHeaderOnly(ref)
  PROVE  PlaceOf(ref) \in Buckets
PROOF
  <1>1. <<PlaceOf(ref), ref.name>> \in store.present
    BY DEF FaultOf, Fault, NoErr
  <1>2. store.present \subseteq Buckets \X Names
    BY DEF RpcType, Store
  <1> QED BY <1>1, <1>2

LEMMA EventIsAnswer ==
  ASSUME RpcType, NEW ref \in Ref, FaultOf(ref) = NoErr
  PROVE  Answers(EventOf(ref), ref)
PROOF
  <1>1. ref.hdr \in Headers /\ ref.name \in Names /\ ref.row \in Rows
    BY DEF Ref
  <1>2. CASE IsHeaderOnly(ref)
    BY <1>1, <1>2 DEF Answers, EventOf, HeaderOnly, Event
  <1>3. CASE ~IsHeaderOnly(ref)
    <2>1. PlaceOf(ref) \in Buckets
      BY <1>3, PlaceHolds
    <2> DEFINE record == <<PlaceOf(ref), ref.name, IF IsParquetRef(ref) THEN ref.row ELSE 0>>
    <2>2. record \in Record /\ record \in RecordsOf(ref)
      BY <1>1, <2>1, StoreAssumption DEF Record, RecordsOf
    <2>3. CASE IsParquetRef(ref)
      <3>1. EventOf(ref) = RowEvent(PlaceOf(ref), ref)
        BY <1>3, <2>3 DEF EventOf
      <3>2. EventOf(ref) = [hdr |-> record, data |-> record]
        BY <2>3, <3>1 DEF RowEvent
      <3> HIDE DEF record
      <3>3. EventOf(ref) \in Event
        BY <2>2, <3>2 DEF Event
      <3> QED BY <1>3, <2>2, <2>3, <3>2, <3>3 DEF Answers, HeaderOf
    <2>4. CASE ~IsParquetRef(ref)
      <3>1. EventOf(ref) = JsonEvent(PlaceOf(ref), ref)
        BY <1>3, <2>4 DEF EventOf
      <3>2. EventOf(ref) = [hdr |-> ref.hdr, data |-> record]
        BY <2>4, <3>1 DEF JsonEvent
      <3> HIDE DEF record
      <3>3. EventOf(ref) \in Event
        BY <1>1, <2>2, <3>2 DEF Event
      <3> QED BY <1>3, <2>2, <2>4, <3>2, <3>3 DEF Answers, HeaderOf
    <2> QED BY <2>3, <2>4
  <1> QED BY <1>2, <1>3

(* A batch that is delivered has an answer for each index. *)
LEMMA DeliveredAnswers ==
  ASSUME RpcType, HandlerInv, pc = "fetch", Batch!Deliver
  PROVE  fetched'.state = "ok" /\ EventsAnswer(fetched'.events)
PROOF
  <1>1. Len(indexes) \in Nat /\ DOMAIN indexes = 1..Len(indexes)
    BY LenProperties DEF RpcType
  <1> DEFINE evs == [i \in 1..Len(indexes) |-> EventOf(indexes[i])]
  <1>2. \A i \in 1..Len(indexes) : FaultOf(indexes[i]) = NoErr
    BY <1>1 DEF Batch!Deliver, Batch!Positions, Asked, Batch!NoErr, NoErr
  <1>3. fetched' = Delivered(evs)
    <2>1. fetched' = Batch!Delivered([i \in DOMAIN indexes |-> Asked(indexes[i]).event])
      BY <1>1 DEF Batch!Deliver, Batch!Positions
    <2>2. \A i \in 1..Len(indexes) : Asked(indexes[i]).event = EventOf(indexes[i])
      BY <1>2 DEF Asked
    <2>3. [i \in DOMAIN indexes |-> Asked(indexes[i]).event] = evs
      BY <1>1, <2>2, Zenon
    <2> QED BY <2>1, <2>3 DEF Batch!Delivered, Delivered, Batch!NoErr, NoErr
  <1>4. \A i \in 1..Len(indexes) : Answers(EventOf(indexes[i]), indexes[i])
    <2>1. \A i \in 1..Len(indexes) : indexes[i] \in Ref
      BY ElementOfSeq DEF RpcType
    <2> QED BY <1>2, <2>1, EventIsAnswer
  <1>5. evs \in [1..Len(indexes) -> Event]
    BY <1>4, Zenon DEF Answers
  <1>6. evs \in Seq(Event)
    BY <1>1, <1>5, SeqDef
  <1>7. Len(evs) = Len(indexes)
    BY <1>1, <1>5, <1>6, LenProperties
  <1>8. \A i \in 1..Len(evs) : Answers(evs[i], indexes[i])
    BY <1>4, <1>7
  <1>9. EventsAnswer(evs)
    <2> HIDE DEF evs
    <2> QED BY <1>6, <1>7, <1>8 DEF EventsAnswer, HandlerInv
  <1> QED BY <1>3, <1>9 DEF Delivered

(* The messages of events are as many, and of the type of events. *)
LEMMA MessagesOfEvents ==
  ASSUME NEW events \in Seq(Event)
  PROVE  /\ AsMessages(events) \in Seq(Event) /\ Len(AsMessages(events)) = Len(events)
         /\ \A i \in 1..Len(events) : AsMessages(events)[i] = EventToProto(events[i])
PROOF
  <1>1. Len(events) \in Nat /\ \A i \in 1..Len(events) : events[i] \in Event
    BY LenProperties, ElementOfSeq
  <1>2. ASSUME NEW e \in Event PROVE EventToProto(e) \in Event
    BY DEF EventToProto, Event
  <1>3. AsMessages(events) \in [1..Len(events) -> Event]
    BY <1>1, <1>2 DEF AsMessages
  <1>4. AsMessages(events) \in Seq(Event)
    BY <1>1, <1>3, SeqDef
  <1> QED BY <1>1, <1>3, <1>4, LenProperties DEF AsMessages

(* A message has no payload if its event had none, or had it in base64.    *)
LEMMA MessageOfEvent ==
  ASSUME NEW e \in Event
  PROVE  /\ EventToProto(e).hdr = e.hdr
         /\ EventToProto(e).data = IF e.data \in Base64 THEN NoData ELSE e.data
PROOF BY DEF EventToProto, Event

LEMMA MethodsApart ==
  /\ IndexMethods = {"GetLatestIndex", "ListIndexes"}
  /\ Latest = {"GetLatestIndex", "GetLatestCloudEvent"}
  /\ Queries = {"GetLatestIndex", "ListIndexes", "ListCloudEvents", "GetLatestCloudEvent"}
  /\ FromIndexes = "ListCloudEventsFromIndex" /\ LatestEvent = "GetLatestCloudEvent"
  /\ LatestIndex = "GetLatestIndex" /\ ListIndexes = "ListIndexes" /\ ListEvents = "ListCloudEvents"
PROOF BY DEF IndexMethods, Latest, Queries, FromIndexes, LatestEvent, LatestIndex, ListIndexes,
             ListEvents

-----------------------------------------------------------------------------
(* The invariant of the service. *)

LEMMA RpcStart == RpcInit => RpcInv
PROOF
  <1> SUFFICES ASSUME RpcInit PROVE RpcInv
    OBVIOUS
  <1>1. RpcType
    <2>1. call \in Calls
      BY DEF RpcInit, Calls, ListCloudEventsFromKeysRequest
    <2> QED BY <2>1, EmptySeq, RpcAssumption DEF RpcInit, RpcType
  <1>2. HeldInv
    BY EmptySeq DEF RpcInit, HeldInv
  <1>3. HandlerInv
    BY MethodsApart DEF RpcInit, HandlerInv
  <1> QED BY <1>1, <1>2, <1>3 DEF RpcInit, RpcInv, ReplyInv

(* The world and the client's context change; the call stays. *)
LEMMA CallStays ==
  ASSUME RpcInv, UNCHANGED <<client, call, pc, indexes, fetched, reply>>,
         rows' \in Seq(Ref), store' \in Store, cancelled' \in BOOLEAN
  PROVE  RpcInv'
PROOF
  <1>1. RpcType' /\ HeldInv' /\ HandlerInv'
    BY DEF RpcInv, RpcType, HeldInv, HandlerInv, client
  <1>2. ReplyInv'
    BY DEF RpcInv, ReplyInv, IndexReply, EventReply, EventsAnswer, Answers, IsHeaderOnly
  <1> QED BY <1>1, <1>2 DEF RpcInv

LEMMA WorldStep ==
  ASSUME RpcInv, World \/ Cancel
  PROVE  RpcInv'
PROOF
  <1>1. ASSUME NEW r \in Inserts, Insert(r) PROVE RpcInv'
    <2>1. r \in Ref /\ <<r>> \in Seq(Ref)
      BY RpcAssumption
    <2>2. rows' \in Seq(Ref)
      BY <1>1, <2>1, ConcatProperties DEF Insert, RpcInv, RpcType
    <2> QED BY <1>1, <2>2, CallStays DEF Insert, RpcInv, RpcType
  <1>2. ASSUME NEW object \in Objects, Change(object) PROVE RpcInv'
    <2>1. object \in Buckets \X Names
      BY RpcAssumption
    <2>2. store' \in Store
      BY <1>2, <2>1 DEF Change, RpcInv, RpcType, Store
    <2> QED BY <1>2, <2>2, CallStays DEF Change, RpcInv, RpcType
  <1>3. CASE Cancel
    BY <1>3, CallStays DEF Cancel, RpcInv, RpcType, world
  <1> QED BY <1>1, <1>2, <1>3 DEF World

LEMMA AskStep ==
  ASSUME RpcInv, NEW c \in Calls, Ask(c)
  PROVE  RpcInv'
PROOF
  <1>1. RpcType'
    <2>1. held \in Seq(Ref)
      <3>1. CloudEventIndex \subseteq Ref
        BY DEF CloudEventIndex
      <3> QED BY <3>1, SeqMonotonic DEF RpcInv, RpcType
    <2>2. indexes' \in Seq(Ref)
      BY <2>1, EmptySeq DEF Ask, FromProto
    <2> QED BY <2>2 DEF Ask, RpcInv, RpcType, world, client
  <1>2. HeldInv'
    BY DEF Ask, RpcInv, HeldInv, client
  <1>3. HandlerInv'
    <2>1. c.method \in Methods
      BY CallType
    <2> QED BY <2>1, MethodsApart DEF Ask, Methods, HandlerInv, FromProto, client
  <1> QED BY <1>1, <1>2, <1>3 DEF Ask, RpcInv, ReplyInv

LEMMA QueryFailsStep ==
  ASSUME RpcInv, QueryFails
  PROVE  RpcInv'
PROOF
  <1>1. reply' \in {Status("NotFound"), Status("Internal")} /\ pc' = "idle"
    BY DEF QueryFails
  <1>2. RpcType' /\ HeldInv' /\ HandlerInv'
    BY <1>1 DEF QueryFails, RpcInv, RpcType, HeldInv, HandlerInv, world, client
  <1> QED BY <1>1, <1>2 DEF RpcInv, ReplyInv

LEMMA OnTheWire ==
  ASSUME NEW ref \in Ref
  PROVE  ToProto(ref) \in CloudEventIndex
PROOF BY DEF ToProto, CloudEventIndex, Ref

LEMMA AnswerIndexesStep ==
  ASSUME RpcInv, AnswerIndexes
  PROVE  RpcInv'
PROOF
  <1>1. /\ listed' \in Seq(Ref) /\ listed' # <<>>
        /\ call.method \in Latest => Len(listed') <= 1
    BY MatchingFound DEF AnswerIndexes, RpcInv
  <1>2. /\ Len(listed') \in Nat \ {0} /\ DOMAIN listed' = 1..Len(listed')
        /\ \A i \in 1..Len(listed') : listed'[i] \in Ref
    BY <1>1, EmptySeq, LenProperties, ElementOfSeq
  <1>3. held' = [i \in 1..Len(listed') |-> ToProto(listed'[i])]
    BY <1>2 DEF AnswerIndexes
  <1>4. held' \in [1..Len(listed') -> CloudEventIndex]
    BY <1>2, <1>3, OnTheWire
  <1>5. held' \in Seq(CloudEventIndex) /\ Len(held') = Len(listed')
    <2>1. held' \in Seq(CloudEventIndex)
      BY <1>2, <1>4, SeqDef
    <2> QED BY <1>2, <1>4, <2>1, LenProperties
  <1>6. RpcType'
    BY <1>1, <1>5 DEF AnswerIndexes, RpcInv, RpcType, world
  <1>7. HeldInv'
    BY <1>3, <1>5 DEF HeldInv
  <1>8. HandlerInv'
    BY MethodsApart DEF AnswerIndexes, HandlerInv
  <1>9. IndexReply'
    <2>1. reply' = [Status("OK") EXCEPT !.indexes = held'] /\ reply'.indexes = held'
      BY DEF AnswerIndexes, Status, NoReply
    <2>2. call'.method = LatestIndex => Len(held') = 1
      BY <1>1, <1>2, <1>5, MethodsApart DEF AnswerIndexes
    <2> QED BY <1>5, <2>1, <2>2 DEF IndexReply
  <1>10. pc' = "idle" /\ call'.method \in IndexMethods
    BY DEF AnswerIndexes, IndexMethods
  <1> QED BY <1>6, <1>7, <1>8, <1>9, <1>10 DEF RpcInv, ReplyInv

LEMMA FoundIndexesStep ==
  ASSUME RpcInv, FoundIndexes
  PROVE  RpcInv'
PROOF
  <1>1. /\ indexes' \in Seq(Ref) /\ indexes' # <<>>
        /\ call.method \in Latest => Len(indexes') <= 1
    BY MatchingFound DEF FoundIndexes, RpcInv
  <1>2. Len(indexes') \in Nat \ {0}
    BY <1>1, EmptySeq
  <1>3. RpcType' /\ HeldInv'
    BY <1>1 DEF FoundIndexes, RpcInv, RpcType, HeldInv, world, client
  <1>4. HandlerInv'
    <2>1. /\ call' = call /\ fetched' = Pending /\ pc' = "fetch"
          /\ call.method \in {"ListCloudEvents", "GetLatestCloudEvent"}
      BY MethodsApart DEF FoundIndexes, RpcInv, HandlerInv
    <2>2. call.method = "GetLatestCloudEvent" => Len(indexes') = 1
      <3>1. ASSUME NEW n \in Nat \ {0}, n <= 1 PROVE n = 1
        BY <3>1
      <3>2. call.method = "GetLatestCloudEvent" => call.method \in Latest
        BY MethodsApart
      <3> QED BY <1>1, <1>2, <3>1, <3>2, Zenon
    <2> QED BY <2>1, <2>2, MethodsApart DEF HandlerInv
  <1>5. reply' = NoReply
    BY DEF FoundIndexes, RpcInv
  <1> QED BY <1>3, <1>4, <1>5 DEF RpcInv, ReplyInv

(* A batch ends in one of two ways, and a failure is nobody's NotFound but *)
(* that of some position. *)
LEMMA FailedStatus ==
  ASSUME RpcInv, pc = "fetch", Batch!Fail
  PROVE  /\ fetched'.state = "failed"
         /\ fetched'.err \in {"NotFound", "Other", "Canceled"}
         /\ fetched'.err = "NotFound" => \E i \in 1..Len(indexes) : FaultOf(indexes[i]) = "NotFound"
         /\ fetched'.err = "Other" =>
              store.flaky \/ \E i \in 1..Len(indexes) : FaultOf(indexes[i]) = "Other"
         /\ fetched'.err = "Canceled" => cancelled
PROOF
  <1>1. DOMAIN indexes = 1..Len(indexes)
    BY LenProperties DEF RpcInv, RpcType
  <1>2. PICK e \in Batch!Causes : fetched' = Batch!Failed(e)
    BY DEF Batch!Fail
  <1>3. fetched'.state = "failed" /\ fetched'.err = e
    BY <1>2 DEF Batch!Failed
  <1>4. CASE \E i \in 1..Len(indexes) : e = FaultOf(indexes[i]) /\ e # NoErr
    BY <1>3, <1>4, FaultIsOneOfTwo
  <1>5. CASE (e = "Canceled" /\ cancelled) \/ (e = "Other" /\ store.flaky)
    BY <1>3, <1>5
  <1>6. \/ \E i \in 1..Len(indexes) : e = FaultOf(indexes[i]) /\ e # NoErr
        \/ (e = "Canceled" /\ cancelled) \/ (e = "Other" /\ store.flaky)
    BY <1>1 DEF Batch!Causes, Batch!Positions, Asked, Batch!NoErr, NoErr
  <1> QED BY <1>4, <1>5, <1>6

LEMMA AnswerEventsStep ==
  ASSUME RpcInv, AnswerEvents
  PROVE  RpcInv'
PROOF
  <1>1. pc = "fetch" /\ pc' = "idle" /\ UNCHANGED <<world, client, call, cancelled, indexes>>
    BY DEF AnswerEvents
  <1>2. RpcType' /\ HeldInv'
    BY <1>1 DEF RpcInv, RpcType, HeldInv, world, client
  <1>3. HandlerInv'
    BY <1>1 DEF RpcInv, HandlerInv, client
  <1>4. CASE Batch!Deliver
    <2>1. fetched'.state = "ok" /\ EventsAnswer(fetched'.events)
      BY <1>1, <1>4, DeliveredAnswers DEF RpcInv
    <2>2. fetched'.events \in Seq(Event)
      BY <2>1 DEF EventsAnswer
    <2>3. DOMAIN fetched'.events = 1..Len(fetched'.events)
      BY <2>2, LenProperties
    <2>4. /\ reply' = [Status("OK") EXCEPT !.events = AsMessages(fetched'.events)]
          /\ reply'.events = AsMessages(fetched'.events)
      <3>1. AsMessages(fetched'.events)
              = [i \in DOMAIN fetched'.events |-> EventToProto(fetched'.events[i])]
        BY <2>3, Zenon DEF AsMessages
      <3> QED BY <2>1, <3>1 DEF AnswerEvents, Status, NoReply
    <2>5. EventReply'
      <3>1. EventsAnswer(fetched.events)'
        BY <1>1, <2>1 DEF EventsAnswer, Answers, IsHeaderOnly
      <3> QED BY <2>4, <3>1 DEF EventReply, AsMessages
    <2>6. call'.method \notin IndexMethods
      BY <1>1 DEF RpcInv, HandlerInv
    <2> QED BY <1>1, <1>2, <1>3, <2>5, <2>6 DEF RpcInv, ReplyInv
  <1>5. CASE Batch!Fail
    <2>1. fetched'.state = "failed"
      BY <1>1, <1>5, FailedStatus
    <2>2. reply' \in {Status("NotFound"), Status("Internal")}
      BY <2>1 DEF AnswerEvents, StatusOf
    <2> QED BY <1>1, <1>2, <1>3, <2>2 DEF RpcInv, ReplyInv
  <1> QED BY <1>4, <1>5 DEF AnswerEvents, Batch!Return

THEOREM RpcInvariance == RpcSpec => []RpcInv
PROOF
  <1>1. RpcInit => RpcInv
    BY RpcStart
  <1>2. RpcInv /\ [RpcNext]_rpcVars => RpcInv'
    <2> SUFFICES ASSUME RpcInv, [RpcNext]_rpcVars PROVE RpcInv'
      OBVIOUS
    <2>1. CASE World \/ Cancel
      BY <2>1, WorldStep
    <2>2. ASSUME NEW c \in Calls, Ask(c) PROVE RpcInv'
      BY <2>2, AskStep
    <2>3. CASE Handle
      BY <2>3, QueryFailsStep, AnswerIndexesStep, FoundIndexesStep, AnswerEventsStep DEF Handle
    <2>4. CASE UNCHANGED rpcVars
      BY <2>4, CallStays DEF rpcVars, world, RpcInv, RpcType
    <2> QED BY <2>1, <2>2, <2>3, <2>4 DEF RpcNext
  <1> QED BY <1>1, <1>2, PTL DEF RpcSpec

(* A reply is of the type of the method that was called. *)
THEOREM RpcTypeCorrect == RpcSpec => []TypeOK
PROOF
  <1>1. RpcInv => TypeOK
    <2> SUFFICES ASSUME RpcInv PROVE TypeOK
      OBVIOUS
    <2>1. call.method \in Methods
      BY CallType DEF RpcInv, RpcType
    <2>2. ASSUME IndexReply, call.method \in IndexMethods PROVE reply \in Response[call.method]
      <3>1. reply = [code |-> "OK", events |-> <<>>, indexes |-> reply.indexes]
        BY <2>2 DEF IndexReply, Status, NoReply
      <3>2. CASE call.method = LatestIndex
        <4>1. reply.indexes \in [{1} -> CloudEventIndex]
          BY <2>2, <3>2, LenProperties DEF IndexReply
        <4>2. Response[call.method] = GetLatestIndexResponse
          BY <2>1, <3>2, MethodsApart DEF Response
        <4> QED BY <3>1, <4>1, <4>2 DEF GetLatestIndexResponse
      <3>3. CASE call.method = ListIndexes
        <4>1. Response[call.method] = ListIndexesResponse
          BY <2>1, <3>3, MethodsApart DEF Response
        <4> QED BY <2>2, <3>1, <4>1 DEF IndexReply, ListIndexesResponse
      <3> QED BY <2>2, <3>2, <3>3 DEF IndexMethods
    <2>3. ASSUME EventReply, call.method \notin IndexMethods PROVE reply \in Response[call.method]
      <3>1. /\ reply = [code |-> "OK", events |-> reply.events, indexes |-> <<>>]
            /\ reply.events \in Seq(Event) /\ Len(reply.events) = Len(fetched.events)
        BY <2>3, MessagesOfEvents DEF EventReply, EventsAnswer, Status, NoReply
      <3>2. CASE call.method = LatestEvent
        <4>1. reply.events \in [{1} -> Event]
          <5>1. Len(reply.events) = 1 /\ reply.events \in [1..Len(reply.events) -> Event]
            BY <2>3, <3>1, <3>2, LenProperties DEF EventReply, EventsAnswer
          <5> QED BY <5>1
        <4>2. Response[call.method] = GetLatestCloudEventResponse
          BY <2>1, <3>2, MethodsApart DEF Response
        <4> QED BY <3>1, <4>1, <4>2 DEF GetLatestCloudEventResponse
      <3>3. CASE call.method \in {ListEvents, FromIndexes}
        <4>1. Response[call.method] = ListCloudEventsResponse
          BY <2>1, <3>3, MethodsApart DEF Response, ListCloudEventsResponse,
                                          ListCloudEventsFromKeysResponse
        <4> QED BY <3>1, <4>1 DEF ListCloudEventsResponse
      <3> QED BY <2>1, <2>3, <3>2, <3>3, MethodsApart DEF Methods
    <2> QED BY <2>2, <2>3 DEF RpcInv, RpcType, HandlerInv, ReplyInv, TypeOK
  <1> QED BY <1>1, RpcInvariance, PTL

(* An answer to the second call is, one for one, what the first listed. *)
THEOREM PinsWhatWasListed == RpcSpec => []TwoCallsPin
PROOF
  <1>1. RpcInv => TwoCallsPin
    <2> SUFFICES ASSUME RpcInv, call.method = FromIndexes, reply.code = "OK"
                 PROVE  /\ Len(reply.events) = Len(listed)
                        /\ \A i \in 1..Len(listed) : SameRecord(reply.events[i], listed[i])
      BY DEF TwoCallsPin
    <2>1. /\ EventsAnswer(fetched.events) /\ reply.events = AsMessages(fetched.events)
          /\ indexes = held
      BY MethodsApart DEF RpcInv, HandlerInv, ReplyInv, EventReply, Status, NoReply
    <2>2. Len(held) = Len(listed) /\ \A i \in 1..Len(listed) : held[i] = ToProto(listed[i])
      BY DEF RpcInv, HeldInv
    <2>3. ASSUME NEW i \in 1..Len(listed)
          PROVE  SameRecord(reply.events[i], listed[i])
      <3>1. listed[i] \in Ref
        BY ElementOfSeq DEF RpcInv, RpcType
      <3>2. /\ Answers(fetched.events[i], held[i]) /\ held[i] = ToProto(listed[i])
            /\ reply.events[i] = EventToProto(fetched.events[i])
        BY <2>1, <2>2, MessagesOfEvents DEF EventsAnswer
      <3>3. ~IsHeaderOnly(held[i])
        BY <3>1, <3>2 DEF ToProto, Ref, IsHeaderOnly
      <3>4. PICK record \in RecordsOf(held[i]) :
              /\ fetched.events[i].hdr = HeaderOf(held[i], record)
              /\ fetched.events[i].data = record
        BY <3>2, <3>3 DEF Answers
      <3>5. RecordsOf(held[i]) = RecordsOf(listed[i])
            /\ HeaderOf(held[i], record) = HeaderOf(listed[i], record)
        BY <3>1, <3>2 DEF RecordsOf, HeaderOf, ToProto, IsParquetRef, Ref
      <3>6. /\ reply.events[i].hdr = HeaderOf(listed[i], record)
            /\ reply.events[i].data = IF record \in Base64 THEN NoData ELSE record
        BY <3>2, <3>4, <3>5, MessageOfEvent DEF Answers
      <3> QED BY <3>4, <3>5, <3>6 DEF SameRecord, HeaderOf
    <2> QED BY <2>1, <2>2, <2>3, MessagesOfEvents DEF EventsAnswer
  <1> QED BY <1>1, RpcInvariance, PTL

(* Payloads are left out where a method does not read blobs of the kind,   *)
(* and where a message cannot carry them, but nowhere else.                *)
THEOREM LeavesOutPayloads == RpcSpec => []PayloadsLeftOut
PROOF
  <1>1. RpcInv => PayloadsLeftOut
    <2> SUFFICES ASSUME RpcInv, reply.code = "OK", NEW i \in 1..Len(reply.events)
                 PROVE  reply.events[i].data = NoData <=>
                          \/ /\ indexes[i].blob
                             /\ \/ call.method = LatestEvent
                                \/ call.method = ListEvents /\ indexes[i].kind = "json"
                          \/ fetched.events[i].data \in Base64
      BY DEF PayloadsLeftOut
    <2>1. /\ call.method \notin IndexMethods /\ EventsAnswer(fetched.events)
          /\ reply.events = AsMessages(fetched.events)
      <3>1. reply \notin {NoReply, Status("NotFound"), Status("Internal")}
        BY DEF Status, NoReply
      <3>2. ~IndexReply
        <4>1. IndexReply => reply.events = <<>>
          BY DEF IndexReply, Status, NoReply
        <4>2. 1..Len(<<>>) = {}
          BY EmptySeq
        <4> QED BY <4>1, <4>2
      <3> QED BY <3>1, <3>2 DEF RpcInv, ReplyInv, EventReply
    <2>2. /\ Answers(fetched.events[i], indexes[i]) /\ i \in 1..Len(indexes)
          /\ reply.events[i] = EventToProto(fetched.events[i])
      BY <2>1, MessagesOfEvents DEF EventsAnswer
    <2> DEFINE e == fetched.events[i]
    <2>3. reply.events[i].data = NoData <=> IsHeaderOnly(indexes[i]) \/ e.data \in Base64
      <3>1. reply.events[i].data = IF e.data \in Base64 THEN NoData ELSE e.data
        BY <2>2, MessageOfEvent DEF Answers
      <3>2. IsHeaderOnly(indexes[i]) => e.data = NoData
        BY <2>2 DEF Answers, HeaderOnly
      <3>3. ~IsHeaderOnly(indexes[i]) => e.data # NoData
        <4>1. indexes[i] \in Ref
          BY <2>2, ElementOfSeq DEF RpcInv, RpcType
        <4>2. RecordsOf(indexes[i]) \subseteq Record
          BY <4>1, StoreAssumption DEF RecordsOf, Record, Ref
        <4> QED BY <2>2, <4>2, StoreAssumption DEF Answers
      <3> HIDE DEF e
      <3> QED BY <3>1, <3>2, <3>3
    <2>4. call.method \in {ListEvents, LatestEvent, FromIndexes}
      BY <2>1, CallType, MethodsApart DEF RpcInv, RpcType, Methods
    <2>5. CASE call.method = FromIndexes
      <3>1. ~indexes[i].blob
        <4>1. indexes \in Seq(CloudEventIndex)
          BY <2>5 DEF RpcInv, RpcType, HandlerInv
        <4>2. indexes[i] \in CloudEventIndex
          BY <2>2, <4>1, ElementOfSeq
        <4> QED BY <4>2 DEF CloudEventIndex
      <3> QED BY <2>3, <3>1 DEF IsHeaderOnly
    <2>6. CASE call.method \in {ListEvents, LatestEvent}
      <3>1. indexes[i] \in Ref
        BY <2>2, ElementOfSeq DEF RpcInv, RpcType
      <3> QED BY <2>3, <2>6, <3>1, MethodsApart DEF IsHeaderOnly, IsParquetRef, Ref
    <2> QED BY <2>4, <2>5, <2>6
  <1> QED BY <1>1, RpcInvariance, PTL

(* NotFound and Internal each have the cause they stand for. *)
THEOREM StatusesNameCauses == RpcSpec => StatusNamesCause
PROOF
  <1>1. RpcInv /\ [RpcNext]_rpcVars => [NotFoundMeansNoRows /\ FailureMeansFault]_rpcVars
    <2> SUFFICES ASSUME RpcInv, RpcNext PROVE NotFoundMeansNoRows /\ FailureMeansFault
      BY DEF rpcVars
    <2>1. CASE World \/ Cancel
      BY <2>1 DEF World, Cancel, Insert, Change, NotFoundMeansNoRows, FailureMeansFault
    <2>2. ASSUME NEW c \in Calls, Ask(c) PROVE NotFoundMeansNoRows /\ FailureMeansFault
      BY <2>2 DEF Ask, NoReply, NotFoundMeansNoRows, FailureMeansFault
    <2>3. CASE QueryFails
      BY <2>3 DEF QueryFails, Status, NoReply, NotFoundMeansNoRows, FailureMeansFault
    <2>4. CASE AnswerIndexes
      <3>1. reply'.code = "OK"
        BY <2>4 DEF AnswerIndexes, Status, NoReply
      <3> QED BY <2>4, <3>1 DEF AnswerIndexes, NotFoundMeansNoRows, FailureMeansFault
    <2>5. CASE FoundIndexes
      BY <2>5 DEF FoundIndexes, NotFoundMeansNoRows, FailureMeansFault
    <2>6. CASE AnswerEvents
      <3>1. pc = "fetch" /\ RpcType /\ HandlerInv
        BY <2>6 DEF AnswerEvents, RpcInv
      <3>2. DOMAIN indexes = 1..Len(indexes)
        BY <3>1, LenProperties DEF RpcType
      <3>3. CASE Batch!Deliver
        <4>1. reply'.code = "OK"
          BY <2>6, <3>1, <3>3, DeliveredAnswers DEF AnswerEvents, Status, NoReply
        <4>2. \A i \in DOMAIN indexes : FaultOf(indexes[i]) = NoErr
          BY <3>2, <3>3 DEF Batch!Deliver, Batch!Positions, Asked, Batch!NoErr, NoErr
        <4> QED BY <4>1, <4>2 DEF NotFoundMeansNoRows, FailureMeansFault
      <3>4. CASE Batch!Fail
        <4> DEFINE err == fetched'.err
        <4>1. reply' = StatusOf(call.method, err)
          BY <2>6, <3>1, <3>4, FailedStatus DEF AnswerEvents
        <4>2. /\ reply'.code \in {"NotFound", "Internal"}
              /\ reply'.code = "NotFound" => call.method = FromIndexes /\ err = "NotFound"
              /\ call.method = FromIndexes /\ reply'.code = "Internal" => err # "NotFound"
          BY <4>1 DEF StatusOf, Status, NoReply
        <4>3. /\ err \in {"NotFound", "Other", "Canceled"}
              /\ err = "NotFound" => \E i \in DOMAIN indexes : FaultOf(indexes[i]) = "NotFound"
              /\ err = "Other" =>
                   store.flaky \/ \E i \in DOMAIN indexes : FaultOf(indexes[i]) = "Other"
              /\ err = "Canceled" => cancelled
          BY <3>1, <3>2, <3>4, FailedStatus
        <4>4. NotFoundMeansNoRows
          BY <4>2, MethodsApart DEF NotFoundMeansNoRows
        <4>5. FailureMeansFault
          BY <4>2, <4>3 DEF FailureMeansFault
        <4> QED BY <4>4, <4>5
      <3> QED BY <2>6, <3>3, <3>4 DEF AnswerEvents, Batch!Return
    <2> QED BY <2>1, <2>2, <2>3, <2>4, <2>5, <2>6 DEF RpcNext, Handle
  <1> QED BY <1>1, RpcInvariance, PTL DEF RpcSpec, StatusNamesCause

-----------------------------------------------------------------------------
(* The inductive invariant of an event on its trips. *)

(* What can have arrived: JSON has no []byte of its own, no large integer   *)
(* and nothing that cannot be marshalled, and there is no base64 payload.   *)
Decoded == {"text", "int", "rounded", "bytes", "absent"}
ReceivedHeader ==
  [strings : {"as sent", ""}, time : {"zero", "epoch", "set"},
   tags : {"nil", "empty", "some"}, extras : [ExtraNames -> Decoded]]
Received == [header : ReceivedHeader, data : {"", "json"}, dataBase64 : {""}]

(* What a trip keeps of the event that was sent. *)
Kept(e, s) ==
  /\ e.header.strings = s.header.strings
  /\ e.header.time = s.header.time
  /\ e.data = s.data
  /\ e.header.tags = TagsOrEmpty(s.header.tags)
  /\ \A name \in ExtraNames :
       s.header.extras[name] \notin {"unmarshalable", "absent"} =>
         e.header.extras[name] # "absent"

(* The event as its holders have it after the first trip. *)
Current == IF trips = 1 THEN first ELSE Settled(first)

TripType ==
  /\ trips \in Nat
  /\ sent \in RawEvent \cup {None}
  /\ event = None <=> wire # None

Before == trips = 0 =>
  /\ first = None
  /\ event # None => event = sent /\ sent \in RawEvent
  /\ wire # None => IF sent = None THEN wire \in Foreign
                                   ELSE wire = CloudEventToProto(sent)

After == trips > 0 =>
  /\ first \in Received
  /\ event # None => event = Current
  /\ wire # None => wire = CloudEventToProto(Current)
  /\ sent # None => Kept(first, sent)

TripInv == TripType /\ Before /\ After

-----------------------------------------------------------------------------
(* What one trip does. *)

LEMMA NoneApart ==
  /\ \A e \in RawEvent : e # None
  /\ \A w \in ProtoEvent : w # None
  /\ \A h \in ProtoHeader : h # None
PROOF
  <1>1. DOMAIN None = {"none"}
    BY DEF None
  <1>2. ASSUME NEW e \in RawEvent PROVE e # None
    <2>1. DOMAIN e = {"header", "data", "dataBase64"}
      BY DEF RawEvent
    <2> QED BY <1>1, <2>1
  <1>3. ASSUME NEW w \in ProtoEvent PROVE w # None
    <2>1. DOMAIN w = {"header", "data"}
      BY DEF ProtoEvent
    <2> QED BY <1>1, <2>1
  <1>4. ASSUME NEW h \in ProtoHeader PROVE h # None
    <2>1. DOMAIN h = {"strings", "time", "tags", "extras"}
      BY DEF ProtoHeader
    <2> QED BY <1>1, <2>1
  <1> QED BY <1>2, <1>3, <1>4

LEMMA SentIsProto ==
  ASSUME NEW e \in RawEvent
  PROVE  /\ CloudEventToProto(e) \in ProtoEvent
         /\ CloudEventToProto(e).header \in ProtoHeader
PROOF
  <1>1. e.header \in CloudEventHeader /\ e.data \in {"", "json"}
    BY DEF RawEvent
  <1>2. [name \in ExtraNames |-> Marshal(e.header.extras[name])] \in [ExtraNames -> WireExtra]
    BY <1>1 DEF CloudEventHeader, GoExtra, WireExtra, Marshal
  <1>3. CloudEventHeaderToProto(e.header) \in ProtoHeader
    BY <1>1, <1>2 DEF CloudEventHeader, CloudEventHeaderToProto, ProtoHeader, TagsOrEmpty
  <1> QED BY <1>1, <1>3 DEF CloudEventToProto, ProtoEvent

(* The provers take a record apart better when they are told how.          *)
LEMMA HeaderFields ==
  ASSUME NEW s, NEW t, NEW g, NEW x, NEW h,
         h = [strings |-> s, time |-> t, tags |-> g, extras |-> x]
  PROVE  h.strings = s /\ h.time = t /\ h.tags = g /\ h.extras = x
PROOF OBVIOUS

LEMMA HeaderReceived ==
  ASSUME NEW s \in {"as sent", ""}, NEW t \in {"zero", "epoch", "set"},
         NEW g \in {"nil", "empty", "some"}, NEW x \in [ExtraNames -> Decoded]
  PROVE  [strings |-> s, time |-> t, tags |-> g, extras |-> x] \in ReceivedHeader
PROOF BY DEF ReceivedHeader

LEMMA EventFields ==
  ASSUME NEW h, NEW d, NEW b, NEW e, e = [header |-> h, data |-> d, dataBase64 |-> b]
  PROVE  e.header = h /\ e.data = d /\ e.dataBase64 = b
PROOF OBVIOUS

LEMMA ReceivedIsRaw ==
  /\ Received \subseteq RawEvent
  /\ \A w \in ProtoEvent : AsRawCloudEvent(w) \in Received
PROOF
  <1>1. ASSUME NEW e \in Received PROVE e \in RawEvent
    <2>1. Decoded \subseteq GoExtra
      BY DEF Decoded, GoExtra
    <2>2. ASSUME NEW h \in ReceivedHeader PROVE h \in CloudEventHeader
      <3>1. h.extras \in [ExtraNames -> GoExtra]
        BY <2>1 DEF ReceivedHeader
      <3> QED BY <3>1 DEF ReceivedHeader, CloudEventHeader
    <2> QED BY <2>2 DEF Received, RawEvent
  <1>2. ASSUME NEW w \in ProtoEvent PROVE AsRawCloudEvent(w) \in Received
    <2>1. w.header \in ProtoHeader \cup {None} /\ w.data \in {"", "json"}
      BY DEF ProtoEvent
    <2>2. AsCloudEventHeader(w.header) \in ReceivedHeader
      <3>1. CASE w.header = None
        <4>1. AsCloudEventHeader(w.header) = ZeroHeader
          BY <3>1 DEF AsCloudEventHeader
        <4>2. [name \in ExtraNames |-> "absent"] \in [ExtraNames -> Decoded]
          BY DEF Decoded
        <4> QED BY <4>1, <4>2, HeaderReceived DEF ZeroHeader
      <3>2. CASE w.header \in ProtoHeader
        <4> DEFINE p == w.header
                   xs == [name \in ExtraNames |-> Unmarshal(p.extras[name])]
                   t == IF p.time = "absent" THEN "epoch" ELSE p.time
        <4>1. AsCloudEventHeader(p) = [strings |-> p.strings, time |-> t,
                                       tags |-> TagsOrEmpty(p.tags), extras |-> xs]
          BY <3>2, NoneApart DEF AsCloudEventHeader
        <4>2. xs \in [ExtraNames -> Decoded]
          <5>1. ASSUME NEW b \in WireExtra PROVE Unmarshal(b) \in Decoded
            BY DEF WireExtra, Unmarshal, Decoded
          <5>2. \A name \in ExtraNames : p.extras[name] \in WireExtra
            BY <3>2 DEF ProtoHeader
          <5> QED BY <5>1, <5>2
        <4>3. p.strings \in {"as sent", ""} /\ t \in {"zero", "epoch", "set"}
              /\ TagsOrEmpty(p.tags) \in {"nil", "empty", "some"}
          BY <3>2 DEF ProtoHeader, TagsOrEmpty
        <4> HIDE DEF p, xs, t
        <4>4. AsCloudEventHeader(p) \in ReceivedHeader
          BY <4>1, <4>2, <4>3, HeaderReceived
        <4> QED BY <4>4 DEF p
      <3> QED BY <2>1, <3>1, <3>2
    <2> QED BY <2>1, <2>2 DEF Received, AsRawCloudEvent
  <1> QED BY <1>1, <1>2

(* The event after a trip, field by field. *)
LEMMA TripFields ==
  ASSUME NEW e \in RawEvent
  PROVE  AsRawCloudEvent(CloudEventToProto(e)) =
           [header |-> [strings |-> e.header.strings, time |-> e.header.time,
                        tags |-> TagsOrEmpty(e.header.tags),
                        extras |-> [name \in ExtraNames |->
                                      Unmarshal(Marshal(e.header.extras[name]))]],
            data |-> e.data, dataBase64 |-> ""]
PROOF
  <1> DEFINE h == CloudEventHeaderToProto(e.header)
  <1>1. CloudEventToProto(e) = [header |-> h, data |-> e.data] /\ h # None
    BY SentIsProto, NoneApart DEF CloudEventToProto
  <1>2. e.header.time \in {"zero", "epoch", "set"}
    BY DEF RawEvent, CloudEventHeader
  <1>3. /\ h.strings = e.header.strings /\ h.time = e.header.time
        /\ TagsOrEmpty(h.tags) = TagsOrEmpty(e.header.tags)
        /\ \A name \in ExtraNames : h.extras[name] = Marshal(e.header.extras[name])
    BY DEF CloudEventHeaderToProto, TagsOrEmpty
  <1> HIDE DEF h
  <1>4. AsCloudEventHeader(h) =
          [strings |-> h.strings,
           time |-> IF h.time = "absent" THEN "epoch" ELSE h.time,
           tags |-> TagsOrEmpty(h.tags),
           extras |-> [name \in ExtraNames |-> Unmarshal(h.extras[name])]]
    BY <1>1, Zenon DEF AsCloudEventHeader
  <1>5. [name \in ExtraNames |-> Unmarshal(h.extras[name])]
          = [name \in ExtraNames |-> Unmarshal(Marshal(e.header.extras[name]))]
    BY <1>3, Zenon
  <1>6. (IF h.time = "absent" THEN "epoch" ELSE h.time) = e.header.time
    BY <1>2, <1>3
  <1>7. AsCloudEventHeader(h) =
          [strings |-> e.header.strings, time |-> e.header.time,
           tags |-> TagsOrEmpty(e.header.tags),
           extras |-> [name \in ExtraNames |-> Unmarshal(Marshal(e.header.extras[name]))]]
    BY <1>3, <1>4, <1>5, <1>6
  <1>8. CloudEventToProto(e).header = h /\ CloudEventToProto(e).data = e.data
    BY <1>1
  <1> QED BY <1>7, <1>8, Zenon DEF AsRawCloudEvent

(* A second trip settles what the first left open; a third does nothing.   *)
LEMMA TripSettles ==
  ASSUME NEW e \in Received
  PROVE  /\ AsRawCloudEvent(CloudEventToProto(e)) = Settled(e)
         /\ Settled(e) \in Received /\ Settled(Settled(e)) = Settled(e)
PROOF
  <1>1. /\ \A name \in ExtraNames :
             e.header.extras[name] \in Decoded
        /\ e.dataBase64 = "" /\ e \in RawEvent
    BY ReceivedIsRaw DEF Received, ReceivedHeader
  <1> DEFINE xs == [name \in ExtraNames |-> IF e.header.extras[name] = "bytes" THEN "text"
                                            ELSE e.header.extras[name]]
             h == [strings |-> e.header.strings, time |-> e.header.time,
                   tags |-> TagsOrEmpty(e.header.tags), extras |-> xs]
  <1>2. ASSUME NEW name \in ExtraNames
        PROVE  Unmarshal(Marshal(e.header.extras[name])) = xs[name]
    BY <1>1 DEF Unmarshal, Marshal, Decoded
  <1>3. [name \in ExtraNames |-> Unmarshal(Marshal(e.header.extras[name]))] = xs
    <2>1. xs = [name \in ExtraNames |-> xs[name]]
      OBVIOUS
    <2> HIDE DEF xs
    <2> QED BY <1>2, <2>1, Zenon
  <1>4. Settled(e) = [header |-> h, data |-> e.data, dataBase64 |-> ""]
    BY <1>1 DEF Settled
  <1>5. AsRawCloudEvent(CloudEventToProto(e)) = [header |-> h, data |-> e.data, dataBase64 |-> ""]
    <2> HIDE DEF xs
    <2> QED BY <1>1, <1>3, TripFields
  <1>6. Settled(e) \in Received
    BY <1>1, <1>4, <1>5, SentIsProto, ReceivedIsRaw
  <1>7. Settled(Settled(e)) = Settled(e)
    <2>1. \A name \in ExtraNames : xs[name] # "bytes"
      BY <1>1
    <2>2. TagsOrEmpty(TagsOrEmpty(e.header.tags)) = TagsOrEmpty(e.header.tags)
      BY DEF TagsOrEmpty
    <2>3. [name \in ExtraNames |-> IF xs[name] = "bytes" THEN "text" ELSE xs[name]] = xs
      <3>1. xs = [name \in ExtraNames |-> xs[name]]
        OBVIOUS
      <3> HIDE DEF xs
      <3> QED BY <2>1, <3>1, Zenon
    <2>4. /\ Settled(e).data = e.data /\ Settled(e).dataBase64 = "" /\ Settled(e).header = h
          /\ h.strings = e.header.strings /\ h.time = e.header.time
          /\ h.tags = TagsOrEmpty(e.header.tags) /\ h.extras = xs
      <3> HIDE DEF xs
      <3>1. h.strings = e.header.strings /\ h.time = e.header.time
            /\ h.tags = TagsOrEmpty(e.header.tags) /\ h.extras = xs
        OBVIOUS
      <3> HIDE DEF h
      <3>2. PICK f : f = Settled(e)
        OBVIOUS
      <3>3. f.header = h /\ f.data = e.data /\ f.dataBase64 = ""
        <4>1. f = [header |-> h, data |-> e.data, dataBase64 |-> ""]
          BY <1>4, <3>2, Zenon
        <4> QED BY <4>1, EventFields, Zenon
      <3> QED BY <3>1, <3>2, <3>3, Zenon
    <2> HIDE DEF xs, h
    <2>5. Settled(Settled(e))
            = [header |-> [strings |-> e.header.strings, time |-> e.header.time,
                           tags |-> TagsOrEmpty(e.header.tags), extras |-> xs],
               data |-> e.data, dataBase64 |-> ""]
      BY <2>2, <2>3, <2>4, Zenon DEF Settled
    <2> QED BY <1>4, <2>5 DEF h
  <1> QED BY <1>4, <1>5, <1>6, <1>7

LEMMA TripKeeps ==
  ASSUME NEW s \in RawEvent
  PROVE  Kept(AsRawCloudEvent(CloudEventToProto(s)), s)
PROOF
  <1> DEFINE xs == [name \in ExtraNames |-> Unmarshal(Marshal(s.header.extras[name]))]
             h == [strings |-> s.header.strings, time |-> s.header.time,
                   tags |-> TagsOrEmpty(s.header.tags), extras |-> xs]
             e == AsRawCloudEvent(CloudEventToProto(s))
  <1>1. \A name \in ExtraNames : s.header.extras[name] \in GoExtra
    BY DEF RawEvent, CloudEventHeader
  <1>2. ASSUME NEW x \in GoExtra, x \notin {"unmarshalable", "absent"}
        PROVE  Unmarshal(Marshal(x)) # "absent"
    BY <1>2 DEF GoExtra, Marshal, Unmarshal
  <1>3. e = [header |-> h, data |-> s.data, dataBase64 |-> ""]
    BY TripFields
  <1>4. \A name \in ExtraNames : xs[name] = Unmarshal(Marshal(s.header.extras[name]))
    OBVIOUS
  <1> HIDE DEF xs, e
  <1>5. /\ e.header = h /\ e.data = s.data /\ e.dataBase64 = ""
        /\ h.strings = s.header.strings /\ h.time = s.header.time
        /\ h.tags = TagsOrEmpty(s.header.tags) /\ h.extras = xs
    BY <1>3, HeaderFields, EventFields
  <1> HIDE DEF h
  <1>6. Kept(e, s)
    BY <1>1, <1>2, <1>4, <1>5 DEF Kept
  <1> QED BY <1>6 DEF e

LEMMA SettledKeeps ==
  ASSUME NEW e \in Received, NEW s \in RawEvent, Kept(e, s)
  PROVE  Kept(Settled(e), s)
PROOF
  <1>1. Kept(Settled(e), e)
    BY TripKeeps, TripSettles, ReceivedIsRaw
  <1>2. TagsOrEmpty(e.header.tags) = e.header.tags
    <2>1. \A g : TagsOrEmpty(TagsOrEmpty(g)) = TagsOrEmpty(g)
      BY DEF TagsOrEmpty
    <2> QED BY <2>1, Zenon DEF Kept
  <1>3. \A name \in ExtraNames : e.header.extras[name] # "unmarshalable"
    BY DEF Received, ReceivedHeader, Decoded
  <1> QED BY <1>1, <1>2, <1>3 DEF Kept

-----------------------------------------------------------------------------
LEMMA TripStart == TripInit => TripInv
PROOF
  <1> SUFFICES ASSUME TripInit PROVE TripInv
    OBVIOUS
  <1>1. CASE event \in Events /\ wire = None
    BY <1>1, EventsAssumption, NoneApart DEF TripInit, TripInv, TripType, Before, After
  <1>2. CASE event = None /\ wire \in Foreign
    BY <1>2, ForeignAssumption, NoneApart DEF TripInit, TripInv, TripType, Before, After
  <1> QED BY <1>1, <1>2 DEF TripInit

LEMMA CurrentReceived ==
  ASSUME TripInv, trips > 0
  PROVE  Current \in Received
PROOF BY TripSettles DEF TripInv, After, Current

LEMMA SendStep ==
  ASSUME TripInv, Send
  PROVE  TripInv'
PROOF
  <1>1. event # None /\ wire' = CloudEventToProto(event) /\ event' = None
        /\ UNCHANGED <<trips, first, sent>>
    BY DEF Send, TripInv, TripType
  <1>2. trips = 0 => event = sent /\ sent \in RawEvent
    BY <1>1 DEF TripInv, Before
  <1>3. trips > 0 => event = Current /\ event \in Received
    BY <1>1, CurrentReceived DEF TripInv, After
  <1>4. event \in RawEvent
    BY <1>2, <1>3, ReceivedIsRaw DEF TripInv, TripType
  <1>5. wire' # None
    BY <1>1, <1>4, SentIsProto, NoneApart
  <1> QED BY <1>1, <1>2, <1>3, <1>5, NoneApart DEF TripInv, TripType, Before, After, Current

LEMMA ReceiveStep ==
  ASSUME TripInv, Receive
  PROVE  TripInv'
PROOF
  <1>1. /\ wire # None /\ event' = AsRawCloudEvent(wire) /\ wire' = None
        /\ trips' = trips + 1 /\ trips \in Nat /\ sent' = sent
        /\ first' = IF first = None THEN event' ELSE first
    BY DEF Receive, TripInv, TripType
  <1>2. CASE trips = 0
    <2>1. first' = event' /\ trips' = 1
      BY <1>1, <1>2 DEF TripInv, Before
    <2>2. wire \in ProtoEvent /\ (sent # None => event' = AsRawCloudEvent(CloudEventToProto(sent)))
      <3>1. CASE sent = None
        BY <1>1, <1>2, <3>1, ForeignAssumption DEF TripInv, Before
      <3>2. CASE sent # None
        BY <1>1, <1>2, <3>2, SentIsProto DEF TripInv, TripType, Before
      <3> QED BY <3>1, <3>2
    <2>3. event' \in Received /\ event' # None
      BY <1>1, <2>2, ReceivedIsRaw, NoneApart
    <2>4. sent # None => Kept(event', sent)
      BY <2>2, TripKeeps DEF TripInv, TripType
    <2> QED BY <1>1, <2>1, <2>3, <2>4 DEF TripInv, TripType, Before, After, Current
  <1>3. CASE trips > 0
    <2>1. first \in Received /\ wire = CloudEventToProto(Current) /\ Current \in Received
      BY <1>1, <1>3, CurrentReceived DEF TripInv, After
    <2>2. first # None
      BY <2>1, ReceivedIsRaw, NoneApart
    <2>3. event' = Settled(first) /\ event' \in Received
      BY <1>1, <2>1, TripSettles DEF Current
    <2>4. event' # None /\ trips' # 1 /\ trips' # 0 /\ trips' > 0 /\ trips' \in Nat
      BY <1>1, <1>3, <2>3, ReceivedIsRaw, NoneApart
    <2> QED BY <1>1, <1>3, <2>1, <2>2, <2>3, <2>4 DEF TripInv, TripType, Before, After, Current
  <1> QED BY <1>1, <1>2, <1>3

THEOREM TripInvariance == TripSpec => []TripInv
PROOF
  <1>1. TripInit => TripInv
    BY TripStart
  <1>2. TripInv /\ [TripNext]_tripVars => TripInv'
    <2>1. CASE UNCHANGED tripVars
      BY <2>1 DEF tripVars, TripInv, TripType, Before, After, Current
    <2> QED BY <2>1, SendStep, ReceiveStep DEF TripNext
  <1> QED BY <1>1, <1>2, PTL DEF TripSpec

(* Every holder after the first trip sees what the first one saw. *)
THEOREM OneTripSettles == TripSpec => []SettlesAfterOneTrip
PROOF
  <1>1. TripInv => SettlesAfterOneTrip
    BY DEF TripInv, TripType, After, Current, Settled, SettlesAfterOneTrip
  <1> QED BY <1>1, TripInvariance, PTL

(* No trip, however late, loses what the first one kept. *)
THEOREM TripsKeepWhatTheyCan == TripSpec => []KeepsWhatItCan
PROOF
  <1>1. TripInv => KeepsWhatItCan
    <2> SUFFICES ASSUME TripInv, event # None, trips > 0, sent # None
                 PROVE  Kept(event, sent)
      BY DEF KeepsWhatItCan, Kept
    <2>1. first \in Received /\ Kept(first, sent) /\ event = Current /\ sent \in RawEvent
      BY DEF TripInv, TripType, After
    <2> QED BY <2>1, SettledKeeps DEF Current
  <1> QED BY <1>1, TripInvariance, PTL
=============================================================================
