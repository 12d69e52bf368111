-------------------------------- MODULE Service --------------------------------
(***************************************************************************)
(* One process with its two servers (main.py, _serve): the application's   *)
(* port and the operations port with the probes (observability/health.py,  *)
(* port_routing.py, api/routes_operations.py, api/routes_ping.py).         *)
(*                                                                         *)
(* Each uvicorn server installs handlers of SIGTERM and SIGINT while it    *)
(* runs, one after the other: a signal reaches the server that installed   *)
(* last; when that has ended, it hands the signals it caught to the other. *)
(* So the operations port closes first, and the main server, which ends    *)
(* last, hands its signals to the system: the process ends before lifespan *)
(* can go on after its yield, and no probe ever finds shutting_down set.   *)
(* Boot is the subject of Setup: here it is one step.  A signal that comes *)
(* while the ports are being bound is left out.                            *)
(***************************************************************************)
EXTENDS RateLimiter, FiniteSets

CONSTANTS
  Request,     \* requests
  MaxSignals   \* bound on the signals one process gets

ASSUME SignalsAssumption == MaxSignals \in Nat

Port == {"main", "operations"}

\* What a request asks for: "alive" is /livez, /startupz or /metrics, which look at
\* nothing that changes here; "ready" is /readyz; "work" is anything else.
Path == {"alive", "ready", "ping", "work"}

OperationsPaths == {"alive", "ready"}

Signal == {"term", "int"}

VARIABLES
  server,    \* server[p]: where the server of port p is
  caught,    \* caught[p]: the signals it has caught
  ended,     \* how the last process ended
  healthy,   \* check_health would succeed now
  pc,        \* pc[r]: where request r is
  port,      \* port[r]: the port it came through
  path,      \* path[r]: what it asks for
  checked,   \* checked[r]: what its check_health found
  answer,    \* answer[r]: its status or body
  saw,       \* history: the storage was healthy at some time since r came
  cut        \* history: requests the end of the last process has cut off

serverVars == <<server, caught, ended>>
requestVars == <<pc, port, path, checked, answer, saw>>
vars == <<limiterVars, serverVars, healthy, requestVars, cut>>

Answers == {"none", "ok", "ready", "notReady", "pong", "tooMany", "notFound", "done"}

TypeOK ==
  /\ LimiterTypeOK
  /\ server \in [Port -> {"down", "binding", "open", "draining", "stopped"}]
  /\ caught \in [Port -> Seq(Signal)]
  /\ ended \in {"never", "stopped", "failed"}
  /\ healthy \in BOOLEAN
  /\ pc \in [Request -> {"idle", "open", "checked", "answered"}]
  /\ port \in [Request -> Port]
  /\ path \in [Request -> Path]
  /\ checked \in [Request -> BOOLEAN]
  /\ answer \in [Request -> Answers]
  /\ saw \in [Request -> BOOLEAN]
  /\ cut \subseteq Request

Init ==
  /\ LimiterInit
  /\ server = [p \in Port |-> "down"]
  /\ caught = [p \in Port |-> <<>>]
  /\ ended = "never"
  /\ healthy \in BOOLEAN
  /\ pc = [r \in Request |-> "idle"]
  /\ port = [r \in Request |-> "main"]
  /\ path = [r \in Request |-> "work"]
  /\ checked = [r \in Request |-> FALSE]
  /\ answer = [r \in Request |-> "none"]
  /\ saw = [r \in Request |-> FALSE]
  /\ cut = {}

Open(r) == pc[r] \in {"open", "checked"}

-----------------------------------------------------------------------------
(* The process *)

\* The lifespan's part before its yield, which fails if the storage is not healthy.
\* The limiter is the process's own.
Boot ==
  /\ \A p \in Port : server[p] = "down"
  /\ healthy
  /\ server' = [p \in Port |-> "binding"]
  /\ caught' = [p \in Port |-> <<>>]
  /\ count' = 0
  /\ start' = 0
  /\ pongs' = <<>>
  /\ cut' = {}
  /\ UNCHANGED <<now, ended, healthy, requestVars>>

Listen(p) ==
  /\ server[p] = "binding"
  /\ server' = [server EXCEPT ![p] = "open"]
  /\ UNCHANGED <<limiterVars, caught, ended, healthy, requestVars, cut>>

\* The process is gone, and with it what it was doing.
Exit(how) ==
  /\ server' = [p \in Port |-> "down"]
  /\ ended' = how
  /\ cut' = {r \in Request : Open(r)}
  /\ pc' = [r \in Request |-> "idle"]
  /\ port' = [r \in Request |-> "main"]
  /\ path' = [r \in Request |-> "work"]
  /\ checked' = [r \in Request |-> FALSE]
  /\ answer' = [r \in Request |-> "none"]
  /\ saw' = [r \in Request |-> FALSE]
  /\ UNCHANGED <<limiterVars, caught, healthy>>

\* A port is taken: sys.exit.  Or the process is killed.
Fail ==
  /\ \E p \in Port : server[p] # "down"
  /\ Exit("failed")

\* Mutant: the servers are handed to gather the other way round.
LastMain == "main"

\* The server that gather starts last, whose handlers are in place until it has stopped.
Last == "operations"

\* The server that a signal reaches.
Handler == CHOOSE p \in Port : (p = Last) = (server[Last] # "stopped")

\* handle_exit of the server.
Stop(s) ==
  /\ \A p \in Port : server[p] \notin {"down", "binding"}
  /\ Len(caught["main"]) + Len(caught["operations"]) < MaxSignals
  /\ caught' = [caught EXCEPT ![Handler] = Append(@, s)]
  /\ UNCHANGED <<limiterVars, server, ended, healthy, requestVars, cut>>

\* A second signal is an interrupt: the server does not wait for its requests.
Forced(p) == \E i \in 2..Len(caught[p]) : caught[p][i] = "int"

\* The main loop finds that it should exit and closes the port.
Drain(p) ==
  /\ server[p] = "open"
  /\ caught[p] # <<>>
  /\ server' = [server EXCEPT ![p] = "draining"]
  /\ UNCHANGED <<limiterVars, caught, ended, healthy, requestVars, cut>>

Drained(p) ==
  /\ server[p] = "draining"
  /\ Forced(p) \/ \A r \in Request : port[r] = p => ~Open(r)

\* Mutant: the process ends with the first of its servers.
LastStopsEnding ==
  /\ Drained(Last)
  /\ Exit("stopped")

\* The server of the last port ends and raises its signals again, the latest first, for
\* the handlers of the other.
LastStops ==
  /\ Drained(Last)
  /\ server' = [server EXCEPT ![Last] = "stopped"]
  /\ caught' = [p \in Port |->
                  IF p = Last THEN caught[p]
                  ELSE [i \in 1..Len(caught[Last]) |-> caught[Last][Len(caught[Last]) + 1 - i]]]
  /\ UNCHANGED <<limiterVars, ended, healthy, requestVars, cut>>

\* So does the other: the default handlers end the process, by the signal or by the
\* cancellation of _serve.
FirstStops ==
  /\ \E p \in Port \ {Last} : Drained(p)
  /\ Exit("stopped")

-----------------------------------------------------------------------------
(* Requests *)

Connect(r, p, k) ==
  /\ server[p] = "open"
  /\ pc[r] \in {"idle", "answered"}
  /\ pc' = [pc EXCEPT ![r] = "open"]
  /\ port' = [port EXCEPT ![r] = p]
  /\ path' = [path EXCEPT ![r] = k]
  /\ checked' = [checked EXCEPT ![r] = FALSE]
  /\ answer' = [answer EXCEPT ![r] = "none"]
  /\ saw' = [saw EXCEPT ![r] = healthy]
  /\ UNCHANGED <<limiterVars, serverVars, healthy, cut>>

\* The request is over; only its answer is kept.
Respond(r, a) ==
  /\ pc' = [pc EXCEPT ![r] = "answered"]
  /\ answer' = [answer EXCEPT ![r] = a]
  /\ port' = [port EXCEPT ![r] = "main"]
  /\ path' = [path EXCEPT ![r] = "work"]
  /\ checked' = [checked EXCEPT ![r] = FALSE]
  /\ saw' = [saw EXCEPT ![r] = FALSE]
  /\ UNCHANGED <<serverVars, healthy, cut>>

\* PortRestrictionMiddleware lets the request through.
Routed(r) == (port[r] = "operations") = (path[r] \in OperationsPaths)

Handles(r, k) == pc[r] = "open" /\ path[r] = k /\ Routed(r)

NotFound(r) ==
  /\ pc[r] = "open"
  /\ ~Routed(r)
  /\ Respond(r, "notFound")
  /\ UNCHANGED limiterVars

Alive(r) ==
  /\ Handles(r, "alive")
  /\ Respond(r, "ok")
  /\ UNCHANGED limiterVars

\* check_ready waits for check_health of the store,
CheckHealth(r) ==
  /\ Handles(r, "ready")
  /\ pc' = [pc EXCEPT ![r] = "checked"]
  /\ checked' = [checked EXCEPT ![r] = healthy]
  /\ UNCHANGED <<limiterVars, serverVars, healthy, port, path, answer, saw, cut>>

\* and answers by what it found.
Ready(r) ==
  /\ pc[r] = "checked"
  /\ Respond(r, IF checked[r] THEN "ready" ELSE "notReady")
  /\ UNCHANGED limiterVars

Pong(r) ==
  /\ Handles(r, "ping")
  /\ Counted
  /\ Respond(r, "pong")

\* 429 with Retry-After.
TooMany(r) ==
  /\ Handles(r, "ping")
  /\ Exhausted
  /\ Respond(r, "tooMany")

\* Any other handler, however long it takes.
Work(r) ==
  /\ Handles(r, "work")
  /\ Respond(r, "done")
  /\ UNCHANGED limiterVars

-----------------------------------------------------------------------------
(* The environment *)

Tick ==
  /\ TimePasses
  /\ UNCHANGED <<serverVars, healthy, requestVars, cut>>

\* The storage fails or recovers.
StorageChanges ==
  /\ healthy' = ~healthy
  /\ saw' = [r \in Request |-> saw[r] \/ (Open(r) /\ healthy')]
  /\ UNCHANGED <<limiterVars, serverVars, pc, port, path, checked, answer, cut>>

Next ==
  \/ Boot \/ Fail \/ LastStops \/ FirstStops
  \/ \E p \in Port : Listen(p) \/ Drain(p)
  \/ \E s \in Signal : Stop(s)
  \/ \E r \in Request :
       \/ \E p \in Port, k \in Path : Connect(r, p, k)
       \/ NotFound(r) \/ Alive(r) \/ CheckHealth(r) \/ Ready(r)
       \/ Pong(r) \/ TooMany(r) \/ Work(r)
  \/ Tick \/ StorageChanges

Spec == Init /\ [][Next]_vars

-----------------------------------------------------------------------------
(* Properties *)

\* A ping is answered only within the limit and refused only if the limit is used up.
LimitKept ==
  [][\A r \in Request :
       answer[r] = "none" =>
         /\ answer'[r] = "pong" => PongsBounded'
         /\ answer'[r] = "tooMany" => Justified(now)]_vars

\* /readyz says ready only if the storage was healthy while it was asked and the
\* application's port has not been closed to new requests, even if the process was told
\* to stop meanwhile; an interrupt after another signal is an exception.
ReadyHonest ==
  [][\A r \in Request :
       answer[r] = "none" /\ answer'[r] = "ready" =>
         /\ saw[r]
         /\ Forced("operations") \/ server["main"] \in {"binding", "open"}]_vars

\* A process that was told to stop, and not interrupted after that, ends when every
\* request it had accepted is answered.
NothingCutOff ==
  ended = "stopped" /\ (\A p \in Port : ~Forced(p)) => cut = {}

\* The inductive invariant behind them: the ports are up or down together, the main one
\* is told to stop only when the operations port has, a request outlives its port only
\* by an interrupt, and what /readyz found was so while it was asked.
ServiceInv ==
  /\ TypeOK
  /\ LimiterInv
  /\ server["main"] # "stopped"
  /\ server["main"] = "down" <=> server["operations"] = "down"
  /\ caught["main"] # <<>> => server["operations"] \in {"stopped", "down"}
  /\ server["main"] = "draining" => server["operations"] = "stopped"
  /\ \A r \in Request :
       /\ Open(r) =>
            /\ server[port[r]] \notin {"down", "binding"}
            /\ server[port[r]] = "stopped" => Forced(port[r])
            /\ healthy => saw[r]
       /\ pc[r] = "checked" => port[r] = "operations" /\ (checked[r] => saw[r])
  /\ server["main"] # "down" => cut = {}
  /\ NothingCutOff
===============================================================================
