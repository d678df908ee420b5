-------------------------- MODULE ServerProperties --------------------------
(***************************************************************************)
(* What a shutdown promises the requests in flight, and the operator.      *)
(***************************************************************************)
EXTENDS Server

MainStates     == {"load", "connect", "seed", "select",
                   "shutdown", "waiting", "receive", "close", "exited"}
ListenerStates == {"off", "starting", "listening", "failed", "closed"}
Errors         == {"error", "nil"}

\* The variables hold what the code can put there; errCh never holds more
\* than its capacity.
TypeOK ==
    /\ main \in MainStates /\ signalled \in BOOLEAN
    /\ redis \in {"none", "open", "closed"}
    /\ listener \in ListenerStates /\ reported \in BOOLEAN
    /\ errCh \in Seq(Errors) /\ Len(errCh) <= 1
    /\ stopping \in BOOLEAN
    /\ conns \in SUBSET Connections /\ inFlight \in SUBSET Connections
    /\ killed \in SUBSET Connections
    /\ result \in {"none", "ok", "fatal"}

\* An exit with status 0 has cut off no handler, whatever the order in which
\* the signal, the listener's result, requests on connections that are open
\* already, and the answers come.
OkMeansDrained == result = "ok" => killed = {}

\* An address that cannot be bound, or a listener that breaks, is an exit
\* status other than 0 even if a signal arrives at the same time.
ListenErrorReported == listener = "failed" => result # "ok"

\* A signal ends the process, even if a handler hangs.
SignalEndsProcess == signalled ~> main = "exited"
=============================================================================
