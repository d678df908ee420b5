------------------------------- MODULE Server -------------------------------
(***************************************************************************)
(* The life of the process: main (cmd/waiting-room/main.go), the           *)
(* dependencies it opens (internal/app/deps.go) and the HTTP server it     *)
(* runs until a signal or an error ends it (internal/app/server.go).       *)
(*                                                                         *)
(* Three kinds of goroutines take part: main, which ends up in Run's       *)
(* select and in Shutdown; the one Run starts to call ListenAndServe and   *)
(* to send its result on errCh; and a handler per request.  What happens   *)
(* inside a handler is EnterWaitingRoom; the process that exits under its  *)
(* handlers is Restart there.                                              *)
(***************************************************************************)
EXTENDS Naturals, Sequences

CONSTANT Connections    \* connections that can be open at a time

VARIABLES
    main,       \* where main is
    signalled,  \* SIGINT or SIGTERM has cancelled ctx
    redis,      \* the Valkey client: "none", "open" or "closed"
    listener,   \* where ListenAndServe is, or what it has returned
    reported,   \* its goroutine has sent the result and ended
    errCh,      \* the channel between the two, of capacity 1
    stopping,   \* http.Server.Shutdown has been called
    conns,      \* the open connections: those that Shutdown waits for
    inFlight,   \* the connections whose handler runs
    result,     \* exit status: "none" while the process lives, "ok" or "fatal"
    killed      \* handlers that the exit has cut off

serving == <<listener, reported, errCh, conns, inFlight>>
vars    == <<main, signalled, redis, listener, reported, errCh, stopping, conns, inFlight,
             result, killed>>

Init ==
    /\ main = "load" /\ signalled = FALSE
    /\ redis = "none"
    /\ listener = "off" /\ reported = FALSE /\ errCh = <<>> /\ stopping = FALSE
    /\ conns = {} /\ inFlight = {}
    /\ result = "none" /\ killed = {}
-----------------------------------------------------------------------------
(***************************************************************************)
(* Start-up.                                                               *)
(***************************************************************************)
Running == main # "exited"

\* The process ends.  log.Fatal does not run main's deferred calls.
Exit(status) ==
    /\ main' = "exited" /\ result' = status /\ killed' = inFlight

\* The rest of a start-up step that does not end the process.
Proceed(next) == main' = next /\ UNCHANGED <<result, killed>>

\* config.Load accepts the environment or refuses it.
Load ==
    /\ main = "load"
    /\ Proceed("connect") \/ Exit("fatal")
    /\ UNCHANGED <<signalled, redis, serving, stopping>>

\* redis.NewClient and PING.  A cancelled ctx makes the command fail.
Connect ==
    /\ main = "connect"
    /\ \/ ~signalled /\ redis' = "open" /\ Proceed("seed")
       \/ redis' = "closed" /\ Exit("fatal")
    /\ UNCHANGED <<signalled, serving, stopping>>

\* The empty room is saved; an error closes the client again.  Then Run makes
\* the channel and starts the listener's goroutine.
Seed ==
    /\ main = "seed"
    /\ \/ ~signalled /\ listener' = "starting" /\ Proceed("select") /\ UNCHANGED redis
       \/ redis' = "closed" /\ Exit("fatal") /\ UNCHANGED listener
    /\ UNCHANGED <<signalled, reported, errCh, conns, inFlight, stopping>>
-----------------------------------------------------------------------------
(***************************************************************************)
(* The listener's goroutine.                                               *)
(***************************************************************************)

\* ListenAndServe binds the address, or fails.  It returns ErrServerClosed if
\* Shutdown came first.
Listen ==
    /\ Running /\ listener = "starting"
    /\ listener' \in {"failed", IF stopping THEN "closed" ELSE "listening"}
    /\ UNCHANGED <<main, signalled, redis, reported, errCh, stopping, conns, inFlight, result, killed>>

\* Serve returns: on an error of Accept, or ErrServerClosed after Shutdown.
ServeReturns ==
    /\ Running /\ listener = "listening"
    /\ listener' = IF stopping THEN "closed" ELSE "failed"
    /\ UNCHANGED <<main, signalled, redis, reported, errCh, stopping, conns, inFlight, result, killed>>

\* (Mutants: the goroutine just ends when the server has been closed; it
\* sends nil after an error as well.)
ReportErrorOnly ==
    /\ Running /\ listener \in {"failed", "closed"} /\ ~reported
    /\ Len(errCh) < 1
    /\ errCh' = IF listener = "failed" THEN Append(errCh, "error") ELSE errCh
    /\ reported' = TRUE
    /\ UNCHANGED <<main, signalled, redis, listener, stopping, conns, inFlight, result, killed>>

ReportTwice ==
    /\ Running /\ listener \in {"failed", "closed"} /\ ~reported
    /\ errCh' = IF listener = "failed" THEN errCh \o <<"error", "nil">> ELSE Append(errCh, "nil")
    /\ reported' = TRUE
    /\ UNCHANGED <<main, signalled, redis, listener, stopping, conns, inFlight, result, killed>>

\* It sends the error, or nil instead of ErrServerClosed.
Report ==
    /\ Running /\ listener \in {"failed", "closed"} /\ ~reported
    /\ Len(errCh) < 1
    /\ errCh' = Append(errCh, IF listener = "failed" THEN "error" ELSE "nil")
    /\ reported' = TRUE
    /\ UNCHANGED <<main, signalled, redis, listener, stopping, conns, inFlight, result, killed>>
-----------------------------------------------------------------------------
(***************************************************************************)
(* Connections and their handlers (net/http).                              *)
(***************************************************************************)

\* A connection is accepted.
Accept(c) ==
    /\ Running /\ listener = "listening" /\ c \notin conns
    /\ conns' = conns \cup {c}
    /\ UNCHANGED <<main, signalled, redis, listener, reported, errCh, stopping, inFlight, result, killed>>

\* A request arrives on an open connection and its handler starts, even if
\* the listener has failed or Shutdown has been called.
Request(c) ==
    /\ Running /\ c \in conns \ inFlight
    /\ inFlight' = inFlight \cup {c}
    /\ UNCHANGED <<main, signalled, redis, listener, reported, errCh, stopping, conns, result, killed>>

\* A handler returns.  Shutdown does not cancel its context, but takes care
\* that its connection is not kept alive.
Answer(c) ==
    /\ Running /\ c \in inFlight
    /\ inFlight' = inFlight \ {c}
    /\ \/ ~stopping /\ UNCHANGED conns
       \/ conns' = conns \ {c}
    /\ UNCHANGED <<main, signalled, redis, listener, reported, errCh, stopping, result, killed>>

\* An idle connection is closed, by its client or by Shutdown.
Disconnect(c) ==
    /\ Running /\ c \in conns \ inFlight
    /\ conns' = conns \ {c}
    /\ UNCHANGED <<main, signalled, redis, listener, reported, errCh, stopping, inFlight, result, killed>>
-----------------------------------------------------------------------------
(***************************************************************************)
(* Run, from its select on, and the end of main.                           *)
(***************************************************************************)

\* signal.NotifyContext cancels ctx.
Signal ==
    /\ Running /\ ~signalled
    /\ signalled' = TRUE
    /\ UNCHANGED <<main, redis, serving, stopping, result, killed>>

\* main is given what Run returns: any error is fatal, after nil the deferred
\* calls run.
Return(err) ==
    IF err = "nil" THEN Proceed("close") ELSE Exit("fatal")

\* The listener's result arrives, in the select or after Shutdown.
Receive ==
    /\ main \in {"select", "receive"} /\ errCh # <<>>
    /\ errCh' = Tail(errCh)
    /\ Return(Head(errCh))
    /\ UNCHANGED <<signalled, redis, listener, reported, stopping, conns, inFlight>>

\* ctx is done: Shutdown begins.  If errCh is ready as well, select picks
\* either.
Stop ==
    /\ main = "select" /\ signalled
    /\ stopping' = TRUE
    /\ Proceed("shutdown")
    /\ UNCHANGED <<signalled, redis, serving>>

\* Shutdown has waited for Serve to return, and looks for open connections:
\* now and then, until there is none or its context is done.
Polls == main = "shutdown" /\ listener # "listening"

\* (Mutants: the listener's result is forgotten; whatever Shutdown returns,
\* the listener's result is awaited.)
DrainedUnheard ==
    /\ Polls /\ conns = {}
    /\ Proceed("close")
    /\ UNCHANGED <<signalled, redis, serving, stopping>>

DeadlineIgnored ==
    /\ main = "waiting"
    /\ Proceed("receive")
    /\ UNCHANGED <<signalled, redis, serving, stopping>>

\* There is none: Shutdown returns nil.
Drained ==
    /\ Polls /\ conns = {}
    /\ Proceed("receive")
    /\ UNCHANGED <<signalled, redis, serving, stopping>>

Busy ==
    /\ Polls /\ conns # {}
    /\ Proceed("waiting")
    /\ UNCHANGED <<signalled, redis, serving, stopping>>

Again ==
    /\ main = "waiting"
    /\ Proceed("shutdown")
    /\ UNCHANGED <<signalled, redis, serving, stopping>>

\* The shutdown timeout passes between two looks: Shutdown returns
\* DeadlineExceeded, and so does Run, even if the last handler has returned
\* since.
Deadline ==
    /\ main = "waiting"
    /\ Return("deadline")
    /\ UNCHANGED <<signalled, redis, serving, stopping>>

\* main returns: deps.Close, then the process exits.
Close ==
    /\ main = "close"
    /\ redis' = "closed"
    /\ Exit("ok")
    /\ UNCHANGED <<signalled, serving, stopping>>

MainStep ==
    \/ Load \/ Connect \/ Seed \/ Receive \/ Stop
    \/ Drained \/ Busy \/ Again \/ Deadline \/ Close

ListenerStep == Listen \/ ServeReturns \/ Report

ConnectionStep == \E c \in Connections : Accept(c) \/ Request(c) \/ Answer(c) \/ Disconnect(c)

Next == MainStep \/ ListenerStep \/ Signal \/ ConnectionStep

\* Goroutines that can run do run, and timers fire: the timeout is not put
\* off for ever by Shutdown's looks.  Nothing is assumed of handlers, which
\* may hang on Valkey or on a slow client, nor of clients and signals.
Fairness ==
    /\ WF_vars(MainStep) /\ SF_vars(Deadline)
    /\ WF_vars(Listen) /\ WF_vars(stopping /\ ServeReturns) /\ WF_vars(Report)

Spec == Init /\ [][Next]_vars /\ Fairness
=============================================================================
