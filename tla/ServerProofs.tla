---------------------------- MODULE ServerProofs ----------------------------
(***************************************************************************)
(* Proofs about the life of the process, for any number of connections.    *)
(*                                                                         *)
(* The three results are read off one invariant.  Its core is where main   *)
(* can be while the server is stopping, and what a nil on errCh means: the *)
(* listener has been closed, hence Shutdown was called, hence main is past *)
(* its select and takes the nil only after Shutdown has seen no connection *)
(* once nothing could be accepted any more.                                *)
(***************************************************************************)
EXTENDS ServerProperties, SequenceTheorems, TLAPS

Stopped == {"shutdown", "waiting", "receive", "close", "exited"}

Phases ==
    /\ main \in {"load", "connect", "seed"} => listener = "off"
    /\ listener = "off" => conns = {}
    /\ inFlight \subseteq conns
    /\ stopping => main \in Stopped
    /\ main \in {"shutdown", "waiting"} => stopping
    /\ main \in {"receive", "close"} => stopping /\ listener # "listening" /\ conns = {}
    /\ main = "close" => listener = "closed"

Channel ==
    /\ listener = "closed" => stopping
    /\ Len(errCh) = 1 => errCh[1] = IF listener = "closed" THEN "nil" ELSE "error"
    /\ Len(errCh) = 1 => listener \in {"closed", "failed"}

Ending ==
    /\ result = "ok" => main = "exited" /\ killed = {} /\ listener = "closed"

Inv == TypeOK /\ Phases /\ Channel /\ Ending

\* A channel of capacity 1 is empty or holds one result.
LEMMA ChannelLemma ==
    ASSUME errCh \in Seq(Errors), Len(errCh) <= 1
    PROVE  /\ errCh # <<>> => Len(errCh) = 1 /\ Head(errCh) = errCh[1] /\ errCh[1] \in Errors
           /\ errCh # <<>> => Tail(errCh) \in Seq(Errors) /\ Len(Tail(errCh)) = 0
           /\ \A e \in Errors : Len(errCh) < 1 =>
                 /\ Append(errCh, e) \in Seq(Errors)
                 /\ Len(Append(errCh, e)) = 1 /\ Append(errCh, e)[1] = e
<1>1. errCh # <<>> => Len(errCh) = 1
  BY EmptySeq
<1>2. errCh # <<>> => Head(errCh) = errCh[1] /\ errCh[1] \in Errors
  BY <1>1
<1>3. errCh # <<>> => Tail(errCh) \in Seq(Errors) /\ Len(Tail(errCh)) = 0
  BY <1>1
<1>4. ASSUME NEW e \in Errors, Len(errCh) < 1
      PROVE  /\ Append(errCh, e) \in Seq(Errors)
             /\ Len(Append(errCh, e)) = 1 /\ Append(errCh, e)[1] = e
  BY <1>4
<1> QED
  BY <1>1, <1>2, <1>3, <1>4

\* The process starts with the inductive invariant.
LEMMA InitInv == Init => Inv
<1> SUFFICES ASSUME Init PROVE Inv
  OBVIOUS
<1>1. errCh \in Seq(Errors) /\ Len(errCh) = 0
  BY DEF Init
<1>2. signalled \in BOOLEAN /\ reported \in BOOLEAN /\ stopping \in BOOLEAN
  BY Zenon DEF Init
<1>3. TypeOK
  BY <1>1, <1>2 DEF Init, TypeOK, MainStates, ListenerStates
<1>4. Phases /\ Channel /\ Ending
  BY <1>1 DEF Init, Phases, Channel, Ending, Stopped
<1> QED
  BY <1>3, <1>4 DEF Inv

\* The steps of main.
LEMMA MainInv == Inv /\ MainStep => Inv'
<1> SUFFICES ASSUME Inv, MainStep PROVE Inv'
  OBVIOUS
<1> USE DEF Inv, TypeOK, MainStates, ListenerStates, Phases, Channel, Ending, Stopped, serving, Exit, Proceed, Return
<1>1. CASE Load
  BY <1>1 DEF Load
<1>2. CASE Connect
  BY <1>2 DEF Connect
<1>3. CASE Seed
  BY <1>3 DEF Seed
<1>4. CASE Receive
  <2>1. /\ Len(errCh) = 1 /\ Head(errCh) = errCh[1] /\ errCh[1] \in Errors
        /\ errCh' \in Seq(Errors) /\ Len(errCh') = 0
    BY <1>4, ChannelLemma DEF Receive
  <2>2. CASE Head(errCh) = "nil"
    <3>1. listener = "closed" /\ main = "receive"
      BY <1>4, <2>1, <2>2 DEF Receive
    <3> QED
      BY <1>4, <2>1, <2>2, <3>1 DEF Receive
  <2>3. CASE Head(errCh) = "error"
    BY <1>4, <2>1, <2>3 DEF Receive
  <2> QED
    BY <2>1, <2>2, <2>3 DEF Errors
<1>5. CASE Stop
  BY <1>5 DEF Stop
<1>6. CASE Drained
  BY <1>6 DEF Drained, Polls
<1>7. CASE Deadline
  BY <1>7 DEF Deadline
<1>8. CASE Close
  BY <1>8 DEF Close
<1>9. CASE Busy
  BY <1>9 DEF Busy, Polls
<1>10. CASE Again
  BY <1>10 DEF Again
<1> QED
  BY <1>1, <1>2, <1>3, <1>4, <1>5, <1>6, <1>7, <1>8, <1>9, <1>10 DEF MainStep

\* The steps of the listener's goroutine, of the connections and of the signal.
LEMMA OtherInv == Inv /\ (ListenerStep \/ Signal \/ ConnectionStep) => Inv'
<1> SUFFICES ASSUME Inv, ListenerStep \/ Signal \/ ConnectionStep
             PROVE  Inv'
  OBVIOUS
<1> USE DEF Inv, TypeOK, MainStates, ListenerStates, Phases, Channel, Ending, Stopped, serving, Running
<1>1. CASE Listen
  BY <1>1 DEF Listen
<1>2. CASE ServeReturns
  BY <1>2 DEF ServeReturns
<1>3. CASE Report
  <2>1. PICK e \in Errors : e = (IF listener = "failed" THEN "error" ELSE "nil") /\ errCh' = Append(errCh, e)
    BY <1>3 DEF Report, Errors
  <2>2. errCh' \in Seq(Errors) /\ Len(errCh') = 1 /\ errCh'[1] = e
    BY <1>3, <2>1, ChannelLemma DEF Report
  <2> QED
    BY <1>3, <2>1, <2>2 DEF Report
<1>4. CASE Signal
  BY <1>4 DEF Signal
<1>5. ASSUME NEW c \in Connections, Accept(c) PROVE Inv'
  BY <1>5 DEF Accept
<1>6. ASSUME NEW c \in Connections, Request(c) PROVE Inv'
  BY <1>6 DEF Request
<1>7. ASSUME NEW c \in Connections, Answer(c) PROVE Inv'
  BY <1>7 DEF Answer
<1>8. ASSUME NEW c \in Connections, Disconnect(c) PROVE Inv'
  BY <1>8 DEF Disconnect
<1> QED
  BY <1>1, <1>2, <1>3, <1>4, <1>5, <1>6, <1>7, <1>8 DEF ListenerStep, ConnectionStep

\* The inductive invariant always holds.
LEMMA Invariance == Spec => []Inv
<1>1. Inv /\ UNCHANGED vars => Inv'
  BY DEF Inv, TypeOK, Phases, Channel, Ending, vars
<1>2. Inv /\ [Next]_vars => Inv'
  BY <1>1, MainInv, OtherInv DEF Next
<1> QED
  BY InitInv, <1>2, PTL DEF Spec

\* The variables of the process are of their types, and errCh never holds
\* more than one result.
THEOREM ServerTypeCorrect == Spec => []TypeOK
<1>1. Inv => TypeOK
  BY DEF Inv
<1> QED
  BY Invariance, <1>1, PTL

\* Run returns nil, and the process exits with status 0, only when no handler
\* is cut off.
THEOREM OkIsDrained == Spec => []OkMeansDrained
<1>1. Inv => OkMeansDrained
  BY DEF Inv, Ending, OkMeansDrained
<1> QED
  BY Invariance, <1>1, PTL

\* The error of ListenAndServe reaches the exit status, whichever case Run's
\* select picks.
THEOREM ListenErrorNotLost == Spec => []ListenErrorReported
<1>1. Inv => ListenErrorReported
  BY DEF Inv, Ending, ListenErrorReported
<1> QED
  BY Invariance, <1>1, PTL
=============================================================================
