------------------------------ MODULE Lifecycle ------------------------------
(***************************************************************************)
(* How the process ends: run (cmd/kv-router/main.go), Server.Start         *)
(* (internal/api/server.go) and the goroutine in which Start listens.  The *)
(* three meet in two channels, both called errCh and both of capacity one. *)
(* Requests matter as far as Shutdown waits for them: their context is     *)
(* derived from the one that run cancels (BaseContext).  A second signal   *)
(* stays in its channel, where nobody reads it.                            *)
(***************************************************************************)
EXTENDS Integers

CONSTANT Requests   \* requests that may arrive

VARIABLES main,       \* run: "select", "waiting" or "exited"
          code,       \* its result: "none" before, "success" (0), "failure" (1)
          signalled,  \* sigCh holds a signal
          cancelled,  \* ctx has been cancelled
          start,      \* Start: "select", "shutdown", "last" or "returned"
          result,     \* run's errCh: "empty", "nil" or "error"
          listener,   \* "binding", "serving" or "ended"
          listenErr,  \* Start's errCh holds an error
          closing,    \* Shutdown has begun: the server accepts no more
          request     \* request[r]: "out", "inflight", "answered", "aborted"

vars == <<main, code, signalled, cancelled, start, result, listener, listenErr,
          closing, request>>

\* Start's errCh is closed once the listening goroutine has ended.
Readable == listenErr \/ listener = "ended"
Running == main # "exited"
InFlight == {r \in Requests : request[r] = "inflight"}

\* Types; in particular run ends with success or failure, or has not ended.
TypeOK ==
  /\ main \in {"select", "waiting", "exited"}
  /\ code \in {"none", "success", "failure"}
  /\ start \in {"select", "shutdown", "last", "returned"}
  /\ result \in {"empty", "nil", "error"}
  /\ listener \in {"binding", "serving", "ended"}
  /\ {signalled, cancelled, listenErr, closing} \subseteq BOOLEAN
  /\ request \in [Requests -> {"out", "inflight", "answered", "aborted"}]

Init ==
  /\ main = "select" /\ code = "none"
  /\ signalled = FALSE /\ cancelled = FALSE
  /\ start = "select" /\ result = "empty"
  /\ listener = "binding" /\ listenErr = FALSE
  /\ closing = FALSE
  /\ request = [r \in Requests |-> "out"]

-----------------------------------------------------------------------------
(* run: it waits for a signal or for Start.  Returning ends the process,   *)
(* and with it every goroutine.                                            *)

Exit(c) == main' = "exited" /\ code' = c

Signal ==
  /\ Running /\ ~signalled
  /\ signalled' = TRUE
  /\ UNCHANGED <<main, code, cancelled, start, result, listener, listenErr,
                 closing, request>>

\* Seeded fault: run forgets to cancel.
TakeSignalWithoutCancel ==
  /\ main = "select" /\ signalled
  /\ main' = "waiting"
  /\ UNCHANGED <<code, signalled, cancelled, start, result, listener, listenErr,
                 closing, request>>

TakeSignal ==
  /\ main = "select" /\ signalled
  /\ main' = "waiting"
  /\ cancelled' = TRUE
  /\ UNCHANGED <<code, signalled, start, result, listener, listenErr, closing,
                 request>>

\* Seeded fault: Start's result becomes the exit code as it is.
TakeResultAsCode ==
  /\ main \in {"select", "waiting"} /\ result # "empty"
  /\ main' = "exited" /\ code' = result
  /\ UNCHANGED <<signalled, cancelled, start, result, listener, listenErr,
                 closing, request>>

TakeResult ==
  /\ main \in {"select", "waiting"} /\ result # "empty"
  /\ Exit(IF result = "error" THEN "failure" ELSE "success")
  /\ UNCHANGED <<signalled, cancelled, start, result, listener, listenErr,
                 closing, request>>

-----------------------------------------------------------------------------
(* Start, which hands its result to run.                                   *)

Return(value) == start' = "returned" /\ result' = value

ReceiveListenResult ==
  /\ Running /\ start \in {"select", "last"} /\ Readable
  /\ Return(IF listenErr THEN "error" ELSE "nil")
  /\ listenErr' = FALSE
  /\ UNCHANGED <<main, code, signalled, cancelled, listener, closing, request>>

\* Shutdown closes the listener before it waits.
BeginShutdown ==
  /\ Running /\ start = "select" /\ cancelled
  /\ start' = "shutdown"
  /\ closing' = TRUE
  /\ UNCHANGED <<main, code, signalled, cancelled, result, listener, listenErr,
                 request>>

ShutdownDrains ==
  /\ Running /\ start = "shutdown" /\ InFlight = {}
  /\ start' = "last"
  /\ UNCHANGED <<main, code, signalled, cancelled, result, listener, listenErr,
                 closing, request>>

\* Seeded fault: the deadline of Shutdown is not an error.
ShutdownTimesOutQuietly ==
  /\ Running /\ start = "shutdown"
  /\ Return("nil")
  /\ UNCHANGED <<main, code, signalled, cancelled, listener, listenErr, closing,
                 request>>

\* Shutdown polls: the deadline may also come between the end of the last
\* request and the poll that would have seen it.
ShutdownTimesOut ==
  /\ Running /\ start = "shutdown"
  /\ Return("error")
  /\ UNCHANGED <<main, code, signalled, cancelled, listener, listenErr, closing,
                 request>>

-----------------------------------------------------------------------------
(* The listening goroutine: ListenAndServe fails to bind, which may also   *)
(* happen after Shutdown has begun, or to accept, or it returns            *)
(* ErrServerClosed, which is not an error; a server that is closing        *)
(* returns that for a failed accept too.                                   *)

Bind ==
  /\ Running /\ listener = "binding" /\ ~closing
  /\ listener' = "serving"
  /\ UNCHANGED <<main, code, signalled, cancelled, start, result, listenErr,
                 closing, request>>

ListenFails ==
  /\ Running
  /\ listener = "binding" \/ (listener = "serving" /\ ~closing)
  /\ listener' = "ended"
  /\ listenErr' = TRUE
  /\ UNCHANGED <<main, code, signalled, cancelled, start, result, closing, request>>

ServerClosed ==
  /\ Running /\ listener \in {"binding", "serving"} /\ closing
  /\ listener' = "ended"
  /\ UNCHANGED <<main, code, signalled, cancelled, start, result, listenErr,
                 closing, request>>

-----------------------------------------------------------------------------
(* Requests.                                                               *)

SetRequest(r, state) ==
  /\ request' = [request EXCEPT ![r] = state]
  /\ UNCHANGED <<main, code, signalled, cancelled, start, result, listener,
                 listenErr, closing>>

Arrive(r) ==
  /\ Running /\ listener = "serving" /\ ~closing /\ request[r] = "out"
  /\ SetRequest(r, "inflight")

Answer(r) ==
  /\ Running /\ request[r] = "inflight"
  /\ SetRequest(r, "answered")

(***************************************************************************)
(* The request's context is cancelled: the exchange with the backend ends  *)
(* with an error, and the handler with it.  A handler that is still        *)
(* reading from its caller, or is writing to it, is not ended by that, so  *)
(* nothing says that Abort must happen.                                    *)
(***************************************************************************)
Abort(r) ==
  /\ Running /\ request[r] = "inflight" /\ cancelled
  /\ SetRequest(r, "aborted")

-----------------------------------------------------------------------------
Run == TakeSignal \/ TakeResult

Start == ReceiveListenResult \/ BeginShutdown \/ ShutdownDrains

Listen == Bind \/ ServerClosed

Next ==
  \/ Signal
  \/ Run \/ Start \/ ShutdownTimesOut \/ Listen \/ ListenFails
  \/ \E r \in Requests : Arrive(r) \/ Answer(r) \/ Abort(r)

(***************************************************************************)
(* Goroutines that can move are scheduled, and the deadline of Shutdown    *)
(* comes if the requests in flight do not end before it.  Nothing makes a  *)
(* signal come, a request end, cancelled or not, or the listener fail.     *)
(***************************************************************************)
Fairness ==
  WF_vars(Run) /\ WF_vars(Start) /\ WF_vars(ShutdownTimesOut) /\ WF_vars(Listen)

Spec == Init /\ [][Next]_vars

FairSpec == Spec /\ Fairness

-----------------------------------------------------------------------------
(***************************************************************************)
(* The process ends successfully only when it was told to, is serving      *)
(* nobody, and its listener did not fail: neither of the two selects, each *)
(* with both cases ready, loses a listen error or a timeout.               *)
(***************************************************************************)
SuccessIsClean ==
  code = "success" => signalled /\ InFlight = {} /\ ~listenErr

(***************************************************************************)
(* A signal ends the process, although a backend may never answer and a    *)
(* caller may stall, so that a request never ends.  A server that cannot   *)
(* listen does not stay up as an empty shell: the process ends and says    *)
(* that it failed.                                                         *)
(***************************************************************************)
ProcessEnds ==
  /\ signalled ~> main = "exited"
  /\ listenErr ~> (main = "exited" /\ code = "failure")

(***************************************************************************)
(* "Start ... blocks until ctx is cancelled, then drains in-flight         *)
(* requests within shutdownTimeout" (server.go:58): requests are cut off   *)
(* only by the end of the process, after that timeout.                     *)
(***************************************************************************)
InFlightAreDrained == \A r \in Requests : request[r] # "aborted"

=============================================================================
