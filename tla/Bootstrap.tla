------------------------------ MODULE Bootstrap ------------------------------
(***************************************************************************)
(* The resources of the process from bootstrap.New to the end of main: how *)
(* they are opened, what a failed start unwinds, and what the end of main  *)
(* releases while requests may still be running (app.go, main.go).         *)
(***************************************************************************)
EXTENDS Telemetry, Sequences, SequencesExt

CONSTANT MaxRequests    \* bound: requests in flight at a time

ASSUME RequestsAssumption == MaxRequests \in Nat

VARIABLES cleanup,      \* New's stack of functions
          todo,         \* what is still to be released, in order
          expired,      \* the releases have run out of their time
          inFlight,     \* requests the server is answering
          timedOut,     \* Server.Shutdown gave up waiting for them
          met           \* history: who has used a closed resource

vars == <<telemetryVars, live, cleanup, todo, expired, inFlight, timedOut, met>>
mainVars == <<live, expired, inFlight, timedOut, met>>

Clients == {"database", "registration", "redis"}

(* What a name on the cleanup stack, or in App.Shutdown, releases.          *)
Parts(name) == IF name = "telemetry" THEN TelemetryParts ELSE {name}

Init == /\ TelemetryInit
        /\ live = TRUE /\ cleanup = <<>> /\ todo = <<>> /\ expired = FALSE
        /\ inFlight = 0 /\ timedOut = FALSE /\ met = {}

(* observability.New or Disabled; its Shutdown goes on the stack.           *)
Instrument ==
  /\ TelemetryStep
  /\ cleanup' = IF at' = "database" THEN <<"telemetry">> ELSE cleanup
  /\ UNCHANGED <<mainVars, todo>>

InOrder(stack) == stack         \* mutant: the stack is unwound first to last

(* shutdownOnError: from the last function to the first, each of them run   *)
(* whatever the ones before returned, under a context that may be done.     *)
Unwound(stack) == Reverse(stack)

Abandon == at' = "unwinding" /\ todo' = Unwound(cleanup)

FailsWith(S) == Releasing(S) /\ Abandon /\ UNCHANGED cleanup

GoOn(next) == at' = next /\ UNCHANGED <<cleanup, todo, twice>>
-------------------------------------------------------------------------------
OpenDatabase ==
  /\ at = "database"
  /\ \/ open' = open \cup {"database"} /\ GoOn("registration")
     \/ FailsWith({})
  /\ UNCHANGED <<mainVars, globals>>

RegisterStats ==
  /\ at = "registration"
  /\ \/ open' = open \cup {"registration"} /\ GoOn("ping")
     \/ FailsWith({"database"})
  /\ UNCHANGED <<mainVars, globals>>

PingTwice ==                    \* mutant: on the stack before the ping
  /\ at = "ping"
  /\ cleanup' = cleanup \o <<"registration", "database">>
  /\ \/ live /\ at' = "migrate" /\ UNCHANGED <<open, twice, todo>>
     \/ /\ Releasing({"registration", "database"})
        /\ at' = "unwinding" /\ todo' = Unwound(cleanup')
  /\ UNCHANGED <<mainVars, globals>>

(* openDatabase releases what it opened if the ping fails; else New puts    *)
(* two functions on the stack.  PingContext, like every call from here on,  *)
(* fails under a context that is done.                                      *)
Ping ==
  /\ at = "ping"
  /\ \/ /\ live /\ at' = "migrate"
        /\ cleanup' = cleanup \o <<"registration", "database">>
        /\ UNCHANGED <<open, twice, todo>>
     \/ FailsWith({"registration", "database"})
  /\ UNCHANGED <<mainVars, globals>>

Migrated == /\ at = "migrate"
            /\ \/ live /\ UNCHANGED open /\ GoOn("redis")
               \/ FailsWith({})
            /\ UNCHANGED <<mainVars, globals>>

(* The client is there at once; a failed ping closes it.                    *)
OpenRedis ==
  /\ at = "redis"
  /\ \/ /\ live /\ open' = open \cup {"redis"} /\ at' = "serving"
        /\ cleanup' = Append(cleanup, "redis")
        /\ UNCHANGED <<todo, twice>>
     \/ FailsWith({})
  /\ UNCHANGED <<mainVars, globals>>

(* The three seconds of Telemetry.Shutdown, or App.Shutdown's own deadline. *)
Expire == /\ at \in {"unwinding", "closing"} /\ todo # <<>> /\ ~expired
          /\ expired' = TRUE
          /\ UNCHANGED <<telemetryVars, live, cleanup, todo, inFlight, timedOut, met>>

(* shutdownOnError uses the context of the start, which a signal ends; that *)
(* of App.Shutdown is a new one.                                            *)
Done == expired \/ (at = "unwinding" /\ ~live)

(* One release of shutdownOnError or of App.Shutdown, error or not.         *)
Release == /\ at \in {"unwinding", "closing"} /\ todo # <<>>
           /\ Releasing(Reached(Parts(Head(todo)), Done))
           /\ todo' = Tail(todo)
           /\ UNCHANGED <<mainVars, at, cleanup, globals>>

(* main panics with New's error, or returns.                                *)
End == /\ todo = <<>>
       /\ \/ at = "unwinding" /\ at' = "failed"
          \/ at = "closing" /\ at' = "exited"
       /\ UNCHANGED <<mainVars, open, twice, globals, cleanup, todo>>
-------------------------------------------------------------------------------
(* A signal at any time, or the end of the server or of the worker.         *)
Signal == /\ live /\ at \notin {"failed", "exited"}
          /\ live' = FALSE
          /\ UNCHANGED <<telemetryVars, cleanup, todo, expired, inFlight, timedOut, met>>

(* The router puts REQUEST_TIMEOUT on a request; it may outlast the drain.  *)
Accept == /\ at = "serving" /\ inFlight < MaxRequests
          /\ inFlight' = inFlight + 1
          /\ UNCHANGED <<telemetryVars, live, cleanup, todo, expired, timedOut, met>>

Uses(who) ==
  /\ met' = IF Clients \subseteq open THEN met ELSE met \cup {who}
  /\ UNCHANGED <<telemetryVars, live, cleanup, todo, expired, inFlight, timedOut>>

Use == inFlight > 0 /\ at \notin {"failed", "exited"} /\ Uses("request")

(* Nothing waits for the worker: it may still be at a job while the clients *)
(* it works with are closed.                                                *)
Work == at \in {"serving", "draining", "closing"} /\ Uses("worker")

Answer == /\ inFlight > 0 /\ at \notin {"failed", "exited"}
          /\ inFlight' = inFlight - 1
          /\ UNCHANGED <<telemetryVars, live, cleanup, todo, expired, timedOut, met>>

Requests == Accept \/ Use \/ Answer \/ Work

(* main sees the context done and calls Server.Shutdown: no new requests.   *)
Drain == /\ at = "serving" /\ ~live
         /\ at' = "draining"
         /\ UNCHANGED <<mainVars, open, twice, globals, cleanup, todo>>

ShutdownAtOnce ==               \* mutant: Server.Close for Server.Shutdown
  /\ at = "draining"
  /\ at' = "closing"
  /\ todo' = <<"registration", "redis", "database", "telemetry">>
  /\ UNCHANGED <<mainVars, open, twice, globals, cleanup>>

ShutdownPatiently ==            \* mutant: Server.Shutdown has no deadline
  /\ at = "draining" /\ inFlight = 0
  /\ at' = "closing"
  /\ todo' = <<"registration", "redis", "database", "telemetry">>
  /\ UNCHANGED <<mainVars, open, twice, globals, cleanup>>

(* Server.Shutdown returns, idle or after SHUTDOWN_TIMEOUT; then the        *)
(* deferred App.Shutdown begins.                                            *)
Shutdown ==
  /\ at = "draining"
  /\ timedOut' = (inFlight > 0)
  /\ at' = "closing"
  /\ todo' = <<"registration", "redis", "database", "telemetry">>
  /\ UNCHANGED <<live, expired, inFlight, met, open, twice, globals, cleanup>>

Main == \/ Instrument \/ OpenDatabase \/ RegisterStats \/ Ping \/ Migrated
        \/ OpenRedis \/ Release \/ End \/ Drain \/ Shutdown

Next == Main \/ Signal \/ Expire \/ Requests

Spec == Init /\ [][Next]_vars

(* Once the context is cancelled every call of a start returns, and every   *)
(* wait of the end has a deadline.  Before that a call may hang, and a      *)
(* request may hang for ever.                                               *)
FairSpec == Spec /\ WF_vars(Main /\ ~live)
-------------------------------------------------------------------------------
(* Wherever a start fails and however the process ends, nothing that was    *)
(* opened stays open, connections, goroutines, exporters, with one          *)
(* exception: the span pipeline, when the context of its release was done,  *)
(* by its deadline or, in a failed start, by a signal.                      *)
EndLeavesNothing ==
  at \in {"failed", "exited"} =>
    open \subseteq IF expired \/ (at = "failed" /\ ~live) THEN Traces ELSE {}

(* No two of the functions that clean up release the same resource: a       *)
(* failed step releases its own, the stack the earlier ones.                *)
ReleasedOnce == twice = {}

(* Telemetry goes last: what the clients still report has somewhere to go.  *)
TelemetryOutlivesClients ==
  globals = "sdk" => \/ Traces \cup Metrics \subseteq open
                     \/ Clients \cap open = {}

(* The providers that instrumented calls reach through the globals are the  *)
(* ones this App has and will shut down, or no-ops if it has none.          *)
GlobalsAreOurs ==
  at = "serving" => globals = IF Traces \cup Metrics \subseteq open
                              THEN "sdk" ELSE "noop"

(* A request meets a closed client only when the drain ran out of time, the *)
(* worker only when its context is cancelled.                               *)
ClosedOnlyUnderTheLate == /\ "request" \in met => timedOut
                          /\ "worker" \in met => ~live

(* A signal ends the process, in the middle of its start or with a request  *)
(* that hangs.                                                              *)
SignalEnds == ~live ~> at \in {"failed", "exited"}
===============================================================================
