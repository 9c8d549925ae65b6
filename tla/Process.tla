------------------------------- MODULE Process -------------------------------
(***************************************************************************)
(* The life of the process cmd/api/main.go builds: an HTTP server and one  *)
(* fulfilment worker share a context that a signal, a server error or the  *)
(* worker's own failure cancels; main then drains the server and exits     *)
(* without waiting for the worker.                                         *)
(***************************************************************************)

CONSTANT Events     \* what the environment may do to the process in a run

(* "stop": a signal or a failed listener; "crash": the process dies at any  *)
(* point; "timeout": REQUEST_TIMEOUT and SHUTDOWN_TIMEOUT may expire.        *)
ASSUME EventsAssumption == Events \subseteq {"stop", "crash", "timeout"}

VARIABLE process

ProcessState == {"starting", "serving", "cancelled", "draining", "down"}

(* signal.NotifyContext has not been cancelled: the worker's calls go out.  *)
ContextLive == process \in {"starting", "serving"}

(* The listener accepts connections.  Clients need it, and so do the calls  *)
(* to the payment, inventory and shipping simulators, which this very       *)
(* server answers.                                                          *)
Listening == process \in {"serving", "cancelled"}

ProcessInit == process = "starting"

(* ListenAndServe has bound its address.  The worker goroutine was started  *)
(* without waiting for this.                                                *)
Listen == process = "starting" /\ process' = "serving"

(* SIGINT, SIGTERM or an error of ListenAndServe: stop() cancels ctx.       *)
Stop == /\ "stop" \in Events
        /\ ContextLive
        /\ process' = "cancelled"

(* main sees ctx.Done() and calls Server.Shutdown: the listener closes.     *)
BeginShutdown == process = "cancelled" /\ process' = "draining"
===============================================================================
