------------------------------ MODULE Telemetry ------------------------------
(***************************************************************************)
(* How observability.New builds the exporters, processors and providers of *)
(* telemetry, what each of its failures releases, and what bootstrap.New   *)
(* does then: Disabled. Telemetry.Shutdown releases what New has built.    *)
(*                                                                         *)
(* A resource is open from its constructor to the Shutdown that reaches it.*)
(* Shutting a provider down shuts down what it was given.  The Shutdown of *)
(* an exporter, of the batch processor and of the meter provider releases  *)
(* its resource whatever it returns.  The Shutdown of the tracer provider  *)
(* does not: it looks at its context first and, if that is done, returns   *)
(* before it has shut its processors down.                                 *)
(***************************************************************************)

VARIABLES live,         \* the context of signal.NotifyContext, which New is given
          at,           \* where the start of the process is
          open,         \* the resources that are open
          twice,        \* history: those that were released when not open
          globals       \* the global providers: "unset", "noop" or "sdk"

telemetryVars == <<at, open, twice, globals>>

Traces == {"traceExporter", "batcher"}
Metrics == {"metricExporter", "reader"}

Releasing(S) == /\ open' = open \ S
                /\ twice' = twice \cup (S \ open)

TelemetryInit == at = "checks" /\ open = {} /\ twice = {} /\ globals = "unset"

(* The providers' Shutdown, the meter provider's first, under a context that *)
(* is done or not when the tracer provider's turn comes.                    *)
Reached(parts, done) == IF done THEN parts \ Traces ELSE parts

(* One constructor of New: it opens a resource and goes on, or fails and    *)
(* releases what it is said to.                                             *)
Build(here, opens, onError, next) ==
  /\ at = here
  /\ \/ at' = next /\ open' = open \cup opens /\ UNCHANGED twice
     \/ at' = "disabled" /\ Releasing(onError)
  /\ UNCHANGED globals
-------------------------------------------------------------------------------
(* OTEL_SDK_DISABLED: New itself returns what Disabled returns.             *)
SwitchedOff == /\ at = "checks"
               /\ at' = "disabled"
               /\ UNCHANGED <<open, twice, globals>>

(* Endpoints, the version of the SDK, the metadata and the resource.        *)
Checks == Build("checks", {}, {}, "traceExporter")

TraceExporter == Build("traceExporter", {"traceExporter"}, {}, "metricExporter")

MetricExporterLeaks ==          \* mutant: traceExporter.Shutdown forgotten
  Build("metricExporter", {"metricExporter"}, {}, "prometheus")

MetricExporter ==
  Build("metricExporter", {"metricExporter"}, {"traceExporter"}, "prometheus")

Prometheus ==
  Build("prometheus", {}, {"metricExporter", "traceExporter"}, "providers")

(* The batch processor and the periodic reader start their goroutines.  The *)
(* envelope's constructor cannot fail here: the version it looks at is the  *)
(* one Checks has accepted.                                                 *)
Providers == /\ at = "providers"
             /\ at' = "instruments"
             /\ open' = open \cup {"batcher", "reader"}
             /\ UNCHANGED <<twice, globals>>

(* runtime.Start, or an instrument of newBusinessMetrics, fails: the meter  *)
(* provider releases the reader and its exporter, the tracer provider the   *)
(* batch processor and its, if the start's context lets it.                 *)
InstrumentsFail == /\ at = "instruments"
                   /\ at' = "disabled"
                   /\ Releasing(Reached(Traces \cup Metrics, ~live))
                   /\ UNCHANGED globals

(* New returns: only now do the global providers become the SDK's.          *)
Instruments == /\ at = "instruments"
               /\ at' = "database"
               /\ globals' = "sdk"
               /\ UNCHANGED <<open, twice>>

DisabledQuietly ==              \* mutant: Disabled leaves the globals alone
  /\ at = "disabled"
  /\ at' = "database"
  /\ UNCHANGED <<open, twice, globals>>

Disabled == /\ at = "disabled"
            /\ at' = "database"
            /\ globals' = "noop"
            /\ UNCHANGED <<open, twice>>

TelemetryStep == \/ SwitchedOff \/ Checks \/ TraceExporter \/ MetricExporter
                 \/ Prometheus \/ Providers \/ InstrumentsFail \/ Instruments
                 \/ Disabled

(* Telemetry.Shutdown: the providers that New has kept, the meter provider  *)
(* first; Disabled keeps none.                                              *)
TelemetryParts == IF globals = "sdk" THEN Traces \cup Metrics ELSE {}
===============================================================================
