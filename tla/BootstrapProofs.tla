--------------------------- MODULE BootstrapProofs ---------------------------
(***************************************************************************)
(* That the start and the end of the process keep account of what is open, *)
(* proved for any number of requests in flight.                            *)
(***************************************************************************)
EXTENDS Bootstrap, SequenceTheorems, TLAPS

Building == {"checks", "traceExporter", "metricExporter", "prometheus",
             "providers", "instruments", "disabled"}
Opening == {"database", "registration", "ping", "migrate", "redis"}
Serving == {"serving", "draining"}
Releases == {"unwinding", "closing"}
Ended == {"failed", "exited"}

Names == {"telemetry"} \cup Clients

TypeInv ==
  /\ at \in Building \cup Opening \cup Serving \cup Releases \cup Ended
  /\ open \subseteq Traces \cup Metrics \cup Clients
  /\ globals \in {"unset", "noop", "sdk"}
  /\ live \in BOOLEAN /\ timedOut \in BOOLEAN /\ expired \in BOOLEAN
  /\ cleanup \in Seq(Names) /\ todo \in Seq(Names)
  /\ inFlight \in Nat
  /\ met \subseteq {"request", "worker"}

(* What the functions of a stack, or of a list of releases, stand for.      *)
Held(names) == UNION {Parts(names[i]) : i \in 1..Len(names)}

(* What a step of the start has opened and nothing on the stack releases.   *)
InHand == CASE at = "metricExporter" -> {"traceExporter"}
            [] at \in {"prometheus", "providers"} -> {"traceExporter", "metricExporter"}
            [] at = "instruments" -> Traces \cup Metrics
            [] at = "registration" -> {"database"}
            [] at = "ping" -> {"database", "registration"}
            [] OTHER -> {}

(* What a tracer provider may have left open that was shut down under a     *)
(* context that was done.  A start that such a context has reached does not *)
(* come to serve.                                                           *)
Left == IF expired \/ (~live /\ at \notin Serving \cup {"closing", "exited"})
        THEN Traces ELSE {}

Accounted(owned) == owned \subseteq open /\ open \subseteq owned \cup Left

(* The account: every open resource is in hand, has one function that will  *)
(* release it, or is left, and no function stands for what is closed        *)
(* already.                                                                 *)
Account ==
  /\ at \in Building \cup Opening \cup Serving =>
       todo = <<>> /\ Accounted(InHand \cup Held(cleanup))
  /\ at \in Releases \cup Ended => Accounted(Held(todo))
  /\ at \in Ended => todo = <<>>
  /\ twice = {}

NoneTwice(names) ==
  \A i, j \in 1..Len(names) : i # j => names[i] # names[j]

(* The stacks a start has, and the list of App.Shutdown.                    *)
Stack1 == <<"telemetry">>
Stack3 == <<"telemetry", "registration", "database">>
Stack4 == <<"telemetry", "registration", "database", "redis">>
Plan == <<"registration", "redis", "database", "telemetry">>

(* The order: telemetry is the first on the stack and the last released.    *)
Order ==
  /\ at \in Building <=> globals = "unset"
  /\ at \in Building => cleanup = <<>>
  /\ at \in {"database", "registration", "ping"} => cleanup = Stack1
  /\ at \in {"migrate", "redis"} => cleanup = Stack3
  /\ at \in Serving => cleanup = Stack4
  /\ NoneTwice(todo)
  /\ \A i \in 1..Len(todo) : todo[i] = "telemetry" <=> i = Len(todo)

(* The late: after the drain has begun there is no live context, and who is *)
(* still running when the release begins has outlived a deadline.           *)
Late ==
  /\ at \in Building \cup Opening \cup {"unwinding", "failed"} => inFlight = 0
  /\ at \in {"draining", "closing", "exited"} => ~live
  /\ at \in {"closing"} /\ inFlight > 0 => timedOut
  /\ at \notin {"closing", "exited"} => met = {}
  /\ at \notin Releases \cup Ended => ~expired
  /\ ClosedOnlyUnderTheLate

Inv == TypeInv /\ Account /\ Order /\ Late
-------------------------------------------------------------------------------
(* A release takes the first name off a list and closes what it stands for, *)
(* which nothing behind it stands for.                                      *)
LEMMA HeldBehind ==
  ASSUME NEW names \in Seq(Names), names # <<>>, NoneTwice(names)
  PROVE  /\ Held(Tail(names)) = Held(names) \ Parts(Head(names))
         /\ Parts(Head(names)) \subseteq Held(names)
         /\ NoneTwice(Tail(names))
<1>1. /\ Len(names) \in Nat /\ Len(names) >= 1
      /\ Tail(names) \in Seq(Names) /\ Len(Tail(names)) = Len(names) - 1
      /\ \A i \in 1..Len(Tail(names)) : Tail(names)[i] = names[i + 1]
      /\ Head(names) = names[1]
      /\ \A i \in 1..Len(names) : names[i] \in Names
  BY HeadTailProperties, LenProperties, ElementOfSeq
<1>2. \A m, n \in Names : m # n => Parts(m) \cap Parts(n) = {}
  BY DEF Names, Clients, Parts, TelemetryParts, Traces, Metrics
<1>3. \A i \in 2..Len(names) : Parts(names[i]) \cap Parts(names[1]) = {}
  BY <1>1, <1>2 DEF NoneTwice
<1>4. ASSUME NEW r \in Held(names), r \notin Parts(Head(names))
      PROVE  r \in Held(Tail(names))
  <2>1. PICK i \in 1..Len(names) : r \in Parts(names[i])
    BY DEF Held
  <2>2. i # 1
    BY <1>1, <1>4, <2>1
  <2>3. i - 1 \in 1..Len(Tail(names)) /\ Tail(names)[i - 1] = names[i]
    BY <1>1, <2>2
  <2> QED BY <2>1, <2>3 DEF Held
<1>5. ASSUME NEW r \in Held(Tail(names))
      PROVE  r \in Held(names) /\ r \notin Parts(Head(names))
  <2>1. PICK i \in 1..Len(Tail(names)) : r \in Parts(Tail(names)[i])
    BY <1>5 DEF Held
  <2>2. i + 1 \in 2..Len(names) /\ r \in Parts(names[i + 1])
    BY <1>1, <2>1
  <2>3. r \in Held(names)
    BY <1>1, <2>2 DEF Held
  <2> QED BY <1>1, <1>3, <2>2, <2>3
<1>6. Parts(Head(names)) \subseteq Held(names)
  BY <1>1 DEF Held
<1>7. NoneTwice(Tail(names))
  BY <1>1 DEF NoneTwice
<1> QED
  BY <1>4, <1>5, <1>6, <1>7

(* Unwinding visits all that is on the stack, once.                         *)
LEMMA HeldUnwound ==
  ASSUME NEW names \in Seq(Names), NoneTwice(names)
  PROVE  /\ Unwound(names) \in Seq(Names)
         /\ Len(Unwound(names)) = Len(names)
         /\ \A i \in 1..Len(names) : Unwound(names)[i] = names[Len(names) - i + 1]
         /\ Held(Unwound(names)) = Held(names)
         /\ NoneTwice(Unwound(names))
<1>1. Len(names) \in Nat /\ \A i \in 1..Len(names) : names[i] \in Names
  BY LenProperties, ElementOfSeq
<1>2. \A i \in 1..Len(names) : Len(names) - i + 1 \in 1..Len(names)
  BY <1>1
<1>3. \A i \in 1..Len(names) : names[Len(names) - i + 1] \in Names
  BY <1>1, <1>2
<1>4. /\ Unwound(names) \in Seq(Names)
      /\ Len(Unwound(names)) = Len(names)
      /\ \A i \in 1..Len(names) : Unwound(names)[i] = names[Len(names) - i + 1]
  BY <1>1, <1>3 DEF Unwound, Reverse
<1>5. ASSUME NEW r
      PROVE  r \in Held(names) <=> r \in Held(Unwound(names))
  <2>1. ASSUME NEW i \in 1..Len(names), r \in Parts(names[i])
        PROVE  \E j \in 1..Len(names) : r \in Parts(Unwound(names)[j])
    <3>1. Len(names) - i + 1 \in 1..Len(names)
      BY <1>2
    <3>2. Len(names) - (Len(names) - i + 1) + 1 = i
      BY <1>1
    <3>3. Unwound(names)[Len(names) - i + 1] = names[i]
      BY <1>4, <3>1, <3>2
    <3> QED BY <2>1, <3>1, <3>3
  <2>2. ASSUME NEW j \in 1..Len(names), r \in Parts(Unwound(names)[j])
        PROVE  \E i \in 1..Len(names) : r \in Parts(names[i])
    BY <1>2, <1>4, <2>2
  <2> QED BY <1>4, <2>1, <2>2 DEF Held
<1>6. NoneTwice(Unwound(names))
  <2> SUFFICES ASSUME NEW i \in 1..Len(names), NEW j \in 1..Len(names), i # j
               PROVE  Unwound(names)[i] # Unwound(names)[j]
    BY <1>4 DEF NoneTwice
  <2>1. Len(names) - i + 1 # Len(names) - j + 1
    BY <1>1
  <2> QED BY <1>2, <1>4, <2>1 DEF NoneTwice
<1> QED
  BY <1>4, <1>5, <1>6
(* What those lists hold.                                                   *)
LEMMA Lists ==
  /\ \A s \in {<<>>, Stack1, Stack3, Stack4, Plan} : s \in Seq(Names) /\ NoneTwice(s)
  /\ \A s \in {Stack1, Stack3, Stack4} :
       \A i \in 1..Len(s) : s[i] = "telemetry" <=> i = 1
  /\ \A i \in 1..Len(Plan) : Plan[i] = "telemetry" <=> i = Len(Plan)
  /\ Held(<<>>) = {}
  /\ Held(Stack1) = TelemetryParts
  /\ Held(Stack3) = TelemetryParts \cup {"registration", "database"}
  /\ Held(Stack4) = TelemetryParts \cup Clients
  /\ Held(Plan) = Held(Stack4)
<1>1. \A s \in {<<>>, Stack1, Stack3, Stack4, Plan} : s \in Seq(Names)
  <2>1. {"telemetry", "registration", "database", "redis"} \subseteq Names
    BY DEF Names, Clients
  <2>2. <<>> \in Seq(Names)
    OBVIOUS
  <2>3. Stack1 \in Seq(Names) /\ Stack3 \in Seq(Names)
    BY <2>1 DEF Stack1, Stack3
  <2>4. Stack4 \in Seq(Names) /\ Plan \in Seq(Names)
    BY <2>1 DEF Stack4, Plan
  <2> QED BY <2>2, <2>3, <2>4
<1>2. /\ Len(Stack1) = 1 /\ Stack1[1] = "telemetry"
      /\ Len(Stack3) = 3 /\ Stack3[1] = "telemetry"
      /\ Stack3[2] = "registration" /\ Stack3[3] = "database"
      /\ Len(Stack4) = 4 /\ Stack4[1] = "telemetry" /\ Stack4[2] = "registration"
      /\ Stack4[3] = "database" /\ Stack4[4] = "redis"
      /\ Len(Plan) = 4 /\ Plan[1] = "registration" /\ Plan[2] = "redis"
      /\ Plan[3] = "database" /\ Plan[4] = "telemetry"
  BY DEF Stack1, Stack3, Stack4, Plan
<1>3. \A s \in {<<>>, Stack1, Stack3, Stack4, Plan} : NoneTwice(s)
  BY <1>2 DEF NoneTwice
<1>4. \A s \in {Stack1, Stack3, Stack4} :
        \A i \in 1..Len(s) : s[i] = "telemetry" <=> i = 1
  BY <1>2
<1>5. \A i \in 1..Len(Plan) : Plan[i] = "telemetry" <=> i = Len(Plan)
  BY <1>2
<1>6. Held(<<>>) = {}
  BY DEF Held
<1>7. Held(Stack1) = TelemetryParts
  BY <1>2 DEF Held, Parts
<1>8. Held(Stack3) = TelemetryParts \cup {"registration", "database"}
  BY <1>2 DEF Held, Parts
<1>9. Held(Stack4) = TelemetryParts \cup Clients
  BY <1>2 DEF Held, Parts, Clients
<1>10. Held(Plan) = TelemetryParts \cup Clients
  BY <1>2 DEF Held, Parts, Clients
<1> QED
  BY <1>1, <1>3, <1>4, <1>5, <1>6, <1>7, <1>8, <1>9, <1>10
-------------------------------------------------------------------------------
(* Once the providers are set, what a list holds does not change.           *)
LEMMA HeldStays ==
  ASSUME UNCHANGED globals
  PROVE  \A names : Held(names)' = Held(names)
BY DEF Held, Parts, TelemetryParts

(* The start of telemetry: what it cannot use it has released itself.       *)
LEMMA InstrumentKeepsInv ==
  ASSUME Inv, Instrument
  PROVE  Inv'
<1> USE DEF Inv, TypeInv, Account, Order, Late, Building, Opening, Serving,
            Releases, Ended, mainVars, ClosedOnlyUnderTheLate, InHand, Traces,
            Metrics, Releasing, Accounted, Left, Reached
<1>1. /\ at \in Building /\ todo = <<>> /\ cleanup = <<>> /\ Accounted(InHand)
      /\ UNCHANGED <<live, expired, inFlight, timedOut, met>> /\ ~expired
  BY Lists DEF Instrument, TelemetryStep, SwitchedOff, Checks, TraceExporter,
               MetricExporter, Prometheus, Providers, InstrumentsFail,
               Instruments, Disabled, Build
<1>2. CASE at' # "database"
  <2>1. UNCHANGED <<globals, cleanup, todo>> /\ at' \in Building
    BY <1>2 DEF Instrument, TelemetryStep, SwitchedOff, Checks, TraceExporter,
                MetricExporter, Prometheus, Providers, InstrumentsFail,
                Instruments, Disabled, Build
  <2>2. Accounted(InHand)' /\ twice' = {} /\ open' \subseteq Traces \cup Metrics
    BY <1>1, <1>2 DEF Instrument, TelemetryStep, SwitchedOff, Checks, TraceExporter,
                MetricExporter, Prometheus, Providers, InstrumentsFail,
                Instruments, Disabled, Build
  <2>3. Held(cleanup)' = {}
    BY <1>1, <2>1, Lists, HeldStays
  <2> QED BY <1>1, <1>2, <2>1, <2>2, <2>3 DEF Instrument
<1>3. CASE at' = "database"
  <2>1. /\ UNCHANGED <<open, twice, todo>> /\ cleanup' = Stack1
        /\ \/ globals' = "sdk" /\ open = Traces \cup Metrics
           \/ globals' = "noop" /\ open \subseteq Left
    BY <1>1, <1>3 DEF Instrument, TelemetryStep, SwitchedOff, Checks, TraceExporter,
                MetricExporter, Prometheus, Providers, InstrumentsFail,
                Instruments, Disabled, Build, Stack1
  <2>2. Accounted(TelemetryParts)'
    BY <1>1, <1>3, <2>1 DEF TelemetryParts
  <2>3. Held(cleanup)' = TelemetryParts'
    <3>1. /\ Len(Stack1) = 1 /\ Stack1[1] = "telemetry"
      BY DEF Stack1
    <3> QED BY <2>1, <3>1 DEF Held, Parts
  <2>4. cleanup' \in Seq(Names)
    BY <2>1, Lists
  <2> QED BY <1>1, <1>3, <2>1, <2>2, <2>3, <2>4 DEF Instrument
<1> QED
  BY <1>2, <1>3

(* A step that fails releases what is in hand and leaves the stack to be    *)
(* unwound.                                                                 *)
LEMMA FailureKeepsInv ==
  ASSUME Inv, at \in Opening, UNCHANGED <<mainVars, globals>>, FailsWith(InHand)
  PROVE  Inv'
<1> USE DEF Inv, Order, Opening
<1>1. /\ at' = "unwinding" /\ todo' = Unwound(cleanup)
      /\ UNCHANGED <<cleanup, globals, live, expired, inFlight, timedOut, met>>
      /\ open' = open \ InHand /\ twice' = twice \cup (InHand \ open)
  BY DEF FailsWith, Abandon, Releasing, mainVars
<1>2. cleanup \in {Stack1, Stack3} /\ cleanup \in Seq(Names) /\ NoneTwice(cleanup)
  BY Lists
<1>3. /\ Unwound(cleanup) \in Seq(Names) /\ NoneTwice(Unwound(cleanup))
      /\ Held(Unwound(cleanup)) = Held(cleanup)
  BY <1>2, HeldUnwound
<1>4. \A i \in 1..Len(Unwound(cleanup)) :
        Unwound(cleanup)[i] = "telemetry" <=> i = Len(Unwound(cleanup))
  <2>1. /\ Len(Unwound(cleanup)) = Len(cleanup) /\ Len(cleanup) \in Nat
        /\ \A i \in 1..Len(cleanup) :
             Unwound(cleanup)[i] = cleanup[Len(cleanup) - i + 1]
    BY <1>2, HeldUnwound, LenProperties
  <2>2. \A i \in 1..Len(cleanup) : cleanup[i] = "telemetry" <=> i = 1
    BY <1>2, Lists
  <2> SUFFICES ASSUME NEW i \in 1..Len(cleanup)
               PROVE  Unwound(cleanup)[i] = "telemetry" <=> i = Len(cleanup)
    BY <2>1
  <2>3. Len(cleanup) - i + 1 \in 1..Len(cleanup)
    BY <2>1
  <2>4. cleanup[Len(cleanup) - i + 1] = "telemetry" <=> Len(cleanup) - i + 1 = 1
    BY <2>2, <2>3
  <2> QED BY <2>1, <2>4
<1>5. /\ Accounted(InHand \cup Held(cleanup)) /\ InHand \cap Held(cleanup) = {}
      /\ InHand \cap Left = {} /\ Left' = Left
  BY <1>1, Lists DEF Account, InHand, TelemetryParts, Traces, Metrics, Left, Serving
<1>6. Held(todo)' = Held(cleanup)
  BY <1>1, <1>3, HeldStays
<1>7. Account'
  <2>1. Accounted(Held(todo))'
    BY <1>1, <1>5, <1>6 DEF Accounted
  <2> QED BY <1>1, <1>5, <2>1 DEF Account, Accounted, Building, Serving, Releases, Ended
<1>8. TypeInv'
  BY <1>1, <1>3 DEF TypeInv, Building, Serving, Releases, Ended
<1>9. Order'
  BY <1>1, <1>3, <1>4 DEF Building, Serving
<1>10. Late'
  BY <1>1 DEF Late, ClosedOnlyUnderTheLate, Releases, Ended
<1> QED
  BY <1>7, <1>8, <1>9, <1>10
(* How the stack grows.                                                     *)
LEMMA Stacking ==
  /\ Stack1 \o <<"registration", "database">> = Stack3
  /\ Append(Stack3, "redis") = Stack4
<1> DEFINE two == <<"registration", "database">>
<1>1. /\ two \in Seq(Names) /\ Len(two) = 2
      /\ two[1] = "registration" /\ two[2] = "database"
  BY DEF Names, Clients
<1>2. /\ Stack1 \in Seq(Names) /\ Len(Stack1) = 1 /\ Stack1[1] = "telemetry"
  BY Lists DEF Stack1
<1>3. /\ Stack3 \in Seq(Names) /\ Len(Stack3) = 3 /\ Stack3[1] = "telemetry"
      /\ Stack3[2] = "registration" /\ Stack3[3] = "database"
  BY Lists DEF Stack3
<1>4. /\ Stack4 \in Seq(Names) /\ Len(Stack4) = 4 /\ Stack4[1] = "telemetry"
      /\ Stack4[2] = "registration" /\ Stack4[3] = "database" /\ Stack4[4] = "redis"
  BY Lists DEF Stack4
<1> HIDE DEF two
<1>5. Stack1 \o two = Stack3
  <2>1. /\ Stack1 \o two \in Seq(Names) /\ Len(Stack1 \o two) = 3
        /\ (Stack1 \o two)[1] = Stack1[1]
        /\ (Stack1 \o two)[2] = two[1] /\ (Stack1 \o two)[3] = two[2]
    BY <1>1, <1>2, ConcatProperties
  <2>2. \A i \in 1..3 : (Stack1 \o two)[i] = Stack3[i]
    BY <1>1, <1>2, <1>3, <2>1
  <2> QED BY <1>3, <2>1, <2>2, SeqEqual
<1>6. Append(Stack3, "redis") = Stack4
  <2>1. "redis" \in Names
    BY DEF Names, Clients
  <2>2. /\ Append(Stack3, "redis") \in Seq(Names)
        /\ Len(Append(Stack3, "redis")) = Len(Stack3) + 1
        /\ \A i \in 1..Len(Stack3) : Append(Stack3, "redis")[i] = Stack3[i]
        /\ Append(Stack3, "redis")[Len(Stack3) + 1] = "redis"
    <3>1. Stack3 \in Seq(Names)
      BY <1>3
    <3> QED BY <2>1, <3>1, AppendProperties
  <2>3. /\ Len(Append(Stack3, "redis")) = Len(Stack4)
        /\ \A i \in 1..4 : Append(Stack3, "redis")[i] = Stack4[i]
    BY <1>3, <1>4, <2>2
  <2>4. \A i \in 1..Len(Append(Stack3, "redis")) : Append(Stack3, "redis")[i] = Stack4[i]
    BY <1>4, <2>3
  <2> HIDE DEF Names
  <2> QED BY <1>4, <2>2, <2>3, <2>4, SeqEqual
<1> QED
  BY <1>5, <1>6 DEF two

(* A step that succeeds keeps what it opened in hand or on the stack.       *)
LEMMA OpeningKeepsInv ==
  ASSUME Inv, OpenDatabase \/ RegisterStats \/ Ping \/ Migrated \/ OpenRedis
  PROVE  Inv'
<1> USE DEF Inv
<1>1. at \in Opening /\ UNCHANGED <<mainVars, globals>>
  BY DEF OpenDatabase, RegisterStats, Ping, Migrated, OpenRedis, Opening
<1>2. CASE FailsWith(InHand)
  BY <1>1, <1>2, FailureKeepsInv
<1>3. CASE ~FailsWith(InHand)
  <2>1. \/ /\ at = "database" /\ open' = open \cup {"database"}
           /\ at' = "registration" /\ UNCHANGED cleanup
        \/ /\ at = "registration" /\ open' = open \cup {"registration"}
           /\ at' = "ping" /\ UNCHANGED cleanup
        \/ /\ at = "ping" /\ at' = "migrate" /\ live /\ UNCHANGED open
           /\ cleanup' = cleanup \o <<"registration", "database">>
        \/ /\ at = "migrate" /\ at' = "redis" /\ live
           /\ UNCHANGED <<open, cleanup>>
        \/ /\ at = "redis" /\ at' = "serving" /\ live /\ open' = open \cup {"redis"}
           /\ cleanup' = Append(cleanup, "redis")
    BY <1>3 DEF OpenDatabase, RegisterStats, Ping, Migrated, OpenRedis, GoOn, InHand
  <2>2. UNCHANGED <<todo, twice, globals, live, expired, inFlight, timedOut, met>>
    BY <1>1, <1>3 DEF OpenDatabase, RegisterStats, Ping, Migrated, OpenRedis,
                      GoOn, InHand, mainVars
  <2>3. at = "ping" => cleanup' = Stack3
    BY <2>1, Stacking DEF Order
  <2>4. at = "redis" => cleanup' = Stack4
    BY <2>1, Stacking DEF Order
  <2>5. at \notin {"ping", "redis"} => UNCHANGED cleanup
    BY <2>1
  <2>6. at' \in Opening \cup Serving
    BY <2>1 DEF Opening, Serving
  <2>7. Order'
    BY <1>1, <2>1, <2>2, <2>3, <2>4, <2>5 DEF Order, Building, Opening, Serving
  <2>8. Late'
    BY <1>1, <2>1, <2>2 DEF Late, Opening, ClosedOnlyUnderTheLate, Releases, Ended
  <2>9. cleanup' \in Seq(Names)
    BY <2>3, <2>4, <2>5, <1>1, Lists DEF TypeInv, Opening
  <2>10. TypeInv'
    BY <2>1, <2>2, <2>6, <2>9 DEF TypeInv, Clients
  <2>11. Accounted(InHand \cup Held(cleanup))'
    <3> USE DEF Accounted
    <3>1. /\ Accounted(InHand \cup Held(cleanup))
          /\ Left \subseteq Left'
      BY <1>1, <2>1, <2>2 DEF Account, Left, Late, Opening, Releases, Ended, Serving
    <3>2. CASE at \in {"database", "registration", "migrate"}
      <4>1. Held(cleanup)' = Held(cleanup)
        BY <2>2, <2>5, <3>2, HeldStays
      <4> QED BY <2>1, <3>1, <3>2, <4>1 DEF InHand
    <3>3. CASE at = "ping"
      <4>1. Held(cleanup)' = Held(Stack3) /\ cleanup = Stack1
        BY <2>2, <2>3, <3>3, HeldStays DEF Order
      <4> QED BY <2>1, <3>1, <3>3, <4>1, Lists DEF InHand
    <3>4. CASE at = "redis"
      <4>1. Held(cleanup)' = Held(Stack4) /\ cleanup = Stack3
        BY <2>2, <2>4, <3>4, HeldStays DEF Order
      <4> QED BY <2>1, <3>1, <3>4, <4>1, Lists DEF InHand, Clients
    <3> QED BY <1>1, <3>2, <3>3, <3>4 DEF Opening
  <2>12. Account'
    BY <1>1, <2>1, <2>2, <2>11 DEF Account, Building, Opening, Serving, Releases, Ended
  <2> QED BY <2>7, <2>8, <2>10, <2>12
<1> QED
  BY <1>2, <1>3

(* A release closes what it is for, once, and leaves the rest of the list.  *)
LEMMA ReleaseKeepsInv ==
  ASSUME Inv, Release
  PROVE  Inv'
<1> USE DEF Inv
<1>1. /\ at \in {"unwinding", "closing"} /\ todo # <<>>
      /\ open' = open \ Reached(Parts(Head(todo)), Done)
      /\ twice' = twice \cup (Reached(Parts(Head(todo)), Done) \ open)
      /\ todo' = Tail(todo)
      /\ UNCHANGED <<at, live, expired, inFlight, timedOut, met, cleanup, globals>>
  BY DEF Release, Releasing, mainVars
<1>2. todo \in Seq(Names) /\ NoneTwice(todo) /\ Accounted(Held(todo))
  BY <1>1 DEF TypeInv, Order, Account, Releases
<1>3. /\ Held(Tail(todo)) = Held(todo) \ Parts(Head(todo))
      /\ Parts(Head(todo)) \subseteq Held(todo)
      /\ NoneTwice(Tail(todo))
  BY <1>1, <1>2, HeldBehind
<1>4. Held(todo)' = Held(Tail(todo))
  BY <1>1, HeldStays
<1>5. /\ Len(todo) \in Nat /\ Tail(todo) \in Seq(Names)
      /\ Len(Tail(todo)) = Len(todo) - 1
      /\ \A i \in 1..Len(Tail(todo)) : Tail(todo)[i] = todo[i + 1]
  BY <1>1, <1>2, HeadTailProperties, LenProperties
<1>6. \A i \in 1..Len(Tail(todo)) :
        Tail(todo)[i] = "telemetry" <=> i = Len(Tail(todo))
  <2> SUFFICES ASSUME NEW i \in 1..Len(Tail(todo))
               PROVE  Tail(todo)[i] = "telemetry" <=> i = Len(Tail(todo))
    OBVIOUS
  <2>1. i + 1 \in 1..Len(todo) /\ Tail(todo)[i] = todo[i + 1]
    BY <1>5
  <2>2. todo[i + 1] = "telemetry" <=> i + 1 = Len(todo)
    BY <2>1 DEF Order
  <2>3. i + 1 = Len(todo) <=> i = Len(Tail(todo))
    BY <1>5
  <2> QED BY <2>1, <2>2, <2>3
<1>7. Account'
  <2>1. /\ Reached(Parts(Head(todo)), Done) \subseteq Parts(Head(todo))
        /\ Parts(Head(todo)) \subseteq Reached(Parts(Head(todo)), Done) \cup Left
        /\ Left' = Left
    BY <1>1 DEF Reached, Done, Left, Serving
  <2>2. Accounted(Held(todo))' /\ twice' = {}
    BY <1>1, <1>2, <1>3, <1>4, <2>1 DEF Accounted, Account
  <2> QED BY <1>1, <2>2 DEF Account, Building, Opening, Serving, Releases, Ended
<1>8. Order'
  BY <1>1, <1>3, <1>6 DEF Order, Building, Serving
<1>9. TypeInv'
  BY <1>1, <1>5 DEF TypeInv
<1>10. Late'
  BY <1>1 DEF Late, ClosedOnlyUnderTheLate, Building, Opening, Releases, Ended
<1> QED
  BY <1>7, <1>8, <1>9, <1>10

(* The deadline of the releases changes only what may be left.              *)
LEMMA ExpireKeepsInv ==
  ASSUME Inv, Expire
  PROVE  Inv'
<1> USE DEF Inv
<1>1. /\ at \in {"unwinding", "closing"} /\ expired'
      /\ UNCHANGED <<at, open, twice, globals, live, cleanup, todo, inFlight,
                     timedOut, met>>
  BY DEF Expire, telemetryVars
<1>2. Accounted(Held(todo))'
  BY <1>1, HeldStays DEF Account, Accounted, Left, Releases
<1>3. Account'
  BY <1>1, <1>2 DEF Account, Building, Opening, Serving, Releases, Ended
<1>4. TypeInv'
  BY <1>1 DEF TypeInv, Expire
<1>5. Order'
  BY <1>1 DEF Order
<1>6. Late'
  BY <1>1 DEF Late, ClosedOnlyUnderTheLate, Releases
<1> QED
  BY <1>3, <1>4, <1>5, <1>6

(* The drain, App.Shutdown and the end.                                     *)
LEMMA EndingKeepsInv ==
  ASSUME Inv, Drain \/ Shutdown \/ End
  PROVE  Inv'
<1> USE DEF Inv
<1>1. UNCHANGED <<open, twice, globals, cleanup, live, expired, inFlight, met>>
  BY DEF Drain, Shutdown, End, mainVars
<1>2. \A names : Held(names)' = Held(names)
  BY <1>1, HeldStays
<1>3. CASE Drain
  <2>1. Account'
    BY <1>1, <1>2, <1>3 DEF Drain, Account, Accounted, Left, Building, Opening,
                            Serving, Releases, Ended, mainVars, InHand
  <2> QED BY <1>1, <1>3, <2>1 DEF Drain, TypeInv, Order, Late, Building, Opening,
        Serving, Releases, Ended, mainVars, ClosedOnlyUnderTheLate
<1>4. CASE Shutdown
  <2>1. at = "draining" /\ at' = "closing" /\ todo' = Plan /\ timedOut' = (inFlight > 0)
    BY <1>4 DEF Shutdown, Plan
  <2>2. Account'
    <3>1. Accounted(Held(Stack4))
      BY <2>1 DEF Account, Order, Serving, InHand
    <3>2. Accounted(Held(todo))'
      BY <1>1, <1>2, <2>1, <3>1, Lists DEF Accounted, Left, Serving
    <3> QED BY <1>1, <2>1, <3>2 DEF Account, Building, Opening, Serving, Releases, Ended
  <2>3. Order'
    BY <1>1, <2>1, Lists DEF Order, Building, Serving
  <2>4. TypeInv'
    <3>1. Plan \in Seq(Names)
      BY Lists
    <3> QED BY <1>1, <2>1, <3>1 DEF TypeInv, Releases
  <2>5. Late'
    BY <1>1, <2>1 DEF Late, ClosedOnlyUnderTheLate, Building, Opening, TypeInv,
                      Releases
  <2> QED BY <2>2, <2>3, <2>4, <2>5
<1>5. CASE End
  <2>1. /\ at \in Releases /\ at' \in Ended /\ todo = <<>>
        /\ UNCHANGED <<timedOut, todo>>
        /\ at = "unwinding" <=> at' = "failed"
    BY <1>5 DEF End, mainVars, Releases, Ended
  <2>2. Account'
    <3>1. Left \subseteq Left'
      BY <1>1, <1>5 DEF End, Left, Serving
    <3>2. Accounted(Held(todo))'
      BY <1>1, <1>2, <2>1, <3>1 DEF Account, Accounted
    <3> QED BY <1>1, <2>1, <3>2 DEF Account, Building, Opening, Serving, Releases, Ended
  <2> QED BY <1>1, <2>1, <2>2 DEF TypeInv, Order, Late, Building, Opening,
        Serving, Releases, Ended, ClosedOnlyUnderTheLate
<1> QED
  BY <1>3, <1>4, <1>5

(* Requests, the worker and the signal touch no resource; who is served     *)
(* before the release begins finds the clients open.                        *)
LEMMA RequestsKeepInv ==
  ASSUME Inv, Requests \/ Signal
  PROVE  Inv'
<1> USE DEF Inv
<1>1. /\ UNCHANGED <<at, open, twice, globals, cleanup, todo, expired, timedOut>>
      /\ live' => live
  BY DEF Requests, Accept, Use, Answer, Work, Uses, Signal, telemetryVars
<1>2. Account' /\ Order'
  <2>1. Left \subseteq Left' /\ InHand' = InHand
    BY <1>1 DEF Left, InHand
  <2>2. \A S : Accounted(S) => S \subseteq open' /\ open' \subseteq S \cup Left'
    BY <1>1, <2>1 DEF Accounted
  <2>3. Held(cleanup)' = Held(cleanup) /\ Held(todo)' = Held(todo)
    BY <1>1, HeldStays
  <2>4. Account'
    BY <1>1, <2>1, <2>2, <2>3 DEF Account, Accounted
  <2>5. Order'
    BY <1>1 DEF Order
  <2> QED BY <2>4, <2>5
<1>3. at \in Serving => Clients \subseteq open
  BY Lists DEF Account, Accounted, Order, Serving
<1>4. CASE Accept \/ Answer
  <2>1. /\ inFlight' \in Nat
        /\ inFlight' > 0 => inFlight > 0 \/ at = "serving"
        /\ inFlight = 0 => inFlight' = 0 \/ at = "serving"
        /\ UNCHANGED <<live, met>>
    BY <1>4 DEF TypeInv, Accept, Answer
  <2> QED BY <1>1, <1>2, <2>1 DEF TypeInv, Late, Building, Opening, ClosedOnlyUnderTheLate
<1>5. CASE Use \/ Work
  <2>1. UNCHANGED <<live, inFlight>>
    BY <1>5 DEF Use, Work, Uses
  <2>2. CASE UNCHANGED met
    BY <1>1, <1>2, <2>1, <2>2 DEF TypeInv, Late, Building, Opening, ClosedOnlyUnderTheLate
  <2>3. CASE met' # met
    <3>1. at \notin Serving
      BY <1>3, <1>5, <2>3 DEF Use, Work, Uses
    <3>2. CASE Use
      <4>1. at = "closing" /\ met' = met \cup {"request"} /\ inFlight > 0
        BY <2>3, <3>1, <3>2 DEF Use, Uses, TypeInv, Late, Releases, Serving, Ended
      <4> QED BY <1>1, <1>2, <2>1, <4>1 DEF TypeInv, Late, Building, Opening,
                ClosedOnlyUnderTheLate
    <3>3. CASE Work
      <4>1. at = "closing" /\ met' = met \cup {"worker"}
        BY <2>3, <3>1, <3>3 DEF Work, Uses, Serving
      <4> QED BY <1>1, <1>2, <2>1, <4>1 DEF TypeInv, Late, Building, Opening,
                ClosedOnlyUnderTheLate
    <3> QED BY <1>5, <3>2, <3>3
  <2> QED BY <2>2, <2>3
<1>6. CASE Signal
  <2>1. UNCHANGED <<inFlight, met>> /\ live' = FALSE
    BY <1>6 DEF Signal
  <2>2. TypeInv'
    BY <1>1, <2>1 DEF TypeInv
  <2>3. Late'
    BY <1>1, <2>1 DEF Late, Building, Opening, Releases, Ended, ClosedOnlyUnderTheLate
  <2> QED BY <1>2, <2>2, <2>3
<1> QED
  BY <1>4, <1>5, <1>6 DEF Requests
-------------------------------------------------------------------------------
(* Inv is an invariant.                                                     *)
THEOREM BootInvariant == Spec => []Inv
<1>1. Init => Inv
  <2> SUFFICES ASSUME Init PROVE Inv
    OBVIOUS
  <2>1. /\ at = "checks" /\ open = {} /\ twice = {} /\ globals = "unset"
        /\ live = TRUE /\ cleanup = <<>> /\ todo = <<>> /\ expired = FALSE
        /\ inFlight = 0 /\ timedOut = FALSE /\ met = {}
    BY DEF Init, TelemetryInit
  <2>2. TypeInv
    BY <2>1, Lists DEF TypeInv, Building
  <2>3. Account
    BY <2>1, Lists DEF Account, Accounted, InHand, Building, Opening, Serving, Releases, Ended
  <2>4. Order
    BY <2>1 DEF Order, Building, Serving, NoneTwice
  <2>5. Late
    BY <2>1 DEF Late, ClosedOnlyUnderTheLate
  <2> QED BY <2>2, <2>3, <2>4, <2>5 DEF Inv
<1>2. Inv /\ [Next]_vars => Inv'
  <2> SUFFICES ASSUME Inv, [Next]_vars PROVE Inv'
    OBVIOUS
  <2>1. CASE Instrument
    BY <2>1, InstrumentKeepsInv
  <2>2. CASE OpenDatabase \/ RegisterStats \/ Ping \/ Migrated \/ OpenRedis
    BY <2>2, OpeningKeepsInv
  <2>3. CASE Release
    BY <2>3, ReleaseKeepsInv
  <2>4. CASE Drain \/ Shutdown \/ End
    BY <2>4, EndingKeepsInv
  <2>5. CASE Requests \/ Signal
    BY <2>5, RequestsKeepInv
  <2>6. CASE Expire
    BY <2>6, ExpireKeepsInv
  <2>7. CASE UNCHANGED vars
    BY <2>7 DEF vars, telemetryVars, Inv, TypeInv, Account, Accounted, Left, Order,
                Late, InHand, Held, Parts, TelemetryParts, ClosedOnlyUnderTheLate
  <2> QED
    BY <2>1, <2>2, <2>3, <2>4, <2>5, <2>6, <2>7 DEF Next, Main
<1> QED
  BY <1>1, <1>2, PTL DEF Spec

(* However the process ends, every connection, goroutine and exporter that  *)
(* was opened has been released, the span pipeline alone excepted, and that *)
(* only when the context of its release was done.                           *)
THEOREM NothingIsLeft == Spec => []EndLeavesNothing
<1>1. Inv => EndLeavesNothing
  BY Lists DEF Inv, Account, Accounted, Left, Ended, EndLeavesNothing
<1> QED
  BY <1>1, BootInvariant, PTL

(* No two of the functions that clean up release the same resource.         *)
THEOREM EachReleasedOnce == Spec => []ReleasedOnce
<1>1. Inv => ReleasedOnce
  BY DEF Inv, Account, ReleasedOnce
<1> QED
  BY <1>1, BootInvariant, PTL

(* While a client of the SDK is open the SDK is: telemetry is the last that *)
(* a failed start or an App.Shutdown releases.                              *)
THEOREM TelemetryGoesLast == Spec => []TelemetryOutlivesClients
<1>1. Inv => TelemetryOutlivesClients
  <2> SUFFICES ASSUME Inv, globals = "sdk"
               PROVE  Traces \cup Metrics \subseteq open \/ Clients \cap open = {}
    BY DEF TelemetryOutlivesClients
  <2>1. TelemetryParts = Traces \cup Metrics /\ at \notin Building
    BY DEF TelemetryParts, Inv, Order
  <2>2. CASE at \in Opening \cup Serving
    BY <2>1, <2>2, Lists DEF Inv, Account, Accounted, Order, Opening, Serving
  <2>3. CASE at \in Releases \cup Ended
    <3>1. /\ Accounted(Held(todo)) /\ Len(todo) \in Nat
          /\ \A i \in 1..Len(todo) : todo[i] = "telemetry" <=> i = Len(todo)
      BY <2>3, LenProperties DEF Inv, TypeInv, Account, Order
    <3>2. CASE Len(todo) = 0
      <4>1. Held(todo) = {}
        BY <3>2 DEF Held
      <4> QED BY <3>1, <4>1 DEF Accounted, Left, Traces, Clients
    <3>3. CASE Len(todo) # 0
      <4>1. Len(todo) \in 1..Len(todo) /\ todo[Len(todo)] = "telemetry"
        BY <3>1, <3>3
      <4>2. TelemetryParts \subseteq Held(todo)
        BY <4>1 DEF Held, Parts
      <4> QED BY <2>1, <3>1, <4>2 DEF Accounted
    <3> QED BY <3>2, <3>3
  <2> QED BY <2>1, <2>2, <2>3 DEF Inv, TypeInv
<1> QED
  BY <1>1, BootInvariant, PTL

(* While the App serves, the providers instrumented calls reach are those   *)
(* it has and will shut down, or no-ops.                                    *)
THEOREM GlobalsAreTheApps == Spec => []GlobalsAreOurs
<1>1. Inv => GlobalsAreOurs
  <2> SUFFICES ASSUME Inv, at = "serving"
               PROVE  globals = IF Traces \cup Metrics \subseteq open
                                THEN "sdk" ELSE "noop"
    BY DEF GlobalsAreOurs
  <2>1. open = TelemetryParts \cup Clients /\ globals \in {"noop", "sdk"}
    BY Lists DEF Inv, TypeInv, Account, Accounted, Left, Late, Order, Serving, Building,
                 Releases, Ended, InHand
  <2>2. CASE globals = "sdk"
    BY <2>1, <2>2 DEF TelemetryParts
  <2>3. CASE globals = "noop"
    <3>1. "batcher" \in Traces /\ "batcher" \notin open
      BY <2>1, <2>3 DEF TelemetryParts, Traces, Clients
    <3> QED BY <2>3, <3>1
  <2> QED BY <2>1, <2>2, <2>3
<1> QED
  BY <1>1, BootInvariant, PTL

(* A request meets a closed client only after the drain ran out of time, the*)
(* worker only after its context was cancelled.                             *)
THEOREM OnlyTheLateMeetClosed == Spec => []ClosedOnlyUnderTheLate
<1>1. Inv => ClosedOnlyUnderTheLate
  BY DEF Inv, Late
<1> QED
  BY <1>1, BootInvariant, PTL
===============================================================================
