----------------------------- MODULE Heartbeat -----------------------------
(***************************************************************************)
(* The health checks of Garage's admin API: the one-time PreflightCheck of  *)
(* internal/health/preflight.go and the Run loop of heartbeat.go, with the  *)
(* calls they make (ClusterClient of internal/garage/client.go), the gauge  *)
(* Run keeps (SetAPIUp of metrics.go) and how cmd/main.go starts and stops  *)
(* them.                                                                   *)
(*                                                                         *)
(* Time is counted in units of which Interval make the interval of Run; it  *)
(* passes only while the goroutine waits, so its own steps take no time.    *)
(* The probe's timeout is the interval, as Run passes it.  The preflight    *)
(* has its own timeout, and no ticker runs beside it: that it may run out    *)
(* is all that matters of it.                                              *)
(*                                                                         *)
(* Abstractions: the API answers 200 ("ok"), answers anything else or       *)
(* refuses the connection ("bad"), or keeps the caller waiting ("silent");  *)
(* of the log only the last line is kept; the request counter and           *)
(* histogram, which nothing reads, are left out.                           *)
(***************************************************************************)
EXTENDS Naturals

CONSTANT Interval

ASSUME IntervalAssumption == Interval \in Nat \ {0}

VARIABLES
  api,        \* what the admin API does: "ok", "bad" or "silent"
  cancelled,  \* signalCtx is cancelled
  pc,         \* what the goroutine does
  left,       \* time left before the context of the probe expires
  next,       \* time until the ticker sends again
  tick,       \* the ticker's channel holds a tick
  lastUp,     \* lastUp of run
  up,         \* the gauge: "unset", "1" or "0"
  line,       \* the last line of the log
  age         \* time since the gauge was set, counted up to 2 * Interval + 1

clock == <<next, tick, age>>
loop  == <<pc, left, lastUp, up, line>>
vars  == <<api, cancelled, clock, loop>>

Init ==
  /\ api \in {"ok", "bad", "silent"} /\ cancelled = FALSE
  /\ pc = "preflight" /\ left = 0
  /\ next = Interval /\ tick = FALSE
  /\ lastUp = TRUE /\ up = "unset" /\ line = "none" /\ age = 0

-----------------------------------------------------------------------------
\* Mutant: any answer will do.
HealthyAnyway == api # "silent"

\* Health returns nil iff the answer is 200.
Healthy == api = "ok"

\* CurrentTokenInfo, as PreflightCheck logs what it returns: the body of an
\* answer 200 may still not be what it should.
CurrentTokenInfo ==
  IF Healthy /\ ~cancelled
  THEN {"accepted", "expired", "failed"}
  ELSE {"failed"}

\* main runs PreflightCheck, whatever comes of it, and then starts Run, whose
\* ticker starts with it.
Preflight ==
  /\ pc = "preflight"
  /\ line' \in CurrentTokenInfo
  /\ pc' = "probe"
  /\ UNCHANGED <<api, cancelled, clock, left, lastUp, up>>

\* Mutant: a probe may take twice the interval.
ProbeTwice ==
  /\ pc = "probe" /\ ~cancelled
  /\ pc' = "call" /\ left' = 2 * Interval
  /\ UNCHANGED <<api, cancelled, clock, lastUp, up, line>>

\* probe: the call gets a context that expires after the interval.
Probe ==
  /\ pc = "probe" /\ ~cancelled
  /\ pc' = "call" /\ left' = Interval
  /\ UNCHANGED <<api, cancelled, clock, lastUp, up, line>>

\* SetAPIUp sets the gauge.
SetAPIUp(isUp) == up' = IF isUp THEN "1" ELSE "0"

\* Mutant: lastUp does not follow a recovery.
RecordOnce(isUp) ==
  /\ SetAPIUp(isUp)
  /\ line' = IF isUp = lastUp THEN line
             ELSE IF isUp THEN "reachable" ELSE "unreachable"
  /\ lastUp' = (isUp /\ lastUp)
  /\ pc' = "select" /\ left' = 0 /\ age' = 0

\* The result is recorded, and logged when it is not the last one.
Record(isUp) ==
  /\ SetAPIUp(isUp)
  /\ line' = IF isUp = lastUp THEN line
             ELSE IF isUp THEN "reachable" ELSE "unreachable"
  /\ lastUp' = isUp
  /\ pc' = "select" /\ left' = 0 /\ age' = 0

Answer ==
  /\ pc = "call" /\ api # "silent"
  /\ Record(Healthy)
  /\ UNCHANGED <<api, cancelled, next, tick>>

\* Mutant: the context of the probe has no deadline.
NoTimeout == FALSE

\* The context of the probe expires.
Timeout ==
  /\ pc = "call" /\ left = 0 /\ api = "silent"
  /\ Record(FALSE)
  /\ UNCHANGED <<api, cancelled, next, tick>>

\* The probe fails with the context it derives from.
Abort ==
  /\ pc \in {"probe", "call"} /\ cancelled
  /\ Record(FALSE)
  /\ UNCHANGED <<api, cancelled, next, tick>>

\* Mutant: the loop waits for the signal only.
NeverTick == FALSE

\* The select: Go picks any of the cases that are ready.
TakeTick ==
  /\ pc = "select" /\ tick
  /\ tick' = FALSE /\ pc' = "probe"
  /\ UNCHANGED <<api, cancelled, next, age, left, lastUp, up, line>>

\* Mutant: the loop waits for ticks only.
NeverReturn == FALSE

Return ==
  /\ pc = "select" /\ cancelled
  /\ pc' = "done"
  /\ UNCHANGED <<api, cancelled, clock, left, lastUp, up, line>>

Step == Preflight \/ Probe \/ Answer \/ Timeout \/ Abort \/ TakeTick \/ Return

-----------------------------------------------------------------------------
\* The goroutine waits: for a tick, or for an answer that does not come.
Waiting ==
  /\ ~cancelled
  /\ \/ pc = "select" /\ ~tick
     \/ pc = "call" /\ api = "silent" /\ left > 0

\* Mutant: the ticker is late.
PassLate ==
  /\ Waiting
  /\ tick' = (tick \/ next = 0)
  /\ next' = IF next = 0 THEN Interval ELSE next - 1
  /\ left' = IF pc = "call" THEN left - 1 ELSE left
  /\ age' = IF age <= 2 * Interval THEN age + 1 ELSE age
  /\ UNCHANGED <<api, cancelled, pc, lastUp, up, line>>

\* One unit of time passes.  A tick the channel has no room for is lost.
Pass ==
  /\ Waiting
  /\ tick' = (tick \/ next = 1)
  /\ next' = IF next = 1 THEN Interval ELSE next - 1
  /\ left' = IF pc = "call" THEN left - 1 ELSE left
  /\ age' = IF age <= 2 * Interval THEN age + 1 ELSE age
  /\ UNCHANGED <<api, cancelled, pc, lastUp, up, line>>

APIChanges ==
  /\ api' \in {"ok", "bad", "silent"} \ {api}
  /\ UNCHANGED <<cancelled, clock, loop>>

\* SIGTERM cancels signalCtx.
Terminate ==
  /\ ~cancelled /\ cancelled' = TRUE
  /\ UNCHANGED <<api, clock, loop>>

\* mgr.Start returns and main ends the process, wherever the goroutine is.
Exit ==
  /\ cancelled /\ pc \notin {"preflight", "done"}
  /\ pc' = "done"
  /\ UNCHANGED <<api, cancelled, clock, left, lastUp, up, line>>

Next == Step \/ Pass \/ APIChanges \/ Terminate \/ Exit

Spec == Init /\ [][Next]_vars

\* The goroutine is scheduled, and time passes however often the API changes;
\* the process need not end.
FairSpec == Spec /\ WF_vars(Step) /\ SF_vars(Pass)

-----------------------------------------------------------------------------
\* Every variable holds a value of its type.
TypeOK ==
  /\ api \in {"ok", "bad", "silent"} /\ cancelled \in BOOLEAN
  /\ pc \in {"preflight", "probe", "call", "select", "done"}
  /\ left \in Nat /\ next \in 1..Interval /\ tick \in BOOLEAN
  /\ lastUp \in BOOLEAN /\ up \in {"unset", "1", "0"}
  /\ line \in {"none", "accepted", "expired", "failed",
               "reachable", "unreachable"}
  /\ age \in 0..2 * Interval + 1

\* The gauge is never older than two intervals, however late answers come: a
\* probe is over when the tick after the one that began it is sent, and a
\* late probe does not lose that tick (Run, probe).
FreshGauge == age <= 2 * Interval

\* The log's last word is the gauge's: between two probes "unreachable" is the
\* last line iff the gauge is 0, although only changes are logged and the
\* first result is compared with an assumed success (run).
LogAgrees == pc = "select" => (line = "unreachable" <=> up = "0")

\* An outage that lasts is reported and so is its end, whatever the API does
\* before.
Reported ==
  /\ api # "ok" ~> (api = "ok" \/ up = "0" \/ cancelled)
  /\ api = "ok" ~> (api # "ok" \/ up = "1" \/ cancelled)

\* Until the signal one probe follows another: each begins and each ends, even
\* if the API answers none of them, and neither does a silent API hold up the
\* start (PreflightCheck, run, probe).
KeepsProbing ==
  /\ []<>(pc = "call" \/ cancelled)
  /\ []<>(pc = "select" \/ cancelled)

\* Run returns once the context is cancelled, although select may prefer a
\* tick to ctx.Done().
StopsOnCancel == cancelled ~> pc = "done"
=============================================================================
