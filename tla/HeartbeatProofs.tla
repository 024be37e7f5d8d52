-------------------------- MODULE HeartbeatProofs --------------------------
(***************************************************************************)
(* For every interval: the types of Heartbeat, that the log agrees with the *)
(* gauge, and that the gauge is never older than two intervals.             *)
(***************************************************************************)
EXTENDS Heartbeat, TLAPS

USE IntervalAssumption DEF IntervalAssumption

\* What the log says is what the last result was, or the one that run assumes
\* before the first.
LineTracks ==
  /\ line = "unreachable" <=> ~lastUp
  /\ pc = "select" => (up = "0" <=> ~lastUp)
  /\ pc = "preflight" => lastUp

\* How old the gauge can be, by what the goroutine does: a tick that has not
\* been sent is at most an interval away from the last result, and a call
\* ends with its context.
AgeBound ==
  /\ pc \in {"preflight", "probe"} => age <= Interval
  /\ pc = "select" /\ ~tick => age + next <= Interval
  /\ pc = "select" /\ tick => age <= Interval
  /\ pc = "call" => age + left <= 2 * Interval
  /\ pc = "done" => age <= 2 * Interval

Inv == TypeOK /\ LineTracks /\ AgeBound

-----------------------------------------------------------------------------
\* A result is recorded: whatever it is, the log follows it and the gauge is
\* new.
LEMMA RecordKeeps ==
  ASSUME Inv, NEW isUp \in BOOLEAN, Record(isUp),
         UNCHANGED <<api, cancelled, next, tick>>
  PROVE  Inv'
<1>1. /\ lastUp' = isUp /\ pc' = "select" /\ left' = 0 /\ age' = 0
      /\ up' = IF isUp THEN "1" ELSE "0"
      /\ line' = IF isUp = lastUp THEN line
                 ELSE IF isUp THEN "reachable" ELSE "unreachable"
  BY DEF Record, SetAPIUp
<1>2. up' \in {"1", "0"} /\ (up' = "0" <=> ~isUp)
  BY <1>1
<1>3. lastUp \in BOOLEAN /\ (line = "unreachable" <=> ~lastUp)
  BY DEF Inv, TypeOK, LineTracks
<1>4. line' = "unreachable" <=> ~isUp
  <2>1. CASE isUp = lastUp
    BY <1>1, <1>3, <2>1
  <2>2. CASE isUp # lastUp /\ isUp
    BY <1>1, <2>2
  <2>3. CASE isUp # lastUp /\ ~isUp
    BY <1>1, <2>3
  <2> QED
    BY <2>1, <2>2, <2>3
<1>5. line' \in {line, "reachable", "unreachable"}
  BY <1>1
<1>6. TypeOK'
  BY <1>1, <1>2, <1>5 DEF Inv, TypeOK
<1>7. LineTracks'
  BY <1>1, <1>2, <1>4 DEF LineTracks
<1>8. AgeBound'
  BY <1>1 DEF Inv, TypeOK, AgeBound
<1> QED
  BY <1>6, <1>7, <1>8 DEF Inv

LEMMA InvInit == Init => Inv
<1> SUFFICES ASSUME Init PROVE Inv
  OBVIOUS
<1>1. TypeOK
  <2>1. Interval \in 1..Interval /\ 0 \in 0..2 * Interval + 1
    OBVIOUS
  <2> QED
    BY <2>1 DEF Init, TypeOK
<1>2. LineTracks
  BY DEF Init, LineTracks
<1>3. AgeBound
  BY DEF Init, AgeBound
<1> QED
  BY <1>1, <1>2, <1>3 DEF Inv

LEMMA InvNext == Inv /\ [Next]_vars => Inv'
<1> SUFFICES ASSUME Inv, [Next]_vars PROVE Inv'
  OBVIOUS
<1>1. CASE Preflight
  <2>1. TypeOK' /\ AgeBound'
    BY <1>1 DEF Preflight, CurrentTokenInfo, clock, Inv, TypeOK, AgeBound
  <2>2. LineTracks'
    BY <1>1 DEF Preflight, CurrentTokenInfo, Inv, LineTracks
  <2> QED
    BY <2>1, <2>2 DEF Inv
<1>2. CASE Probe
  BY <1>2 DEF Probe, clock, Inv, TypeOK, LineTracks, AgeBound
<1>3. CASE Answer \/ Timeout \/ Abort
  <2>1. PICK isUp \in BOOLEAN :
          Record(isUp) /\ UNCHANGED <<api, cancelled, next, tick>>
    BY <1>3 DEF Answer, Timeout, Abort, Healthy
  <2> QED
    BY <2>1, RecordKeeps
<1>4. CASE TakeTick
  BY <1>4 DEF TakeTick, Inv, TypeOK, LineTracks, AgeBound
<1>5. CASE Return \/ Exit
  BY <1>5 DEF Return, Exit, clock, Inv, TypeOK, LineTracks, AgeBound
<1>6. CASE Pass
  <2>1. TypeOK'
    BY <1>6 DEF Pass, Waiting, Inv, TypeOK, AgeBound
  <2>2. LineTracks'
    BY <1>6 DEF Pass, Inv, LineTracks
  <2>3. AgeBound'
    <3>1. CASE pc = "select"
      <4>1. ~tick /\ age + next <= Interval /\ age \in Nat /\ next \in Nat
        BY <1>6, <3>1 DEF Pass, Waiting, Inv, TypeOK, AgeBound
      <4>2. tick' <=> next = 1
        <5>1. tick' = (tick \/ next = 1)
          BY <1>6 DEF Pass
        <5> QED
          BY <4>1, <5>1, Zenon
      <4>3. /\ pc' = "select" /\ age' = age + 1
            /\ next # 1 => next' = next - 1
        <5>1. age <= 2 * Interval
          BY <4>1
        <5> QED
          BY <1>6, <3>1, <5>1 DEF Pass
      <4>4. tick' => age' <= Interval
        BY <4>1, <4>2, <4>3
      <4>5. ~tick' => age' + next' <= Interval
        BY <4>1, <4>2, <4>3
      <4> QED
        BY <4>3, <4>4, <4>5 DEF AgeBound
    <3>2. CASE pc = "call"
      BY <1>6, <3>2 DEF Pass, Waiting, Inv, TypeOK, AgeBound
    <3> QED
      BY <1>6, <3>1, <3>2 DEF Pass, Waiting
  <2> QED
    BY <2>1, <2>2, <2>3 DEF Inv
<1>7. CASE APIChanges \/ Terminate
  <2>1. /\ api' \in {"ok", "bad", "silent"} /\ cancelled' \in BOOLEAN
        /\ UNCHANGED <<clock, loop>>
    BY <1>7 DEF APIChanges, Terminate, Inv, TypeOK
  <2> QED
    BY <2>1 DEF clock, loop, Inv, TypeOK, LineTracks, AgeBound
<1>8. CASE UNCHANGED vars
  BY <1>8 DEF vars, clock, loop, Inv, TypeOK, LineTracks, AgeBound
<1> QED
  BY <1>1, <1>2, <1>3, <1>4, <1>5, <1>6, <1>7, <1>8 DEF Next, Step

-----------------------------------------------------------------------------
(* The theorems.                                                            *)

LEMMA Invariant == Spec => []Inv
BY InvInit, InvNext, PTL DEF Spec

\* Every variable of the heartbeat always holds a value of its type.
THEOREM TypesAlwaysOK == Spec => []TypeOK
<1>1. Inv => TypeOK
  BY DEF Inv
<1> QED
  BY <1>1, Invariant, PTL

\* run logs only changes and starts from an assumed success, and still its
\* last word is the gauge's between any two probes, for every interval.
THEOREM LogAlwaysAgrees == Spec => []LogAgrees
<1>1. Inv => LogAgrees
  BY DEF Inv, LineTracks, LogAgrees
<1> QED
  BY <1>1, Invariant, PTL

\* With the interval as the probe's timeout, as Run passes it, the gauge is
\* never older than two intervals, for every interval and however the admin
\* API behaves.
THEOREM GaugeAlwaysFresh == Spec => []FreshGauge
<1>1. Inv => FreshGauge
  BY DEF Inv, TypeOK, AgeBound, FreshGauge
<1> QED
  BY <1>1, Invariant, PTL
=============================================================================
