--------------------------- MODULE StopConditions ---------------------------
(***************************************************************************)
(* When a run ends (Simulation.run, python/simulation.py): a script hands  *)
(* a list of stopping conditions to it, numbers and functions, and the     *)
(* loop asks all of them before each time step.  The functions are Python  *)
(* objects with state of their own in a closure; a script may build them   *)
(* anew for every run or use them again, and time only returns to zero     *)
(* with restart_fields.                                                    *)
(*                                                                         *)
(* One time step is one unit of time.  What is sampled (the field at a     *)
(* point, the energy, the norm of the DFTs, a flux) is one signal that the *)
(* environment chooses step by step; DFTs see it every Decimation steps.   *)
(* A user's condition is true while the signal is zero.  The step          *)
(* functions of the loop are in RunLoop.                                   *)
(***************************************************************************)
EXTENDS Integers, Sequences, FiniteSets, SequencesExt

CONSTANTS
  Scripts,      \* what a script may build: a tree of step functions, and the
                \* list of conditions it passes as until[_after_sources]
  Levels,       \* values of the signal
  SourceEnds,   \* when the sources may end
  Decay,        \* 1 / decay_by and 1 / tol
  Decimation,   \* time steps between two updates of the DFTs
  MaxTime,      \* bound on the time of a session
  Careful       \* the script keeps to the uses that work, see CarefulStops

Conditions ==
  [kind : {"number", "fields", "energy", "dft", "flux", "user"},
   time : Nat, interval : Nat \ {0}]

ASSUME ConditionsAssumption == \A s \in Scripts : s.list \in Seq(Conditions)
ASSUME SignalAssumption == Levels \subseteq Nat /\ SourceEnds \subseteq Nat
ASSUME RatesAssumption == Decay \in Nat \ {0} /\ Decimation \in Nat \ {0}

VARIABLES
  t,        \* fields.t
  ts,       \* fields.last_source_time()
  signal,   \* signal[u + 1] is the signal at time u
  script,   \* the objects of the script: step functions and conditions
  verdicts, \* the closure of each condition
  run       \* the run in progress, or the last one

stopVars == <<t, ts, signal, script, verdicts, run>>

Larger(a, b) == IF a >= b THEN a ELSE b
Distance(a, b) == IF a >= b THEN a - b ELSE b - a
Signal == signal[t + 1]
Dft(u) == signal[(u \div Decimation) * Decimation + 1]
Quiet == Signal = 0
-----------------------------------------------------------------------------
(* Stopping conditions: each operator returns the answer of a call and the *)
(* closure the call leaves.                                                *)

NewVerdict ==
  [max_abs |-> 0, cur_max |-> 0, t0 |-> 0, dt |-> 0, previous |-> {}, maxchange |-> 0]

Answer(value, closure) == [value |-> value, closure |-> closure]

\* A bug: only the last sample of a window is compared.
LastSampleDecayed(c, closure) ==
  LET cur == IF t % c.interval = 0 THEN Signal ELSE closure.cur_max
      max == Larger(closure.max_abs, cur)
  IN  IF t <= c.time + closure.t0
      THEN Answer(FALSE, [closure EXCEPT !.cur_max = cur, !.max_abs = max])
      ELSE Answer(cur * Decay <= max,
                  [closure EXCEPT !.cur_max = 0, !.max_abs = max, !.t0 = t])

stop_when_fields_decayed(c, closure) ==
  LET cur == IF t % c.interval = 0 THEN Larger(closure.cur_max, Signal)
             ELSE closure.cur_max
      max == Larger(closure.max_abs, cur)
  IN  IF t <= c.time + closure.t0
      THEN Answer(FALSE, [closure EXCEPT !.cur_max = cur])
      ELSE Answer(cur * Decay <= max,
                  [closure EXCEPT !.cur_max = 0, !.max_abs = max, !.t0 = t])

stop_when_energy_decayed(c, closure) ==
  LET max == Larger(closure.max_abs, Signal)
  IN  IF t <= c.time + closure.t0 THEN Answer(FALSE, closure)
      ELSE Answer(Signal * Decay <= max, [closure EXCEPT !.max_abs = max, !.t0 = t])

\* The interval of a DFT condition is only determined at time zero.
Interval(c, closure) == IF t = 0 THEN Larger(c.time, Decimation) ELSE closure.dt

\* A norm of zero restarts the comparison, and the first one of another
\* value does not set t0.
stop_when_dft_decayed(c, closure) ==
  LET dt == Interval(c, closure)
      previous == IF closure.previous = {} THEN 0 ELSE CHOOSE p \in closure.previous : TRUE
      change == Distance(previous, Dft(t))
      maxchange == Larger(closure.maxchange, change)
      measured == [closure EXCEPT !.dt = dt, !.maxchange = maxchange,
                                  !.previous = {Dft(t)}]
  IN  IF t <= dt + closure.t0 THEN Answer(FALSE, [closure EXCEPT !.dt = dt])
      ELSE IF previous = 0 THEN Answer(FALSE, measured)
      ELSE Answer(maxchange > 0 /\ change * Decay <= maxchange,
                  [measured EXCEPT !.t0 = t])

stop_when_flux_decayed(c, closure) ==
  LET dt == Interval(c, closure)
      first == closure.previous = {}
      change == IF first THEN 0
                ELSE Distance(CHOOSE p \in closure.previous : TRUE, Dft(t))
      maxchange == Larger(closure.maxchange, change)
      measured == [closure EXCEPT !.dt = dt, !.maxchange = maxchange,
                                  !.previous = {Dft(t)}, !.t0 = t]
  IN  IF t <= dt + closure.t0 THEN Answer(FALSE, [closure EXCEPT !.dt = dt])
      ELSE Answer(~first /\ change * Decay <= maxchange, measured)

Verdict(c, closure) ==
  CASE c.kind = "fields" -> stop_when_fields_decayed(c, closure)
    [] c.kind = "energy" -> stop_when_energy_decayed(c, closure)
    [] c.kind = "dft" -> stop_when_dft_decayed(c, closure)
    [] c.kind = "flux" -> stop_when_flux_decayed(c, closure)
    [] c.kind = "user" -> Answer(Quiet, closure)
    [] c.kind = "time" -> Answer(t >= c.time, closure)

IsNumber(c) == c.kind = "number"
Numbers(list) == {i \in DOMAIN list : IsNumber(list[i])}
LastOf(S) == CHOOSE i \in S : \A j \in S : j <= i

\* A stop of a run: either the time that ends it, or a call of a condition.
Until(time) == [kind |-> "time", time |-> time]
Asked(i, gated) == [kind |-> "call", condition |-> i, gated |-> gated]

\* _run_until makes every number of the list a function.  All of them read
\* the variables t0 and stop_time of the loop when they are called, after it
\* has ended with the last of the numbers.
Stops(list, start) ==
  [i \in DOMAIN list |->
     IF IsNumber(list[i]) THEN Until(start + list[LastOf(Numbers(list))].time)
     ELSE Asked(i, FALSE)]

\* A bug: the condition is asked before the sources have ended.
AnswersCount(list, start) ==
  [i \in DOMAIN list |->
     IF IsNumber(list[i]) THEN Until(ts + list[LastOf(Numbers(list))].time)
     ELSE Asked(Len(list), FALSE)]

\* _run_sources_until adds the time the sources still take to a number, and
\* wraps a function, by a closure over the variable i of its loop.
SourceStops(list, start) ==
  [i \in DOMAIN list |->
     IF IsNumber(list[i]) THEN Until(ts + list[LastOf(Numbers(list))].time)
     ELSE Asked(Len(list), TRUE)]

\* A single condition is passed without a list; of a list _run_until
\* replaces the numbers in place.
Rewritten(list, start) ==
  IF Len(list) = 1 THEN list
  ELSE [i \in DOMAIN list |-> IF IsNumber(list[i]) THEN Stops(list, start)[i] ELSE list[i]]

\* A call of something that is no function raises a TypeError.
Raises == \E i \in DOMAIN run.stops :
            run.stops[i].kind = "call" /\ IsNumber(script.list[run.stops[i].condition])

\* any([x(self) for x in cond]): every condition is called, in order.
CalledOnce(acc, stop) ==
  IF stop.kind = "time" THEN [acc EXCEPT !.value = @ \/ t >= stop.time]
  ELSE LET a == Verdict(script.list[stop.condition], acc.verdicts[stop.condition])
       IN  [value |-> acc.value \/ (a.value /\ (~stop.gated \/ t >= ts)),
            verdicts |-> [acc.verdicts EXCEPT ![stop.condition] = a.closure]]
AnyStop ==
  LET after[i \in 0..Len(run.stops)] ==
        IF i = 0 THEN [value |-> FALSE, verdicts |-> verdicts]
        ELSE CalledOnce(after[i - 1], run.stops[i])
  IN  after[Len(run.stops)]
-----------------------------------------------------------------------------
(* A session.  `made' is when the script built its objects, Stale after    *)
(* the time of the fields went back; `asked' is the list as it was written. *)

Stale == -1
NoRun == [running |-> FALSE, ended |-> FALSE, after |-> FALSE, start |-> 0, stops |-> <<>>]

NewScript(s) == [program |-> s.program, list |-> s.list, asked |-> s.list, made |-> t]
NewVerdicts(list) == [i \in DOMAIN list |-> NewVerdict]

StopInit ==
  /\ t = 0 /\ ts \in SourceEnds
  /\ signal \in {<<v>> : v \in Levels}
  /\ \E s \in Scripts : script = NewScript(s) /\ verdicts = NewVerdicts(s.list)
  /\ run = NoRun

\* The script builds its step functions and conditions anew.
BuildStops ==
  /\ ~run.running /\ (run # NoRun \/ script.made = Stale)
  /\ \E s \in Scripts : script' = NewScript(s) /\ verdicts' = NewVerdicts(s.list)
  /\ run' = NoRun
  /\ UNCHANGED <<t, ts, signal>>

\* What a careful script does with its conditions:
\* at most one number, at most one function after the sources and that last;
FewConditions(after) ==
  /\ Cardinality(Numbers(script.list)) <= 1
  /\ after => \/ Len(script.list) = 1
              \/ \A i \in DOMAIN script.list : IsNumber(script.list[i]) <=> i < Len(script.list)
\* conditions that remember are built at time zero, nothing is used again
\* after restart_fields, and no list with a number that has been replaced.
FreshConditions ==
  /\ script.made # Stale
  /\ script.list = script.asked
  /\ (\E i \in DOMAIN script.list : script.list[i].kind \in {"fields", "energy", "dft", "flux"})
       => script.made = 0
CarefulStops(after) == Careful => FewConditions(after) /\ FreshConditions

\* sim.run(until = list) or sim.run(until_after_sources = list).
RunStops(after) ==
  /\ ~run.running /\ CarefulStops(after)
  /\ run' = [running |-> TRUE, ended |-> FALSE, after |-> after, start |-> t,
             stops |-> IF after THEN SourceStops(script.list, t)
                       ELSE Stops(script.list, t)]
  /\ script' = IF after THEN script
               ELSE [script EXCEPT !.list = Rewritten(script.list, t)]
  /\ UNCHANGED <<t, ts, signal, verdicts>>

\* One turn of the loop: no condition holds, and the fields make a step.
GoOn ==
  /\ run.running /\ ~Raises /\ ~AnyStop.value /\ t < MaxTime
  /\ verdicts' = AnyStop.verdicts
  /\ t' = t + 1
  /\ \E v \in Levels : signal' = Append(signal, v)
  /\ UNCHANGED <<ts, script, run>>

\* The loop ends.
Stop ==
  /\ run.running /\ ~Raises /\ AnyStop.value
  /\ verdicts' = AnyStop.verdicts
  /\ run' = [run EXCEPT !.running = FALSE, !.ended = TRUE]
  /\ UNCHANGED <<t, ts, signal, script>>

\* An exception leaves the loop: a step function or a condition raises one,
\* or the user interrupts the program.
GiveUp ==
  /\ run.running
  /\ run' = [run EXCEPT !.running = FALSE]
  /\ UNCHANGED <<t, ts, signal, script, verdicts>>

RestartTime ==
  /\ ~run.running
  /\ t' = 0 /\ \E v \in Levels : signal' = <<v>>
  /\ script' = [script EXCEPT !.made = Stale] /\ run' = NoRun
  /\ UNCHANGED <<ts, verdicts>>

StopNext ==
  \/ BuildStops
  \/ \E after \in BOOLEAN : RunStops(after)
  \/ GoOn
  \/ Stop
  \/ GiveUp
  \/ RestartTime

StopSpec == StopInit /\ [][StopNext]_stopVars
-----------------------------------------------------------------------------
(* Properties.                                                             *)

\* What the documentation of run promises of the i-th entry of the list: a
\* number is a time from the start of the run, or from the end of the
\* sources; a function counts by its own answer, after the sources if so.
Holds(i) ==
  LET c == script.asked[i]
  IN  IF IsNumber(c) THEN t >= c.time + (IF run.after THEN ts ELSE run.start)
      ELSE Verdict(c, verdicts[i]).value /\ (run.after => t >= ts)
SomeHolds == \E i \in DOMAIN script.asked : Holds(i)

\* A run makes no step once one of the conditions it was given holds, and
\* does not end before one does (_run_until, _run_sources_until).
StopsAtTheFirstCondition ==
  [][run.running => /\ run'.running => ~SomeHolds
                    /\ run'.ended => SomeHolds]_stopVars

\* The samples a condition has seen of the signal up to time u.
Samples(c, u) == {signal[v + 1] : v \in {w \in 0..u : w % c.interval = 0}}

\* When a condition says that the signal has decayed there is a window of the
\* length it was given, ending now, in which the signal stayed (changed) as
\* little as that; the fields are not fooled by passing through zero, and a
\* flux is not compared with that of the step before.
DecayWasMeasured ==
  run.running => \A i \in DOMAIN script.list :
    LET c == script.list[i]
    IN  c.kind \in {"fields", "energy", "flux"} /\ Verdict(c, verdicts[i]).value =>
          \E u \in 0..(t - c.time - 1) :
            CASE c.kind = "fields" ->
                   \A v \in (u + 1)..t : v % c.interval = 0 =>
                     \E s \in Samples(c, t) : signal[v + 1] * Decay <= s
              [] c.kind = "energy" -> \E v \in 0..t : Signal * Decay <= signal[v + 1]
              [] c.kind = "flux" ->
                   \/ Dft(t) = Dft(u)
                   \/ \E v, w \in 0..t :
                        Distance(Dft(t), Dft(u)) * Decay <= Distance(Dft(v), Dft(w))
=============================================================================
